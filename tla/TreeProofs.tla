----------------------------- MODULE TreeProofs -----------------------------
(***************************************************************************)
(* Theorems of OrderedSets, for every set of keys and every tree: avl_t,   *)
(* bstree_t and omap_t stay search trees, whose nodes are those they count *)
(* and have allocated, the AVL trees stay balanced, and they implement     *)
(* SetSpec and MapSpec.                                                    *)
(***************************************************************************)
EXTENDS OrderedSets, FiniteSetTheorems, TLAPS

-----------------------------------------------------------------------------
(* Induction over the natural numbers, for a set of them.  A set of        *)
(* numbers has a least one: the sets 0 .. x are finite, and finite sets    *)
(* are well-ordered by inclusion.                                          *)
LEMMA LeastOf ==
  ASSUME NEW T \in SUBSET Nat, T # {}
  PROVE  \E x \in T : \A y \in T : x <= y
<1> DEFINE R == StrictSubsetOrdering(Nat)
           F == {0 .. x : x \in T}
<1>1. IsWellFoundedOn(R, FiniteSubsetsOf(Nat))
  BY FS_StrictSubsetOrderingWellFounded
<1>2. F \subseteq FiniteSubsetsOf(Nat) /\ F # {}
  <2>1. ASSUME NEW x \in T PROVE 0 .. x \in FiniteSubsetsOf(Nat)
    <3>1. x \in Int /\ IsFiniteSet(0 .. x)
      BY FS_Interval
    <3>2. QED
      BY <3>1 DEF FiniteSubsetsOf
  <2>2. QED
    BY <2>1
<1> HIDE DEF R, F
<1>3. \E f \in F : \A g \in F : <<g, f>> \notin R
  BY <1>1, <1>2, WFMin
<1>4. PICK x \in T : \A y \in T : <<0 .. y, 0 .. x>> \notin R
  BY <1>3 DEF F
<1>5. ASSUME NEW y \in T PROVE ~(y < x)
  <2>1. SUFFICES ASSUME y < x PROVE <<0 .. y, 0 .. x>> \in R
    BY <1>4
  <2>2. 0 .. y \subseteq 0 .. x /\ x \in 0 .. x /\ x \notin 0 .. y
    BY <2>1
  <2>3. 0 .. y \in SUBSET Nat /\ 0 .. x \in SUBSET Nat
    OBVIOUS
  <2>4. QED
    BY <2>2, <2>3 DEF R, StrictSubsetOrdering
<1>6. QED
  BY <1>5

LEMMA Induct ==
  ASSUME NEW G, 0 \in G, \A n \in Nat : n \in G => n + 1 \in G
  PROVE  \A n \in Nat : n \in G
<1> DEFINE T == {n \in Nat : n \notin G}
<1>1. SUFFICES ASSUME T # {} PROVE FALSE
  OBVIOUS
<1>2. PICK n \in T : \A k \in T : n <= k
  <2>1. T \in SUBSET Nat
    OBVIOUS
  <2> HIDE DEF T
  <2>2. QED
    BY <1>1, <2>1, LeastOf
<1>3. n # 0 /\ n \in Nat /\ n \notin G
  OBVIOUS
<1>4. n - 1 \in Nat /\ n - 1 \notin T /\ (n - 1) + 1 = n
  BY <1>2, <1>3
<1>5. QED
  BY <1>3, <1>4

-----------------------------------------------------------------------------
(* The levels of a tree.                                                   *)

Levels(t) == CHOOSE f : f = [d \in Nat |-> IF d = 0 THEN {t} ELSE Children(f[d - 1])]
Lv(t, d)  == Levels(t)[d]
LevelsTo(f, n, t) == f[0] = {t} /\ \A k \in 0 .. n - 1 : f[k + 1] = Children(f[k])

LEMMA LevelsAgree ==
  ASSUME NEW f, NEW g, NEW n \in Nat, NEW t, LevelsTo(f, n, t), LevelsTo(g, n, t)
  PROVE  \A k \in 0 .. n : f[k] = g[k]
<1> DEFINE G == {k \in Nat : k <= n => f[k] = g[k]}
<1>1. 0 \in G
  BY DEF LevelsTo
<1>2. ASSUME NEW k \in Nat, k \in G PROVE k + 1 \in G
  <2>1. SUFFICES ASSUME k + 1 <= n PROVE f[k + 1] = g[k + 1]
    OBVIOUS
  <2>2. k \in 0 .. n - 1 /\ f[k] = g[k]
    BY <1>2, <2>1
  <2>3. QED
    BY <2>2 DEF LevelsTo
<1> HIDE DEF G
<1>3. \A k \in Nat : k \in G
  BY <1>1, <1>2, Induct
<1>4. QED
  BY <1>3 DEF G

LEMMA LevelsExist ==
  ASSUME NEW t
  PROVE  \A n \in Nat : \E f : LevelsTo(f, n, t)
<1> DEFINE G == {n \in Nat : \E f : LevelsTo(f, n, t)}
<1>1. 0 \in G
  <2>1. LevelsTo([k \in Nat |-> {t}], 0, t)
    BY DEF LevelsTo
  <2>2. QED
    BY <2>1
<1>2. ASSUME NEW n \in Nat, n \in G PROVE n + 1 \in G
  <2>1. PICK f : LevelsTo(f, n, t)
    BY <1>2
  <2> DEFINE g == [k \in Nat |-> IF k <= n THEN f[k] ELSE Children(f[n])]
  <2>2. g[0] = {t}
    BY <2>1 DEF LevelsTo
  <2>3. ASSUME NEW k \in 0 .. (n + 1) - 1 PROVE g[k + 1] = Children(g[k])
    <3>1. k \in Nat /\ k + 1 \in Nat /\ g[k] = f[k]
      OBVIOUS
    <3>2. CASE k = n
      BY <3>1, <3>2
    <3>3. CASE k # n
      <4>1. k \in 0 .. n - 1 /\ k + 1 <= n
        BY <3>3
      <4>2. f[k + 1] = Children(f[k])
        BY <2>1, <4>1 DEF LevelsTo
      <4>3. QED
        BY <3>1, <4>1, <4>2
    <3>4. QED
      BY <3>2, <3>3
  <2>4. LevelsTo(g, n + 1, t)
    BY <2>2, <2>3 DEF LevelsTo
  <2>5. QED
    BY <2>4
<1> HIDE DEF G
<1>3. \A n \in Nat : n \in G
  BY <1>1, <1>2, Induct
<1>4. QED
  BY <1>3 DEF G

LEMMA LevelsAre ==
  ASSUME NEW t
  PROVE  /\ Levels(t) = [d \in Nat |-> IF d = 0 THEN {t} ELSE Children(Levels(t)[d - 1])]
         /\ Lv(t, 0) = {t} /\ \A d \in Nat : Lv(t, d + 1) = Children(Lv(t, d))
<1> DEFINE F(n) == CHOOSE f : LevelsTo(f, n, t)
           h == [n \in Nat |-> F(n)[n]]
<1>1. \A n \in Nat : LevelsTo(F(n), n, t)
  BY LevelsExist
<1> HIDE DEF F
<1>2. h[0] = {t}
  BY <1>1 DEF LevelsTo
<1>3. ASSUME NEW k \in Nat PROVE h[k + 1] = Children(h[k])
  <2>1. k + 1 \in Nat /\ LevelsTo(F(k), k, t) /\ LevelsTo(F(k + 1), k + 1, t)
    BY <1>1
  <2>2. LevelsTo(F(k + 1), k, t)
    BY <2>1 DEF LevelsTo
  <2>3. F(k)[k] = F(k + 1)[k]
    BY <2>1, <2>2, LevelsAgree
  <2>4. F(k + 1)[k + 1] = Children(F(k + 1)[k])
    BY <2>1 DEF LevelsTo
  <2>5. QED
    BY <2>1, <2>3, <2>4
<1> DEFINE P(f) == f = [d \in Nat |-> IF d = 0 THEN {t} ELSE Children(f[d - 1])]
<1>4. P(h)
  <2>1. ASSUME NEW d \in Nat PROVE h[d] = IF d = 0 THEN {t} ELSE Children(h[d - 1])
    <3>1. CASE d = 0
      BY <1>2, <3>1
    <3>2. CASE d # 0
      <4>1. d - 1 \in Nat /\ (d - 1) + 1 = d
        BY <3>2
      <4>2. QED
        BY <1>3, <3>2, <4>1
    <3>3. QED
      BY <3>1, <3>2
  <2>2. DOMAIN h = Nat /\ h = [d \in Nat |-> h[d]]
    OBVIOUS
  <2> HIDE DEF h
  <2>3. QED
    BY <2>1, <2>2
<1>5. Levels(t) = CHOOSE f : P(f)
  BY DEF Levels
<1> HIDE DEF P, h
<1>6. P(Levels(t))
  BY <1>4, <1>5
<1>7. Levels(t) = [d \in Nat |-> IF d = 0 THEN {t} ELSE Children(Levels(t)[d - 1])]
  BY <1>6 DEF P
<1>8. QED
  <2>1. PICK f : f = Levels(t)
    OBVIOUS
  <2>2. f = [d \in Nat |-> IF d = 0 THEN {t} ELSE Children(f[d - 1])]
    BY <1>7, <2>1
  <2>3. f[0] = {t}
    BY <2>2
  <2>4. ASSUME NEW d \in Nat PROVE f[d + 1] = Children(f[d])
    <3>1. d + 1 \in Nat /\ d + 1 # 0 /\ (d + 1) - 1 = d
      OBVIOUS
    <3>2. QED
      BY <2>2, <3>1
  <2>5. QED
    BY <1>7, <2>1, <2>3, <2>4 DEF Lv

-----------------------------------------------------------------------------
(* Trees that end: all that the code builds.  What is below a node of one  *)
(* is below the tree, a level further down.                                *)

Ends(t) == \E d \in Nat : Lv(t, d) = {}

LEMMA NextLevel ==
  ASSUME NEW t, NEW d \in Nat
  PROVE  Lv(t, d + 1) = Children(Lv(t, d))
BY LevelsAre

LEMMA NoChildren == Children({}) = {}
BY DEF Children

LEMMA ChildrenOfBoth ==
  ASSUME NEW A, NEW B
  PROVE  Children(A \cup B) = Children(A) \cup Children(B)
BY DEF Children

LEMMA ChildrenWithin ==
  ASSUME NEW A, NEW B, A \subseteq B
  PROVE  Children(A) \subseteq Children(B)
BY DEF Children

LEMMA ChildrenOf ==
  ASSUME NEW t
  PROVE  Children({t}) = IF IsLeaf(t) THEN {} ELSE {t.left, t.right}
BY DEF Children

LEMMA ChildrenIn ==
  ASSUME NEW A, NEW x \in A, ~IsLeaf(x)
  PROVE  x.left \in Children(A) /\ x.right \in Children(A)
BY DEF Children

LEMMA EmptyOn ==
  ASSUME NEW t, NEW d \in Nat, Lv(t, d) = {}
  PROVE  \A e \in Nat : e >= d => Lv(t, e) = {}
<1> DEFINE G == {e \in Nat : Lv(t, d + e) = {}}
<1>1. 0 \in G
  OBVIOUS
<1>2. ASSUME NEW e \in Nat, e \in G PROVE e + 1 \in G
  <2>1. PICK i \in Nat : i = d + e
    OBVIOUS
  <2>2. i + 1 = d + (e + 1) /\ Lv(t, i) = {}
    BY <1>2, <2>1
  <2>3. Lv(t, i + 1) = {}
    BY <2>2, NextLevel, NoChildren
  <2>4. QED
    BY <2>2, <2>3
<1> HIDE DEF G
<1>3. \A e \in Nat : e \in G
  BY <1>1, <1>2, Induct
<1>4. ASSUME NEW e \in Nat, e >= d PROVE Lv(t, e) = {}
  <2>1. e - d \in Nat /\ d + (e - d) = e
    BY <1>4
  <2>2. QED
    BY <1>3, <2>1 DEF G
<1>5. QED
  BY <1>4

(* All levels from the d-th on.                                            *)
Rest(t, d) == UNION {Lv(t, e) : e \in {j \in Nat : j >= d}}
Gathers(t, f) == f = [d \in Nat |-> IF Lv(t, d) = {} THEN {} ELSE Lv(t, d) \cup f[d + 1]]

LEMMA RestIs ==
  ASSUME NEW t, NEW d \in Nat
  PROVE  Rest(t, d) = IF Lv(t, d) = {} THEN {} ELSE Lv(t, d) \cup Rest(t, d + 1)
<1>1. CASE Lv(t, d) = {}
  BY <1>1, EmptyOn DEF Rest
<1>2. CASE Lv(t, d) # {}
  <2>1. ASSUME NEW e \in Nat, e >= d PROVE Lv(t, e) \subseteq Lv(t, d) \cup Rest(t, d + 1)
    <3>1. CASE e = d
      BY <3>1
    <3>2. CASE e # d
      <4>1. e >= d + 1
        BY <2>1, <3>2
      <4>2. QED
        BY <4>1 DEF Rest
    <3>3. QED
      BY <3>1, <3>2
  <2>2. Rest(t, d) \subseteq Lv(t, d) \cup Rest(t, d + 1)
    BY <2>1 DEF Rest
  <2>3. Rest(t, d + 1) \subseteq Rest(t, d)
    <3>1. \A e \in Nat : e >= d + 1 => e >= d
      OBVIOUS
    <3>2. QED
      BY <3>1 DEF Rest
  <2>4. Lv(t, d) \subseteq Rest(t, d)
    <3>1. d >= d
      OBVIOUS
    <3>2. QED
      BY <3>1 DEF Rest
  <2>5. QED
    BY <1>2, <2>2, <2>3, <2>4
<1>3. QED
  BY <1>1, <1>2

LEMMA GatheredIs ==
  ASSUME NEW t, Ends(t), NEW f, Gathers(t, f)
  PROVE  f[0] = Rest(t, 0)
<1>1. PICK m \in Nat : Lv(t, m) = {}
  BY DEF Ends
<1> DEFINE G == {j \in Nat : j <= m => f[m - j] = Rest(t, m - j)}
<1>2. \A d \in Nat : f[d] = IF Lv(t, d) = {} THEN {} ELSE Lv(t, d) \cup f[d + 1]
  <2>1. PICK g : g = [d \in Nat |-> IF Lv(t, d) = {} THEN {} ELSE Lv(t, d) \cup f[d + 1]]
    OBVIOUS
  <2>2. f = g
    BY <2>1 DEF Gathers
  <2>3. \A d \in Nat : g[d] = IF Lv(t, d) = {} THEN {} ELSE Lv(t, d) \cup f[d + 1]
    BY <2>1
  <2>4. QED
    BY <2>2, <2>3
<1>3. 0 \in G
  <2>1. f[m] = {}
    BY <1>1, <1>2
  <2>2. Rest(t, m) = {}
    BY <1>1, RestIs
  <2>3. m - 0 = m
    OBVIOUS
  <2>4. QED
    BY <2>1, <2>2, <2>3
<1>4. ASSUME NEW j \in Nat, j \in G PROVE j + 1 \in G
  <2>1. SUFFICES ASSUME j + 1 <= m PROVE f[m - (j + 1)] = Rest(t, m - (j + 1))
    OBVIOUS
  <2>2. PICK d \in Nat : d = m - (j + 1)
    BY <2>1
  <2>3. d + 1 = m - j /\ f[d + 1] = Rest(t, d + 1)
    BY <1>4, <2>1, <2>2
  <2>4. f[d] = IF Lv(t, d) = {} THEN {} ELSE Lv(t, d) \cup f[d + 1]
    BY <1>2
  <2>5. Rest(t, d) = IF Lv(t, d) = {} THEN {} ELSE Lv(t, d) \cup Rest(t, d + 1)
    BY RestIs
  <2>6. QED
    BY <2>2, <2>3, <2>4, <2>5
<1> HIDE DEF G
<1>5. m \in G
  BY <1>3, <1>4, Induct
<1>6. QED
  BY <1>5 DEF G

LEMMA SubtreesAre ==
  ASSUME NEW t, Ends(t)
  PROVE  Subtrees(t) = UNION {Lv(t, d) : d \in Nat}
<1> DEFINE F == CHOOSE f : Gathers(t, f)
           h == [d \in Nat |-> Rest(t, d)]
<1>1. Gathers(t, h)
  <2>1. \A d \in Nat : h[d] = IF Lv(t, d) = {} THEN {} ELSE Lv(t, d) \cup h[d + 1]
    BY RestIs
  <2>2. h = [d \in Nat |-> h[d]]
    OBVIOUS
  <2> HIDE DEF h
  <2>3. QED
    BY <2>1, <2>2 DEF Gathers
<1> HIDE DEF h
<1>2. Gathers(t, F)
  BY <1>1
<1>3. Subtrees(t) = F[0]
  BY DEF Subtrees, Gathers, Lv, Levels
<1> HIDE DEF F
<1>4. Subtrees(t) = Rest(t, 0)
  BY <1>2, <1>3, GatheredIs
<1>5. {j \in Nat : j >= 0} = Nat
  OBVIOUS
<1>6. QED
  BY <1>4, <1>5 DEF Rest

LEMMA LeafIs ==
  ASSUME NEW t, IsLeaf(t)
  PROVE  Ends(t) /\ Subtrees(t) = {t} /\ Nodes(t) = {} /\ KeysOf(t) = {}
<1>1. Lv(t, 0) = {t}
  BY LevelsAre
<1>2. Lv(t, 0 + 1) = Children(Lv(t, 0))
  BY NextLevel
<1>3. Lv(t, 1) = {}
  <2>1. Children({t}) = {}
    BY ChildrenOf
  <2>2. QED
    BY <1>1, <1>2, <2>1
<1>4. Ends(t)
  BY <1>3 DEF Ends
<1>5. \A e \in Nat : e >= 1 => Lv(t, e) = {}
  BY <1>3, EmptyOn
<1>6. \A e \in Nat : e = 0 \/ e >= 1
  OBVIOUS
<1>7. Subtrees(t) = {t}
  BY <1>1, <1>4, <1>5, <1>6, SubtreesAre
<1>8. QED
  BY <1>4, <1>7 DEF Nodes, KeysOf

(* The levels below a node are those of its subtrees.                      *)
LEMMA LevelsBelow ==
  ASSUME NEW t, ~IsLeaf(t)
  PROVE  \A d \in Nat : Lv(t, d + 1) = Lv(t.left, d) \cup Lv(t.right, d)
<1> DEFINE G == {d \in Nat : Lv(t, d + 1) = Lv(t.left, d) \cup Lv(t.right, d)}
<1>1. 0 \in G
  <2>1. Lv(t, 0 + 1) = Children({t})
    BY LevelsAre
  <2>2. Lv(t.left, 0) = {t.left} /\ Lv(t.right, 0) = {t.right}
    BY LevelsAre
  <2>3. QED
    BY <2>1, <2>2, ChildrenOf
<1>2. ASSUME NEW d \in Nat, d \in G PROVE d + 1 \in G
  <2>1. PICK e \in Nat : e = d + 1
    OBVIOUS
  <2>2. Lv(t, e) = Lv(t.left, d) \cup Lv(t.right, d)
    BY <1>2, <2>1
  <2>3. Lv(t, e + 1) = Children(Lv(t.left, d)) \cup Children(Lv(t.right, d))
    BY <2>2, NextLevel, ChildrenOfBoth
  <2>4. Lv(t.left, d + 1) = Children(Lv(t.left, d)) /\ Lv(t.right, d + 1) = Children(Lv(t.right, d))
    BY NextLevel
  <2>5. QED
    BY <2>1, <2>3, <2>4
<1> HIDE DEF G
<1>3. \A d \in Nat : d \in G
  BY <1>1, <1>2, Induct
<1>4. QED
  BY <1>3 DEF G

(* A node ends when its subtrees do, and no sooner.                        *)
LEMMA NodeEnds ==
  ASSUME NEW t, ~IsLeaf(t)
  PROVE  Ends(t) <=> Ends(t.left) /\ Ends(t.right)
<1>1. ASSUME Ends(t) PROVE Ends(t.left) /\ Ends(t.right)
  <2>1. PICK d \in Nat : Lv(t, d) = {}
    BY <1>1 DEF Ends
  <2>2. Lv(t, d + 1) = {}
    BY <2>1, NextLevel, NoChildren
  <2>3. Lv(t, d + 1) = Lv(t.left, d) \cup Lv(t.right, d)
    BY LevelsBelow
  <2>4. QED
    BY <2>2, <2>3 DEF Ends
<1>2. ASSUME Ends(t.left), Ends(t.right) PROVE Ends(t)
  <2>1. PICK d \in Nat, e \in Nat : Lv(t.left, d) = {} /\ Lv(t.right, e) = {}
    BY <1>2 DEF Ends
  <2>2. PICK m \in Nat : m >= d /\ m >= e
    <3>1. d + e \in Nat /\ d + e >= d /\ d + e >= e
      OBVIOUS
    <3>2. QED
      BY <3>1
  <2>3. Lv(t.left, m) = {} /\ Lv(t.right, m) = {}
    BY <2>1, <2>2, EmptyOn
  <2>4. Lv(t, m + 1) = {} /\ m + 1 \in Nat
    BY <2>3, LevelsBelow
  <2>5. QED
    BY <2>4 DEF Ends
<1>3. QED
  BY <1>1, <1>2

LEMMA NodeIs ==
  ASSUME NEW t, ~IsLeaf(t), Ends(t)
  PROVE  /\ Ends(t.left) /\ Ends(t.right)
         /\ Subtrees(t) = {t} \cup Subtrees(t.left) \cup Subtrees(t.right)
         /\ Nodes(t) = {t} \cup Nodes(t.left) \cup Nodes(t.right)
         /\ KeysOf(t) = {t.key} \cup KeysOf(t.left) \cup KeysOf(t.right)
<1>1. Ends(t.left) /\ Ends(t.right)
  BY NodeEnds
<1>2. \A x : x \in Subtrees(t) <=> x = t \/ x \in Subtrees(t.left) \/ x \in Subtrees(t.right)
  <2>1. ASSUME NEW x \in Subtrees(t) PROVE x = t \/ x \in Subtrees(t.left) \/ x \in Subtrees(t.right)
    <3>1. PICK d \in Nat : x \in Lv(t, d)
      BY <2>1, SubtreesAre
    <3>2. CASE d = 0
      BY <3>1, <3>2, LevelsAre
    <3>3. CASE d # 0
      <4>1. PICK e \in Nat : d = e + 1
        <5>1. d - 1 \in Nat /\ d = (d - 1) + 1
          BY <3>3
        <5>2. QED
          BY <5>1
      <4>2. x \in Lv(t.left, e) \cup Lv(t.right, e)
        BY <3>1, <4>1, LevelsBelow
      <4>3. QED
        BY <1>1, <4>2, SubtreesAre
    <3>4. QED
      BY <3>2, <3>3
  <2>2. t \in Subtrees(t)
    <3>1. t \in Lv(t, 0) /\ 0 \in Nat
      BY LevelsAre
    <3>2. QED
      BY <3>1, SubtreesAre
  <2>3. ASSUME NEW x, x \in Subtrees(t.left) \/ x \in Subtrees(t.right) PROVE x \in Subtrees(t)
    <3>1. PICK d \in Nat : x \in Lv(t.left, d) \cup Lv(t.right, d)
      BY <1>1, <2>3, SubtreesAre
    <3>2. x \in Lv(t, d + 1) /\ d + 1 \in Nat
      BY <3>1, LevelsBelow
    <3>3. QED
      BY <3>2, SubtreesAre
  <2>4. QED
    BY <2>1, <2>2, <2>3
<1>3. Subtrees(t) = {t} \cup Subtrees(t.left) \cup Subtrees(t.right)
  BY <1>2
<1>4. Nodes(t) = {t} \cup Nodes(t.left) \cup Nodes(t.right)
  BY <1>3 DEF Nodes
<1>5. QED
  BY <1>1, <1>3, <1>4 DEF KeysOf

LEMMA SelfIn ==
  ASSUME NEW t, Ends(t)
  PROVE  t \in Subtrees(t)
BY LeafIs, NodeIs

(* Induction over trees, for a set of them.                                *)
Depth(t) == CHOOSE d \in Nat : Lv(t, d) = {} /\ \A e \in Nat : Lv(t, e) = {} => d <= e

LEMMA DepthIs ==
  ASSUME NEW t, Ends(t)
  PROVE  /\ Depth(t) \in Nat /\ Lv(t, Depth(t)) = {} /\ Depth(t) # 0
         /\ \A e \in Nat : Lv(t, e) = {} => Depth(t) <= e
<1>1. \E d \in Nat : Lv(t, d) = {} /\ \A e \in Nat : Lv(t, e) = {} => d <= e
  <2> DEFINE T == {d \in Nat : Lv(t, d) = {}}
  <2>1. T \in SUBSET Nat /\ T # {}
    BY DEF Ends
  <2> HIDE DEF T
  <2>2. PICK d \in T : \A e \in T : d <= e
    BY <2>1, LeastOf
  <2>3. QED
    BY <2>2 DEF T
<1>2. /\ Depth(t) \in Nat /\ Lv(t, Depth(t)) = {}
      /\ \A e \in Nat : Lv(t, e) = {} => Depth(t) <= e
  BY <1>1 DEF Depth
<1>3. Lv(t, 0) # {}
  BY LevelsAre
<1>4. QED
  BY <1>2, <1>3

LEMMA DepthDown ==
  ASSUME NEW t, ~IsLeaf(t), Ends(t)
  PROVE  Depth(t.left) < Depth(t) /\ Depth(t.right) < Depth(t)
<1>1. Depth(t) \in Nat /\ Lv(t, Depth(t)) = {} /\ Depth(t) # 0
  BY DepthIs
<1>2. PICK d \in Nat : Depth(t) = d + 1
  <2>1. Depth(t) - 1 \in Nat /\ Depth(t) = (Depth(t) - 1) + 1
    BY <1>1
  <2>2. QED
    BY <2>1
<1>3. Lv(t.left, d) = {} /\ Lv(t.right, d) = {}
  BY <1>1, <1>2, LevelsBelow
<1>4. Ends(t.left) /\ Ends(t.right)
  BY NodeIs
<1>5. Depth(t.left) <= d /\ Depth(t.right) <= d /\ Depth(t.left) \in Nat /\ Depth(t.right) \in Nat
  BY <1>3, <1>4, DepthIs
<1>6. QED
  BY <1>2, <1>5

ClosedBelow(S) == \A x \in S : Ends(x) /\ (~IsLeaf(x) => x.left \in S /\ x.right \in S)

LEMMA TreeInduct ==
  ASSUME NEW S, ClosedBelow(S), NEW G,
         \A x \in S : IsLeaf(x) => x \in G,
         \A x \in S : ~IsLeaf(x) /\ x.left \in G /\ x.right \in G => x \in G
  PROVE  \A x \in S : x \in G
<1> DEFINE T == {Depth(x) : x \in {y \in S : y \notin G}}
<1>1. SUFFICES ASSUME NEW y \in S, y \notin G PROVE FALSE
  OBVIOUS
<1>2. PICK d \in T : \A e \in T : d <= e
  <2>1. T \in SUBSET Nat /\ T # {}
    BY <1>1, DepthIs DEF ClosedBelow
  <2> HIDE DEF T
  <2>2. QED
    BY <2>1, LeastOf
<1>3. PICK x \in S : x \notin G /\ Depth(x) = d
  OBVIOUS
<1>4. ~IsLeaf(x) /\ Ends(x) /\ x.left \in S /\ x.right \in S /\ Ends(x.left) /\ Ends(x.right)
  BY <1>3 DEF ClosedBelow
<1>5. Depth(x.left) < d /\ Depth(x.right) < d /\ Depth(x.left) \in Nat /\ Depth(x.right) \in Nat /\ d \in Nat
  BY <1>3, <1>4, DepthDown, DepthIs
<1>6. x.left \in G /\ x.right \in G
  <2>1. ~(d <= Depth(x.left)) /\ ~(d <= Depth(x.right))
    BY <1>5
  <2>2. QED
    BY <1>2, <1>4, <2>1
<1>7. QED
  BY <1>3, <1>4, <1>6

LEMMA SubtreesClosed ==
  ASSUME NEW t, Ends(t)
  PROVE  /\ ClosedBelow(Subtrees(t))
         /\ \A x \in Subtrees(t) : Subtrees(x) \subseteq Subtrees(t)
<1>1. \A d \in Nat : \A x \in Lv(t, d) : \A e \in Nat : Lv(x, e) \subseteq Lv(t, d + e)
  <2> SUFFICES ASSUME NEW d \in Nat, NEW x \in Lv(t, d)
               PROVE  \A e \in Nat : Lv(x, e) \subseteq Lv(t, d + e)
    OBVIOUS
  <2> DEFINE H == {e \in Nat : Lv(x, e) \subseteq Lv(t, d + e)}
  <2>1. 0 \in H
    <3>1. Lv(x, 0) = {x} /\ d + 0 = d
      BY LevelsAre
    <3>2. QED
      BY <3>1
  <2>2. ASSUME NEW e \in Nat, e \in H PROVE e + 1 \in H
    <3>1. PICK i \in Nat : i = d + e
      OBVIOUS
    <3>2. i + 1 = d + (e + 1) /\ Lv(x, e) \subseteq Lv(t, i)
      BY <2>2, <3>1
    <3>3. Children(Lv(x, e)) \subseteq Children(Lv(t, i))
      BY <3>2, ChildrenWithin
    <3>4. Lv(x, e + 1) = Children(Lv(x, e)) /\ Lv(t, i + 1) = Children(Lv(t, i))
      BY NextLevel
    <3>5. QED
      BY <3>2, <3>3, <3>4
  <2> HIDE DEF H
  <2>3. \A e \in Nat : e \in H
    BY <2>1, <2>2, Induct
  <2>4. QED
    BY <2>3 DEF H
<1>2. ASSUME NEW x \in Subtrees(t)
      PROVE  Ends(x) /\ Subtrees(x) \subseteq Subtrees(t)
             /\ (~IsLeaf(x) => x.left \in Subtrees(t) /\ x.right \in Subtrees(t))
  <2>1. PICK d \in Nat : x \in Lv(t, d)
    BY SubtreesAre
  <2>2. PICK m \in Nat : Lv(t, m) = {}
    BY DEF Ends
  <2>3. Ends(x)
    <3>1. PICK i \in Nat : i = d + m /\ i >= m
      OBVIOUS
    <3>2. Lv(t, i) = {}
      BY <2>2, <3>1, EmptyOn
    <3>3. Lv(x, m) = {}
      BY <1>1, <2>1, <3>1, <3>2
    <3>4. QED
      BY <3>3 DEF Ends
  <2>4. Subtrees(x) \subseteq Subtrees(t)
    <3>1. ASSUME NEW e \in Nat PROVE Lv(x, e) \subseteq Subtrees(t)
      <4>1. PICK i \in Nat : i = d + e
        OBVIOUS
      <4>2. Lv(x, e) \subseteq Lv(t, i)
        BY <1>1, <2>1, <4>1
      <4>3. QED
        BY <4>2, SubtreesAre
    <3>2. Subtrees(x) = UNION {Lv(x, e) : e \in Nat}
      BY <2>3, SubtreesAre
    <3>3. QED
      BY <3>1, <3>2
  <2>5. ASSUME ~IsLeaf(x) PROVE x.left \in Subtrees(t) /\ x.right \in Subtrees(t)
    <3>1. x.left \in Subtrees(x) /\ x.right \in Subtrees(x)
      BY <2>3, <2>5, NodeIs, SelfIn
    <3>2. QED
      BY <2>4, <3>1
  <2>6. QED
    BY <2>3, <2>4, <2>5
<1>3. QED
  BY <1>2 DEF ClosedBelow

(* No node is below itself.                                                *)
LEMMA NotBelow ==
  ASSUME NEW t, ~IsLeaf(t), Ends(t)
  PROVE  t \notin Subtrees(t.left) /\ t \notin Subtrees(t.right)
<1>1. ASSUME NEW y, Ends(y) PROVE \A x \in Subtrees(y) : Depth(x) <= Depth(y)
  <2> DEFINE G == {z \in Subtrees(y) : \A x \in Subtrees(z) : Depth(x) <= Depth(z)}
  <2>1. ASSUME NEW z \in Subtrees(y), IsLeaf(z) PROVE z \in G
    <3>1. Subtrees(z) = {z} /\ Depth(z) \in Nat
      BY <2>1, LeafIs, DepthIs
    <3>2. QED
      BY <3>1
  <2>2. ASSUME NEW z \in Subtrees(y), ~IsLeaf(z), z.left \in G, z.right \in G PROVE z \in G
    <3>1. Ends(z) /\ Ends(z.left) /\ Ends(z.right)
      BY <1>1, <2>2, SubtreesClosed, NodeIs DEF ClosedBelow
    <3>2. ASSUME NEW x \in Subtrees(z) PROVE Depth(x) <= Depth(z)
      <4>1. Depth(z) \in Nat /\ Depth(z.left) \in Nat /\ Depth(z.right) \in Nat /\ Depth(x) \in Nat
        BY <3>1, DepthIs, SubtreesClosed DEF ClosedBelow
      <4>2. Depth(z.left) < Depth(z) /\ Depth(z.right) < Depth(z)
        BY <2>2, <3>1, DepthDown
      <4>3. x = z \/ x \in Subtrees(z.left) \/ x \in Subtrees(z.right)
        BY <2>2, <3>1, NodeIs
      <4>4. CASE x = z
        BY <4>1, <4>4
      <4>5. CASE x \in Subtrees(z.left)
        <5>1. Depth(x) <= Depth(z.left)
          BY <2>2, <4>5
        <5>2. QED
          BY <4>1, <4>2, <5>1
      <4>6. CASE x \in Subtrees(z.right)
        <5>1. Depth(x) <= Depth(z.right)
          BY <2>2, <4>6
        <5>2. QED
          BY <4>1, <4>2, <5>1
      <4>7. QED
        BY <4>3, <4>4, <4>5, <4>6
    <3>3. QED
      BY <2>2, <3>2
  <2> HIDE DEF G
  <2>3. \A z \in Subtrees(y) : z \in G
    BY <1>1, <2>1, <2>2, SubtreesClosed, TreeInduct
  <2>4. y \in G
    BY <1>1, <2>3, SelfIn
  <2>5. QED
    BY <2>4 DEF G
<1>2. Ends(t.left) /\ Ends(t.right) /\ Depth(t.left) < Depth(t) /\ Depth(t.right) < Depth(t)
  BY NodeIs, DepthDown
<1>3. Depth(t) \in Nat /\ Depth(t.left) \in Nat /\ Depth(t.right) \in Nat
  BY <1>2, DepthIs
<1>4. ~(Depth(t) <= Depth(t.left)) /\ ~(Depth(t) <= Depth(t.right))
  BY <1>2, <1>3
<1>5. QED
  BY <1>1, <1>2, <1>4

-----------------------------------------------------------------------------
(* What the model computes by recursion on a tree: p names the computation,*)
(* Base is its value at a leaf, Step at a node from those of its subtrees. *)
(* The kinds of tree differ in the nodes they make, in what a node takes   *)
(* over from its successor, and in whether a node is rebalanced.           *)

Fix(q, m) == IF q = "bst" THEN m ELSE Rebalance(m)
LeafOf(q) == IF q = "bst" THEN BsLeaf ELSE Leaf
NewOf(q, k, v) == CASE q = "avl" -> NewNode(k) [] q = "bst" -> BsNode(k) [] OTHER -> OM!MakeNode(k, v)
Renewed(q, n, v) == IF q = "omap" THEN [n EXCEPT !.val = v] ELSE n
Take(q, n, s) == IF q = "omap" THEN OM!TakeOver(n, s) ELSE TakeKey(n, s)

Base(p, n) ==
  CASE p.op = "put" -> NewOf(p.q, p.k, p.v)
    [] p.op = "del" -> [j \in Nat |-> n]
    [] p.op \in {"size", "high"} -> 0
    [] OTHER -> n

StepPut(q, k, v, n, a, b) ==
  CASE k < n.key -> Fix(q, [n EXCEPT !.left = a])
    [] k > n.key -> Fix(q, [n EXCEPT !.right = b])
    [] OTHER     -> Renewed(q, n, v)
StepDel(q, j, n, a, b) ==
  CASE j < n.key -> Fix(q, [n EXCEPT !.left = a[j]])
    [] j > n.key -> Fix(q, [n EXCEPT !.right = b[j]])
    [] OTHER ->
         IF IsLeaf(n.left) THEN n.right
         ELSE IF IsLeaf(n.right) THEN n.left
         ELSE LET s == MinNode(n.right) IN Fix(q, [Take(q, n, s) EXCEPT !.right = b[s.key]])
StepAt(k, n, a, b) == CASE k < n.key -> a [] k > n.key -> b [] OTHER -> n

Step(p, n, a, b) ==
  CASE p.op = "put"   -> StepPut(p.q, p.k, p.v, n, a, b)
    [] p.op = "del"   -> [j \in Nat |-> StepDel(p.q, j, n, a, b)]
    [] p.op = "size"  -> a + 1 + b
    [] p.op = "high"  -> 1 + Higher(a, b)
    [] p.op = "at"    -> StepAt(p.k, n, a, b)
    [] p.op = "least" -> IF IsLeaf(n.left) THEN n ELSE a
    [] OTHER          -> IF IsLeaf(n.right) THEN n ELSE b

Turn(p, n, a, b) == IF IsLeaf(n) THEN Base(p, n) ELSE Step(p, n, a, b)
Rec(p, t) == CHOOSE f : f = [n \in Subtrees(t) |-> Turn(p, n, f[n.left], f[n.right])]
Value(p, t) == Rec(p, t)[t]
Solves(p, f, S) == \A n \in S : f[n] = Turn(p, n, f[n.left], f[n.right])

LEMMA OneSolution ==
  ASSUME NEW p, NEW S, ClosedBelow(S), NEW f, NEW g, Solves(p, f, S), Solves(p, g, S)
  PROVE  \A x \in S : f[x] = g[x]
<1> DEFINE G == {x \in S : f[x] = g[x]}
<1>1. ASSUME NEW x \in S, IsLeaf(x) PROVE x \in G
  BY <1>1 DEF Solves, Turn
<1>2. ASSUME NEW x \in S, ~IsLeaf(x), x.left \in G, x.right \in G PROVE x \in G
  BY <1>2 DEF Solves
<1> HIDE DEF G
<1>3. \A x \in S : x \in G
  BY <1>1, <1>2, TreeInduct
<1>4. QED
  BY <1>3 DEF G

LEMMA SolvesBelow ==
  ASSUME NEW p, NEW f, NEW A, NEW B, Solves(p, f, A), B \subseteq A
  PROVE  Solves(p, f, B)
BY DEF Solves

(* Solutions for the two subtrees of a node make one for the node.         *)
LEMMA SolutionAt ==
  ASSUME NEW p, NEW x, Ends(x), ~IsLeaf(x), NEW f, NEW g,
         Solves(p, f, Subtrees(x.left)), Solves(p, g, Subtrees(x.right))
  PROVE  \E h : Solves(p, h, Subtrees(x))
<1> DEFINE L == Subtrees(x.left)
           R == Subtrees(x.right)
           top == Turn(p, x, f[x.left], g[x.right])
           h == [n \in Subtrees(x) |-> IF n = x THEN top ELSE IF n \in L THEN f[n] ELSE g[n]]
<1>1. /\ Subtrees(x) = {x} \cup L \cup R /\ x \notin L /\ x \notin R
      /\ Ends(x.left) /\ Ends(x.right) /\ x.left \in L /\ x.right \in R
  BY NodeIs, NotBelow, SelfIn
<1>2. ClosedBelow(L) /\ ClosedBelow(R)
      /\ (\A n \in L : Subtrees(n) \subseteq L) /\ (\A n \in R : Subtrees(n) \subseteq R)
  BY <1>1, SubtreesClosed
<1>3. ASSUME NEW n \in L, n \in R PROVE f[n] = g[n]
  <2>1. Ends(n)
    BY <1>2 DEF ClosedBelow
  <2>2. Subtrees(n) \subseteq L /\ Subtrees(n) \subseteq R
    BY <1>2, <1>3
  <2>3. Solves(p, f, Subtrees(n)) /\ Solves(p, g, Subtrees(n))
    BY <2>2, SolvesBelow
  <2>4. ClosedBelow(Subtrees(n)) /\ n \in Subtrees(n)
    BY <2>1, SubtreesClosed, SelfIn
  <2>5. QED
    BY <2>3, <2>4, OneSolution
<1> HIDE DEF L, R, top
<1>4. (\A n \in L : h[n] = f[n]) /\ (\A n \in R : h[n] = g[n]) /\ h[x] = top
  BY <1>1, <1>3
<1> HIDE DEF h
<1>5. ASSUME NEW n \in Subtrees(x) PROVE h[n] = Turn(p, n, h[n.left], h[n.right])
  <2>1. CASE n = x
    BY <1>1, <1>4, <2>1 DEF top
  <2>2. CASE n \in L
    <3>1. f[n] = Turn(p, n, f[n.left], f[n.right])
      BY <2>2 DEF Solves, L
    <3>2. CASE IsLeaf(n)
      BY <1>4, <2>2, <3>1, <3>2 DEF Turn
    <3>3. CASE ~IsLeaf(n)
      <4>1. n.left \in L /\ n.right \in L
        BY <1>2, <2>2, <3>3 DEF ClosedBelow
      <4>2. QED
        BY <1>4, <2>2, <3>1, <4>1
    <3>4. QED
      BY <3>2, <3>3
  <2>3. CASE n \in R
    <3>1. g[n] = Turn(p, n, g[n.left], g[n.right])
      BY <2>3 DEF Solves, R
    <3>2. CASE IsLeaf(n)
      BY <1>4, <2>3, <3>1, <3>2 DEF Turn
    <3>3. CASE ~IsLeaf(n)
      <4>1. n.left \in R /\ n.right \in R
        BY <1>2, <2>3, <3>3 DEF ClosedBelow
      <4>2. QED
        BY <1>4, <2>3, <3>1, <4>1
    <3>4. QED
      BY <3>2, <3>3
  <2>4. QED
    BY <1>1, <2>1, <2>2, <2>3
<1>6. QED
  BY <1>5 DEF Solves

LEMMA Solution ==
  ASSUME NEW p, NEW t, Ends(t)
  PROVE  \E f : Solves(p, f, Subtrees(t))
<1> DEFINE S == Subtrees(t)
           G == {x \in S : \E f : Solves(p, f, Subtrees(x))}
<1>1. ClosedBelow(S) /\ t \in S
  BY SubtreesClosed, SelfIn
<1>2. ASSUME NEW x \in S, IsLeaf(x) PROVE x \in G
  <2>1. Subtrees(x) = {x}
    BY <1>2, LeafIs
  <2>2. Solves(p, [n \in {x} |-> Base(p, n)], Subtrees(x))
    BY <1>2, <2>1 DEF Solves, Turn
  <2>3. QED
    BY <2>2
<1>3. ASSUME NEW x \in S, ~IsLeaf(x), x.left \in G, x.right \in G PROVE x \in G
  <2>1. PICK f : Solves(p, f, Subtrees(x.left))
    BY <1>3
  <2>2. PICK g : Solves(p, g, Subtrees(x.right))
    BY <1>3
  <2>3. Ends(x)
    BY <1>1 DEF ClosedBelow
  <2>4. \E h : Solves(p, h, Subtrees(x))
    BY <1>3, <2>1, <2>2, <2>3, SolutionAt
  <2>5. QED
    BY <2>4
<1> HIDE DEF G, S
<1>4. \A x \in S : x \in G
  BY <1>1, <1>2, <1>3, TreeInduct
<1>5. QED
  BY <1>1, <1>4 DEF G

LEMMA RecIs ==
  ASSUME NEW p, NEW t, Ends(t)
  PROVE  Solves(p, Rec(p, t), Subtrees(t))
<1> DEFINE P(f) == f = [n \in Subtrees(t) |-> Turn(p, n, f[n.left], f[n.right])]
<1>1. PICK f : Solves(p, f, Subtrees(t))
  BY Solution
<1> DEFINE g == [n \in Subtrees(t) |-> f[n]]
<1>2. P(g)
  <2>1. ASSUME NEW n \in Subtrees(t) PROVE g[n] = Turn(p, n, g[n.left], g[n.right])
    <3>1. f[n] = Turn(p, n, f[n.left], f[n.right])
      BY <1>1 DEF Solves
    <3>2. CASE IsLeaf(n)
      BY <3>1, <3>2 DEF Turn
    <3>3. CASE ~IsLeaf(n)
      <4>1. n.left \in Subtrees(t) /\ n.right \in Subtrees(t)
        BY <3>3, SubtreesClosed DEF ClosedBelow
      <4>2. QED
        BY <3>1, <4>1
    <3>4. QED
      BY <3>2, <3>3
  <2>2. g = [n \in Subtrees(t) |-> g[n]]
    OBVIOUS
  <2> HIDE DEF g
  <2>3. QED
    BY <2>1, <2>2
<1>3. Rec(p, t) = CHOOSE h : P(h)
  BY DEF Rec
<1> HIDE DEF P, g
<1>4. P(Rec(p, t))
  BY <1>2, <1>3
<1>5. PICK r : r = Rec(p, t)
  OBVIOUS
<1>6. r = [n \in Subtrees(t) |-> Turn(p, n, r[n.left], r[n.right])]
  BY <1>4, <1>5 DEF P
<1>7. Solves(p, r, Subtrees(t))
  BY <1>6 DEF Solves
<1>8. QED
  BY <1>5, <1>7

LEMMA ValueIs ==
  ASSUME NEW p, NEW t, Ends(t)
  PROVE  Value(p, t) = Turn(p, t, Value(p, t.left), Value(p, t.right))
<1>1. Solves(p, Rec(p, t), Subtrees(t)) /\ t \in Subtrees(t)
  BY RecIs, SelfIn
<1>2. Value(p, t) = Turn(p, t, Rec(p, t)[t.left], Rec(p, t)[t.right])
  BY <1>1 DEF Solves, Value
<1>3. CASE IsLeaf(t)
  BY <1>2, <1>3 DEF Turn
<1>4. CASE ~IsLeaf(t)
  <2>1. /\ Ends(t.left) /\ Ends(t.right) /\ Subtrees(t.left) \subseteq Subtrees(t)
        /\ Subtrees(t.right) \subseteq Subtrees(t)
    BY <1>4, NodeIs
  <2>2. t.left \in Subtrees(t.left) /\ t.right \in Subtrees(t.right)
        /\ ClosedBelow(Subtrees(t.left)) /\ ClosedBelow(Subtrees(t.right))
    BY <2>1, SelfIn, SubtreesClosed
  <2>3. Solves(p, Rec(p, t.left), Subtrees(t.left)) /\ Solves(p, Rec(p, t.right), Subtrees(t.right))
    BY <2>1, RecIs
  <2>4. Solves(p, Rec(p, t), Subtrees(t.left)) /\ Solves(p, Rec(p, t), Subtrees(t.right))
    BY <1>1, <2>1, SolvesBelow
  <2>5. Rec(p, t)[t.left] = Value(p, t.left)
    BY <2>2, <2>3, <2>4, OneSolution DEF Value
  <2>6. Rec(p, t)[t.right] = Value(p, t.right)
    BY <2>2, <2>3, <2>4, OneSolution DEF Value
  <2>7. QED
    BY <1>2, <2>5, <2>6
<1>5. QED
  BY <1>3, <1>4

(* The operators of the model are such computations.                       *)

Put(q, t, k, v) == Value([op |-> "put", q |-> q, k |-> k, v |-> v], t)
Dels(q, t)      == Value([op |-> "del", q |-> q], t)
Kinds == {"avl", "bst", "omap"}

LEMMA PutDown ==
  ASSUME NEW q, NEW t, Ends(t), NEW k, NEW v
  PROVE  Put(q, t, k, v) = IF IsLeaf(t) THEN NewOf(q, k, v)
                           ELSE StepPut(q, k, v, t, Put(q, t.left, k, v), Put(q, t.right, k, v))
<1> DEFINE p == [op |-> "put", q |-> q, k |-> k, v |-> v]
<1>1. p.op = "put" /\ p.q = q /\ p.k = k /\ p.v = v
  OBVIOUS
<1> HIDE DEF p
<1>2. \A x : Put(q, x, k, v) = Value(p, x)
  BY DEF p, Put
<1>3. Value(p, t) = Turn(p, t, Value(p, t.left), Value(p, t.right))
  BY ValueIs
<1>4. \A a, b : Turn(p, t, a, b) = IF IsLeaf(t) THEN NewOf(q, k, v) ELSE StepPut(q, k, v, t, a, b)
  BY <1>1 DEF Turn, Base, Step
<1>5. QED
  BY <1>2, <1>3, <1>4

LEMMA DelDown ==
  ASSUME NEW q, NEW t, Ends(t), NEW j \in Nat
  PROVE  Dels(q, t)[j] = IF IsLeaf(t) THEN t ELSE StepDel(q, j, t, Dels(q, t.left), Dels(q, t.right))
<1> DEFINE p == [op |-> "del", q |-> q]
<1>1. p.op = "del" /\ p.q = q
  OBVIOUS
<1> HIDE DEF p
<1>2. \A x : Dels(q, x) = Value(p, x)
  BY DEF p, Dels
<1>3. Value(p, t) = Turn(p, t, Value(p, t.left), Value(p, t.right))
  BY ValueIs
<1>4. \A a, b : Turn(p, t, a, b) = IF IsLeaf(t) THEN [i \in Nat |-> t] ELSE [i \in Nat |-> StepDel(q, i, t, a, b)]
  BY <1>1 DEF Turn, Base, Step
<1>5. Dels(q, t) = IF IsLeaf(t) THEN [i \in Nat |-> t]
                   ELSE [i \in Nat |-> StepDel(q, i, t, Dels(q, t.left), Dels(q, t.right))]
  BY <1>2, <1>3, <1>4
<1>6. CASE IsLeaf(t)
  BY <1>5, <1>6
<1>7. CASE ~IsLeaf(t)
  <2>1. PICK f : f = [i \in Nat |-> StepDel(q, i, t, Dels(q, t.left), Dels(q, t.right))]
    OBVIOUS
  <2>2. Dels(q, t) = f
    BY <1>5, <1>7, <2>1
  <2>3. f[j] = StepDel(q, j, t, Dels(q, t.left), Dels(q, t.right))
    BY <2>1
  <2>4. QED
    BY <1>7, <2>2, <2>3
<1>8. QED
  BY <1>6, <1>7

(* The map's trees are those of the sets.                                  *)
LEMMA SameTrees ==
  /\ \A n : OM!IsLeaf(n) <=> IsLeaf(n)
  /\ \A t : OM!Subtrees(t) = Subtrees(t)
  /\ \A m : OM!Rebalance(m) = Rebalance(m)
  /\ \A n : OM!MinNode(n) = MinNode(n) /\ OM!MaxNode(n) = MaxNode(n)
  /\ \A t, k : OM!Find(t, k) = Find(t, k)
  /\ \A t : OM!Size(t) = Size(t) /\ OM!Height(t) = Height(t)
  /\ \A t : OM!Nodes(t) = Nodes(t) /\ OM!KeysOf(t) = KeysOf(t)
<1>1. \A n : OM!IsLeaf(n) <=> IsLeaf(n)
  BY DEF OM!IsLeaf, IsLeaf
<1>2. \A t : OM!Subtrees(t) = Subtrees(t)
  BY DEF OM!Subtrees, Subtrees, OM!Children, Children, OM!IsLeaf, IsLeaf
<1>3. \A m : OM!Rebalance(m) = Rebalance(m)
  <2>1. \A m : OM!UpdateHeight(m) = UpdateHeight(m) /\ OM!BalanceFactor(m) = BalanceFactor(m)
    BY DEF OM!UpdateHeight, UpdateHeight, OM!BalanceFactor, BalanceFactor, OM!Higher, Higher
  <2>2. \A m : OM!RotateLeft(m) = RotateLeft(m)
    BY <2>1 DEF OM!RotateLeft, RotateLeft
  <2>3. \A m : OM!RotateRight(m) = RotateRight(m)
    BY <2>1 DEF OM!RotateRight, RotateRight
  <2>4. QED
    BY <2>1, <2>2, <2>3 DEF OM!Rebalance, Rebalance
<1>4. \A n : OM!MinNode(n) = MinNode(n) /\ OM!MaxNode(n) = MaxNode(n)
  BY DEF OM!MinNode, MinNode, OM!MaxNode, MaxNode, OM!Subtrees, Subtrees, OM!Children, Children, OM!IsLeaf, IsLeaf
<1>5. \A t, k : OM!Find(t, k) = Find(t, k)
  BY DEF OM!Find, Find, OM!Subtrees, Subtrees, OM!Children, Children, OM!IsLeaf, IsLeaf
<1>6. \A t : OM!Size(t) = Size(t) /\ OM!Height(t) = Height(t)
  BY DEF OM!Size, Size, OM!Height, Height, OM!Higher, Higher,
         OM!Subtrees, Subtrees, OM!Children, Children, OM!IsLeaf, IsLeaf
<1>7. \A t : OM!Nodes(t) = Nodes(t) /\ OM!KeysOf(t) = KeysOf(t)
  BY <1>1, <1>2 DEF OM!Nodes, Nodes, OM!KeysOf, KeysOf
<1>8. QED
  BY <1>1, <1>2, <1>3, <1>4, <1>5, <1>6, <1>7

LEMMA InsertIs ==
  ASSUME NEW t, NEW k, NEW v
  PROVE  DoInsert(t, k) = Put("avl", t, k, v)
<1> DEFINE p == [op |-> "put", q |-> "avl", k |-> k, v |-> v]
           I(f, n) ==
             IF IsLeaf(n) THEN NewNode(k)
             ELSE CASE k < n.key -> Rebalance([n EXCEPT !.left = f[n.left]])
                    [] k > n.key -> Rebalance([n EXCEPT !.right = f[n.right]])
                    [] OTHER     -> n
           A(f) == f = [n \in Subtrees(t) |-> Turn(p, n, f[n.left], f[n.right])]
           B(f) == f = [n \in Subtrees(t) |-> I(f, n)]
<1>1. \A n, a, b : Turn(p, n, a, b) =
             IF IsLeaf(n) THEN NewNode(k)
             ELSE CASE k < n.key -> Rebalance([n EXCEPT !.left = a])
                    [] k > n.key -> Rebalance([n EXCEPT !.right = b])
                    [] OTHER     -> n
  BY DEF Turn, Base, Step, StepPut, NewOf, Fix, Renewed
<1>2. \A f, n : Turn(p, n, f[n.left], f[n.right]) = I(f, n)
  BY <1>1
<1>3. DoInsert(t, k) = (CHOOSE f : B(f))[t]
  BY DEF DoInsert
<1>4. Value(p, t) = (CHOOSE f : A(f))[t] /\ Value(p, t) = Value([op |-> "put", q |-> "avl", k |-> k, v |-> v], t)
  BY DEF Value, Rec
<1> HIDE DEF I, p
<1>5. \A f : A(f) <=> B(f)
  BY <1>2
<1> HIDE DEF A, B
<1>6. (CHOOSE f : A(f)) = (CHOOSE f : B(f))
  BY <1>5
<1>7. QED
  BY <1>3, <1>4, <1>6 DEF Put

LEMMA BsInsertIs ==
  ASSUME NEW t, NEW k, NEW v
  PROVE  BsInsert(t, k) = Put("bst", t, k, v)
<1> DEFINE p == [op |-> "put", q |-> "bst", k |-> k, v |-> v]
           I(f, n) ==
             IF IsLeaf(n) THEN BsNode(k)
             ELSE CASE k < n.key -> [n EXCEPT !.left = f[n.left]]
                    [] k > n.key -> [n EXCEPT !.right = f[n.right]]
                    [] OTHER     -> n
           A(f) == f = [n \in Subtrees(t) |-> Turn(p, n, f[n.left], f[n.right])]
           B(f) == f = [n \in Subtrees(t) |-> I(f, n)]
<1>1. \A n, a, b : Turn(p, n, a, b) =
             IF IsLeaf(n) THEN BsNode(k)
             ELSE CASE k < n.key -> [n EXCEPT !.left = a]
                    [] k > n.key -> [n EXCEPT !.right = b]
                    [] OTHER     -> n
  BY DEF Turn, Base, Step, StepPut, NewOf, Fix, Renewed
<1>2. \A f, n : Turn(p, n, f[n.left], f[n.right]) = I(f, n)
  BY <1>1
<1>3. BsInsert(t, k) = (CHOOSE f : B(f))[t]
  BY DEF BsInsert
<1>4. Value(p, t) = (CHOOSE f : A(f))[t] /\ Value(p, t) = Value([op |-> "put", q |-> "bst", k |-> k, v |-> v], t)
  BY DEF Value, Rec
<1> HIDE DEF I, p
<1>5. \A f : A(f) <=> B(f)
  BY <1>2
<1> HIDE DEF A, B
<1>6. (CHOOSE f : A(f)) = (CHOOSE f : B(f))
  BY <1>5
<1>7. QED
  BY <1>3, <1>4, <1>6 DEF Put

LEMMA SetIs ==
  ASSUME NEW t, NEW k, NEW v
  PROVE  OM!DoSet(t, k, v) = Put("omap", t, k, v)
<1> DEFINE p == [op |-> "put", q |-> "omap", k |-> k, v |-> v]
           I(f, n) ==
             IF OM!IsLeaf(n) THEN OM!MakeNode(k, v)
             ELSE CASE k < n.key -> OM!Rebalance([n EXCEPT !.left = f[n.left]])
                    [] k > n.key -> OM!Rebalance([n EXCEPT !.right = f[n.right]])
                    [] OTHER     -> [n EXCEPT !.val = v]
           A(f) == f = [n \in Subtrees(t) |-> Turn(p, n, f[n.left], f[n.right])]
           B(f) == f = [n \in OM!Subtrees(t) |-> I(f, n)]
<1>1. \A n, a, b : Turn(p, n, a, b) =
             IF OM!IsLeaf(n) THEN OM!MakeNode(k, v)
             ELSE CASE k < n.key -> OM!Rebalance([n EXCEPT !.left = a])
                    [] k > n.key -> OM!Rebalance([n EXCEPT !.right = b])
                    [] OTHER     -> [n EXCEPT !.val = v]
  BY SameTrees DEF Turn, Base, Step, StepPut, NewOf, Fix, Renewed
<1>2. \A f, n : Turn(p, n, f[n.left], f[n.right]) = I(f, n)
  BY <1>1
<1>3. OM!DoSet(t, k, v) = (CHOOSE f : B(f))[t]
  BY DEF OM!DoSet
<1>4. Value(p, t) = (CHOOSE f : A(f))[t] /\ Value(p, t) = Value([op |-> "put", q |-> "omap", k |-> k, v |-> v], t)
  BY DEF Value, Rec
<1> HIDE DEF I, p
<1>5. \A f : A(f) <=> B(f)
  BY SameTrees, <1>2
<1> HIDE DEF A, B
<1>6. (CHOOSE f : A(f)) = (CHOOSE f : B(f))
  BY <1>5
<1>7. QED
  BY <1>3, <1>4, <1>6 DEF Put

LEMMA RemoveIs ==
  ASSUME NEW t, NEW k
  PROVE  DoRemove(t, k) = Dels("avl", t)[k]
<1> DEFINE p == [op |-> "del", q |-> "avl"]
           I(f, n) ==
             [j \in Nat |->
               IF IsLeaf(n) THEN n
               ELSE CASE j < n.key -> Rebalance([n EXCEPT !.left = f[n.left][j]])
                      [] j > n.key -> Rebalance([n EXCEPT !.right = f[n.right][j]])
                      [] OTHER ->
                           IF IsLeaf(n.left) THEN n.right
                           ELSE IF IsLeaf(n.right) THEN n.left
                           ELSE LET s == MinNode(n.right) IN
                                Rebalance([TakeKey(n, s) EXCEPT !.right = f[n.right][s.key]])]
           A(f) == f = [n \in Subtrees(t) |-> Turn(p, n, f[n.left], f[n.right])]
           B(f) == f = [n \in Subtrees(t) |-> I(f, n)]
<1>1. \A n, a, b : Turn(p, n, a, b) =
             [j \in Nat |->
               IF IsLeaf(n) THEN n
               ELSE CASE j < n.key -> Rebalance([n EXCEPT !.left = a[j]])
                      [] j > n.key -> Rebalance([n EXCEPT !.right = b[j]])
                      [] OTHER ->
                           IF IsLeaf(n.left) THEN n.right
                           ELSE IF IsLeaf(n.right) THEN n.left
                           ELSE LET s == MinNode(n.right) IN
                                Rebalance([TakeKey(n, s) EXCEPT !.right = b[s.key]])]
  <2> DEFINE D(n, a, b, j) ==
                    CASE j < n.key -> Rebalance([n EXCEPT !.left = a[j]])
                      [] j > n.key -> Rebalance([n EXCEPT !.right = b[j]])
                      [] OTHER ->
                           IF IsLeaf(n.left) THEN n.right
                           ELSE IF IsLeaf(n.right) THEN n.left
                           ELSE LET s == MinNode(n.right) IN
                                Rebalance([TakeKey(n, s) EXCEPT !.right = b[s.key]])
  <2>1. \A n, a, b, j : ~IsLeaf(n) => StepDel("avl", j, n, a, b) = D(n, a, b, j)
    BY DEF StepDel, Fix, Take
  <2> HIDE DEF D
  <2>2. \A n, a, b : Turn(p, n, a, b) = [j \in Nat |-> IF IsLeaf(n) THEN n ELSE StepDel("avl", j, n, a, b)]
    BY DEF Turn, Base, Step
  <2>3. \A n, a, b : Turn(p, n, a, b) = [j \in Nat |-> IF IsLeaf(n) THEN n ELSE D(n, a, b, j)]
    BY <2>1, <2>2
  <2>4. QED
    BY <2>3 DEF D
<1>2. \A f, n : Turn(p, n, f[n.left], f[n.right]) = I(f, n)
  BY <1>1
<1>3. DoRemove(t, k) = (CHOOSE f : B(f))[t][k]
  BY DEF DoRemove
<1>4. Value(p, t) = (CHOOSE f : A(f))[t] /\ Value(p, t) = Value([op |-> "del", q |-> "avl"], t)
  BY DEF Value, Rec
<1> HIDE DEF I, p
<1>5. \A f : A(f) <=> B(f)
  BY <1>2
<1> HIDE DEF A, B
<1>6. (CHOOSE f : A(f)) = (CHOOSE f : B(f))
  BY <1>5
<1>7. QED
  BY <1>3, <1>4, <1>6 DEF Dels

LEMMA BsRemoveIs ==
  ASSUME NEW t, NEW k
  PROVE  BsRemove(t, k) = Dels("bst", t)[k]
<1> DEFINE p == [op |-> "del", q |-> "bst"]
           I(f, n) ==
             [j \in Nat |->
               IF IsLeaf(n) THEN n
               ELSE CASE j < n.key -> [n EXCEPT !.left = f[n.left][j]]
                      [] j > n.key -> [n EXCEPT !.right = f[n.right][j]]
                      [] OTHER ->
                           IF IsLeaf(n.left) THEN n.right
                           ELSE IF IsLeaf(n.right) THEN n.left
                           ELSE LET s == Successor(n) IN
                                [TakeKey(n, s) EXCEPT !.right = f[n.right][s.key]]]
           A(f) == f = [n \in Subtrees(t) |-> Turn(p, n, f[n.left], f[n.right])]
           B(f) == f = [n \in Subtrees(t) |-> I(f, n)]
<1>1. \A n, a, b : Turn(p, n, a, b) =
             [j \in Nat |->
               IF IsLeaf(n) THEN n
               ELSE CASE j < n.key -> [n EXCEPT !.left = a[j]]
                      [] j > n.key -> [n EXCEPT !.right = b[j]]
                      [] OTHER ->
                           IF IsLeaf(n.left) THEN n.right
                           ELSE IF IsLeaf(n.right) THEN n.left
                           ELSE LET s == Successor(n) IN
                                [TakeKey(n, s) EXCEPT !.right = b[s.key]]]
  BY DEF Turn, Base, Step, StepDel, Fix, Take, Successor
<1>2. \A f, n : Turn(p, n, f[n.left], f[n.right]) = I(f, n)
  BY <1>1
<1>3. BsRemove(t, k) = (CHOOSE f : B(f))[t][k]
  BY DEF BsRemove
<1>4. Value(p, t) = (CHOOSE f : A(f))[t] /\ Value(p, t) = Value([op |-> "del", q |-> "bst"], t)
  BY DEF Value, Rec
<1> HIDE DEF I, p
<1>5. \A f : A(f) <=> B(f)
  BY <1>2
<1> HIDE DEF A, B
<1>6. (CHOOSE f : A(f)) = (CHOOSE f : B(f))
  BY <1>5
<1>7. QED
  BY <1>3, <1>4, <1>6 DEF Dels

LEMMA RemoveFromIs ==
  ASSUME NEW t, NEW k
  PROVE  OM!RemoveFrom(t, k) = Dels("omap", t)[k]
<1> DEFINE p == [op |-> "del", q |-> "omap"]
           I(f, n) ==
             [j \in Nat |->
               IF OM!IsLeaf(n) THEN n
               ELSE CASE j < n.key -> OM!Rebalance([n EXCEPT !.left = f[n.left][j]])
                      [] j > n.key -> OM!Rebalance([n EXCEPT !.right = f[n.right][j]])
                      [] OTHER ->
                           IF OM!IsLeaf(n.left) THEN n.right
                           ELSE IF OM!IsLeaf(n.right) THEN n.left
                           ELSE LET s == OM!MinNode(n.right) IN
                                OM!Rebalance([OM!TakeOver(n, s) EXCEPT !.right = f[n.right][s.key]])]
           A(f) == f = [n \in Subtrees(t) |-> Turn(p, n, f[n.left], f[n.right])]
           B(f) == f = [n \in OM!Subtrees(t) |-> I(f, n)]
<1>1. \A n, a, b : Turn(p, n, a, b) =
             [j \in Nat |->
               IF OM!IsLeaf(n) THEN n
               ELSE CASE j < n.key -> OM!Rebalance([n EXCEPT !.left = a[j]])
                      [] j > n.key -> OM!Rebalance([n EXCEPT !.right = b[j]])
                      [] OTHER ->
                           IF OM!IsLeaf(n.left) THEN n.right
                           ELSE IF OM!IsLeaf(n.right) THEN n.left
                           ELSE LET s == OM!MinNode(n.right) IN
                                OM!Rebalance([OM!TakeOver(n, s) EXCEPT !.right = b[s.key]])]
  <2> DEFINE D(n, a, b, j) ==
                    CASE j < n.key -> OM!Rebalance([n EXCEPT !.left = a[j]])
                      [] j > n.key -> OM!Rebalance([n EXCEPT !.right = b[j]])
                      [] OTHER ->
                           IF OM!IsLeaf(n.left) THEN n.right
                           ELSE IF OM!IsLeaf(n.right) THEN n.left
                           ELSE LET s == OM!MinNode(n.right) IN
                                OM!Rebalance([OM!TakeOver(n, s) EXCEPT !.right = b[s.key]])
  <2>1. \A n, a, b, j : ~IsLeaf(n) => StepDel("omap", j, n, a, b) = D(n, a, b, j)
    BY SameTrees DEF StepDel, Fix, Take
  <2> HIDE DEF D
  <2>2. \A n, a, b : Turn(p, n, a, b) = [j \in Nat |-> IF IsLeaf(n) THEN n ELSE StepDel("omap", j, n, a, b)]
    BY DEF Turn, Base, Step
  <2>3. \A n, a, b : Turn(p, n, a, b) = [j \in Nat |-> IF OM!IsLeaf(n) THEN n ELSE D(n, a, b, j)]
    BY SameTrees, <2>1, <2>2
  <2>4. QED
    BY <2>3 DEF D
<1>2. \A f, n : Turn(p, n, f[n.left], f[n.right]) = I(f, n)
  BY <1>1
<1>3. OM!RemoveFrom(t, k) = (CHOOSE f : B(f))[t][k]
  BY DEF OM!RemoveFrom
<1>4. Value(p, t) = (CHOOSE f : A(f))[t] /\ Value(p, t) = Value([op |-> "del", q |-> "omap"], t)
  BY DEF Value, Rec
<1> HIDE DEF I, p
<1>5. \A f : A(f) <=> B(f)
  BY SameTrees, <1>2
<1> HIDE DEF A, B
<1>6. (CHOOSE f : A(f)) = (CHOOSE f : B(f))
  BY <1>5
<1>7. QED
  BY <1>3, <1>4, <1>6 DEF Dels

LEMMA SizeIs ==
  ASSUME NEW t
  PROVE  Size(t) = Value([op |-> "size"], t)
<1> DEFINE p == [op |-> "size"]
           I(f, n) ==
             IF IsLeaf(n) THEN 0 ELSE f[n.left] + 1 + f[n.right]
           A(f) == f = [n \in Subtrees(t) |-> Turn(p, n, f[n.left], f[n.right])]
           B(f) == f = [n \in Subtrees(t) |-> I(f, n)]
<1>1. \A n, a, b : Turn(p, n, a, b) =
             IF IsLeaf(n) THEN 0 ELSE a + 1 + b
  BY DEF Turn, Base, Step
<1>2. \A f, n : Turn(p, n, f[n.left], f[n.right]) = I(f, n)
  BY <1>1
<1>3. Size(t) = (CHOOSE f : B(f))[t]
  BY DEF Size
<1>4. Value(p, t) = (CHOOSE f : A(f))[t] /\ Value(p, t) = Value([op |-> "size"], t)
  BY DEF Value, Rec
<1> HIDE DEF I, p
<1>5. \A f : A(f) <=> B(f)
  BY <1>2
<1> HIDE DEF A, B
<1>6. (CHOOSE f : A(f)) = (CHOOSE f : B(f))
  BY <1>5
<1>7. QED
  BY <1>3, <1>4, <1>6

LEMMA HeightIs ==
  ASSUME NEW t
  PROVE  Height(t) = Value([op |-> "high"], t)
<1> DEFINE p == [op |-> "high"]
           I(f, n) ==
             IF IsLeaf(n) THEN 0 ELSE 1 + Higher(f[n.left], f[n.right])
           A(f) == f = [n \in Subtrees(t) |-> Turn(p, n, f[n.left], f[n.right])]
           B(f) == f = [n \in Subtrees(t) |-> I(f, n)]
<1>1. \A n, a, b : Turn(p, n, a, b) =
             IF IsLeaf(n) THEN 0 ELSE 1 + Higher(a, b)
  BY DEF Turn, Base, Step
<1>2. \A f, n : Turn(p, n, f[n.left], f[n.right]) = I(f, n)
  BY <1>1
<1>3. Height(t) = (CHOOSE f : B(f))[t]
  BY DEF Height
<1>4. Value(p, t) = (CHOOSE f : A(f))[t] /\ Value(p, t) = Value([op |-> "high"], t)
  BY DEF Value, Rec
<1> HIDE DEF I, p
<1>5. \A f : A(f) <=> B(f)
  BY <1>2
<1> HIDE DEF A, B
<1>6. (CHOOSE f : A(f)) = (CHOOSE f : B(f))
  BY <1>5
<1>7. QED
  BY <1>3, <1>4, <1>6

LEMMA FindIs ==
  ASSUME NEW t, NEW k
  PROVE  Find(t, k) = Value([op |-> "at", k |-> k], t)
<1> DEFINE p == [op |-> "at", k |-> k]
           I(f, n) ==
             IF IsLeaf(n) THEN n
             ELSE CASE k < n.key -> f[n.left]
                    [] k > n.key -> f[n.right]
                    [] OTHER     -> n
           A(f) == f = [n \in Subtrees(t) |-> Turn(p, n, f[n.left], f[n.right])]
           B(f) == f = [n \in Subtrees(t) |-> I(f, n)]
<1>1. \A n, a, b : Turn(p, n, a, b) =
             IF IsLeaf(n) THEN n
             ELSE CASE k < n.key -> a
                    [] k > n.key -> b
                    [] OTHER     -> n
  BY DEF Turn, Base, Step, StepAt
<1>2. \A f, n : Turn(p, n, f[n.left], f[n.right]) = I(f, n)
  BY <1>1
<1>3. Find(t, k) = (CHOOSE f : B(f))[t]
  BY DEF Find
<1>4. Value(p, t) = (CHOOSE f : A(f))[t] /\ Value(p, t) = Value([op |-> "at", k |-> k], t)
  BY DEF Value, Rec
<1> HIDE DEF I, p
<1>5. \A f : A(f) <=> B(f)
  BY <1>2
<1> HIDE DEF A, B
<1>6. (CHOOSE f : A(f)) = (CHOOSE f : B(f))
  BY <1>5
<1>7. QED
  BY <1>3, <1>4, <1>6

LEMMA MinIs ==
  ASSUME NEW t
  PROVE  MinNode(t) = Value([op |-> "least"], t)
<1> DEFINE p == [op |-> "least"]
           I(f, n) ==
             IF IsLeaf(n) \/ IsLeaf(n.left) THEN n ELSE f[n.left]
           A(f) == f = [n \in Subtrees(t) |-> Turn(p, n, f[n.left], f[n.right])]
           B(f) == f = [n \in Subtrees(t) |-> I(f, n)]
<1>1. \A n, a, b : Turn(p, n, a, b) =
             IF IsLeaf(n) \/ IsLeaf(n.left) THEN n ELSE a
  BY DEF Turn, Base, Step
<1>2. \A f, n : Turn(p, n, f[n.left], f[n.right]) = I(f, n)
  BY <1>1
<1>3. MinNode(t) = (CHOOSE f : B(f))[t]
  BY DEF MinNode
<1>4. Value(p, t) = (CHOOSE f : A(f))[t] /\ Value(p, t) = Value([op |-> "least"], t)
  BY DEF Value, Rec
<1> HIDE DEF I, p
<1>5. \A f : A(f) <=> B(f)
  BY <1>2
<1> HIDE DEF A, B
<1>6. (CHOOSE f : A(f)) = (CHOOSE f : B(f))
  BY <1>5
<1>7. QED
  BY <1>3, <1>4, <1>6

LEMMA MaxIs ==
  ASSUME NEW t
  PROVE  MaxNode(t) = Value([op |-> "most"], t)
<1> DEFINE p == [op |-> "most"]
           I(f, n) ==
             IF IsLeaf(n) \/ IsLeaf(n.right) THEN n ELSE f[n.right]
           A(f) == f = [n \in Subtrees(t) |-> Turn(p, n, f[n.left], f[n.right])]
           B(f) == f = [n \in Subtrees(t) |-> I(f, n)]
<1>1. \A n, a, b : Turn(p, n, a, b) =
             IF IsLeaf(n) \/ IsLeaf(n.right) THEN n ELSE b
  BY DEF Turn, Base, Step
<1>2. \A f, n : Turn(p, n, f[n.left], f[n.right]) = I(f, n)
  BY <1>1
<1>3. MaxNode(t) = (CHOOSE f : B(f))[t]
  BY DEF MaxNode
<1>4. Value(p, t) = (CHOOSE f : A(f))[t] /\ Value(p, t) = Value([op |-> "most"], t)
  BY DEF Value, Rec
<1> HIDE DEF I, p
<1>5. \A f : A(f) <=> B(f)
  BY <1>2
<1> HIDE DEF A, B
<1>6. (CHOOSE f : A(f)) = (CHOOSE f : B(f))
  BY <1>5
<1>7. QED
  BY <1>3, <1>4, <1>6

-----------------------------------------------------------------------------
(* What a tree of each kind is: search order at every node, and for those  *)
(* of avl.c and omap.c balance, by stored heights that are the true ones.  *)

Fields(q) == CASE q = "avl" -> {"key", "left", "right", "height"}
               [] q = "bst" -> {"key", "left", "right"}
               [] OTHER     -> {"key", "val", "left", "right", "height"}
Label(q, n)  == <<n.key, IF q = "omap" THEN n.val ELSE 0>>
Labels(q, t) == {Label(q, n) : n \in Nodes(t)}

Sorted(m)  == (\A k \in KeysOf(m.left) : k < m.key) /\ (\A k \in KeysOf(m.right) : k > m.key)
Root(q, m) == m.key \in Nat \ {0} /\ m = [f \in Fields(q) |-> m[f]] /\ Sorted(m)
HeightOK(m) == m.height = 1 + Higher(m.left.height, m.right.height)
Even(q, m) == q # "bst" => m.height \in Nat /\ HeightOK(m) /\ BalanceFactor(m) \in -1 .. 1
Fine(q, x) == IF IsLeaf(x) THEN x = LeafOf(q) ELSE Root(q, x) /\ Even(q, x)
Good(q, t) == Ends(t) /\ \A x \in Subtrees(t) : Fine(q, x)
(* A node whose subtrees are good, and that may itself be out of balance.  *)
Fit(q, m)  == Root(q, m) /\ Good(q, m.left) /\ Good(q, m.right)

LEMMA GoodLeaf ==
  ASSUME NEW q \in Kinds
  PROVE  /\ IsLeaf(LeafOf(q)) /\ Good(q, LeafOf(q)) /\ Labels(q, LeafOf(q)) = {}
         /\ KeysOf(LeafOf(q)) = {} /\ (q # "bst" => LeafOf(q).height = 0)
<1>1. IsLeaf(LeafOf(q)) /\ (q # "bst" => LeafOf(q).height = 0)
  BY DEF LeafOf, Leaf, BsLeaf, IsLeaf
<1>2. /\ Ends(LeafOf(q)) /\ Subtrees(LeafOf(q)) = {LeafOf(q)}
      /\ Nodes(LeafOf(q)) = {} /\ KeysOf(LeafOf(q)) = {}
  BY <1>1, LeafIs
<1>3. QED
  BY <1>1, <1>2 DEF Good, Fine, Labels

LEMMA GoodNode ==
  ASSUME NEW q, NEW t, ~IsLeaf(t)
  PROVE  Good(q, t) <=> Root(q, t) /\ Even(q, t) /\ Good(q, t.left) /\ Good(q, t.right)
<1>1. Ends(t) <=> Ends(t.left) /\ Ends(t.right)
  BY NodeEnds
<1>2. Ends(t) => Subtrees(t) = {t} \cup Subtrees(t.left) \cup Subtrees(t.right)
  BY NodeIs
<1>3. Fine(q, t) <=> Root(q, t) /\ Even(q, t)
  BY DEF Fine
<1>4. QED
  BY <1>1, <1>2, <1>3 DEF Good

LEMMA GoodIs ==
  ASSUME NEW q, NEW t, Good(q, t)
  PROVE  /\ Ends(t) /\ (IsLeaf(t) => t = LeafOf(q))
         /\ \A x \in Subtrees(t) : Good(q, x)
<1>1. Ends(t) /\ t \in Subtrees(t)
  BY SelfIn DEF Good
<1>2. ASSUME NEW x \in Subtrees(t) PROVE Good(q, x)
  BY <1>1, SubtreesClosed DEF Good, ClosedBelow
<1>3. QED
  BY <1>1, <1>2 DEF Good, Fine

LEMMA LabelsLeaf ==
  ASSUME NEW q, NEW t, IsLeaf(t)
  PROVE  Labels(q, t) = {} /\ KeysOf(t) = {}
BY LeafIs DEF Labels

LEMMA LabelsNode ==
  ASSUME NEW q, NEW t, ~IsLeaf(t), Ends(t)
  PROVE  Labels(q, t) = {Label(q, t)} \cup Labels(q, t.left) \cup Labels(q, t.right)
BY NodeIs DEF Labels

LEMMA LabelKeys ==
  ASSUME NEW q, NEW t
  PROVE  /\ KeysOf(t) = {l[1] : l \in Labels(q, t)}
         /\ \A n : Label(q, n)[1] = n.key
<1>1. \A n : Label(q, n)[1] = n.key
  BY DEF Label
<1>2. QED
  BY <1>1 DEF KeysOf, Labels

LEMMA GoodKeys ==
  ASSUME NEW q, NEW t, Good(q, t)
  PROVE  KeysOf(t) \subseteq Nat \ {0} /\ \A l \in Labels(q, t) : l[1] \in Nat \ {0}
<1>1. ASSUME NEW n \in Nodes(t) PROVE n.key \in Nat \ {0}
  BY <1>1 DEF Nodes, Good, Fine, Root
<1>2. KeysOf(t) \subseteq Nat \ {0}
  BY <1>1 DEF KeysOf
<1>3. QED
  BY <1>2, LabelKeys

LEMMA GoodHeight ==
  ASSUME NEW q \in Kinds, q # "bst", NEW t, Good(q, t)
  PROVE  t.height \in Nat /\ (IsLeaf(t) <=> t.height = 0)
<1>1. CASE IsLeaf(t)
  BY <1>1, GoodIs, GoodLeaf
<1>2. CASE ~IsLeaf(t)
  <2>1. /\ t.height \in Nat /\ t.height = 1 + Higher(t.left.height, t.right.height)
        /\ Good(q, t.left) /\ Good(q, t.right)
    BY <1>2, GoodNode DEF Even, HeightOK
  <2>2. \A s : Good(q, s) => s.height \in Nat
    <3>1. ASSUME NEW s, Good(q, s) PROVE s.height \in Nat
      <4>1. CASE IsLeaf(s)
        BY <3>1, <4>1, GoodIs, GoodLeaf
      <4>2. CASE ~IsLeaf(s)
        BY <3>1, <4>2, GoodNode DEF Even
      <4>3. QED
        BY <4>1, <4>2
    <3>2. QED
      BY <3>1
  <2>3. t.height # 0
    BY <2>1, <2>2 DEF Higher
  <2>4. QED
    BY <1>2, <2>1, <2>3
<1>3. QED
  BY <1>1, <1>2

(* What setting a field of a node keeps.                                   *)
LEMMA WithLeft ==
  ASSUME NEW q \in Kinds, NEW m, Root(q, m), NEW a, \A k \in KeysOf(a) : k < m.key
  PROVE  LET n == [m EXCEPT !.left = a] IN
         /\ Root(q, n) /\ ~IsLeaf(n) /\ n.left = a /\ n.right = m.right /\ n.key = m.key
         /\ Label(q, n) = Label(q, m)
<1> DEFINE n == [m EXCEPT !.left = a]
<1>1. DOMAIN m = Fields(q) /\ {"key", "left", "right"} \subseteq Fields(q) /\ (q = "omap" => "val" \in Fields(q))
  BY DEF Root, Fields
<1>2. /\ n.left = a /\ n.right = m.right /\ n.key = m.key /\ (q = "omap" => n.val = m.val)
      /\ n = [f \in Fields(q) |-> n[f]]
  BY <1>1
<1> HIDE DEF n
<1>3. Sorted(n)
  BY <1>2 DEF Sorted, Root
<1>4. QED
  BY <1>2, <1>3 DEF Root, Label, IsLeaf, n

LEMMA WithRight ==
  ASSUME NEW q \in Kinds, NEW m, Root(q, m), NEW b, \A k \in KeysOf(b) : k > m.key
  PROVE  LET n == [m EXCEPT !.right = b] IN
         /\ Root(q, n) /\ ~IsLeaf(n) /\ n.left = m.left /\ n.right = b /\ n.key = m.key
         /\ Label(q, n) = Label(q, m)
<1> DEFINE n == [m EXCEPT !.right = b]
<1>1. DOMAIN m = Fields(q) /\ {"key", "left", "right"} \subseteq Fields(q) /\ (q = "omap" => "val" \in Fields(q))
  BY DEF Root, Fields
<1>2. /\ n.left = m.left /\ n.right = b /\ n.key = m.key /\ (q = "omap" => n.val = m.val)
      /\ n = [f \in Fields(q) |-> n[f]]
  BY <1>1
<1> HIDE DEF n
<1>3. Sorted(n)
  BY <1>2 DEF Sorted, Root
<1>4. QED
  BY <1>2, <1>3 DEF Root, Label, IsLeaf, n

LEMMA WithHeight ==
  ASSUME NEW q \in Kinds, q # "bst", NEW m, Root(q, m)
  PROVE  LET n == UpdateHeight(m) IN
         /\ Root(q, n) /\ ~IsLeaf(n) /\ n.left = m.left /\ n.right = m.right /\ n.key = m.key
         /\ Label(q, n) = Label(q, m) /\ HeightOK(n)
<1> DEFINE n == UpdateHeight(m)
<1>1. DOMAIN m = Fields(q) /\ {"key", "left", "right", "height"} \subseteq Fields(q) /\ (q = "omap" => "val" \in Fields(q))
  BY DEF Root, Fields, Kinds
<1>2. /\ n.left = m.left /\ n.right = m.right /\ n.key = m.key /\ (q = "omap" => n.val = m.val)
      /\ n.height = 1 + Higher(m.left.height, m.right.height)
      /\ n = [f \in Fields(q) |-> n[f]]
  BY <1>1 DEF UpdateHeight
<1> HIDE DEF n
<1>3. Sorted(n) /\ HeightOK(n)
  BY <1>2 DEF Sorted, Root, HeightOK
<1>4. QED
  BY <1>2, <1>3 DEF Root, Label, IsLeaf, n

-----------------------------------------------------------------------------
(* Rotations and rebalance keep the labels and the search order.           *)

LEMMA GoodHeights ==
  ASSUME NEW q \in Kinds, q # "bst", NEW t, Good(q, t), ~IsLeaf(t)
  PROVE  /\ Fit(q, t) /\ t.height \in Nat /\ t.left.height \in Nat /\ t.right.height \in Nat
         /\ t.height = 1 + Higher(t.left.height, t.right.height)
         /\ t.left.height - t.right.height \in -1 .. 1
<1>1. Root(q, t) /\ Even(q, t) /\ Good(q, t.left) /\ Good(q, t.right)
  BY GoodNode
<1>2. t.height \in Nat /\ t.left.height \in Nat /\ t.right.height \in Nat
  BY <1>1, GoodHeight
<1>3. QED
  BY <1>1, <1>2 DEF Fit, Even, HeightOK, BalanceFactor

LEMMA FitIs ==
  ASSUME NEW q, NEW m, Fit(q, m)
  PROVE  /\ ~IsLeaf(m) /\ Ends(m)
         /\ KeysOf(m) = {m.key} \cup KeysOf(m.left) \cup KeysOf(m.right)
         /\ Labels(q, m) = {Label(q, m)} \cup Labels(q, m.left) \cup Labels(q, m.right)
<1>1. ~IsLeaf(m) /\ Ends(m.left) /\ Ends(m.right)
  BY DEF Fit, Root, IsLeaf, Good
<1>2. Ends(m)
  BY <1>1, NodeEnds
<1>3. QED
  BY <1>1, <1>2, NodeIs, LabelsNode

(* An updated node over good subtrees of nearly one height is good.        *)
LEMMA GoodMade ==
  ASSUME NEW q \in Kinds, q # "bst", NEW n, Fit(q, n), HeightOK(n),
         n.left.height - n.right.height \in -1 .. 1
  PROVE  Good(q, n) /\ n.height = 1 + Higher(n.left.height, n.right.height)
<1>1. ~IsLeaf(n) /\ n.left.height \in Nat /\ n.right.height \in Nat
  BY FitIs, GoodHeight DEF Fit
<1>2. n.height \in Nat /\ BalanceFactor(n) \in -1 .. 1
  BY <1>1 DEF HeightOK, Higher, BalanceFactor
<1>3. QED
  BY <1>1, <1>2, GoodNode DEF Fit, Even, HeightOK

LEMMA RotateRightIs ==
  ASSUME NEW q \in Kinds, q # "bst", NEW y, Root(q, y), Fit(q, y.left), Good(q, y.right),
         y.left.right.height - y.right.height \in -1 .. 1
  PROVE  LET r == RotateRight(y) IN
         /\ Fit(q, r) /\ HeightOK(r) /\ r.left = y.left.left
         /\ r.right.height = 1 + Higher(y.left.right.height, y.right.height)
         /\ Labels(q, r) = Labels(q, y)
<1> DEFINE x  == y.left
           y1 == [y EXCEPT !.left = x.right]
           y2 == UpdateHeight(y1)
           x1 == [x EXCEPT !.right = y2]
           r  == UpdateHeight(x1)
<1>1. RotateRight(y) = r
  BY DEF RotateRight
<1>2. /\ ~IsLeaf(x) /\ Ends(x) /\ Root(q, x) /\ Good(q, x.left) /\ Good(q, x.right)
      /\ KeysOf(x) = {x.key} \cup KeysOf(x.left) \cup KeysOf(x.right)
      /\ Labels(q, x) = {Label(q, x)} \cup Labels(q, x.left) \cup Labels(q, x.right)
  BY FitIs DEF Fit
<1>3. (\A k \in KeysOf(x) : k < y.key) /\ (\A k \in KeysOf(y.right) : k > y.key)
  BY DEF Root, Sorted
<1>4. Root(q, y1) /\ y1.left = x.right /\ y1.right = y.right /\ y1.key = y.key /\ Label(q, y1) = Label(q, y)
  BY <1>2, <1>3, WithLeft
<1> HIDE DEF y1
<1>5. /\ Root(q, y2) /\ y2.left = x.right /\ y2.right = y.right /\ y2.key = y.key
      /\ Label(q, y2) = Label(q, y) /\ HeightOK(y2)
  BY <1>4, WithHeight
<1> HIDE DEF y2
<1>6. Good(q, y2) /\ y2.height = 1 + Higher(x.right.height, y.right.height)
  BY <1>2, <1>5, GoodMade DEF Fit
<1>7. /\ KeysOf(y2) = {y.key} \cup KeysOf(x.right) \cup KeysOf(y.right)
      /\ Labels(q, y2) = {Label(q, y)} \cup Labels(q, x.right) \cup Labels(q, y.right)
  BY <1>2, <1>5, FitIs DEF Fit
<1>8. \A k \in KeysOf(y2) : k > x.key
  <2>1. x.key \in Nat /\ y.key \in Nat /\ KeysOf(y.right) \subseteq Nat /\ x.key < y.key
    BY <1>2, <1>3, GoodKeys DEF Root
  <2>2. \A k \in KeysOf(x.right) : k > x.key
    BY <1>2 DEF Root, Sorted
  <2>3. \A k \in KeysOf(y.right) : k > x.key
    BY <1>3, <2>1
  <2>4. QED
    BY <1>7, <2>1, <2>2, <2>3
<1>9. Root(q, x1) /\ x1.left = x.left /\ x1.right = y2 /\ Label(q, x1) = Label(q, x)
  BY <1>2, <1>8, WithRight
<1> HIDE DEF x1
<1>10. Root(q, r) /\ r.left = x.left /\ r.right = y2 /\ Label(q, r) = Label(q, x) /\ HeightOK(r)
  BY <1>9, WithHeight
<1> HIDE DEF r
<1>11. Fit(q, r) /\ Labels(q, r) = {Label(q, x)} \cup Labels(q, x.left) \cup Labels(q, y2)
  BY <1>2, <1>6, <1>10, FitIs DEF Fit
<1>12. Labels(q, y) = {Label(q, y)} \cup Labels(q, x) \cup Labels(q, y.right)
  <2>1. ~IsLeaf(y) /\ Ends(y)
    BY <1>2, NodeEnds DEF Root, IsLeaf, Good
  <2>2. QED
    BY <2>1, LabelsNode
<1>13. Labels(q, r) = Labels(q, y)
  BY <1>2, <1>7, <1>11, <1>12
<1>14. QED
  BY <1>1, <1>6, <1>10, <1>11, <1>13

LEMMA RotateLeftIs ==
  ASSUME NEW q \in Kinds, q # "bst", NEW y, Root(q, y), Fit(q, y.right), Good(q, y.left),
         y.left.height - y.right.left.height \in -1 .. 1
  PROVE  LET r == RotateLeft(y) IN
         /\ Fit(q, r) /\ HeightOK(r) /\ r.right = y.right.right
         /\ r.left.height = 1 + Higher(y.left.height, y.right.left.height)
         /\ Labels(q, r) = Labels(q, y)
<1> DEFINE x  == y.right
           y1 == [y EXCEPT !.right = x.left]
           y2 == UpdateHeight(y1)
           x1 == [x EXCEPT !.left = y2]
           r  == UpdateHeight(x1)
<1>1. RotateLeft(y) = r
  BY DEF RotateLeft
<1>2. /\ ~IsLeaf(x) /\ Ends(x) /\ Root(q, x) /\ Good(q, x.left) /\ Good(q, x.right)
      /\ KeysOf(x) = {x.key} \cup KeysOf(x.left) \cup KeysOf(x.right)
      /\ Labels(q, x) = {Label(q, x)} \cup Labels(q, x.left) \cup Labels(q, x.right)
  BY FitIs DEF Fit
<1>3. (\A k \in KeysOf(x) : k > y.key) /\ (\A k \in KeysOf(y.left) : k < y.key)
  BY DEF Root, Sorted
<1>4. Root(q, y1) /\ y1.left = y.left /\ y1.right = x.left /\ y1.key = y.key /\ Label(q, y1) = Label(q, y)
  BY <1>2, <1>3, WithRight
<1> HIDE DEF y1
<1>5. /\ Root(q, y2) /\ y2.left = y.left /\ y2.right = x.left /\ y2.key = y.key
      /\ Label(q, y2) = Label(q, y) /\ HeightOK(y2)
  BY <1>4, WithHeight
<1> HIDE DEF y2
<1>6. Good(q, y2) /\ y2.height = 1 + Higher(y.left.height, x.left.height)
  BY <1>2, <1>5, GoodMade DEF Fit
<1>7. /\ KeysOf(y2) = {y.key} \cup KeysOf(y.left) \cup KeysOf(x.left)
      /\ Labels(q, y2) = {Label(q, y)} \cup Labels(q, y.left) \cup Labels(q, x.left)
  BY <1>2, <1>5, FitIs DEF Fit
<1>8. \A k \in KeysOf(y2) : k < x.key
  <2>1. x.key \in Nat /\ y.key \in Nat /\ KeysOf(y.left) \subseteq Nat /\ y.key < x.key
    BY <1>2, <1>3, GoodKeys DEF Root
  <2>2. \A k \in KeysOf(x.left) : k < x.key
    BY <1>2 DEF Root, Sorted
  <2>3. \A k \in KeysOf(y.left) : k < x.key
    BY <1>3, <2>1
  <2>4. QED
    BY <1>7, <2>1, <2>2, <2>3
<1>9. Root(q, x1) /\ x1.left = y2 /\ x1.right = x.right /\ Label(q, x1) = Label(q, x)
  BY <1>2, <1>8, WithLeft
<1> HIDE DEF x1
<1>10. Root(q, r) /\ r.left = y2 /\ r.right = x.right /\ Label(q, r) = Label(q, x) /\ HeightOK(r)
  BY <1>9, WithHeight
<1> HIDE DEF r
<1>11. Fit(q, r) /\ Labels(q, r) = {Label(q, x)} \cup Labels(q, y2) \cup Labels(q, x.right)
  BY <1>2, <1>6, <1>10, FitIs DEF Fit
<1>12. Labels(q, y) = {Label(q, y)} \cup Labels(q, y.left) \cup Labels(q, x)
  <2>1. ~IsLeaf(y) /\ Ends(y)
    BY <1>2, NodeEnds DEF Root, IsLeaf, Good
  <2>2. QED
    BY <2>1, LabelsNode
<1>13. Labels(q, r) = Labels(q, y)
  BY <1>2, <1>7, <1>11, <1>12
<1>14. QED
  BY <1>1, <1>6, <1>10, <1>11, <1>13

LEMMA SameKeys ==
  ASSUME NEW q, NEW a, NEW b, Labels(q, a) = Labels(q, b)
  PROVE  KeysOf(a) = KeysOf(b)
BY LabelKeys

(* A node whose subtrees differ by two heights at most is made good, and   *)
(* loses at most one of its height, none if they differ by less.           *)
LEMMA RebalanceIs ==
  ASSUME NEW q \in Kinds, q # "bst", NEW m, Fit(q, m),
         m.left.height - m.right.height \in -2 .. 2
  PROVE  LET r == Rebalance(m)
             h == 1 + Higher(m.left.height, m.right.height) IN
         /\ Good(q, r) /\ ~IsLeaf(r) /\ Labels(q, r) = Labels(q, m) /\ r.height \in {h - 1, h}
         /\ m.left.height - m.right.height \in -1 .. 1 => r.height = h
<1> DEFINE n == UpdateHeight(m)
           a == m.left.height
           b == m.right.height
           R == Rebalance(m)
<1>1. /\ Root(q, n) /\ n.left = m.left /\ n.right = m.right /\ n.key = m.key
      /\ Label(q, n) = Label(q, m) /\ HeightOK(n)
  BY WithHeight DEF Fit
<1>2. Fit(q, n) /\ Good(q, n.left) /\ Good(q, n.right)
  BY <1>1 DEF Fit
<1>3. Labels(q, n) = Labels(q, m)
  <2>1. Labels(q, n) = {Label(q, n)} \cup Labels(q, n.left) \cup Labels(q, n.right)
    BY <1>2, FitIs
  <2>2. Labels(q, m) = {Label(q, m)} \cup Labels(q, m.left) \cup Labels(q, m.right)
    BY FitIs
  <2>3. QED
    BY <1>1, <2>1, <2>2
<1>4. a \in Nat /\ b \in Nat /\ BalanceFactor(n) = a - b
  BY <1>1, <1>2, GoodHeight DEF BalanceFactor
<1>5. R = CASE a - b > 1 /\ BalanceFactor(n.left) >= 0 -> RotateRight(n)
            [] a - b > 1 /\ BalanceFactor(n.left) < 0 -> RotateRight([n EXCEPT !.left = RotateLeft(n.left)])
            [] a - b < -1 /\ BalanceFactor(n.right) <= 0 -> RotateLeft(n)
            [] a - b < -1 /\ BalanceFactor(n.right) > 0 -> RotateLeft([n EXCEPT !.right = RotateRight(n.right)])
            [] OTHER -> n
  BY <1>4 DEF Rebalance
<1> HIDE DEF n, R
<1>6. SUFFICES /\ Fit(q, R) /\ HeightOK(R) /\ R.left.height - R.right.height \in -1 .. 1
               /\ Labels(q, R) = Labels(q, m)
               /\ 1 + Higher(R.left.height, R.right.height) \in {Higher(a, b), 1 + Higher(a, b)}
               /\ a - b \in -1 .. 1 => 1 + Higher(R.left.height, R.right.height) = 1 + Higher(a, b)
  <2>1. Good(q, R) /\ R.height = 1 + Higher(R.left.height, R.right.height) /\ ~IsLeaf(R)
    BY <1>6, GoodMade, FitIs
  <2>2. (1 + Higher(a, b)) - 1 = Higher(a, b)
    BY <1>4 DEF Higher
  <2>3. QED
    BY <1>6, <2>1, <2>2 DEF R
<1>7. CASE a - b \in -1 .. 1
  <2>1. R = n
    BY <1>4, <1>5, <1>7
  <2>2. QED
    BY <1>1, <1>2, <1>3, <1>7, <2>1
<1>8. CASE a - b = 2
  <2> DEFINE l == n.left
             c == l.left.height
             d == l.right.height
  <2>1. ~IsLeaf(l) /\ Good(q, l) /\ l.height = a /\ n.right.height = b
    BY <1>1, <1>2, <1>4, <1>8, GoodHeight
  <2>2. /\ Fit(q, l) /\ c \in Nat /\ d \in Nat /\ a = 1 + Higher(c, d) /\ c - d \in -1 .. 1
        /\ BalanceFactor(l) = c - d
    BY <2>1, GoodHeights DEF BalanceFactor
  <2> HIDE DEF l, c, d
  <2>3. CASE c - d >= 0
    <3>1. R = RotateRight(n)
      BY <1>5, <1>8, <2>2, <2>3 DEF l
    <3>2. d - b \in -1 .. 1 /\ c = a - 1 /\ 1 + Higher(d, b) - c \in -1 .. 1
      <4>1. c = a - 1 /\ b = c - 1 /\ (d = c \/ d = c - 1)
        BY <1>4, <1>8, <2>2, <2>3 DEF Higher
      <4>2. QED
        BY <2>2, <4>1 DEF Higher
    <3>3. /\ Fit(q, R) /\ HeightOK(R) /\ R.left.height = c /\ R.right.height = 1 + Higher(d, b)
          /\ Labels(q, R) = Labels(q, n)
      BY <1>1, <1>2, <2>1, <2>2, <3>1, <3>2, RotateRightIs DEF l, c, d
    <3>4. QED
      BY <1>3, <1>4, <1>8, <2>2, <2>3, <3>2, <3>3 DEF Higher
  <2>4. CASE c - d < 0
    <3> DEFINE k  == RotateLeft(l)
               nn == [n EXCEPT !.left = k]
               e  == l.right.left.height
               f  == l.right.right.height
    <3>1. R = RotateRight(nn)
      BY <1>5, <1>8, <2>2, <2>4 DEF l
    <3>2. d = c + 1 /\ a = d + 1 /\ b = c /\ d # 0
      BY <1>4, <1>8, <2>2, <2>4 DEF Higher
    <3>3. Root(q, l) /\ Good(q, l.left) /\ Good(q, l.right) /\ ~IsLeaf(l.right)
      BY <2>2, <3>2, GoodHeight DEF Fit, d
    <3>4. Fit(q, l.right) /\ e \in Nat /\ f \in Nat /\ d = 1 + Higher(e, f) /\ e - f \in -1 .. 1
      BY <3>3, GoodHeights DEF d
    <3> HIDE DEF e, f, k
    <3>5. c - e \in -1 .. 1 /\ f - b \in -1 .. 1 /\ 1 + Higher(c, e) = d /\ 1 + Higher(f, b) = d
      BY <2>2, <3>2, <3>4 DEF Higher
    <3>6. /\ Fit(q, k) /\ k.right.height = f /\ k.left.height = d /\ Labels(q, k) = Labels(q, l)
      BY <3>3, <3>4, <3>5, RotateLeftIs DEF k, c, e, f
    <3>7. \A j \in KeysOf(k) : j < n.key
      <4>1. KeysOf(k) = KeysOf(l)
        BY <3>6, SameKeys
      <4>2. QED
        BY <1>1, <4>1 DEF Root, Sorted, l
    <3>8. /\ Root(q, nn) /\ nn.left = k /\ nn.right = n.right /\ nn.key = n.key
          /\ Label(q, nn) = Label(q, n) /\ ~IsLeaf(nn)
      BY <1>1, <3>7, WithLeft
    <3> HIDE DEF nn
    <3>9. /\ Fit(q, R) /\ HeightOK(R) /\ R.left = k.left /\ R.right.height = d
          /\ Labels(q, R) = Labels(q, nn)
      BY <1>2, <2>1, <3>1, <3>5, <3>6, <3>8, RotateRightIs
    <3>10. Labels(q, nn) = Labels(q, n)
      <4>1. Ends(nn)
        BY <1>2, <3>6, <3>8, FitIs, NodeEnds DEF Good
      <4>2. Labels(q, nn) = {Label(q, nn)} \cup Labels(q, k) \cup Labels(q, n.right)
        BY <3>8, <4>1, LabelsNode
      <4>3. QED
        BY <1>2, <3>6, <3>8, <4>2, FitIs DEF l
    <3>11. QED
      BY <1>3, <1>4, <1>8, <2>2, <3>2, <3>6, <3>9, <3>10 DEF Higher
  <2>5. QED
    BY <2>2, <2>3, <2>4
<1>9. CASE a - b = -2
  <2> DEFINE l == n.right
             c == l.right.height
             d == l.left.height
  <2>1. ~IsLeaf(l) /\ Good(q, l) /\ l.height = b /\ n.left.height = a
    BY <1>1, <1>2, <1>4, <1>9, GoodHeight
  <2>2. /\ Fit(q, l) /\ c \in Nat /\ d \in Nat /\ b = 1 + Higher(d, c) /\ d - c \in -1 .. 1
        /\ BalanceFactor(l) = d - c
    BY <2>1, GoodHeights DEF BalanceFactor
  <2> HIDE DEF l, c, d
  <2>3. CASE d - c <= 0
    <3>1. R = RotateLeft(n)
      BY <1>5, <1>9, <2>2, <2>3 DEF l
    <3>2. a - d \in -1 .. 1 /\ c = b - 1 /\ 1 + Higher(a, d) - c \in -1 .. 1
      BY <1>4, <1>9, <2>2, <2>3 DEF Higher
    <3>3. /\ Fit(q, R) /\ HeightOK(R) /\ R.right.height = c /\ R.left.height = 1 + Higher(a, d)
          /\ Labels(q, R) = Labels(q, n)
      BY <1>1, <1>2, <2>1, <2>2, <3>1, <3>2, RotateLeftIs DEF l, c, d
    <3>4. QED
      BY <1>3, <1>4, <1>9, <2>2, <2>3, <3>2, <3>3 DEF Higher
  <2>4. CASE d - c > 0
    <3> DEFINE k  == RotateRight(l)
               nn == [n EXCEPT !.right = k]
               e  == l.left.right.height
               f  == l.left.left.height
    <3>1. R = RotateLeft(nn)
      BY <1>5, <1>9, <2>2, <2>4 DEF l
    <3>2. d = c + 1 /\ b = d + 1 /\ a = c /\ d # 0
      BY <1>4, <1>9, <2>2, <2>4 DEF Higher
    <3>3. Root(q, l) /\ Good(q, l.left) /\ Good(q, l.right) /\ ~IsLeaf(l.left)
      BY <2>2, <3>2, GoodHeight DEF Fit, d
    <3>4. Fit(q, l.left) /\ e \in Nat /\ f \in Nat /\ d = 1 + Higher(f, e) /\ f - e \in -1 .. 1
      BY <3>3, GoodHeights DEF d
    <3> HIDE DEF e, f, k
    <3>5. e - c \in -1 .. 1 /\ a - f \in -1 .. 1 /\ 1 + Higher(e, c) = d /\ 1 + Higher(a, f) = d
      BY <2>2, <3>2, <3>4 DEF Higher
    <3>6. /\ Fit(q, k) /\ k.left.height = f /\ k.right.height = d /\ Labels(q, k) = Labels(q, l)
      BY <3>3, <3>4, <3>5, RotateRightIs DEF k, c, e, f
    <3>7. \A j \in KeysOf(k) : j > n.key
      <4>1. KeysOf(k) = KeysOf(l)
        BY <3>6, SameKeys
      <4>2. QED
        BY <1>1, <4>1 DEF Root, Sorted, l
    <3>8. /\ Root(q, nn) /\ nn.right = k /\ nn.left = n.left /\ nn.key = n.key
          /\ Label(q, nn) = Label(q, n) /\ ~IsLeaf(nn)
      BY <1>1, <3>7, WithRight
    <3> HIDE DEF nn
    <3>9. /\ Fit(q, R) /\ HeightOK(R) /\ R.right = k.right /\ R.left.height = d
          /\ Labels(q, R) = Labels(q, nn)
      BY <1>2, <2>1, <3>1, <3>5, <3>6, <3>8, RotateLeftIs
    <3>10. Labels(q, nn) = Labels(q, n)
      <4>1. Ends(nn)
        BY <1>2, <3>6, <3>8, FitIs, NodeEnds DEF Good
      <4>2. Labels(q, nn) = {Label(q, nn)} \cup Labels(q, n.left) \cup Labels(q, k)
        BY <3>8, <4>1, LabelsNode
      <4>3. QED
        BY <1>2, <3>6, <3>8, <4>2, FitIs DEF l
    <3>11. QED
      BY <1>3, <1>4, <1>9, <2>2, <3>2, <3>6, <3>9, <3>10 DEF Higher
  <2>5. QED
    BY <2>2, <2>3, <2>4
<1>10. QED
  BY <1>4, <1>7, <1>8, <1>9

-----------------------------------------------------------------------------
(* The descents: what find, the least and the greatest node are, and what  *)
(* size and height count.                                                  *)

LEMMA FindDown ==
  ASSUME NEW t, Ends(t), NEW k
  PROVE  Find(t, k) = IF IsLeaf(t) THEN t ELSE StepAt(k, t, Find(t.left, k), Find(t.right, k))
<1> DEFINE p == [op |-> "at", k |-> k]
<1>1. \A n, a, b : Turn(p, n, a, b) = IF IsLeaf(n) THEN n ELSE StepAt(k, n, a, b)
  BY DEF Turn, Base, Step
<1>2. \A x : Find(x, k) = Value(p, x)
  BY FindIs
<1> HIDE DEF p
<1>3. QED
  BY <1>1, <1>2, ValueIs

LEMMA MinDown ==
  ASSUME NEW t, Ends(t)
  PROVE  MinNode(t) = IF IsLeaf(t) \/ IsLeaf(t.left) THEN t ELSE MinNode(t.left)
<1> DEFINE p == [op |-> "least"]
<1>1. \A n, a, b : Turn(p, n, a, b) = IF IsLeaf(n) \/ IsLeaf(n.left) THEN n ELSE a
  BY DEF Turn, Base, Step
<1>2. \A x : MinNode(x) = Value(p, x)
  BY MinIs
<1> HIDE DEF p
<1>3. QED
  BY <1>1, <1>2, ValueIs

LEMMA MaxDown ==
  ASSUME NEW t, Ends(t)
  PROVE  MaxNode(t) = IF IsLeaf(t) \/ IsLeaf(t.right) THEN t ELSE MaxNode(t.right)
<1> DEFINE p == [op |-> "most"]
<1>1. \A n, a, b : Turn(p, n, a, b) = IF IsLeaf(n) \/ IsLeaf(n.right) THEN n ELSE b
  BY DEF Turn, Base, Step
<1>2. \A x : MaxNode(x) = Value(p, x)
  BY MaxIs
<1> HIDE DEF p
<1>3. QED
  BY <1>1, <1>2, ValueIs

LEMMA SizeDown ==
  ASSUME NEW t, Ends(t)
  PROVE  Size(t) = IF IsLeaf(t) THEN 0 ELSE Size(t.left) + 1 + Size(t.right)
<1> DEFINE p == [op |-> "size"]
<1>1. \A n, a, b : Turn(p, n, a, b) = IF IsLeaf(n) THEN 0 ELSE a + 1 + b
  BY DEF Turn, Base, Step
<1>2. \A x : Size(x) = Value(p, x)
  BY SizeIs
<1> HIDE DEF p
<1>3. QED
  BY <1>1, <1>2, ValueIs

LEMMA HeightDown ==
  ASSUME NEW t, Ends(t)
  PROVE  Height(t) = IF IsLeaf(t) THEN 0 ELSE 1 + Higher(Height(t.left), Height(t.right))
<1> DEFINE p == [op |-> "high"]
<1>1. \A n, a, b : Turn(p, n, a, b) = IF IsLeaf(n) THEN 0 ELSE 1 + Higher(a, b)
  BY DEF Turn, Base, Step
<1>2. \A x : Height(x) = Value(p, x)
  BY HeightIs
<1> HIDE DEF p
<1>3. QED
  BY <1>1, <1>2, ValueIs

(* Induction over a good tree.                                             *)
LEMMA GoodInduct ==
  ASSUME NEW q, NEW t, Good(q, t), NEW G,
         \A x \in Subtrees(t) : Good(q, x) /\ IsLeaf(x) => x \in G,
         \A x \in Subtrees(t) : Good(q, x) /\ ~IsLeaf(x) /\ x.left \in G /\ x.right \in G => x \in G
  PROVE  t \in G
<1>1. ClosedBelow(Subtrees(t)) /\ t \in Subtrees(t) /\ \A x \in Subtrees(t) : Good(q, x)
  BY GoodIs, SubtreesClosed, SelfIn
<1>2. \A x \in Subtrees(t) : x \in G
  BY <1>1, TreeInduct
<1>3. QED
  BY <1>1, <1>2

LEMMA SplitNode ==
  ASSUME NEW q, NEW m, Fit(q, m)
  PROVE  /\ \A l \in Labels(q, m.left) : l[1] \in Nat /\ l[1] < m.key
         /\ \A l \in Labels(q, m.right) : l[1] \in Nat /\ l[1] > m.key
         /\ Label(q, m)[1] = m.key /\ m.key \in Nat \ {0}
<1>1. \A l \in Labels(q, m.left) : l[1] \in KeysOf(m.left)
  BY LabelKeys
<1>2. \A l \in Labels(q, m.right) : l[1] \in KeysOf(m.right)
  BY LabelKeys
<1>3. QED
  BY <1>1, <1>2, GoodKeys, LabelKeys DEF Fit, Root, Sorted

LEMMA GoodFit ==
  ASSUME NEW q, NEW t, Good(q, t), ~IsLeaf(t)
  PROVE  Fit(q, t)
BY GoodNode DEF Fit

LEMMA FindIn ==
  ASSUME NEW q, NEW t, Good(q, t), NEW k \in Nat
  PROVE  /\ IsLeaf(Find(t, k)) <=> k \notin KeysOf(t)
         /\ \A l \in Labels(q, t) : l[1] = k => Label(q, Find(t, k)) = l
<1> DEFINE P(x) == /\ IsLeaf(Find(x, k)) <=> \A l \in Labels(q, x) : l[1] # k
                   /\ \A l \in Labels(q, x) : l[1] = k => Label(q, Find(x, k)) = l
           G == {x \in Subtrees(t) : P(x)}
<1>1. ASSUME NEW x \in Subtrees(t), Good(q, x), IsLeaf(x) PROVE x \in G
  BY <1>1, FindDown, LabelsLeaf, GoodIs
<1>2. ASSUME NEW x \in Subtrees(t), Good(q, x), ~IsLeaf(x), x.left \in G, x.right \in G PROVE x \in G
  <2>1. Fit(q, x) /\ P(x.left) /\ P(x.right)
    BY <1>2, GoodFit
  <2>2. Labels(q, x) = {Label(q, x)} \cup Labels(q, x.left) \cup Labels(q, x.right)
    BY <2>1, FitIs
  <2>3. /\ \A l \in Labels(q, x.left) : l[1] \in Nat /\ l[1] < x.key
        /\ \A l \in Labels(q, x.right) : l[1] \in Nat /\ l[1] > x.key
        /\ Label(q, x)[1] = x.key /\ x.key \in Nat \ {0}
    BY <2>1, SplitNode
  <2>4. Find(x, k) = StepAt(k, x, Find(x.left, k), Find(x.right, k))
    BY <1>2, FindDown, GoodIs
  <2>5. CASE k < x.key
    <3>1. Find(x, k) = Find(x.left, k) /\ x.key # k /\ \A l \in Labels(q, x.right) : l[1] # k
      BY <2>3, <2>4, <2>5 DEF StepAt
    <3>2. QED
      BY <2>1, <2>2, <2>3, <3>1
  <2>6. CASE k > x.key
    <3>1. Find(x, k) = Find(x.right, k) /\ x.key # k /\ \A l \in Labels(q, x.left) : l[1] # k
      BY <2>3, <2>4, <2>6 DEF StepAt
    <3>2. QED
      BY <2>1, <2>2, <2>3, <3>1
  <2>7. CASE k = x.key
    <3>1. Find(x, k) = x /\ \A l \in Labels(q, x.left) \cup Labels(q, x.right) : l[1] # k
      BY <2>3, <2>4, <2>7 DEF StepAt
    <3>2. QED
      BY <1>2, <2>2, <2>3, <2>7, <3>1
  <2>8. QED
    BY <2>3, <2>5, <2>6, <2>7
<1> HIDE DEF G
<1>3. t \in G
  BY <1>1, <1>2, GoodInduct
<1>4. P(t)
  BY <1>3 DEF G
<1>5. KeysOf(t) = {l[1] : l \in Labels(q, t)}
  BY LabelKeys
<1>6. k \notin KeysOf(t) <=> \A l \in Labels(q, t) : l[1] # k
  BY <1>5
<1>7. QED
  BY <1>4, <1>6

LEMMA MinIn ==
  ASSUME NEW q, NEW t, Good(q, t), ~IsLeaf(t)
  PROVE  MinNode(t) \in Nodes(t) /\ \A k \in KeysOf(t) : MinNode(t).key <= k
<1> DEFINE G == {x \in Subtrees(t) : ~IsLeaf(x) =>
                   MinNode(x) \in Nodes(x) /\ \A k \in KeysOf(x) : MinNode(x).key <= k}
<1>1. ASSUME NEW x \in Subtrees(t), Good(q, x), ~IsLeaf(x), x.left \in G PROVE x \in G
  <2>1. /\ Fit(q, x) /\ Ends(x) /\ KeysOf(x) = {x.key} \cup KeysOf(x.left) \cup KeysOf(x.right)
        /\ Nodes(x) = {x} \cup Nodes(x.left) \cup Nodes(x.right)
    BY <1>1, GoodFit, FitIs, NodeIs
  <2>2. /\ (\A k \in KeysOf(x.left) : k < x.key) /\ (\A k \in KeysOf(x.right) : k > x.key)
        /\ x.key \in Nat /\ KeysOf(x.left) \subseteq Nat /\ KeysOf(x.right) \subseteq Nat
    BY <2>1, GoodKeys DEF Fit, Root, Sorted
  <2>3. MinNode(x) = IF IsLeaf(x.left) THEN x ELSE MinNode(x.left)
    BY <1>1, <2>1, MinDown
  <2>4. CASE IsLeaf(x.left)
    <3>1. KeysOf(x.left) = {}
      BY <2>4, LeafIs
    <3>2. QED
      BY <2>1, <2>2, <2>3, <2>4, <3>1
  <2>5. CASE ~IsLeaf(x.left)
    <3>1. /\ MinNode(x.left) \in Nodes(x.left) /\ \A k \in KeysOf(x.left) : MinNode(x.left).key <= k
          /\ MinNode(x.left).key \in KeysOf(x.left)
      BY <1>1, <2>5 DEF KeysOf
    <3>2. QED
      BY <2>1, <2>2, <2>3, <2>5, <3>1
  <2>6. QED
    BY <2>4, <2>5
<1>2. ASSUME NEW x \in Subtrees(t), IsLeaf(x) PROVE x \in G
  BY <1>2
<1> HIDE DEF G
<1>3. t \in G
  BY <1>1, <1>2, GoodInduct
<1>4. QED
  BY <1>3 DEF G

LEMMA MaxIn ==
  ASSUME NEW q, NEW t, Good(q, t), ~IsLeaf(t)
  PROVE  MaxNode(t) \in Nodes(t) /\ \A k \in KeysOf(t) : MaxNode(t).key >= k
<1> DEFINE G == {x \in Subtrees(t) : ~IsLeaf(x) =>
                   MaxNode(x) \in Nodes(x) /\ \A k \in KeysOf(x) : MaxNode(x).key >= k}
<1>1. ASSUME NEW x \in Subtrees(t), Good(q, x), ~IsLeaf(x), x.right \in G PROVE x \in G
  <2>1. /\ Fit(q, x) /\ Ends(x) /\ KeysOf(x) = {x.key} \cup KeysOf(x.left) \cup KeysOf(x.right)
        /\ Nodes(x) = {x} \cup Nodes(x.left) \cup Nodes(x.right)
    BY <1>1, GoodFit, FitIs, NodeIs
  <2>2. /\ (\A k \in KeysOf(x.left) : k < x.key) /\ (\A k \in KeysOf(x.right) : k > x.key)
        /\ x.key \in Nat /\ KeysOf(x.left) \subseteq Nat /\ KeysOf(x.right) \subseteq Nat
    BY <2>1, GoodKeys DEF Fit, Root, Sorted
  <2>3. MaxNode(x) = IF IsLeaf(x.right) THEN x ELSE MaxNode(x.right)
    BY <1>1, <2>1, MaxDown
  <2>4. CASE IsLeaf(x.right)
    <3>1. KeysOf(x.right) = {}
      BY <2>4, LeafIs
    <3>2. QED
      BY <2>1, <2>2, <2>3, <2>4, <3>1
  <2>5. CASE ~IsLeaf(x.right)
    <3>1. /\ MaxNode(x.right) \in Nodes(x.right) /\ \A k \in KeysOf(x.right) : MaxNode(x.right).key >= k
          /\ MaxNode(x.right).key \in KeysOf(x.right)
      BY <1>1, <2>5 DEF KeysOf
    <3>2. QED
      BY <2>1, <2>2, <2>3, <2>5, <3>1
  <2>6. QED
    BY <2>4, <2>5
<1>2. ASSUME NEW x \in Subtrees(t), IsLeaf(x) PROVE x \in G
  BY <1>2
<1> HIDE DEF G
<1>3. t \in G
  BY <1>1, <1>2, GoodInduct
<1>4. QED
  BY <1>3 DEF G

LEMMA SizeIn ==
  ASSUME NEW q, NEW t, Good(q, t)
  PROVE  IsFiniteSet(KeysOf(t)) /\ Size(t) = Cardinality(KeysOf(t)) /\ Size(t) \in Nat
<1> DEFINE G == {x \in Subtrees(t) :
                   IsFiniteSet(KeysOf(x)) /\ Size(x) = Cardinality(KeysOf(x)) /\ Size(x) \in Nat}
<1>1. ASSUME NEW x \in Subtrees(t), Good(q, x), IsLeaf(x) PROVE x \in G
  <2>1. KeysOf(x) = {} /\ Size(x) = 0
    BY <1>1, LeafIs, SizeDown
  <2>2. QED
    BY <2>1, FS_EmptySet
<1>2. ASSUME NEW x \in Subtrees(t), Good(q, x), ~IsLeaf(x), x.left \in G, x.right \in G PROVE x \in G
  <2> DEFINE A == KeysOf(x.left)
             B == KeysOf(x.right)
  <2>1. /\ Fit(q, x) /\ Ends(x) /\ KeysOf(x) = {x.key} \cup A \cup B
        /\ Size(x) = Size(x.left) + 1 + Size(x.right)
    BY <1>2, GoodFit, FitIs, SizeDown
  <2>2. /\ (\A k \in A : k < x.key) /\ (\A k \in B : k > x.key)
        /\ x.key \in Nat /\ A \subseteq Nat /\ B \subseteq Nat
    BY <2>1, GoodKeys DEF Fit, Root, Sorted
  <2>3. /\ IsFiniteSet(A) /\ IsFiniteSet(B) /\ Size(x.left) = Cardinality(A) /\ Size(x.right) = Cardinality(B)
        /\ Cardinality(A) \in Nat /\ Cardinality(B) \in Nat
    BY <1>2
  <2> HIDE DEF A, B, G
  <2>4. A \cap B = {} /\ x.key \notin A \cup B
    BY <2>2
  <2>5. IsFiniteSet(A \cup B) /\ Cardinality(A \cup B) = Cardinality(A) + Cardinality(B)
    <3>1. /\ IsFiniteSet(A \cup B)
          /\ Cardinality(A \cup B) = Cardinality(A) + Cardinality(B) - Cardinality(A \cap B)
      BY <2>3, FS_Union
    <3>2. Cardinality(A \cap B) = 0
      BY <2>4, FS_EmptySet
    <3>3. QED
      BY <2>3, <3>1, <3>2
  <2>6. IsFiniteSet((A \cup B) \cup {x.key}) /\ Cardinality((A \cup B) \cup {x.key}) = Cardinality(A) + Cardinality(B) + 1
    BY <2>4, <2>5, FS_AddElement
  <2>7. KeysOf(x) = (A \cup B) \cup {x.key}
    BY <2>1
  <2>8. IsFiniteSet(KeysOf(x)) /\ Cardinality(KeysOf(x)) = Cardinality(A) + Cardinality(B) + 1
    BY <2>6, <2>7
  <2>9. Size(x) = Cardinality(KeysOf(x)) /\ Size(x) \in Nat
    BY <2>1, <2>3, <2>8
  <2>10. QED
    BY <2>8, <2>9 DEF G
<1> HIDE DEF G
<1>3. t \in G
  BY <1>1, <1>2, GoodInduct
<1>4. QED
  BY <1>3 DEF G

LEMMA HeightIn ==
  ASSUME NEW q \in Kinds, q # "bst", NEW t, Good(q, t)
  PROVE  \A x \in Nodes(t) : x.height = Height(x) /\ BalanceFactor(x) \in -1 .. 1
<1>1. ASSUME NEW y, Good(q, y) PROVE y.height = Height(y)
  <2> DEFINE G == {x \in Subtrees(y) : x.height = Height(x)}
  <2>1. ASSUME NEW x \in Subtrees(y), Good(q, x), IsLeaf(x) PROVE x \in G
    BY <2>1, GoodIs, GoodLeaf, HeightDown
  <2>2. ASSUME NEW x \in Subtrees(y), Good(q, x), ~IsLeaf(x), x.left \in G, x.right \in G PROVE x \in G
    BY <2>2, GoodIs, GoodHeights, HeightDown
  <2> HIDE DEF G
  <2>3. y \in G
    BY <1>1, <2>1, <2>2, GoodInduct
  <2>4. QED
    BY <2>3 DEF G
<1>2. ASSUME NEW x \in Nodes(t) PROVE x.height = Height(x) /\ BalanceFactor(x) \in -1 .. 1
  <2>1. Good(q, x) /\ ~IsLeaf(x)
    BY <1>2, GoodIs DEF Nodes
  <2>2. QED
    BY <1>1, <2>1, GoodNode DEF Even
<1>3. QED
  BY <1>2

LEMMA OrderedIn ==
  ASSUME NEW q, NEW t, Good(q, t)
  PROVE  Ordered(t)
BY DEF Good, Fine, Root, Sorted, Ordered, Nodes

-----------------------------------------------------------------------------
(* An insertion gives a good tree with one label more, or another label    *)
(* for its key; a removal one with no label for its key.                   *)

NewLabel(q, k, v)  == <<k, IF q = "omap" THEN v ELSE 0>>
Without(q, t, k)   == {l \in Labels(q, t) : l[1] # k}
IsPut(q, t, k, v, r) ==
  /\ Good(q, r) /\ ~IsLeaf(r) /\ Labels(q, r) = Without(q, t, k) \cup {NewLabel(q, k, v)}
  /\ q # "bst" => r.height \in {t.height, t.height + 1}
IsDel(q, t, k, r) ==
  /\ Good(q, r) /\ Labels(q, r) = Without(q, t, k)
  /\ q # "bst" => r.height \in {t.height - 1, t.height}

LEMMA FixIs ==
  ASSUME NEW q \in Kinds, NEW m, Fit(q, m),
         q # "bst" => m.left.height - m.right.height \in -2 .. 2
  PROVE  LET r == Fix(q, m)
             h == 1 + Higher(m.left.height, m.right.height) IN
         /\ Good(q, r) /\ ~IsLeaf(r) /\ Labels(q, r) = Labels(q, m)
         /\ q # "bst" => /\ r.height \in {h - 1, h}
                         /\ m.left.height - m.right.height \in -1 .. 1 => r.height = h
<1>1. CASE q = "bst"
  <2>1. Fix(q, m) = m /\ ~IsLeaf(m)
    BY <1>1, FitIs DEF Fix
  <2>2. Good(q, m)
    BY <1>1, <2>1, GoodNode DEF Fit, Even
  <2>3. QED
    BY <1>1, <2>1, <2>2
<1>2. CASE q # "bst"
  BY <1>2, RebalanceIs DEF Fix
<1>3. QED
  BY <1>1, <1>2

LEMMA GoodDiff ==
  ASSUME NEW q \in Kinds, NEW t, Good(q, t), ~IsLeaf(t)
  PROVE  /\ Fit(q, t) /\ Good(q, t.left) /\ Good(q, t.right)
         /\ q # "bst" => /\ t.left.height \in Nat /\ t.right.height \in Nat
                         /\ t.left.height - t.right.height \in -1 .. 1
                         /\ t.height = 1 + Higher(t.left.height, t.right.height)
BY GoodFit, GoodHeights DEF Fit

LEMMA PutLeaf ==
  ASSUME NEW q \in Kinds, NEW t, Good(q, t), IsLeaf(t), NEW k \in Nat \ {0}, NEW v
  PROVE  IsPut(q, t, k, v, NewOf(q, k, v))
<1> DEFINE n == NewOf(q, k, v)
<1>1. LeafOf(q) = IF q = "bst" THEN BsLeaf ELSE OM!Leaf
  BY DEF LeafOf, Leaf, OM!Leaf
<1>2. /\ n.key = k /\ n.left = LeafOf(q) /\ n.right = LeafOf(q) /\ n = [f \in Fields(q) |-> n[f]]
      /\ (q = "omap" => n.val = v) /\ (q # "bst" => n.height = 1)
  <2>1. CASE q = "avl"
    BY <2>1 DEF NewOf, NewNode, Fields, LeafOf
  <2>2. CASE q = "bst"
    BY <2>2 DEF NewOf, BsNode, Fields, LeafOf
  <2>3. CASE q = "omap"
    BY <1>1, <2>3 DEF NewOf, OM!MakeNode, Fields
  <2>4. QED
    BY <2>1, <2>2, <2>3 DEF Kinds
<1> HIDE DEF n
<1>3. /\ IsLeaf(LeafOf(q)) /\ Good(q, LeafOf(q)) /\ Labels(q, LeafOf(q)) = {}
      /\ KeysOf(LeafOf(q)) = {} /\ (q # "bst" => LeafOf(q).height = 0) /\ t = LeafOf(q)
  BY GoodLeaf, GoodIs
<1>4. Fit(q, n)
  BY <1>2, <1>3 DEF Fit, Root, Sorted
<1>5. Even(q, n)
  BY <1>2, <1>3 DEF Even, HeightOK, Higher, BalanceFactor
<1>6. ~IsLeaf(n) /\ Good(q, n)
  BY <1>4, <1>5, FitIs, GoodNode DEF Fit
<1>7. Labels(q, n) = {NewLabel(q, k, v)}
  <2>1. Labels(q, n) = {Label(q, n)} \cup Labels(q, n.left) \cup Labels(q, n.right)
    BY <1>4, FitIs
  <2>2. Label(q, n) = NewLabel(q, k, v)
    BY <1>2 DEF Label, NewLabel
  <2>3. QED
    BY <1>2, <1>3, <2>1, <2>2
<1>8. QED
  BY <1>2, <1>3, <1>6, <1>7 DEF IsPut, Without, n

LEMMA PutLeft ==
  ASSUME NEW q \in Kinds, NEW t, Good(q, t), ~IsLeaf(t), NEW k \in Nat \ {0}, NEW v, k < t.key,
         NEW a, IsPut(q, t.left, k, v, a)
  PROVE  IsPut(q, t, k, v, Fix(q, [t EXCEPT !.left = a]))
<1> DEFINE n == [t EXCEPT !.left = a]
           r == Fix(q, n)
<1>1. /\ Fit(q, t) /\ Good(q, t.left) /\ Good(q, t.right) /\ Root(q, t)
      /\ q # "bst" => /\ t.left.height \in Nat /\ t.right.height \in Nat
                      /\ t.left.height - t.right.height \in -1 .. 1
                      /\ t.height = 1 + Higher(t.left.height, t.right.height)
  BY GoodDiff DEF Fit
<1>2. /\ Good(q, a) /\ Labels(q, a) = Without(q, t.left, k) \cup {NewLabel(q, k, v)}
      /\ q # "bst" => a.height \in {t.left.height, t.left.height + 1}
  BY DEF IsPut
<1>3. /\ \A l \in Labels(q, t.left) : l[1] \in Nat /\ l[1] < t.key
      /\ \A l \in Labels(q, t.right) : l[1] \in Nat /\ l[1] > t.key
      /\ Label(q, t)[1] = t.key /\ t.key \in Nat
  BY <1>1, SplitNode
<1>4. \A j \in KeysOf(a) : j < t.key
  <2>1. \A l \in Labels(q, a) : l[1] < t.key
    BY <1>2, <1>3 DEF Without, NewLabel
  <2>2. QED
    BY <2>1, LabelKeys
<1>5. Root(q, n) /\ n.left = a /\ n.right = t.right /\ Label(q, n) = Label(q, t)
  BY <1>1, <1>4, WithLeft
<1> HIDE DEF n
<1>6. Fit(q, n) /\ (q # "bst" => n.left.height - n.right.height \in -2 .. 2)
  <2>1. Fit(q, n)
    BY <1>1, <1>2, <1>5, Zenon DEF Fit
  <2>2. q # "bst" => n.left.height - n.right.height \in -2 .. 2
    BY <1>1, <1>2, <1>5
  <2>3. QED
    BY <2>1, <2>2
<1>7. /\ Good(q, r) /\ ~IsLeaf(r) /\ Labels(q, r) = Labels(q, n)
      /\ q # "bst" => /\ r.height \in {(1 + Higher(a.height, t.right.height)) - 1, 1 + Higher(a.height, t.right.height)}
                      /\ a.height - t.right.height \in -1 .. 1 => r.height = 1 + Higher(a.height, t.right.height)
  BY <1>5, <1>6, FixIs
<1> HIDE DEF r
<1>8. q # "bst" => r.height \in {t.height, t.height + 1}
  BY <1>1, <1>2, <1>7 DEF Higher
<1>9. Labels(q, r) = Without(q, t, k) \cup {NewLabel(q, k, v)}
  <2>1. Labels(q, r) = {Label(q, t)} \cup Labels(q, a) \cup Labels(q, t.right)
    BY <1>5, <1>6, <1>7, FitIs
  <2>2. Labels(q, t) = {Label(q, t)} \cup Labels(q, t.left) \cup Labels(q, t.right)
    BY <1>1, FitIs
  <2>3. Label(q, t)[1] # k /\ \A l \in Labels(q, t.right) : l[1] # k
    BY <1>3
  <2>4. QED
    BY <1>2, <2>1, <2>2, <2>3 DEF Without
<1>10. QED
  BY <1>7, <1>8, <1>9 DEF IsPut, r, n

LEMMA PutRight ==
  ASSUME NEW q \in Kinds, NEW t, Good(q, t), ~IsLeaf(t), NEW k \in Nat \ {0}, NEW v, k > t.key,
         NEW a, IsPut(q, t.right, k, v, a)
  PROVE  IsPut(q, t, k, v, Fix(q, [t EXCEPT !.right = a]))
<1> DEFINE n == [t EXCEPT !.right = a]
           r == Fix(q, n)
<1>1. /\ Fit(q, t) /\ Good(q, t.left) /\ Good(q, t.right) /\ Root(q, t)
      /\ q # "bst" => /\ t.left.height \in Nat /\ t.right.height \in Nat
                      /\ t.left.height - t.right.height \in -1 .. 1
                      /\ t.height = 1 + Higher(t.left.height, t.right.height)
  BY GoodDiff DEF Fit
<1>2. /\ Good(q, a) /\ Labels(q, a) = Without(q, t.right, k) \cup {NewLabel(q, k, v)}
      /\ q # "bst" => a.height \in {t.right.height, t.right.height + 1}
  BY DEF IsPut
<1>3. /\ \A l \in Labels(q, t.left) : l[1] \in Nat /\ l[1] < t.key
      /\ \A l \in Labels(q, t.right) : l[1] \in Nat /\ l[1] > t.key
      /\ Label(q, t)[1] = t.key /\ t.key \in Nat
  BY <1>1, SplitNode
<1>4. \A j \in KeysOf(a) : j > t.key
  <2>1. \A l \in Labels(q, a) : l[1] > t.key
    BY <1>2, <1>3 DEF Without, NewLabel
  <2>2. QED
    BY <2>1, LabelKeys
<1>5. Root(q, n) /\ n.right = a /\ n.left = t.left /\ Label(q, n) = Label(q, t)
  <2>1. Root(q, t)
    BY <1>1
  <2>2. QED
    BY <1>4, <2>1, WithRight
<1> HIDE DEF n
<1>6. Fit(q, n) /\ (q # "bst" => n.left.height - n.right.height \in -2 .. 2)
  <2>1. Fit(q, n)
    BY <1>1, <1>2, <1>5, Zenon DEF Fit
  <2>2. q # "bst" => n.left.height - n.right.height \in -2 .. 2
    BY <1>1, <1>2, <1>5
  <2>3. QED
    BY <2>1, <2>2
<1>7. /\ Good(q, r) /\ ~IsLeaf(r) /\ Labels(q, r) = Labels(q, n)
      /\ q # "bst" => /\ r.height \in {(1 + Higher(t.left.height, a.height)) - 1, 1 + Higher(t.left.height, a.height)}
                      /\ t.left.height - a.height \in -1 .. 1 => r.height = 1 + Higher(t.left.height, a.height)
  BY <1>5, <1>6, FixIs
<1> HIDE DEF r
<1>8. q # "bst" => r.height \in {t.height, t.height + 1}
  BY <1>1, <1>2, <1>7 DEF Higher
<1>9. Labels(q, r) = Without(q, t, k) \cup {NewLabel(q, k, v)}
  <2>1. Labels(q, r) = {Label(q, t)} \cup Labels(q, a) \cup Labels(q, t.left)
    BY <1>5, <1>6, <1>7, FitIs
  <2>2. Labels(q, t) = {Label(q, t)} \cup Labels(q, t.left) \cup Labels(q, t.right)
    BY <1>1, FitIs
  <2>3. Label(q, t)[1] # k /\ \A l \in Labels(q, t.left) : l[1] # k
    BY <1>3
  <2>4. QED
    BY <1>2, <2>1, <2>2, <2>3 DEF Without
<1>10. QED
  BY <1>7, <1>8, <1>9 DEF IsPut, r, n

LEMMA PutHere ==
  ASSUME NEW q \in Kinds, NEW t, Good(q, t), ~IsLeaf(t), NEW k \in Nat \ {0}, NEW v, k = t.key
  PROVE  IsPut(q, t, k, v, Renewed(q, t, v))
<1> DEFINE n == Renewed(q, t, v)
<1>1. Fit(q, t) /\ Root(q, t) /\ Even(q, t) /\ DOMAIN t = Fields(q)
  BY GoodDiff, GoodNode DEF Fit, Root
<1>2. /\ n.left = t.left /\ n.right = t.right /\ n.key = t.key /\ n = [f \in Fields(q) |-> n[f]]
      /\ (q # "bst" => n.height = t.height) /\ (q = "omap" => n.val = v)
  <2>1. CASE q = "omap"
    <3>1. Fields(q) = {"key", "val", "left", "right", "height"} /\ n = [t EXCEPT !.val = v]
      BY <2>1 DEF Fields, Renewed
    <3>2. QED
      BY <1>1, <2>1, <3>1
  <2>2. CASE q # "omap"
    BY <1>1, <2>2 DEF Renewed, Root
  <2>3. QED
    BY <2>1, <2>2
<1> HIDE DEF n
<1>3. Fit(q, n) /\ Even(q, n)
  BY <1>1, <1>2 DEF Fit, Root, Sorted, Even, HeightOK, BalanceFactor
<1>4. Good(q, n) /\ ~IsLeaf(n)
  BY <1>3, GoodNode, FitIs DEF Fit
<1>5. Labels(q, n) = Without(q, t, k) \cup {NewLabel(q, k, v)}
  <2>1. Labels(q, n) = {Label(q, n)} \cup Labels(q, t.left) \cup Labels(q, t.right)
    BY <1>2, <1>3, FitIs
  <2>2. Labels(q, t) = {Label(q, t)} \cup Labels(q, t.left) \cup Labels(q, t.right)
    BY <1>1, FitIs
  <2>3. Label(q, t)[1] = k /\ \A l \in Labels(q, t.left) \cup Labels(q, t.right) : l[1] # k
    BY <1>1, SplitNode
  <2>4. Label(q, n) = NewLabel(q, k, v)
    BY <1>2 DEF Label, NewLabel
  <2>5. QED
    BY <2>1, <2>2, <2>3, <2>4 DEF Without
<1>6. QED
  BY <1>2, <1>4, <1>5 DEF IsPut, n

LEMMA PutIs ==
  ASSUME NEW q \in Kinds, NEW t, Good(q, t), NEW k \in Nat \ {0}, NEW v
  PROVE  IsPut(q, t, k, v, Put(q, t, k, v))
<1> DEFINE G == {x \in Subtrees(t) : IsPut(q, x, k, v, Put(q, x, k, v))}
<1>1. ASSUME NEW x \in Subtrees(t), Good(q, x), IsLeaf(x) PROVE x \in G
  BY <1>1, PutDown, PutLeaf, GoodIs
<1>2. ASSUME NEW x \in Subtrees(t), Good(q, x), ~IsLeaf(x), x.left \in G, x.right \in G PROVE x \in G
  <2>1. Put(q, x, k, v) = StepPut(q, k, v, x, Put(q, x.left, k, v), Put(q, x.right, k, v))
    BY <1>2, PutDown, GoodIs
  <2>2. x.key \in Nat
    BY <1>2, GoodDiff DEF Fit, Root
  <2>3. CASE k < x.key
    <3>1. Put(q, x, k, v) = Fix(q, [x EXCEPT !.left = Put(q, x.left, k, v)])
      BY <2>1, <2>2, <2>3 DEF StepPut
    <3>2. QED
      BY <1>2, <2>3, <3>1, PutLeft
  <2>4. CASE k > x.key
    <3>1. Put(q, x, k, v) = Fix(q, [x EXCEPT !.right = Put(q, x.right, k, v)])
      BY <2>1, <2>2, <2>4 DEF StepPut
    <3>2. QED
      BY <1>2, <2>4, <3>1, PutRight
  <2>5. CASE k = x.key
    <3>1. Put(q, x, k, v) = Renewed(q, x, v)
      BY <2>1, <2>2, <2>5 DEF StepPut
    <3>2. QED
      BY <1>2, <2>5, <3>1, PutHere
  <2>6. QED
    BY <2>2, <2>3, <2>4, <2>5
<1> HIDE DEF G
<1>3. t \in G
  BY <1>1, <1>2, GoodInduct
<1>4. QED
  BY <1>3 DEF G

LEMMA HigherEither == \A a, b \in Nat : Higher(a, b) = Higher(b, a)
BY DEF Higher

(* How much height is lost when one of the subtrees loses some.            *)
LEMMA HeightLost ==
  ASSUME NEW l \in Nat, NEW r \in Nat, l - r \in -1 .. 1, NEW a \in Nat, a \in {l - 1, l},
         NEW h, h \in {(1 + Higher(a, r)) - 1, 1 + Higher(a, r)},
         a - r \in -1 .. 1 => h = 1 + Higher(a, r)
  PROVE  h \in {(1 + Higher(l, r)) - 1, 1 + Higher(l, r)}
<1>1. CASE a = l
  BY <1>1
<1>2. CASE a = l - 1
  <2>1. CASE l = r - 1
    BY <1>2, <2>1 DEF Higher
  <2>2. CASE l = r
    BY <1>2, <2>2 DEF Higher
  <2>3. CASE l = r + 1
    BY <1>2, <2>3 DEF Higher
  <2>4. QED
    BY <2>1, <2>2, <2>3
<1>3. QED
  BY <1>1, <1>2

LEMMA DelLeft ==
  ASSUME NEW q \in Kinds, NEW t, Good(q, t), ~IsLeaf(t), NEW k \in Nat, k < t.key,
         NEW a, IsDel(q, t.left, k, a)
  PROVE  IsDel(q, t, k, Fix(q, [t EXCEPT !.left = a]))
<1> DEFINE n == [t EXCEPT !.left = a]
           r == Fix(q, n)
<1>1. /\ Fit(q, t) /\ Good(q, t.left) /\ Good(q, t.right) /\ Root(q, t)
      /\ q # "bst" => /\ t.left.height \in Nat /\ t.right.height \in Nat
                      /\ t.left.height - t.right.height \in -1 .. 1
                      /\ t.height = 1 + Higher(t.left.height, t.right.height)
  BY GoodDiff DEF Fit
<1>2. /\ Good(q, a) /\ Labels(q, a) = Without(q, t.left, k)
      /\ q # "bst" => a.height \in {t.left.height - 1, t.left.height} /\ a.height \in Nat
  BY GoodHeight DEF IsDel
<1>3. /\ \A l \in Labels(q, t.left) : l[1] \in Nat /\ l[1] < t.key
      /\ \A l \in Labels(q, t.right) : l[1] \in Nat /\ l[1] > t.key
      /\ Label(q, t)[1] = t.key /\ t.key \in Nat
  BY <1>1, SplitNode
<1>4. \A j \in KeysOf(a) : j < t.key
  <2>1. \A l \in Labels(q, a) : l[1] < t.key
    BY <1>2, <1>3 DEF Without
  <2>2. QED
    BY <2>1, LabelKeys
<1>5. Root(q, n) /\ n.left = a /\ n.right = t.right /\ Label(q, n) = Label(q, t)
  BY <1>1, <1>4, WithLeft
<1> HIDE DEF n
<1>6. Fit(q, n) /\ (q # "bst" => n.left.height - n.right.height \in -2 .. 2)
  <2>1. Fit(q, n)
    BY <1>1, <1>2, <1>5, Zenon DEF Fit
  <2>2. q # "bst" => n.left.height - n.right.height \in -2 .. 2
    BY <1>1, <1>2, <1>5
  <2>3. QED
    BY <2>1, <2>2
<1>7. /\ Good(q, r) /\ ~IsLeaf(r) /\ Labels(q, r) = Labels(q, n)
      /\ q # "bst" => /\ r.height \in {(1 + Higher(a.height, t.right.height)) - 1, 1 + Higher(a.height, t.right.height)}
                      /\ a.height - t.right.height \in -1 .. 1 => r.height = 1 + Higher(a.height, t.right.height)
  BY <1>5, <1>6, FixIs
<1> HIDE DEF r
<1>8. q # "bst" => r.height \in {t.height - 1, t.height}
  <2>1. SUFFICES ASSUME q # "bst" PROVE r.height \in {t.height - 1, t.height}
    OBVIOUS
  <2> DEFINE u == t.left.height
             w == t.right.height
             c == a.height
  <2>2. /\ u \in Nat /\ w \in Nat /\ c \in Nat /\ c \in {u - 1, u} /\ u - w \in -1 .. 1
        /\ t.height = 1 + Higher(u, w)
        /\ r.height \in {(1 + Higher(c, w)) - 1, 1 + Higher(c, w)}
        /\ c - w \in -1 .. 1 => r.height = 1 + Higher(c, w)
    BY <1>1, <1>2, <1>7, <2>1
  <2> HIDE DEF u, w, c
  <2>3. r.height \in {(1 + Higher(u, w)) - 1, 1 + Higher(u, w)}
    BY <2>2, HeightLost
  <2>4. QED
    BY <2>2, <2>3
<1>9. Labels(q, r) = Without(q, t, k)
  <2>1. Labels(q, r) = {Label(q, t)} \cup Labels(q, a) \cup Labels(q, t.right)
    BY <1>5, <1>6, <1>7, FitIs
  <2>2. Labels(q, t) = {Label(q, t)} \cup Labels(q, t.left) \cup Labels(q, t.right)
    BY <1>1, FitIs
  <2>3. Label(q, t)[1] # k /\ \A l \in Labels(q, t.right) : l[1] # k
    BY <1>3
  <2>4. QED
    BY <1>2, <2>1, <2>2, <2>3 DEF Without
<1>10. QED
  BY <1>7, <1>8, <1>9 DEF IsDel, r, n

LEMMA DelRight ==
  ASSUME NEW q \in Kinds, NEW t, Good(q, t), ~IsLeaf(t), NEW k \in Nat, k > t.key,
         NEW a, IsDel(q, t.right, k, a)
  PROVE  IsDel(q, t, k, Fix(q, [t EXCEPT !.right = a]))
<1> DEFINE n == [t EXCEPT !.right = a]
           r == Fix(q, n)
<1>1. /\ Fit(q, t) /\ Good(q, t.left) /\ Good(q, t.right) /\ Root(q, t)
      /\ q # "bst" => /\ t.left.height \in Nat /\ t.right.height \in Nat
                      /\ t.left.height - t.right.height \in -1 .. 1
                      /\ t.height = 1 + Higher(t.left.height, t.right.height)
  BY GoodDiff DEF Fit
<1>2. /\ Good(q, a) /\ Labels(q, a) = Without(q, t.right, k)
      /\ q # "bst" => a.height \in {t.right.height - 1, t.right.height} /\ a.height \in Nat
  BY GoodHeight DEF IsDel
<1>3. /\ \A l \in Labels(q, t.left) : l[1] \in Nat /\ l[1] < t.key
      /\ \A l \in Labels(q, t.right) : l[1] \in Nat /\ l[1] > t.key
      /\ Label(q, t)[1] = t.key /\ t.key \in Nat
  BY <1>1, SplitNode
<1>4. \A j \in KeysOf(a) : j > t.key
  <2>1. \A l \in Labels(q, a) : l[1] > t.key
    BY <1>2, <1>3 DEF Without
  <2>2. QED
    BY <2>1, LabelKeys
<1>5. Root(q, n) /\ n.right = a /\ n.left = t.left /\ Label(q, n) = Label(q, t)
  <2>1. Root(q, t)
    BY <1>1
  <2>2. QED
    BY <1>4, <2>1, WithRight
<1> HIDE DEF n
<1>6. Fit(q, n) /\ (q # "bst" => n.left.height - n.right.height \in -2 .. 2)
  <2>1. Fit(q, n)
    BY <1>1, <1>2, <1>5, Zenon DEF Fit
  <2>2. q # "bst" => n.left.height - n.right.height \in -2 .. 2
    BY <1>1, <1>2, <1>5
  <2>3. QED
    BY <2>1, <2>2
<1>7. /\ Good(q, r) /\ ~IsLeaf(r) /\ Labels(q, r) = Labels(q, n)
      /\ q # "bst" => /\ r.height \in {(1 + Higher(t.left.height, a.height)) - 1, 1 + Higher(t.left.height, a.height)}
                      /\ t.left.height - a.height \in -1 .. 1 => r.height = 1 + Higher(t.left.height, a.height)
  BY <1>5, <1>6, FixIs
<1> HIDE DEF r
<1>8. q # "bst" => r.height \in {t.height - 1, t.height}
  <2>1. SUFFICES ASSUME q # "bst" PROVE r.height \in {t.height - 1, t.height}
    OBVIOUS
  <2> DEFINE u == t.left.height
             w == t.right.height
             c == a.height
  <2>2. /\ u \in Nat /\ w \in Nat /\ c \in Nat /\ c \in {w - 1, w} /\ u - w \in -1 .. 1
        /\ Higher(u, c) = Higher(c, u) /\ t.height = 1 + Higher(w, u)
        /\ r.height \in {(1 + Higher(u, c)) - 1, 1 + Higher(u, c)}
        /\ u - c \in -1 .. 1 => r.height = 1 + Higher(u, c)
    BY <1>1, <1>2, <1>7, <2>1, HigherEither
  <2> HIDE DEF u, w, c
  <2>3. w - u \in -1 .. 1 /\ (c - u \in -1 .. 1 => u - c \in -1 .. 1)
    BY <2>2
  <2>4. r.height \in {(1 + Higher(w, u)) - 1, 1 + Higher(w, u)}
    BY <2>2, <2>3, HeightLost
  <2>5. QED
    BY <2>2, <2>4
<1>9. Labels(q, r) = Without(q, t, k)
  <2>1. Labels(q, r) = {Label(q, t)} \cup Labels(q, a) \cup Labels(q, t.left)
    BY <1>5, <1>6, <1>7, FitIs
  <2>2. Labels(q, t) = {Label(q, t)} \cup Labels(q, t.left) \cup Labels(q, t.right)
    BY <1>1, FitIs
  <2>3. Label(q, t)[1] # k /\ \A l \in Labels(q, t.left) : l[1] # k
    BY <1>3
  <2>4. QED
    BY <1>2, <2>1, <2>2, <2>3 DEF Without
<1>10. QED
  BY <1>7, <1>8, <1>9 DEF IsDel, r, n

(* A node with one child at most gives way to the other.                   *)
LEMMA DelHere ==
  ASSUME NEW q \in Kinds, NEW t, Good(q, t), ~IsLeaf(t)
  PROVE  /\ IsLeaf(t.left) => IsDel(q, t, t.key, t.right)
         /\ IsLeaf(t.right) => IsDel(q, t, t.key, t.left)
<1>1. /\ Fit(q, t) /\ Good(q, t.left) /\ Good(q, t.right)
      /\ q # "bst" => /\ t.left.height \in Nat /\ t.right.height \in Nat
                      /\ t.left.height - t.right.height \in -1 .. 1
                      /\ t.height = 1 + Higher(t.left.height, t.right.height)
  BY GoodDiff
<1>2. Labels(q, t) = {Label(q, t)} \cup Labels(q, t.left) \cup Labels(q, t.right)
  BY <1>1, FitIs
<1>3. Label(q, t)[1] = t.key /\ \A l \in Labels(q, t.left) \cup Labels(q, t.right) : l[1] # t.key
  BY <1>1, SplitNode
<1>4. Without(q, t, t.key) = Labels(q, t.left) \cup Labels(q, t.right)
  BY <1>2, <1>3 DEF Without
<1>5. ASSUME IsLeaf(t.left) PROVE IsDel(q, t, t.key, t.right)
  <2>1. Labels(q, t.left) = {} /\ (q # "bst" => t.left.height = 0)
    BY <1>1, <1>5, LabelsLeaf, GoodHeight
  <2>2. q # "bst" => t.right.height \in {t.height - 1, t.height}
    BY <1>1, <2>1 DEF Higher
  <2>3. QED
    BY <1>1, <1>4, <2>1, <2>2 DEF IsDel
<1>6. ASSUME IsLeaf(t.right) PROVE IsDel(q, t, t.key, t.left)
  <2>1. Labels(q, t.right) = {} /\ (q # "bst" => t.right.height = 0)
    BY <1>1, <1>6, LabelsLeaf, GoodHeight
  <2>2. q # "bst" => t.left.height \in {t.height - 1, t.height}
    BY <1>1, <2>1 DEF Higher
  <2>3. QED
    BY <1>1, <1>4, <2>1, <2>2 DEF IsDel
<1>7. QED
  BY <1>5, <1>6

(* No two labels of a tree have one key.                                   *)
LEMMA OneLabel ==
  ASSUME NEW q, NEW t, Good(q, t), NEW a \in Labels(q, t), NEW b \in Labels(q, t), a[1] = b[1]
  PROVE  a = b
BY GoodKeys, FindIn

(* A node with two takes the label of its successor, which goes below it.  *)
LEMMA DelTaking ==
  ASSUME NEW q \in Kinds, NEW t, Good(q, t), ~IsLeaf(t), ~IsLeaf(t.right),
         NEW a, IsDel(q, t.right, MinNode(t.right).key, a)
  PROVE  IsDel(q, t, t.key, Fix(q, [Take(q, t, MinNode(t.right)) EXCEPT !.right = a]))
<1> DEFINE s == MinNode(t.right)
           n == [Take(q, t, s) EXCEPT !.right = a]
           r == Fix(q, n)
<1>1. /\ Fit(q, t) /\ Good(q, t.left) /\ Good(q, t.right) /\ Root(q, t)
      /\ q # "bst" => /\ t.left.height \in Nat /\ t.right.height \in Nat
                      /\ t.left.height - t.right.height \in -1 .. 1
                      /\ t.height = 1 + Higher(t.left.height, t.right.height)
  BY GoodDiff DEF Fit
<1>2. /\ Good(q, a) /\ Labels(q, a) = Without(q, t.right, s.key)
      /\ q # "bst" => a.height \in {t.right.height - 1, t.right.height} /\ a.height \in Nat
  BY GoodHeight DEF IsDel
<1>3. s \in Nodes(t.right) /\ \A k \in KeysOf(t.right) : s.key <= k
  BY <1>1, MinIn
<1> HIDE DEF s
<1>4. /\ \A l \in Labels(q, t.left) : l[1] \in Nat /\ l[1] < t.key
      /\ \A l \in Labels(q, t.right) : l[1] \in Nat /\ l[1] > t.key
      /\ Label(q, t)[1] = t.key /\ t.key \in Nat
  BY <1>1, SplitNode
<1>5. Label(q, s) \in Labels(q, t.right) /\ Label(q, s)[1] = s.key /\ s.key \in Nat /\ s.key > t.key
  <2>1. Label(q, s) \in Labels(q, t.right) /\ Label(q, s)[1] = s.key
    BY <1>3, LabelKeys DEF Labels
  <2>2. QED
    BY <1>4, <2>1
<1>6. /\ n.key = s.key /\ n.left = t.left /\ n.right = a /\ n = [f \in Fields(q) |-> n[f]]
      /\ (q = "omap" => n.val = s.val)
  <2>1. t = [f \in Fields(q) |-> t[f]]
    BY <1>1 DEF Root
  <2>2. CASE q = "omap"
    <3>1. Fields(q) = {"key", "val", "left", "right", "height"}
          /\ Take(q, t, s) = [t EXCEPT !.key = s.key, !.val = s.val]
      BY <2>2 DEF Fields, Take, OM!TakeOver
    <3>2. QED
      BY <2>1, <2>2, <3>1
  <2>3. CASE q # "omap"
    <3>1. {"key", "left", "right"} \subseteq Fields(q) /\ Take(q, t, s) = [t EXCEPT !.key = s.key]
      BY <2>3 DEF Fields, Take, TakeKey
    <3>2. QED
      BY <2>1, <2>3, <3>1
  <2>4. QED
    BY <2>2, <2>3
<1> HIDE DEF n
<1>7. Fit(q, n)
  <2>1. \A k \in KeysOf(t.left) : k < s.key
    <3>1. \A k \in KeysOf(t.left) : k \in Nat /\ k < t.key
      BY <1>1, GoodKeys DEF Root, Sorted
    <3>2. QED
      BY <1>4, <1>5, <3>1
  <2>2. \A k \in KeysOf(a) : k > s.key
    <3>1. ASSUME NEW l \in Labels(q, a) PROVE l[1] > s.key
      <4>1. l \in Labels(q, t.right) /\ l[1] # s.key
        BY <1>2, <3>1 DEF Without
      <4>2. l[1] \in KeysOf(t.right) /\ l[1] \in Nat
        BY <1>4, <4>1, LabelKeys
      <4>3. QED
        BY <1>3, <1>5, <4>1, <4>2
    <3>2. QED
      BY <3>1, LabelKeys
  <2>3. s.key \in Nat \ {0}
    BY <1>4, <1>5
  <2>4. QED
    BY <1>1, <1>2, <1>6, <2>1, <2>2, <2>3 DEF Fit, Root, Sorted
<1>8. q # "bst" => n.left.height - n.right.height \in -2 .. 2
  BY <1>1, <1>2, <1>6
<1>9. /\ Good(q, r) /\ ~IsLeaf(r) /\ Labels(q, r) = Labels(q, n)
      /\ q # "bst" => /\ r.height \in {(1 + Higher(t.left.height, a.height)) - 1, 1 + Higher(t.left.height, a.height)}
                      /\ t.left.height - a.height \in -1 .. 1 => r.height = 1 + Higher(t.left.height, a.height)
  BY <1>6, <1>7, <1>8, FixIs
<1> HIDE DEF r
<1>10. q # "bst" => r.height \in {t.height - 1, t.height}
  <2>1. SUFFICES ASSUME q # "bst" PROVE r.height \in {t.height - 1, t.height}
    OBVIOUS
  <2> DEFINE u == t.left.height
             w == t.right.height
             c == a.height
  <2>2. /\ u \in Nat /\ w \in Nat /\ c \in Nat /\ c \in {w - 1, w} /\ u - w \in -1 .. 1
        /\ Higher(u, c) = Higher(c, u) /\ t.height = 1 + Higher(w, u)
        /\ r.height \in {(1 + Higher(u, c)) - 1, 1 + Higher(u, c)}
        /\ u - c \in -1 .. 1 => r.height = 1 + Higher(u, c)
    BY <1>1, <1>2, <1>9, <2>1, HigherEither
  <2> HIDE DEF u, w, c
  <2>3. w - u \in -1 .. 1 /\ (c - u \in -1 .. 1 => u - c \in -1 .. 1)
    BY <2>2
  <2>4. r.height \in {(1 + Higher(w, u)) - 1, 1 + Higher(w, u)}
    BY <2>2, <2>3, HeightLost
  <2>5. QED
    BY <2>2, <2>4
<1>11. Labels(q, r) = Without(q, t, t.key)
  <2>1. Labels(q, r) = {Label(q, n)} \cup Labels(q, a) \cup Labels(q, t.left)
    BY <1>6, <1>7, <1>9, FitIs
  <2>2. Labels(q, t) = {Label(q, t)} \cup Labels(q, t.left) \cup Labels(q, t.right)
    BY <1>1, FitIs
  <2>3. Label(q, n) = Label(q, s)
    BY <1>6 DEF Label
  <2>4. Labels(q, t.right) = {Label(q, s)} \cup Labels(q, a)
    <3>1. \A l \in Labels(q, t.right) : l[1] = s.key => l = Label(q, s)
      BY <1>1, <1>5, OneLabel
    <3>2. QED
      BY <1>2, <1>5, <3>1 DEF Without
  <2>5. Without(q, t, t.key) = Labels(q, t.left) \cup Labels(q, t.right)
    <3>1. \A l \in Labels(q, t.left) \cup Labels(q, t.right) : l[1] # t.key
      BY <1>4
    <3>2. QED
      BY <1>4, <2>2, <3>1 DEF Without
  <2>6. QED
    BY <2>1, <2>3, <2>4, <2>5
<1>12. QED
  BY <1>9, <1>10, <1>11 DEF IsDel, r, n, s

LEMMA DelIs ==
  ASSUME NEW q \in Kinds, NEW t, Good(q, t), NEW k \in Nat
  PROVE  IsDel(q, t, k, Dels(q, t)[k])
<1> DEFINE G == {x \in Subtrees(t) : \A j \in Nat : IsDel(q, x, j, Dels(q, x)[j])}
<1>1. ASSUME NEW x \in Subtrees(t), Good(q, x), IsLeaf(x) PROVE x \in G
  <2>1. ASSUME NEW j \in Nat PROVE IsDel(q, x, j, Dels(q, x)[j])
    <3>1. Dels(q, x)[j] = x /\ Labels(q, x) = {}
      BY <1>1, DelDown, GoodIs, LabelsLeaf
    <3>2. q # "bst" => x.height \in {x.height - 1, x.height}
      OBVIOUS
    <3>3. QED
      BY <1>1, <3>1, <3>2 DEF IsDel, Without
  <2>2. QED
    BY <2>1
<1>2. ASSUME NEW x \in Subtrees(t), Good(q, x), ~IsLeaf(x), x.left \in G, x.right \in G PROVE x \in G
  <2>1. ASSUME NEW j \in Nat PROVE IsDel(q, x, j, Dels(q, x)[j])
    <3> DEFINE L == Dels(q, x.left)
               R == Dels(q, x.right)
               s == MinNode(x.right)
    <3>1. Dels(q, x)[j] = StepDel(q, j, x, L, R)
      BY <1>2, DelDown, GoodIs
    <3>2. x.key \in Nat /\ Good(q, x.right) /\ IsDel(q, x.left, j, L[j]) /\ IsDel(q, x.right, j, R[j])
      BY <1>2, GoodDiff DEF Fit, Root
    <3> HIDE DEF G, L, R
    <3>3. CASE j < x.key
      <4>1. Dels(q, x)[j] = Fix(q, [x EXCEPT !.left = L[j]])
        BY <3>1, <3>2, <3>3 DEF StepDel
      <4>2. QED
        BY <1>2, <3>2, <3>3, <4>1, DelLeft
    <3>4. CASE j > x.key
      <4>1. Dels(q, x)[j] = Fix(q, [x EXCEPT !.right = R[j]])
        BY <3>1, <3>2, <3>4 DEF StepDel
      <4>2. QED
        BY <1>2, <3>2, <3>4, <4>1, DelRight
    <3>5. CASE j = x.key
      <4>1. Dels(q, x)[j] = IF IsLeaf(x.left) THEN x.right
                            ELSE IF IsLeaf(x.right) THEN x.left
                            ELSE Fix(q, [Take(q, x, s) EXCEPT !.right = R[s.key]])
        BY <3>1, <3>2, <3>5 DEF StepDel
      <4>2. CASE IsLeaf(x.left)
        BY <1>2, <3>5, <4>1, <4>2, DelHere
      <4>3. CASE IsLeaf(x.right) /\ ~IsLeaf(x.left)
        BY <1>2, <3>5, <4>1, <4>3, DelHere
      <4>4. CASE ~IsLeaf(x.left) /\ ~IsLeaf(x.right)
        <5>1. s.key \in Nat
          <6>1. s.key \in KeysOf(x.right)
            BY <3>2, <4>4, MinIn DEF KeysOf
          <6>2. QED
            BY <3>2, <6>1, GoodKeys
        <5>2. IsDel(q, x.right, s.key, R[s.key])
          BY <1>2, <5>1 DEF G, R
        <5>3. QED
          BY <1>2, <3>5, <4>1, <4>4, <5>2, DelTaking
      <4>5. QED
        BY <4>2, <4>3, <4>4
    <3>6. QED
      BY <3>2, <3>3, <3>4, <3>5
  <2>2. QED
    BY <2>1
<1> HIDE DEF G
<1>3. t \in G
  BY <1>1, <1>2, GoodInduct
<1>4. QED
  BY <1>3 DEF G

-----------------------------------------------------------------------------
(* What the calls rely on: the keys of a tree changed, and their number.   *)

LEMMA PutKeys ==
  ASSUME NEW q \in Kinds, NEW t, Good(q, t), NEW k \in Nat \ {0}, NEW v
  PROVE  LET r == Put(q, t, k, v) IN
         /\ Good(q, r) /\ KeysOf(r) = KeysOf(t) \cup {k}
         /\ Size(r) = IF k \in KeysOf(t) THEN Size(t) ELSE Size(t) + 1
<1> DEFINE r == Put(q, t, k, v)
<1>1. Good(q, r) /\ Labels(q, r) = Without(q, t, k) \cup {NewLabel(q, k, v)}
  BY PutIs DEF IsPut
<1> HIDE DEF r
<1>2. KeysOf(r) = KeysOf(t) \cup {k}
  <2>1. KeysOf(r) = {l[1] : l \in Labels(q, r)} /\ KeysOf(t) = {l[1] : l \in Labels(q, t)}
    BY LabelKeys
  <2>2. NewLabel(q, k, v)[1] = k
    BY DEF NewLabel
  <2>3. QED
    BY <1>1, <2>1, <2>2 DEF Without
<1>3. /\ IsFiniteSet(KeysOf(t)) /\ Size(t) = Cardinality(KeysOf(t)) /\ Size(r) = Cardinality(KeysOf(r))
  BY <1>1, SizeIn
<1>4. Size(r) = IF k \in KeysOf(t) THEN Size(t) ELSE Size(t) + 1
  BY <1>2, <1>3, FS_AddElement
<1>5. QED
  BY <1>1, <1>2, <1>4 DEF r

LEMMA DelKeys ==
  ASSUME NEW q \in Kinds, NEW t, Good(q, t), NEW k \in Nat
  PROVE  LET r == Dels(q, t)[k] IN
         /\ Good(q, r) /\ KeysOf(r) = KeysOf(t) \ {k}
         /\ Size(r) = IF k \in KeysOf(t) THEN Size(t) - 1 ELSE Size(t)
<1> DEFINE r == Dels(q, t)[k]
<1>1. Good(q, r) /\ Labels(q, r) = Without(q, t, k)
  BY DelIs DEF IsDel
<1> HIDE DEF r
<1>2. KeysOf(r) = KeysOf(t) \ {k}
  <2>1. KeysOf(r) = {l[1] : l \in Labels(q, r)} /\ KeysOf(t) = {l[1] : l \in Labels(q, t)}
    BY LabelKeys
  <2>2. QED
    BY <1>1, <2>1 DEF Without
<1>3. /\ IsFiniteSet(KeysOf(t)) /\ Size(t) = Cardinality(KeysOf(t)) /\ Size(r) = Cardinality(KeysOf(r))
  BY <1>1, SizeIn
<1>4. Size(r) = IF k \in KeysOf(t) THEN Size(t) - 1 ELSE Size(t)
  <2>1. Cardinality(KeysOf(t) \ {k}) = IF k \in KeysOf(t) THEN Cardinality(KeysOf(t)) - 1 ELSE Cardinality(KeysOf(t))
    BY <1>3, FS_RemoveElement
  <2>2. QED
    BY <1>2, <1>3, <2>1
<1>5. QED
  BY <1>1, <1>2, <1>4 DEF r

LEMMA NullIs ==
  ASSUME NEW q \in Kinds
  PROVE  LET t == LeafOf(q) IN Good(q, t) /\ IsLeaf(t) /\ KeysOf(t) = {} /\ Size(t) = 0
BY GoodLeaf, SizeDown, GoodIs

-----------------------------------------------------------------------------
(* The sets.  The invariant says what the calls rely on: each tree is      *)
(* good, empty unless alive, and counted; the blocks are the nodes, the    *)
(* tree alive and what an extend holds; and an extend has a tree to fill.  *)

TreesInv ==
  /\ root = [n \in Names |-> root[n]] /\ len \in [Names -> Nat]
  /\ \A n \in Names : /\ Good(n, root[n]) /\ KeysOf(root[n]) \subseteq Keys
                      /\ len[n] = Size(root[n])
                      /\ n \notin alive => IsLeaf(root[n])
  /\ alive \in {{}, {"avl"}, {"bst"}}
  /\ pc \in {"idle", "extend", "feeding"} /\ (pc # "idle" => alive # {})
  /\ feed \in Seq(Keys)
  /\ Feeding => found = 0
  /\ blocks = (IF alive = {} THEN 0 ELSE 1) + Size(root["avl"]) + Size(root["bst"]) + ExtendBlocks

LEMMA NamesAre == Names \subseteq Kinds /\ "avl" \in Names /\ "bst" \in Names /\ \A n \in Names : Null(n) = LeafOf(n)
BY DEF Names, Kinds, Null, LeafOf

LEMMA CallIs ==
  ASSUME TreesInv, NEW n \in Names, NEW k \in Keys
  PROVE  /\ Has(n, k) <=> k \in KeysOf(root[n])
         /\ Good(n, Inserted(n, k)) /\ KeysOf(Inserted(n, k)) = KeysOf(root[n]) \cup {k}
         /\ Size(Inserted(n, k)) = IF Has(n, k) THEN Size(root[n]) ELSE Size(root[n]) + 1
         /\ Good(n, Removed(n, k)) /\ KeysOf(Removed(n, k)) = KeysOf(root[n]) \ {k}
         /\ Size(Removed(n, k)) = IF Has(n, k) THEN Size(root[n]) - 1 ELSE Size(root[n])
<1>1. k \in Nat \ {0} /\ n \in Kinds /\ Good(n, root[n])
  BY TreesAssumption, NamesAre DEF TreesInv
<1>2. Has(n, k) <=> k \in KeysOf(root[n])
  BY <1>1, FindIn DEF Has, Holds
<1>3. Inserted(n, k) = Put(n, root[n], k, 0)
  BY InsertIs, BsInsertIs DEF Inserted, Names
<1>4. Removed(n, k) = Dels(n, root[n])[k]
  BY RemoveIs, BsRemoveIs DEF Removed, Names
<1>5. QED
  BY <1>1, <1>2, <1>3, <1>4, PutKeys, DelKeys

LEMMA TreesInit ==
  ASSUME Init
  PROVE  TreesInv
<1>1. /\ root = [n \in Names |-> LeafOf(n)] /\ len = [n \in Names |-> 0] /\ alive = {}
      /\ pc = "idle" /\ feed = <<>> /\ blocks = 0
  BY NamesAre DEF Init
<1>2. \A n \in Names : Good(n, root[n]) /\ IsLeaf(root[n]) /\ KeysOf(root[n]) = {} /\ Size(root[n]) = 0
  BY <1>1, NamesAre, NullIs
<1>3. blocks = (IF alive = {} THEN 0 ELSE 1) + Size(root["avl"]) + Size(root["bst"]) + ExtendBlocks
  BY <1>1, <1>2, NamesAre DEF ExtendBlocks
<1>4. QED
  BY <1>1, <1>2, <1>3 DEF TreesInv, Feeding

(* One tree changed, with its count and as many blocks.                    *)
LEMMA OneChanged ==
  ASSUME TreesInv, NEW n \in Names, n \in alive, NEW t, Good(n, t), KeysOf(t) \subseteq Keys,
         root' = [root EXCEPT ![n] = t]
  PROVE  /\ root' = [m \in Names |-> root'[m]] /\ root'[n] = t
         /\ \A m \in Names : /\ m # n => root'[m] = root[m]
                             /\ Good(m, root'[m]) /\ KeysOf(root'[m]) \subseteq Keys
                             /\ Size(root'[m]) \in Nat
         /\ Size(root'["avl"]) + Size(root'["bst"])
              = (Size(root["avl"]) + Size(root["bst"])) + (Size(t) - Size(root[n]))
<1>1. root'[n] = t /\ \A m \in Names : m # n => root'[m] = root[m]
  BY DEF TreesInv
<1>2. root' = [m \in Names |-> root'[m]]
  BY DEF TreesInv
<1>3. \A m \in Names : Good(m, root'[m]) /\ KeysOf(root'[m]) \subseteq Keys
  BY <1>1 DEF TreesInv
<1>4. \A m \in Names : Size(root'[m]) \in Nat /\ Size(root[m]) \in Nat
  BY <1>3, SizeIn DEF TreesInv
<1>5. Size(root'["avl"]) + Size(root'["bst"])
        = (Size(root["avl"]) + Size(root["bst"])) + (Size(t) - Size(root[n]))
  <2> DEFINE a == Size(root["avl"])
             b == Size(root["bst"])
             c == Size(t)
  <2>1. a \in Nat /\ b \in Nat /\ c \in Nat
    BY <1>1, <1>4, NamesAre
  <2>2. CASE n = "avl"
    <3>1. root'["avl"] = t /\ root'["bst"] = root["bst"] /\ Size(root[n]) = a
      BY <1>1, <2>2, NamesAre
    <3> HIDE DEF a, b, c
    <3>2. c + b = (a + b) + (c - a)
      BY <2>1
    <3>3. QED
      BY <3>1, <3>2 DEF a, b, c
  <2>3. CASE n = "bst"
    <3>1. root'["bst"] = t /\ root'["avl"] = root["avl"] /\ Size(root[n]) = b
      BY <1>1, <2>3, NamesAre
    <3> HIDE DEF a, b, c
    <3>2. a + c = (a + b) + (c - b)
      BY <2>1
    <3>3. QED
      BY <3>1, <3>2 DEF a, b, c
  <2>4. QED
    BY <2>2, <2>3 DEF Names
<1>6. QED
  BY <1>1, <1>2, <1>3, <1>4, <1>5

LEMMA FeedIs ==
  ASSUME feed \in Seq(Keys), feed # <<>>
  PROVE  /\ Head(feed) \in Keys /\ Tail(feed) \in Seq(Keys)
         /\ Range(feed) = {Head(feed)} \cup Range(Tail(feed))
<1>1. Head(feed) \in Keys /\ Tail(feed) \in Seq(Keys)
  OBVIOUS
<1>2. Len(feed) \in Nat /\ Len(feed) # 0 /\ DOMAIN feed = 1 .. Len(feed) /\ Head(feed) = feed[1]
  OBVIOUS
<1>3. DOMAIN Tail(feed) = 1 .. Len(feed) - 1 /\ \A i \in 1 .. Len(feed) - 1 : Tail(feed)[i] = feed[i + 1]
  OBVIOUS
<1>4. ASSUME NEW i \in 1 .. Len(feed) PROVE feed[i] = Head(feed) \/ feed[i] \in Range(Tail(feed))
  <2>1. CASE i = 1
    BY <1>2, <2>1
  <2>2. CASE i # 1
    <3>1. i - 1 \in 1 .. Len(feed) - 1 /\ (i - 1) + 1 = i
      BY <1>2, <2>2
    <3>2. QED
      BY <1>3, <3>1 DEF Range
  <2>3. QED
    BY <2>1, <2>2
<1>5. ASSUME NEW i \in 1 .. Len(feed) - 1 PROVE Tail(feed)[i] \in Range(feed)
  <2>1. i + 1 \in 1 .. Len(feed)
    BY <1>2
  <2>2. QED
    BY <1>2, <1>3, <2>1 DEF Range
<1>6. 1 \in 1 .. Len(feed)
  BY <1>2
<1>7. Range(feed) \subseteq {Head(feed)} \cup Range(Tail(feed))
  BY <1>2, <1>4 DEF Range
<1>8. Range(Tail(feed)) \subseteq Range(feed)
  BY <1>3, <1>5 DEF Range
<1>9. Head(feed) \in Range(feed)
  BY <1>2, <1>6 DEF Range
<1>10. QED
  BY <1>1, <1>7, <1>8, <1>9

LEMMA TreesChanged ==
  ASSUME TreesInv, NEW n \in Names, n \in alive, NEW t, Good(n, t), KeysOf(t) \subseteq Keys,
         root' = [root EXCEPT ![n] = t], len' = [len EXCEPT ![n] = Size(t)],
         blocks' = blocks + (Size(t) - Size(root[n])), UNCHANGED <<alive, pc>>,
         feed' \in Seq(Keys), Feeding => found' = 0
  PROVE  TreesInv'
<1>1. /\ root' = [m \in Names |-> root'[m]] /\ root'[n] = t
      /\ \A m \in Names : /\ m # n => root'[m] = root[m]
                          /\ Good(m, root'[m]) /\ KeysOf(root'[m]) \subseteq Keys
                          /\ Size(root'[m]) \in Nat
      /\ Size(root'["avl"]) + Size(root'["bst"])
           = (Size(root["avl"]) + Size(root["bst"])) + (Size(t) - Size(root[n]))
  BY OneChanged
<1>2. len' \in [Names -> Nat] /\ \A m \in Names : len'[m] = Size(root'[m])
  BY <1>1 DEF TreesInv
<1>3. \A m \in Names : m \notin alive' => IsLeaf(root'[m])
  BY <1>1 DEF TreesInv
<1>4. blocks' = (IF alive' = {} THEN 0 ELSE 1) + Size(root'["avl"]) + Size(root'["bst"]) + ExtendBlocks'
  <2> DEFINE a  == Size(root["avl"])
             b  == Size(root["bst"])
             a1 == Size(root'["avl"])
             b1 == Size(root'["bst"])
             d  == Size(t) - Size(root[n])
             e  == ExtendBlocks
             o  == IF alive = {} THEN 0 ELSE 1
  <2>1. a \in Nat /\ b \in Nat
    BY NamesAre, SizeIn DEF TreesInv
  <2>2. a1 \in Nat /\ b1 \in Nat /\ d \in Int /\ a1 + b1 = (a + b) + d
    <3>1. a1 \in Nat /\ b1 \in Nat /\ Size(t) \in Nat /\ Size(root[n]) \in Nat
      BY <1>1, NamesAre, SizeIn DEF TreesInv
    <3>2. QED
      BY <1>1, <2>1, <3>1
  <2>3. blocks' = ((o + a + b) + e) + d /\ e \in Nat /\ o \in Nat /\ ExtendBlocks' = e
    BY DEF TreesInv, ExtendBlocks
  <2> HIDE DEF a, b, a1, b1, d, e, o
  <2>4. blocks' = o + a1 + b1 + e
    BY <2>1, <2>2, <2>3
  <2>5. QED
    BY <2>3, <2>4 DEF a1, b1, o
<1>5. QED
  BY <1>1, <1>2, <1>3, <1>4 DEF TreesInv, Feeding

LEMMA TreesKept ==
  ASSUME TreesInv, UNCHANGED <<root, len, alive>>,
         pc' \in {"idle", "extend", "feeding"}, pc' # "idle" => alive # {}, feed' \in Seq(Keys),
         Feeding' => found' = 0, blocks' = (blocks - ExtendBlocks) + ExtendBlocks'
  PROVE  TreesInv'
<1> DEFINE a == Size(root["avl"])
           b == Size(root["bst"])
           e == ExtendBlocks
           f == ExtendBlocks'
           o == IF alive = {} THEN 0 ELSE 1
<1>1. a \in Nat /\ b \in Nat /\ e \in Nat /\ f \in Nat /\ o \in Nat
  BY NamesAre, SizeIn DEF TreesInv, ExtendBlocks
<1>2. blocks = ((o + a) + b) + e /\ blocks' = (blocks - e) + f
  BY DEF TreesInv
<1> HIDE DEF a, b, e, f, o
<1>3. blocks' = o + a + b + f
  BY <1>1, <1>2
<1>4. blocks' = (IF alive' = {} THEN 0 ELSE 1) + Size(root'["avl"]) + Size(root'["bst"]) + ExtendBlocks'
  BY <1>3 DEF a, b, f, o
<1>5. QED
  BY <1>4 DEF TreesInv

(* The blocks are a number.                                                *)
LEMMA BlocksInt ==
  ASSUME TreesInv
  PROVE  blocks \in Int /\ \A n \in Names : Size(root[n]) \in Nat
<1>1. \A n \in Names : Size(root[n]) \in Nat
  BY SizeIn DEF TreesInv
<1>2. ExtendBlocks \in Nat
  BY DEF ExtendBlocks
<1>3. QED
  BY <1>1, <1>2, NamesAre DEF TreesInv

LEMMA AddedInv ==
  ASSUME TreesInv, NEW n \in Names, n \in alive, NEW k \in Keys, Added(n, k), UNCHANGED <<alive, pc>>,
         feed' \in Seq(Keys), Feeding => found' = 0
  PROVE  TreesInv'
<1> DEFINE t == Inserted(n, k)
<1>1. /\ Good(n, t) /\ KeysOf(t) \subseteq Keys
      /\ Size(t) = IF Has(n, k) THEN Size(root[n]) ELSE Size(root[n]) + 1
      /\ len[n] = Size(root[n])
  BY CallIs DEF TreesInv
<1> HIDE DEF t
<1>2. Size(root[n]) \in Nat /\ blocks \in Int
  BY BlocksInt
<1>3. root' = [root EXCEPT ![n] = t] /\ len' = [len EXCEPT ![n] = Size(t)]
  BY <1>1 DEF Added, TreesInv, t
<1>4. blocks' = blocks + (Size(t) - Size(root[n]))
  BY <1>1, <1>2 DEF Added
<1>5. QED
  BY <1>1, <1>3, <1>4, TreesChanged

LEMMA TreesStep ==
  ASSUME TreesInv, [Next]_vars
  PROVE  TreesInv'
<1>1. CASE UNCHANGED vars
  BY <1>1 DEF vars, TreesInv, Feeding, ExtendBlocks
<1> SUFFICES ASSUME NEW n \in Names,
               \/ Create(n) \/ Clear(n) \/ Destroy(n) \/ Min(n) \/ Max(n)
               \/ \E k \in Keys : \/ Add(n, k) \/ AddRefused(n, k) \/ AddDuplicate(n, k)
                                  \/ Remove(n, k) \/ Contains(n, k)
               \/ ExtendStart(n) \/ (n \in alive /\ ExtendStep(n))
             PROVE  TreesInv'
  BY <1>1 DEF Next, Call
<1> USE BlocksInt
<1>2. ASSUME pc = "idle", Same, UNCHANGED <<pc, feed>> PROVE TreesInv'
  <2>1. blocks' = (blocks - ExtendBlocks) + ExtendBlocks' /\ ~Feeding' /\ UNCHANGED <<root, len, alive>>
    BY <1>2 DEF ExtendBlocks, Feeding, Same
  <2>2. QED
    BY <1>2, <2>1, TreesKept DEF TreesInv
<1>3. CASE Create(n)
  <2>1. pc = "idle" /\ alive = {} /\ UNCHANGED <<root, len, pc, feed>>
    BY <1>3 DEF Create, Return, TreesInv
  <2>2. CASE UNCHANGED <<alive, blocks>>
    BY <1>2, <2>1, <2>2 DEF Same
  <2>3. CASE alive' = alive \cup {n} /\ blocks' = blocks + 1
    <3> DEFINE a == Size(root["avl"])
               b == Size(root["bst"])
    <3>1. a \in Nat /\ b \in Nat /\ blocks = ((0 + a) + b) + 0 /\ ExtendBlocks' = 0
      BY <2>1, NamesAre DEF TreesInv, ExtendBlocks
    <3> HIDE DEF a, b
    <3>2. blocks' = 1 + a + b + 0
      BY <2>3, <3>1
    <3>3. alive' # {} /\ alive' \in {{}, {"avl"}, {"bst"}}
      BY <2>1, <2>3 DEF Names
    <3>4. blocks' = (IF alive' = {} THEN 0 ELSE 1) + Size(root'["avl"]) + Size(root'["bst"]) + ExtendBlocks'
      BY <2>1, <3>1, <3>2, <3>3 DEF a, b
    <3>5. ~Feeding' /\ (\A m \in Names : m \notin alive' => m \notin alive)
      BY <2>1 DEF Feeding
    <3>6. QED
      BY <2>1, <3>3, <3>4, <3>5 DEF TreesInv
  <2>4. QED
    BY <1>3, <2>2, <2>3 DEF Create
<1>4. ASSUME Ready(n), Emptied(n) PROVE
        /\ root' = [root EXCEPT ![n] = LeafOf(n)] /\ len' = [len EXCEPT ![n] = Size(LeafOf(n))]
        /\ Good(n, LeafOf(n)) /\ IsLeaf(LeafOf(n)) /\ KeysOf(LeafOf(n)) \subseteq Keys /\ Size(LeafOf(n)) = 0
        /\ n \in alive /\ pc = "idle"
  BY <1>4, NamesAre, NullIs DEF Ready, Emptied
<1>5. CASE Clear(n)
  <2>1. Ready(n) /\ Emptied(n) /\ blocks' = blocks - Size(root[n]) /\ UNCHANGED <<alive, pc, feed>>
    BY <1>5 DEF Clear, Return
  <2>2. blocks' = blocks + (Size(LeafOf(n)) - Size(root[n]))
    BY <1>4, <2>1
  <2>3. feed' \in Seq(Keys) /\ ~Feeding
    BY <1>4, <2>1 DEF TreesInv, Feeding
  <2>4. QED
    BY <1>4, <2>1, <2>2, <2>3, TreesChanged
<1>6. CASE Destroy(n)
  <2>1. Ready(n) /\ Emptied(n) /\ blocks' = blocks - Size(root[n]) - 1 /\ alive' = alive \ {n} /\ UNCHANGED <<pc, feed>>
    BY <1>6 DEF Destroy, Return
  <2>2. alive' = {} /\ alive # {}
    BY <1>4, <2>1 DEF TreesInv
  <2>3. /\ root' = [m \in Names |-> root'[m]] /\ root'[n] = LeafOf(n)
        /\ \A m \in Names : /\ m # n => root'[m] = root[m]
                            /\ Good(m, root'[m]) /\ KeysOf(root'[m]) \subseteq Keys
                            /\ Size(root'[m]) \in Nat
        /\ Size(root'["avl"]) + Size(root'["bst"])
             = (Size(root["avl"]) + Size(root["bst"])) + (Size(LeafOf(n)) - Size(root[n]))
    BY <1>4, <2>1, OneChanged
  <2>4. len' \in [Names -> Nat] /\ \A m \in Names : len'[m] = Size(root'[m])
    <3>1. len' = [len EXCEPT ![n] = 0] /\ len \in [Names -> Nat] /\ \A m \in Names : len[m] = Size(root[m])
      BY <1>4, <2>1 DEF TreesInv
    <3>2. len'[n] = Size(root'[n])
      BY <1>4, <2>1, <2>3, <3>1
    <3>3. \A m \in Names : m # n => len'[m] = Size(root'[m])
      BY <2>3, <3>1
    <3>4. QED
      BY <3>1, <3>2, <3>3
  <2>5. \A m \in Names : IsLeaf(root'[m])
    BY <1>4, <2>1, <2>3 DEF TreesInv
  <2>6. blocks' = (IF alive' = {} THEN 0 ELSE 1) + Size(root'["avl"]) + Size(root'["bst"]) + ExtendBlocks'
    <3> DEFINE a  == Size(root["avl"])
               b  == Size(root["bst"])
               a1 == Size(root'["avl"])
               b1 == Size(root'["bst"])
               z  == Size(root[n])
    <3>1. a \in Nat /\ b \in Nat /\ a1 \in Nat /\ b1 \in Nat /\ z \in Nat /\ a1 + b1 = (a + b) + (0 - z)
      BY <1>4, <2>1, <2>3, NamesAre
    <3>2. blocks = ((1 + a) + b) + 0 /\ ExtendBlocks' = 0 /\ blocks' = blocks - z - 1
      BY <1>4, <2>1, <2>2 DEF TreesInv, ExtendBlocks
    <3> HIDE DEF a, b, a1, b1, z
    <3>3. blocks' = 0 + a1 + b1 + 0
      BY <3>1, <3>2
    <3>4. QED
      BY <2>2, <3>2, <3>3 DEF a1, b1
  <2>7. QED
    BY <1>4, <2>1, <2>2, <2>3, <2>4, <2>5, <2>6 DEF TreesInv, Feeding
<1>7. CASE Min(n) \/ Max(n)
  BY <1>2, <1>7 DEF Min, Max, Extreme, Ready, Return
<1>8. ASSUME NEW k \in Keys, Add(n, k) \/ AddRefused(n, k) \/ AddDuplicate(n, k) \/ Remove(n, k) \/ Contains(n, k)
      PROVE  TreesInv'
  <2>1. CASE AddRefused(n, k) \/ Contains(n, k)
    BY <1>2, <2>1 DEF AddRefused, Contains, Ready, Return
  <2>2. CASE Add(n, k) \/ AddDuplicate(n, k)
    <3>1. n \in alive /\ pc = "idle" /\ Added(n, k) /\ UNCHANGED <<alive, pc, feed>>
      BY <2>2 DEF Add, AddDuplicate, Ready, Return
    <3>2. feed' \in Seq(Keys) /\ ~Feeding
      BY <3>1 DEF TreesInv, Feeding
    <3>3. QED
      BY <3>1, <3>2, AddedInv
  <2>3. CASE Remove(n, k)
    <3> DEFINE t == Removed(n, k)
    <3>1. /\ Good(n, t) /\ KeysOf(t) \subseteq Keys /\ len[n] = Size(root[n])
          /\ Size(t) = IF Has(n, k) THEN Size(root[n]) - 1 ELSE Size(root[n])
      BY CallIs DEF TreesInv
    <3> HIDE DEF t
    <3>2. /\ n \in alive /\ pc = "idle" /\ root' = [root EXCEPT ![n] = t] /\ UNCHANGED <<alive, pc, feed>>
          /\ IF Has(n, k) THEN len' = [len EXCEPT ![n] = LenLess(@)] /\ blocks' = blocks - 1
             ELSE UNCHANGED <<len, blocks>>
      BY <2>3 DEF Remove, Ready, Return, t
    <3>3. len' = [len EXCEPT ![n] = Size(t)]
      BY <3>1, <3>2 DEF LenLess, TreesInv
    <3>4. blocks' = blocks + (Size(t) - Size(root[n]))
      BY <3>1, <3>2
    <3>5. feed' \in Seq(Keys) /\ ~Feeding
      BY <3>2 DEF TreesInv, Feeding
    <3>6. QED
      BY <3>1, <3>2, <3>3, <3>4, <3>5, TreesChanged
  <2>4. QED
    BY <1>8, <2>1, <2>2, <2>3
<1>9. CASE ExtendStart(n)
  <2>1. PICK s \in Sources : ExtendCall(s)
    BY <1>9 DEF ExtendStart
  <2>2. UNCHANGED <<root, len, alive>> /\ n \in alive /\ pc' = "extend" /\ ~Feeding'
    BY <1>9, <2>1 DEF ExtendStart, ExtendCall, Feeding
  <2>3. feed' \in Seq(Keys)
    BY <2>1, TreesAssumption DEF ExtendCall
  <2>4. blocks' = (blocks - ExtendBlocks) + ExtendBlocks'
    BY <2>1 DEF ExtendCall, ExtendBlocks
  <2>5. QED
    BY <2>2, <2>3, <2>4, TreesKept
<1>10. CASE n \in alive /\ ExtendStep(n)
  <2>1. CASE (ExtendRefused \/ ExtendScratch) /\ found' = 0 /\ UNCHANGED <<root, len, alive>>
    <3>1. pc' \in {"idle", "extend", "feeding"} /\ (feed' = <<>> \/ feed' = feed)
      BY <2>1 DEF ExtendRefused, ExtendScratch
    <3>2. feed' \in Seq(Keys)
      <4>1. feed \in Seq(Keys) /\ <<>> \in Seq(Keys)
        BY DEF TreesInv
      <4>2. QED
        BY <3>1, <4>1
    <3>3. blocks' = (blocks - ExtendBlocks) + ExtendBlocks'
      BY <2>1 DEF ExtendRefused, ExtendScratch, ExtendBlocks, IterDestroy
    <3>4. QED
      BY <1>10, <2>1, <3>1, <3>2, <3>3, TreesKept
  <2>2. CASE FeedOne(Added(n, Head(feed))) /\ UNCHANGED <<alive, found>>
    <3>1. /\ feed # <<>> /\ Added(n, Head(feed)) /\ feed' = Tail(feed) /\ UNCHANGED <<alive, pc, found>>
      BY <2>2 DEF FeedOne
    <3>2. Head(feed) \in Keys /\ feed' \in Seq(Keys)
      BY <3>1, FeedIs DEF TreesInv
    <3>3. Feeding => found' = 0
      BY <3>1 DEF TreesInv
    <3>4. QED
      BY <1>10, <3>1, <3>2, <3>3, AddedInv
  <2>3. CASE (FeedRefused(~Has(n, Head(feed))) \/ FeedDone) /\ UNCHANGED <<root, len, alive, found>>
    <3>1. /\ pc = "feeding" /\ pc' = "idle" /\ feed' = <<>> /\ ~Feeding'
          /\ blocks' = ScratchFree(IterDestroy(blocks))
      BY <2>3 DEF FeedRefused, FeedDone, FeedEnd, Feeding
    <3>2. blocks' = (blocks - ExtendBlocks) + ExtendBlocks'
      BY <3>1 DEF ExtendBlocks, IterDestroy, ScratchFree
    <3>3. QED
      BY <2>3, <3>1, <3>2, TreesKept
  <2>4. QED
    BY <1>10, <2>1, <2>2, <2>3 DEF ExtendStep
<1>11. QED
  BY <1>3, <1>5, <1>6, <1>7, <1>8, <1>9, <1>10

-----------------------------------------------------------------------------
(* Refinement of SetSpec: what a call makes of the sets' contents.         *)

Contents == [n \in Names |-> KeysOf(root[n])]
Wanted   == IF Feeding THEN KeysOf(root[Busy]) \cup Range(feed) ELSE {}
Result   == IF ret = Nil THEN "none" ELSE ret

LEMMA NotFeeding ==
  ASSUME pc # "feeding"
  PROVE  Busy = Sets!Nobody /\ Wanted = {}
BY DEF Busy, Wanted, Feeding, Sets!Nobody

LEMMA NowFeeding ==
  ASSUME TreesInv, pc = "feeding", NEW n \in Names, n \in alive
  PROVE  Busy = n /\ Busy # Sets!Nobody /\ Wanted = KeysOf(root[n]) \cup Range(feed) /\ alive = {n} /\ found = 0
<1>1. alive = {n}
  BY DEF TreesInv
<1>2. Busy = n
  BY <1>1 DEF Busy, Feeding
<1>3. QED
  BY <1>1, <1>2 DEF Wanted, Feeding, Sets!Nobody, Names, TreesInv

LEMMA NotFeedingNext ==
  ASSUME pc' # "feeding"
  PROVE  Busy' = Sets!Nobody /\ Wanted' = {}
BY DEF Busy, Wanted, Feeding, Sets!Nobody

LEMMA NowFeedingNext ==
  ASSUME pc' = "feeding", NEW n \in Names, alive' = {n}
  PROVE  Busy' = n /\ Wanted' = KeysOf(root'[n]) \cup Range(feed')
<1>1. Busy' = n
  BY DEF Busy, Feeding
<1>2. Wanted' = KeysOf(root'[Busy']) \cup Range(feed')
  BY DEF Wanted, Feeding
<1>3. QED
  BY <1>1, <1>2

LEMMA ContentsChanged ==
  ASSUME TreesInv, NEW n \in Names, NEW t, root' = [root EXCEPT ![n] = t]
  PROVE  Contents' = [Contents EXCEPT ![n] = KeysOf(t)]
<1>1. root'[n] = t /\ \A m \in Names : m # n => root'[m] = root[m]
  BY DEF TreesInv
<1>2. Contents' = [m \in Names |-> KeysOf(root'[m])] /\ Contents = [m \in Names |-> KeysOf(root[m])]
  BY DEF Contents
<1>3. QED
  BY <1>1, <1>2

LEMMA Returned ==
  ASSUME NEW r \in {"none", "OK", "OOM", "DUPLICATE", "NOT_FOUND", "INVALID", "yes", "no"}, ret' = r
  PROVE  Result' = r
BY OrderedSetsAssumption DEF Result

LEMMA SetsInit ==
  ASSUME Init
  PROVE  Sets!Init
<1>1. ret = "none" /\ alive = {} /\ pc = "idle" /\ found = 0 /\ asked = <<"nothing">> /\ root = [n \in Names |-> LeafOf(n)]
  BY NamesAre DEF Init
<1>2. Contents = [n \in Names |-> {}]
  BY <1>1, NamesAre, NullIs DEF Contents
<1>3. Busy = Sets!Nobody /\ Wanted = {} /\ Result = "none"
  BY <1>1, NotFeeding DEF Result
<1>4. QED
  BY <1>1, <1>2, <1>3 DEF Sets!Init, Contents, Wanted, Result, Sets!NoKey

(* The steps of SetSpec, told in terms of Contents, Wanted and Result.     *)
SetsSame == Contents' = Contents /\ alive' = alive /\ Busy' = Busy /\ Wanted' = Wanted

LEMMA SetsStutter ==
  ASSUME SetsSame, Result' = Result, found' = found, asked' = asked
  PROVE  UNCHANGED Sets!vars
BY DEF SetsSame, Sets!vars, Contents, Wanted, Result

LEMMA SetsTold ==
  ASSUME NEW n \in Names
  PROVE  /\ \A r : Result' = r /\ found' = 0 /\ SetsSame => Sets!Leave(r)
         /\ \A r, ks : /\ Contents' = [Contents EXCEPT ![n] = ks] /\ Result' = r /\ found' = 0
                       /\ alive' = alive /\ Busy' = Busy /\ Wanted' = Wanted
                       => Sets!Change(n, ks, r)
         /\ n \in alive /\ Busy = Sets!Nobody => Sets!Ready(n)
<1>1. \A r : Result' = r /\ found' = 0 /\ SetsSame => Sets!Leave(r)
  BY DEF Sets!Leave, Sets!Says, Sets!Same, SetsSame, Sets!NoKey, Contents, Wanted, Result
<1>2. \A r, ks : /\ Contents' = [Contents EXCEPT ![n] = ks] /\ Result' = r /\ found' = 0
                 /\ alive' = alive /\ Busy' = Busy /\ Wanted' = Wanted
                 => Sets!Change(n, ks, r)
  BY DEF Sets!Change, Sets!Says, Sets!NoKey, Contents, Wanted, Result
<1>3. n \in alive /\ Busy = Sets!Nobody => Sets!Ready(n)
  BY DEF Sets!Ready
<1>4. QED
  BY <1>1, <1>2, <1>3

LEMMA SetsStep ==
  ASSUME TreesInv, TreesInv', [Next]_vars
  PROVE  [Sets!Next]_(Sets!vars)
<1>1. CASE UNCHANGED vars
  <2>1. SetsSame /\ Result' = Result /\ found' = found /\ asked' = asked
    BY <1>1 DEF vars, SetsSame, Contents, Busy, Wanted, Result, Feeding
  <2>2. QED
    BY <2>1, SetsStutter
<1> SUFFICES ASSUME NEW n \in Names,
               \/ Call(n)
               \/ ExtendStart(n) /\ UNCHANGED asked
               \/ /\ n \in alive /\ ExtendStep(n)
                  /\ asked' = IF pc = "extend" THEN <<"extend", n, Range(feed)>> ELSE asked
             PROVE  [Sets!Next]_(Sets!vars)
  BY <1>1 DEF Next
<1>2. ASSUME pc # "feeding", pc' # "feeding", UNCHANGED <<root, alive>>
      PROVE  SetsSame
  BY <1>2, NotFeeding, NotFeedingNext DEF SetsSame, Contents
<1>3. ASSUME pc # "feeding", pc' # "feeding"
      PROVE  Busy = Sets!Nobody /\ Wanted = {} /\ Busy' = Sets!Nobody /\ Wanted' = {}
  <2>1. Busy = Sets!Nobody /\ Wanted = {}
    BY <1>3, NotFeeding
  <2>2. Busy' = Sets!Nobody /\ Wanted' = {}
    BY <1>3, NotFeedingNext
  <2>3. QED
    BY <2>1, <2>2
<1> DEFINE Abs == Sets!Calls(n)
<1>0. Abs => Sets!Next
  BY DEF Sets!Next
<1>4. ASSUME asked' = <<"create", n>>, Create(n) PROVE Abs
  <2>1. pc = "idle" /\ alive = {} /\ UNCHANGED <<root, len, pc, feed>> /\ found' = 0
    BY <1>4 DEF Create, Return, TreesInv
  <2>2. CASE UNCHANGED <<alive, blocks>> /\ Return("OOM")
    <3>1. SetsSame /\ Result' = "OOM" /\ Busy = Sets!Nobody /\ n \notin alive
      BY <1>2, <1>3, <2>1, <2>2, Returned DEF Return
    <3>2. Sets!Create(n)
      BY <2>1, <3>1, SetsTold DEF Sets!Create
    <3>3. QED
      BY <1>4, <3>2 DEF Sets!Calls
  <2>3. CASE alive' = alive \cup {n} /\ Return("OK")
    <3>1. /\ Contents' = Contents /\ Result' = "OK" /\ Busy = Sets!Nobody /\ n \notin alive
          /\ Busy' = Busy /\ Wanted' = Wanted
      BY <1>3, <2>1, <2>3, Returned DEF Return, Contents
    <3>2. Sets!Create(n)
      BY <2>1, <2>3, <3>1 DEF Sets!Create, Sets!Says, Sets!NoKey, Contents, Wanted, Result
    <3>3. QED
      BY <1>4, <3>2 DEF Sets!Calls
  <2>4. QED
    BY <1>4, <2>2, <2>3 DEF Create
<1>5. ASSUME Ready(n), Emptied(n) PROVE Contents' = [Contents EXCEPT ![n] = {}] /\ n \in alive /\ pc = "idle"
  <2>1. root' = [root EXCEPT ![n] = LeafOf(n)] /\ KeysOf(LeafOf(n)) = {}
    BY <1>5, NamesAre, NullIs DEF Emptied
  <2>2. QED
    BY <1>5, <2>1, ContentsChanged DEF Ready
<1>6. ASSUME asked' = <<"clear", n>>, Clear(n) PROVE Abs
  <2>1. Ready(n) /\ Emptied(n) /\ UNCHANGED <<alive, pc, feed>> /\ ret' = "OK" /\ found' = 0
    BY <1>6 DEF Clear, Return
  <2>2. Contents' = [Contents EXCEPT ![n] = {}] /\ n \in alive /\ pc = "idle" /\ Result' = "OK"
    BY <1>5, <2>1, Returned
  <2>3. Busy = Sets!Nobody /\ Busy' = Busy /\ Wanted' = Wanted
    BY <1>3, <2>1, <2>2
  <2>4. Sets!Clear(n)
    BY <2>1, <2>2, <2>3, SetsTold DEF Sets!Clear
  <2>5. QED
    BY <1>6, <2>4 DEF Sets!Calls
<1>7. ASSUME asked' = <<"destroy", n>>, Destroy(n) PROVE Abs
  <2>1. Ready(n) /\ Emptied(n) /\ alive' = alive \ {n} /\ UNCHANGED <<pc, feed>> /\ ret' = "OK" /\ found' = 0
    BY <1>7 DEF Destroy, Return
  <2>2. Contents' = [Contents EXCEPT ![n] = {}] /\ n \in alive /\ pc = "idle" /\ Result' = "OK"
    BY <1>5, <2>1, Returned
  <2>3. Busy = Sets!Nobody /\ Busy' = Busy /\ Wanted' = Wanted
    BY <1>3, <2>1, <2>2
  <2>4. Sets!Destroy(n)
    <3>1. Sets!Ready(n)
      BY <2>2, <2>3, SetsTold
    <3>2. QED
      BY <2>1, <2>2, <2>3, <3>1 DEF Sets!Destroy, Sets!Says, Sets!NoKey, Contents, Wanted, Result
  <2>5. QED
    BY <1>7, <2>4 DEF Sets!Calls
<1>8. ASSUME \/ asked' = <<"min", n>> /\ Min(n)
             \/ asked' = <<"max", n>> /\ Max(n)
      PROVE  Abs
  <2>1. n \in alive /\ pc = "idle" /\ UNCHANGED <<root, alive, pc, feed>>
    BY <1>8 DEF Min, Max, Extreme, Ready, Return, Same
  <2>2. SetsSame /\ Busy = Sets!Nobody /\ Sets!Ready(n) /\ Contents[n] = KeysOf(root[n]) /\ Good(n, root[n])
    BY <1>2, <1>3, <2>1, SetsTold DEF Contents, TreesInv
  <2>3. CASE Nothing(n)
    <3>1. Result' = "NOT_FOUND" /\ found' = 0
      BY <1>8, <2>3, Returned DEF Min, Max, Extreme, Return
    <3>2. Contents[n] = {}
      BY <2>2, <2>3, LeafIs DEF Nothing
    <3>3. Sets!Leave("NOT_FOUND")
      BY <2>2, <3>1, SetsTold
    <3>4. Sets!None(n)
      BY <2>2, <3>2, <3>3 DEF Sets!None, Contents
    <3>5. QED
      BY <1>8, <3>4 DEF Sets!Calls
  <2>4. CASE ~Nothing(n)
    <3>1. Result' = "OK"
      BY <1>8, <2>4, Returned DEF Min, Max, Extreme
    <3>2. Sets!Same
      BY <2>2 DEF Sets!Same, SetsSame, Contents, Wanted
    <3>3. CASE asked' = <<"min", n>> /\ Min(n)
      <4>1. found' = MinNode(root[n]).key
        BY <2>4, <3>3 DEF Min, Extreme, Least
      <4>2. found' \in Contents[n] /\ \A k \in Contents[n] : found' <= k
        BY <2>2, <2>4, <4>1, MinIn DEF KeysOf, Nothing
      <4>3. Sets!Min(n)
        BY <2>2, <3>1, <3>2, <4>2 DEF Sets!Min, Contents, Result
      <4>4. QED
        BY <3>3, <4>3 DEF Sets!Calls
    <3>4. CASE asked' = <<"max", n>> /\ Max(n)
      <4>1. found' = MaxNode(root[n]).key
        BY <2>4, <3>4 DEF Max, Extreme, Greatest
      <4>2. found' \in Contents[n] /\ \A k \in Contents[n] : found' >= k
        BY <2>2, <2>4, <4>1, MaxIn DEF KeysOf, Nothing
      <4>3. Sets!Max(n)
        BY <2>2, <3>1, <3>2, <4>2 DEF Sets!Max, Contents, Result
      <4>4. QED
        BY <3>4, <4>3 DEF Sets!Calls
    <3>5. QED
      BY <1>8, <3>3, <3>4
  <2>5. QED
    BY <2>3, <2>4
<1>9. ASSUME NEW k \in Keys,
             \/ asked' = <<"add", n, k>> /\ (Add(n, k) \/ AddRefused(n, k) \/ AddDuplicate(n, k))
             \/ asked' = <<"remove", n, k>> /\ Remove(n, k)
             \/ asked' = <<"contains", n, k>> /\ Contains(n, k)
      PROVE  Abs
  <2>1. n \in alive /\ pc = "idle" /\ UNCHANGED <<alive, pc, feed>> /\ found' = 0
    BY <1>9 DEF Add, AddRefused, AddDuplicate, Remove, Contains, Ready, Return, Same
  <2>2. /\ Busy = Sets!Nobody /\ Busy' = Busy /\ Wanted' = Wanted /\ Sets!Ready(n)
        /\ Contents[n] = KeysOf(root[n]) /\ (Has(n, k) <=> k \in Contents[n])
    BY <1>3, <2>1, CallIs, SetsTold DEF Contents
  <2>3. CASE \/ asked' = <<"add", n, k>> /\ AddRefused(n, k)
             \/ asked' = <<"contains", n, k>> /\ Contains(n, k)
    <3>1. SetsSame
      BY <1>2, <2>1, <2>3 DEF AddRefused, Contains, Same
    <3>2. CASE asked' = <<"add", n, k>> /\ AddRefused(n, k)
      <4>1. Sets!Leave("OOM")
        BY <2>1, <3>1, <3>2, Returned, SetsTold DEF AddRefused, Return
      <4>2. Sets!Add(n, k)
        BY <2>2, <4>1 DEF Sets!Add
      <4>3. QED
        BY <3>2, <4>2 DEF Sets!Calls
    <3>3. CASE asked' = <<"contains", n, k>> /\ Contains(n, k)
      <4>1. Result' = IF k \in Contents[n] THEN "yes" ELSE "no"
        BY <2>2, <3>3, Returned DEF Contains, Return
      <4>2. Sets!Leave(IF k \in Contents[n] THEN "yes" ELSE "no")
        BY <2>1, <3>1, <4>1, SetsTold
      <4>3. Sets!Contains(n, k)
        BY <2>2, <4>2 DEF Sets!Contains, Contents
      <4>4. QED
        BY <3>3, <4>3 DEF Sets!Calls
    <3>4. QED
      BY <2>3, <3>2, <3>3
  <2>4. CASE asked' = <<"add", n, k>> /\ (Add(n, k) \/ AddDuplicate(n, k))
    <3>1. Contents' = [Contents EXCEPT ![n] = Contents[n] \cup {k}]
      <4>1. root' = [root EXCEPT ![n] = Inserted(n, k)] /\ KeysOf(Inserted(n, k)) = KeysOf(root[n]) \cup {k}
        BY <2>4, CallIs DEF Add, AddDuplicate, Added
      <4>2. QED
        BY <2>2, <4>1, ContentsChanged
    <3>2. Result' = IF k \in Contents[n] THEN "DUPLICATE" ELSE "OK"
      BY <2>2, <2>4, Returned DEF Add, AddDuplicate, Return
    <3>3. Sets!Change(n, Contents[n] \cup {k}, IF k \in Contents[n] THEN "DUPLICATE" ELSE "OK")
      BY <2>1, <2>2, <3>1, <3>2, SetsTold
    <3>4. Sets!Add(n, k)
      BY <2>2, <3>3 DEF Sets!Add, Contents
    <3>5. QED
      BY <2>4, <3>4 DEF Sets!Calls
  <2>5. CASE asked' = <<"remove", n, k>> /\ Remove(n, k)
    <3>1. Contents' = [Contents EXCEPT ![n] = Contents[n] \ {k}]
      <4>1. root' = [root EXCEPT ![n] = Removed(n, k)] /\ KeysOf(Removed(n, k)) = KeysOf(root[n]) \ {k}
        BY <2>5, CallIs DEF Remove
      <4>2. QED
        BY <2>2, <4>1, ContentsChanged
    <3>2. Result' = IF k \in Contents[n] THEN "OK" ELSE "NOT_FOUND"
      BY <2>2, <2>5, Returned DEF Remove, Return
    <3>3. Sets!Change(n, Contents[n] \ {k}, IF k \in Contents[n] THEN "OK" ELSE "NOT_FOUND")
      BY <2>1, <2>2, <3>1, <3>2, SetsTold
    <3>4. Sets!Remove(n, k)
      BY <2>2, <3>3 DEF Sets!Remove, Contents
    <3>5. QED
      BY <2>5, <3>4 DEF Sets!Calls
  <2>6. QED
    BY <1>9, <2>3, <2>4, <2>5
<1>10. CASE ExtendStart(n) /\ UNCHANGED asked
  <2>1. /\ pc = "idle" /\ pc' = "extend" /\ UNCHANGED <<root, len, alive, found, ret>>
    BY <1>10 DEF ExtendStart, ExtendCall
  <2>2. SetsSame /\ Result' = Result
    BY <1>2, <2>1 DEF Result
  <2>3. QED
    BY <1>10, <2>1, <2>2, SetsStutter
<1>11. CASE /\ n \in alive /\ ExtendStep(n)
            /\ asked' = IF pc = "extend" THEN <<"extend", n, Range(feed)>> ELSE asked
  <2>0. /\ pc = "extend" => asked' = <<"extend", n, Range(feed)>>
        /\ pc # "extend" => UNCHANGED asked
        /\ Range(feed) \in SUBSET Keys
    <3>1. feed \in Seq(Keys)
      BY DEF TreesInv
    <3>2. QED
      BY <1>11, <3>1 DEF Range
  <2>1. CASE ExtendRefused /\ found' = 0 /\ UNCHANGED <<root, len, alive>>
    <3>1. pc = "extend" /\ pc' = "idle" /\ ret' \in {"INVALID", "OOM"}
      BY <2>1 DEF ExtendRefused
    <3>2. SetsSame /\ Busy = Sets!Nobody /\ Result' \in {"INVALID", "OOM"} /\ Result' = ret'
      BY <1>2, <1>3, <2>1, <3>1, Returned
    <3>3. Sets!Leave(Result')
      BY <2>1, <3>2, SetsTold
    <3>4. Sets!MergeRefused(n)
      BY <1>11, <3>2, <3>3, SetsTold DEF Sets!MergeRefused
    <3>5. QED
      BY <2>0, <3>1, <3>4 DEF Sets!Next, Sets!Merges
  <2>2. CASE ExtendScratch /\ found' = 0 /\ UNCHANGED <<root, len, alive>>
    <3>1. pc = "extend" /\ pc' = "feeding" /\ ret' = Nil /\ feed' = feed
      BY <2>2 DEF ExtendScratch
    <3>2. Busy = Sets!Nobody /\ Wanted = {} /\ Contents' = Contents /\ Result' = "none" /\ Sets!Ready(n)
      BY <1>11, <2>2, <3>1, NotFeeding, SetsTold DEF Contents, Result
    <3>3. Busy' = n /\ Wanted' = KeysOf(root'[n]) \cup Range(feed')
      BY <1>11, <2>2, <3>1, NowFeedingNext DEF TreesInv
    <3>4. Wanted' = Contents[n] \cup Range(feed)
      BY <2>2, <3>1, <3>3 DEF Contents
    <3>5. Sets!MergeCall(n, Range(feed))
      BY <2>2, <3>2, <3>3, <3>4 DEF Sets!MergeCall, Sets!Says, Sets!NoKey, Contents, Wanted, Result
    <3>6. QED
      BY <2>0, <3>1, <3>5 DEF Sets!Next, Sets!Merges
  <2>3. CASE FeedOne(Added(n, Head(feed))) /\ UNCHANGED <<alive, found>>
    <3>1. /\ pc = "feeding" /\ pc' = "feeding" /\ feed # <<>> /\ feed' = Tail(feed) /\ ret' = ret
          /\ root' = [root EXCEPT ![n] = Inserted(n, Head(feed))]
      BY <2>3 DEF FeedOne, Added
    <3>2. /\ Head(feed) \in Keys /\ Range(feed) = {Head(feed)} \cup Range(Tail(feed))
      BY <3>1, FeedIs DEF TreesInv
    <3>3. KeysOf(Inserted(n, Head(feed))) = KeysOf(root[n]) \cup {Head(feed)}
      BY <3>2, CallIs
    <3>4. Busy = n /\ Busy # Sets!Nobody /\ Wanted = KeysOf(root[n]) \cup Range(feed)
      BY <1>11, <3>1, NowFeeding
    <3>5. Busy' = n /\ Wanted' = KeysOf(root'[n]) \cup Range(feed')
      BY <1>11, <2>3, <3>1, NowFeedingNext DEF TreesInv
    <3>6. Contents' = [Contents EXCEPT ![n] = Contents[n] \cup {Head(feed)}]
      BY <3>1, <3>3, ContentsChanged DEF Contents
    <3>7. Wanted' = Wanted /\ Head(feed) \in Wanted
      <4>1. root'[n] = Inserted(n, Head(feed))
        BY <3>1 DEF TreesInv
      <4>2. QED
        BY <3>1, <3>2, <3>3, <3>4, <3>5, <4>1
    <3>8. Result' = Result
      BY <3>1 DEF Result
    <3>9. Sets!MergeAdd
      <4>1. \E k \in Wanted : Contents' = [Contents EXCEPT ![Busy] = @ \cup {k}]
        BY <3>4, <3>6, <3>7
      <4>2. QED
        BY <2>3, <3>4, <3>5, <3>7, <3>8, <4>1 DEF Sets!MergeAdd, Contents, Wanted, Result
    <3>10. QED
      BY <2>0, <3>1, <3>9 DEF Sets!Next, Sets!Merges
  <2>4. CASE (FeedRefused(~Has(n, Head(feed))) \/ FeedDone) /\ UNCHANGED <<root, len, alive, found>>
    <3>1. pc = "feeding" /\ pc' = "idle" /\ Contents' = Contents
      BY <2>4 DEF FeedRefused, FeedDone, FeedEnd, Contents
    <3>2. Busy = n /\ Busy # Sets!Nobody /\ Wanted = KeysOf(root[n]) \cup Range(feed) /\ found = 0
      BY <1>11, <3>1, NowFeeding
    <3>3. Busy' = Sets!Nobody /\ Wanted' = {}
      BY <3>1, NotFeedingNext
    <3>4. (Contents[Busy] = Wanted /\ Result' = "OK") \/ Result' = "OOM"
      <4>1. CASE FeedRefused(~Has(n, Head(feed)))
        BY <4>1, Returned DEF FeedRefused, FeedEnd
      <4>2. CASE FeedDone
        <5>1. feed = <<>> /\ ret' = "OK"
          BY <4>2 DEF FeedDone, FeedEnd
        <5>2. Range(feed) = {}
          BY <5>1 DEF Range
        <5>3. QED
          BY <3>2, <5>1, <5>2, Returned DEF Contents
      <4>3. QED
        BY <2>4, <4>1, <4>2
    <3>5. Sets!MergeEnd
      BY <2>4, <3>1, <3>2, <3>3, <3>4 DEF Sets!MergeEnd, Sets!Says, Sets!NoKey, Contents, Wanted, Result
    <3>6. QED
      BY <2>0, <3>1, <3>5 DEF Sets!Next, Sets!Merges
  <2>5. QED
    BY <1>11, <2>1, <2>2, <2>3, <2>4 DEF ExtendStep
<1>12. ASSUME Call(n) PROVE Abs
  BY <1>12, <1>4, <1>6, <1>7, <1>8, <1>9 DEF Call
<1>13. QED
  BY <1>0, <1>10, <1>11, <1>12

-----------------------------------------------------------------------------
(* The ordered map: its entries are the labels of its nodes.               *)

LEMMA EntryIs ==
  ASSUME NEW t, Good("omap", t)
  PROVE  /\ \A k \in KeysOf(t) : <<k, Find(t, k).val>> \in Labels("omap", t)
         /\ \A l \in Labels("omap", t) : l = <<l[1], Find(t, l[1]).val>>
<1>1. ASSUME NEW l \in Labels("omap", t) PROVE l = <<l[1], Find(t, l[1]).val>> /\ l[1] \in KeysOf(t)
  <2>1. l[1] \in Nat
    BY GoodKeys
  <2>2. Label("omap", Find(t, l[1])) = l
    BY <2>1, FindIn
  <2>3. l = <<Find(t, l[1]).key, Find(t, l[1]).val>>
    BY <2>2 DEF Label
  <2>4. l[1] = Find(t, l[1]).key
    BY <2>3
  <2>5. l[1] \in KeysOf(t)
    BY LabelKeys
  <2>6. QED
    BY <2>3, <2>4, <2>5
<1>2. ASSUME NEW k \in KeysOf(t) PROVE <<k, Find(t, k).val>> \in Labels("omap", t)
  <2>1. k \in {l[1] : l \in Labels("omap", t)}
    BY LabelKeys
  <2>2. PICK l \in Labels("omap", t) : l[1] = k
    BY <2>1
  <2>3. QED
    BY <1>1, <2>2
<1>3. QED
  BY <1>1, <1>2

LEMMA SameEntry ==
  ASSUME NEW t, NEW r, Good("omap", t), Good("omap", r), NEW k \in KeysOf(t),
         \A l \in Labels("omap", t) : l[1] = k => l \in Labels("omap", r)
  PROVE  Find(r, k).val = Find(t, k).val
<1> DEFINE l == <<k, Find(t, k).val>>
<1>1. l \in Labels("omap", t) /\ l[1] = k
  BY EntryIs
<1>2. l \in Labels("omap", r)
  BY <1>1
<1>3. l = <<l[1], Find(r, l[1]).val>>
  BY <1>2, EntryIs
<1>4. QED
  BY <1>3

LEMMA SetEntries ==
  ASSUME NEW t, Good("omap", t), NEW k \in Nat \ {0}, NEW v
  PROVE  LET r == OM!DoSet(t, k, v) IN
         /\ Good("omap", r) /\ KeysOf(r) = KeysOf(t) \cup {k}
         /\ Size(r) = IF k \in KeysOf(t) THEN Size(t) ELSE Size(t) + 1
         /\ Find(r, k).val = v
         /\ \A x \in KeysOf(t) : x # k => Find(r, x).val = Find(t, x).val
<1> DEFINE r == OM!DoSet(t, k, v)
<1>1. r = Put("omap", t, k, v) /\ "omap" \in Kinds
  BY SetIs DEF Kinds
<1>2. /\ Good("omap", r) /\ KeysOf(r) = KeysOf(t) \cup {k}
      /\ Size(r) = IF k \in KeysOf(t) THEN Size(t) ELSE Size(t) + 1
  BY <1>1, PutKeys
<1>3. Labels("omap", r) = Without("omap", t, k) \cup {<<k, v>>}
  BY <1>1, PutIs DEF IsPut, NewLabel
<1>4. Find(r, k).val = v
  <2> DEFINE l == <<k, v>>
  <2>1. l \in Labels("omap", r) /\ l[1] = k /\ l[2] = v
    BY <1>3
  <2>2. l = <<l[1], Find(r, l[1]).val>>
    BY <1>2, <2>1, EntryIs
  <2>3. QED
    BY <2>1, <2>2
<1>5. ASSUME NEW x \in KeysOf(t), x # k PROVE Find(r, x).val = Find(t, x).val
  <2>1. \A l \in Labels("omap", t) : l[1] = x => l \in Labels("omap", r)
    BY <1>3, <1>5 DEF Without
  <2>2. QED
    BY <1>2, <2>1, SameEntry
<1>6. QED
  BY <1>2, <1>4, <1>5

LEMMA RemoveEntries ==
  ASSUME NEW t, Good("omap", t), NEW k \in Nat
  PROVE  LET r == OM!RemoveFrom(t, k) IN
         /\ Good("omap", r) /\ KeysOf(r) = KeysOf(t) \ {k}
         /\ Size(r) = IF k \in KeysOf(t) THEN Size(t) - 1 ELSE Size(t)
         /\ \A x \in KeysOf(r) : Find(r, x).val = Find(t, x).val
<1> DEFINE r == OM!RemoveFrom(t, k)
<1>1. r = Dels("omap", t)[k] /\ "omap" \in Kinds
  BY RemoveFromIs DEF Kinds
<1>2. /\ Good("omap", r) /\ KeysOf(r) = KeysOf(t) \ {k}
      /\ Size(r) = IF k \in KeysOf(t) THEN Size(t) - 1 ELSE Size(t)
  BY <1>1, DelKeys
<1>3. Labels("omap", r) = Without("omap", t, k)
  BY <1>1, DelIs DEF IsDel
<1>4. ASSUME NEW x \in KeysOf(r) PROVE Find(r, x).val = Find(t, x).val
  <2>1. x \in KeysOf(t) /\ x # k
    BY <1>2
  <2>2. \A l \in Labels("omap", t) : l[1] = x => l \in Labels("omap", r)
    BY <1>3, <2>1 DEF Without
  <2>3. QED
    BY <1>2, <2>1, <2>2, SameEntry
<1>5. QED
  BY <1>2, <1>4

Entry == MapKeys \X Vals
MapInv ==
  /\ Good("omap", mRoot) /\ KeysOf(mRoot) \subseteq MapKeys /\ mLen = Size(mRoot)
  /\ mExists \in BOOLEAN /\ mPhase \in {"ready", "pending"}
  /\ mPhase = "pending" => mCall \in OM!Calls /\ mExists
  /\ mFeed = Nil \/ mFeed \in Seq(Entry)
  /\ ~mExists => IsLeaf(mRoot) /\ mFeed = Nil
  /\ mBlocks = mLen + (IF mExists THEN 1 ELSE 0) + (IF mFeed = Nil THEN 0 ELSE 1)

(* The map as MapSpec sees it.                                             *)
Held(t)    == [k \in KeysOf(t) |-> Find(t, k).val]
AsMap(e, t) == [exists |-> e, at |-> Held(t)]

LEMMA HeldIs ==
  /\ OM!Entries = Held(mRoot) /\ OM!Entries' = Held(mRoot')
  /\ \A k : OM!At(k) = Find(mRoot, k) /\ (OM!Contains(k) <=> ~IsLeaf(Find(mRoot, k)))
BY SameTrees DEF OM!Entries, OM!At, OM!Contains, Held

LEMMA MapIs ==
  ASSUME MapInv, NEW k \in MapKeys
  PROVE  /\ k \in Nat \ {0} /\ Size(mRoot) \in Nat /\ (OM!Contains(k) <=> k \in KeysOf(mRoot))
         /\ KeysOf(mRoot) = DOMAIN Held(mRoot)
         /\ k \in KeysOf(mRoot) => OM!At(k).val = Held(mRoot)[k]
<1>1. k \in Nat \ {0}
  BY OrderedSetsAssumption
<1>2. Size(mRoot) \in Nat /\ (IsLeaf(Find(mRoot, k)) <=> k \notin KeysOf(mRoot))
  BY <1>1, SizeIn, FindIn DEF MapInv
<1>3. QED
  BY <1>1, <1>2, HeldIs DEF Held

LEMMA MapInit ==
  ASSUME OM!Init
  PROVE  MapInv
<1>1. mRoot = Leaf /\ mLen = 0 /\ mExists = FALSE /\ mPhase = "ready" /\ mFeed = Nil /\ mBlocks = 0
  BY DEF OM!Init, OM!Leaf, Leaf
<1>2. Good("omap", mRoot) /\ IsLeaf(mRoot) /\ KeysOf(mRoot) = {} /\ Size(mRoot) = 0
  BY <1>1, NullIs DEF Kinds, LeafOf
<1>3. mExists \in BOOLEAN /\ ~mExists
  BY <1>1
<1>4. mBlocks = mLen + (IF mExists THEN 1 ELSE 0) + (IF mFeed = Nil THEN 0 ELSE 1)
  BY <1>1, <1>3
<1>5. mPhase # "pending"
  BY <1>1
<1>6. QED
  BY <1>1, <1>2, <1>3, <1>4, <1>5, Zenon DEF MapInv

(* What is left when a step keeps the tree.                                *)
LEMMA MapKept ==
  ASSUME MapInv, UNCHANGED <<mRoot, mLen, mExists>>,
         mPhase' \in {"ready", "pending"}, mPhase' = "pending" => mCall' \in OM!Calls /\ mExists,
         mFeed' = Nil \/ (mExists /\ mFeed' \in Seq(Entry)),
         mBlocks' = (mBlocks - (IF mFeed = Nil THEN 0 ELSE 1)) + (IF mFeed' = Nil THEN 0 ELSE 1)
  PROVE  MapInv'
<1>1. mLen \in Nat
  BY SizeIn DEF MapInv
<1>2. OM!Calls' = OM!Calls
  BY DEF OM!Calls
<1>3. mBlocks' = mLen' + (IF mExists' THEN 1 ELSE 0) + (IF mFeed' = Nil THEN 0 ELSE 1)
  BY <1>1 DEF MapInv
<1>4. QED
  BY <1>2, <1>3 DEF MapInv

(* And when a step changes it.                                             *)
LEMMA MapChanged ==
  ASSUME MapInv, NEW t, Good("omap", t), KeysOf(t) \subseteq MapKeys, mRoot' = t, mLen' = Size(t),
         mExists' \in BOOLEAN, ~mExists' => IsLeaf(t) /\ mFeed = Nil,
         mPhase' = "ready", mFeed' = mFeed,
         mBlocks' = ((mBlocks - (IF mExists THEN 1 ELSE 0)) + (IF mExists' THEN 1 ELSE 0)) + (Size(t) - Size(mRoot))
  PROVE  MapInv'
<1>1. Size(mRoot) \in Nat /\ Size(t) \in Nat
  BY SizeIn DEF MapInv
<1>2. mBlocks' = mLen' + (IF mExists' THEN 1 ELSE 0) + (IF mFeed' = Nil THEN 0 ELSE 1)
  BY <1>1 DEF MapInv
<1>3. QED
  BY <1>2 DEF MapInv

LEMMA OmIs ==
  /\ OM!Leaf = LeafOf("omap") /\ "omap" \in Kinds
  /\ \A t : (OM!IsLeaf(t) <=> IsLeaf(t)) /\ OM!Size(t) = Size(t)
BY SameTrees DEF OM!Leaf, Leaf, LeafOf, Kinds

LEMMA MapStep ==
  ASSUME MapInv, [OM!Next]_(OM!vars)
  PROVE  MapInv'
<1>1. mBlocks \in Int /\ mLen \in Nat /\ Size(mRoot) \in Nat /\ mLen = Size(mRoot)
  <2>1. mLen \in Nat /\ mLen = Size(mRoot)
    BY SizeIn DEF MapInv
  <2>2. QED
    BY <2>1 DEF MapInv
<1>2. CASE UNCHANGED OM!vars
  <2>1. UNCHANGED <<mRoot, mLen, mExists, mPhase, mCall, mFeed, mBlocks>>
    BY <1>2 DEF OM!vars
  <2>2. mFeed' = Nil \/ (mExists /\ mFeed' \in Seq(Entry))
    BY <2>1 DEF MapInv
  <2>3. mPhase' \in {"ready", "pending"} /\ (mPhase' = "pending" => mCall' \in OM!Calls /\ mExists)
    BY <2>1 DEF MapInv
  <2>4. QED
    BY <1>1, <2>1, <2>2, <2>3, MapKept
<1>3. CASE OM!Create
  <2>1. CASE UNCHANGED <<mExists, mBlocks>>
    <3>1. UNCHANGED <<mRoot, mLen, mExists, mPhase, mCall, mFeed, mBlocks>>
      BY <1>3, <2>1 DEF OM!Create
    <3>2. mFeed' = Nil \/ (mExists /\ mFeed' \in Seq(Entry))
      BY <3>1 DEF MapInv
    <3>3. mPhase' \in {"ready", "pending"} /\ (mPhase' = "pending" => mCall' \in OM!Calls /\ mExists)
      BY <3>1 DEF MapInv
    <3>4. QED
      BY <1>1, <3>1, <3>2, <3>3, MapKept
  <2>2. CASE mExists' = TRUE /\ mBlocks' = mBlocks + 1
    <3>1. ~mExists /\ mExists' /\ mExists' \in BOOLEAN /\ UNCHANGED <<mRoot, mLen, mPhase, mFeed>>
      BY <1>3, <2>2 DEF OM!Create
    <3>2. mPhase' = "ready"
      BY <3>1 DEF MapInv
    <3>3. mBlocks' = ((mBlocks - (IF mExists THEN 1 ELSE 0)) + (IF mExists' THEN 1 ELSE 0)) + (Size(mRoot) - Size(mRoot))
      BY <1>1, <2>2, <3>1
    <3>4. Good("omap", mRoot) /\ KeysOf(mRoot) \subseteq MapKeys /\ mLen' = Size(mRoot)
      BY <3>1 DEF MapInv
    <3>5. QED
      BY <3>1, <3>2, <3>3, <3>4, MapChanged
  <2>3. QED
    BY <1>3, <2>1, <2>2 DEF OM!Create
<1>4. CASE OM!Clear \/ OM!Destroy
  <2> DEFINE t == LeafOf("omap")
  <2>1. /\ mExists /\ mPhase = "ready" /\ mFeed = Nil /\ mRoot' = t /\ mLen' = 0
        /\ UNCHANGED <<mPhase, mCall, mFeed>>
    BY <1>4, OmIs DEF OM!Clear, OM!Destroy, OM!Emptied, OM!Idle
  <2>2. Good("omap", t) /\ IsLeaf(t) /\ KeysOf(t) \subseteq MapKeys /\ Size(t) = 0
    BY NullIs, OmIs
  <2>3. /\ mExists' \in BOOLEAN
        /\ mBlocks' = ((mBlocks - (IF mExists THEN 1 ELSE 0)) + (IF mExists' THEN 1 ELSE 0)) + (Size(t) - Size(mRoot))
    <3>1. CASE OM!Clear
      <4>1. mExists' = mExists /\ mBlocks' = mBlocks - Size(mRoot) - 0
        BY <3>1, OmIs DEF OM!Clear, OM!Emptied
      <4>2. mExists' \in BOOLEAN
        BY <4>1 DEF MapInv
      <4>3. QED
        BY <1>1, <2>1, <2>2, <4>1, <4>2
    <3>2. CASE OM!Destroy
      <4>1. mExists' = FALSE /\ mBlocks' = mBlocks - Size(mRoot) - 1
        BY <3>2, OmIs DEF OM!Destroy, OM!Emptied
      <4>2. mExists' \in BOOLEAN /\ ~mExists'
        BY <4>1
      <4>3. mBlocks' = ((mBlocks - (IF mExists THEN 1 ELSE 0)) + (IF mExists' THEN 1 ELSE 0)) + (Size(t) - Size(mRoot))
        BY <1>1, <2>1, <2>2, <4>1, <4>2
      <4>4. QED
        BY <4>2, <4>3
    <3>3. QED
      BY <1>4, <3>1, <3>2
  <2>4. QED
    BY <2>1, <2>2, <2>3, MapChanged
<1>5. CASE OM!CallMap
  <2>1. /\ mExists /\ mFeed = Nil /\ UNCHANGED <<mRoot, mLen, mExists, mFeed, mBlocks>>
        /\ mPhase' = "pending" /\ mCall' \in OM!Calls
    BY <1>5 DEF OM!CallMap, OM!Idle, OM!Invoke
  <2>2. QED
    BY <1>1, <2>1, MapKept
<1>6. CASE OM!Set
  <2> DEFINE k == mCall.key  v == mCall.value  t == OM!DoSet(mRoot, k, v)
  <2>1. mPhase = "pending" /\ mCall.op = "set" /\ mRoot' = t /\ mPhase' = "ready" /\ UNCHANGED <<mExists, mFeed>>
    BY <1>6 DEF OM!Set, OM!Pending, OM!Returned
  <2>2. mExists /\ k \in MapKeys
    <3>1. mExists /\ mCall \in OM!Calls
      BY <2>1 DEF MapInv
    <3>2. QED
      BY <3>1 DEF OM!Calls
  <2>3. k \in Nat \ {0} /\ (OM!Contains(k) <=> k \in KeysOf(mRoot)) /\ Good("omap", mRoot) /\ KeysOf(mRoot) \subseteq MapKeys
    BY <2>2, MapIs DEF MapInv
  <2>4. /\ Good("omap", t) /\ KeysOf(t) = KeysOf(mRoot) \cup {k}
        /\ Size(t) = IF k \in KeysOf(mRoot) THEN Size(mRoot) ELSE Size(mRoot) + 1
    BY <2>3, SetEntries
  <2>5. IF k \in KeysOf(mRoot) THEN mLen' = mLen /\ mBlocks' = mBlocks ELSE mLen' = mLen + 1 /\ mBlocks' = mBlocks + 1
    BY <1>6, <2>3 DEF OM!Set
  <2>6. mLen' = Size(t) /\ mBlocks' = mBlocks + (Size(t) - Size(mRoot))
    BY <1>1, <2>4, <2>5
  <2>7. KeysOf(t) \subseteq MapKeys /\ mExists' \in BOOLEAN /\ mExists'
    BY <2>1, <2>2, <2>3, <2>4 DEF MapInv
  <2>8. mBlocks' = ((mBlocks - (IF mExists THEN 1 ELSE 0)) + (IF mExists' THEN 1 ELSE 0)) + (Size(t) - Size(mRoot))
    <3> HIDE DEF t
    <3>1. Size(t) \in Nat
      BY <2>4, SizeIn
    <3>2. QED
      BY <1>1, <2>2, <2>6, <2>7, <3>1
  <2> HIDE DEF t
  <2>9. QED
    BY <2>1, <2>4, <2>6, <2>7, <2>8, MapChanged
<1>7. CASE OM!SetRefused \/ OM!Get
  <2>1. /\ mPhase = "pending" /\ mPhase' = "ready" /\ UNCHANGED <<mRoot, mLen, mExists, mBlocks>>
        /\ mFeed' = mFeed \/ mFeed' = OM!BreakOff(mFeed)
    BY <1>7 DEF OM!SetRefused, OM!Get, OM!Pending, OM!Returned
  <2>2. mExists /\ (mFeed = Nil \/ mFeed \in Seq(Entry))
    BY <2>1 DEF MapInv
  <2>3. Nil \notin Seq(Entry) /\ <<>> \in Seq(Entry)
    BY OrderedSetsAssumption DEF Entry
  <2>4. mFeed' = Nil \/ (mExists /\ mFeed' \in Seq(Entry))
    BY <2>1, <2>2, <2>3 DEF OM!BreakOff
  <2>5. mFeed = Nil <=> mFeed' = Nil
    BY <2>1, <2>2, <2>3 DEF OM!BreakOff
  <2>6. QED
    BY <1>1, <2>1, <2>4, <2>5, MapKept
<1>8. CASE OM!Remove
  <2> DEFINE k == mCall.key  t == OM!RemoveFrom(mRoot, k)
  <2>1. mPhase = "pending" /\ mRoot' = t /\ mPhase' = "ready" /\ UNCHANGED <<mExists, mFeed>>
    BY <1>8 DEF OM!Remove, OM!Pending, OM!Returned
  <2>2. mExists /\ k \in MapKeys
    <3>1. mExists /\ mCall \in OM!Calls
      BY <2>1 DEF MapInv
    <3>2. QED
      BY <3>1 DEF OM!Calls
  <2>3. k \in Nat \ {0} /\ (OM!Contains(k) <=> k \in KeysOf(mRoot)) /\ Good("omap", mRoot) /\ KeysOf(mRoot) \subseteq MapKeys
    BY <2>2, MapIs DEF MapInv
  <2>4. /\ Good("omap", t) /\ KeysOf(t) = KeysOf(mRoot) \ {k}
        /\ Size(t) = IF k \in KeysOf(mRoot) THEN Size(mRoot) - 1 ELSE Size(mRoot)
    BY <2>3, RemoveEntries
  <2>5. IF k \in KeysOf(mRoot) THEN mLen' = mLen - 1 /\ mBlocks' = mBlocks - 1 ELSE mLen' = mLen /\ mBlocks' = mBlocks
    BY <1>8, <2>3 DEF OM!Remove
  <2>6. mLen' = Size(t) /\ mBlocks' = mBlocks + (Size(t) - Size(mRoot))
    BY <1>1, <2>4, <2>5
  <2>7. KeysOf(t) \subseteq MapKeys /\ mExists' \in BOOLEAN /\ mExists'
    BY <2>1, <2>2, <2>3, <2>4 DEF MapInv
  <2>8. mBlocks' = ((mBlocks - (IF mExists THEN 1 ELSE 0)) + (IF mExists' THEN 1 ELSE 0)) + (Size(t) - Size(mRoot))
    <3> HIDE DEF t
    <3>1. Size(t) \in Nat
      BY <2>4, SizeIn
    <3>2. QED
      BY <1>1, <2>2, <2>6, <2>7, <3>1
  <2> HIDE DEF t
  <2>9. QED
    BY <2>1, <2>4, <2>6, <2>7, <2>8, MapChanged
<1>9. CASE OM!MinEntry \/ OM!MaxEntry \/ OM!ExtendInvalid
  <2>1. mExists /\ mPhase = "ready" /\ mFeed = Nil /\ UNCHANGED <<mRoot, mLen, mExists, mPhase, mFeed, mBlocks>>
    BY <1>9 DEF OM!MinEntry, OM!MaxEntry, OM!ExtendInvalid, OM!Ends, OM!Idle
  <2>2. QED
    BY <1>1, <2>1, MapKept
<1>10. ASSUME NEW s \in MapSources, OM!ExtendCall(s) PROVE MapInv'
  <2>1. /\ mExists /\ mPhase = "ready" /\ mFeed = Nil /\ UNCHANGED <<mRoot, mLen, mExists, mPhase>>
        /\ mFeed' = s /\ mBlocks' = mBlocks + 1
    BY <1>10 DEF OM!ExtendCall, OM!Idle
  <2>2. s \in Seq(Entry) /\ s # Nil
    BY OrderedSetsAssumption DEF Entry
  <2>3. QED
    BY <1>1, <2>1, <2>2, MapKept
<1>11. CASE OM!FeedOne
  <2>1. /\ mFeed # Nil /\ mFeed # <<>> /\ mFeed' = Tail(mFeed) /\ UNCHANGED <<mRoot, mLen, mExists, mBlocks>>
        /\ mPhase' = "pending" /\ mCall' = [op |-> "set", key |-> mFeed[1][1], value |-> mFeed[1][2]]
    BY <1>11 DEF OM!FeedOne, OM!Extending, OM!Invoke
  <2>2. mExists /\ mFeed \in Seq(Entry)
    BY <2>1 DEF MapInv
  <2>3. mFeed[1] \in Entry /\ Tail(mFeed) \in Seq(Entry)
    BY <2>1, <2>2
  <2>4. mCall' \in OM!Calls
    BY <2>1, <2>3 DEF Entry, OM!Calls
  <2>5. Tail(mFeed) # Nil
    BY <2>3, OrderedSetsAssumption DEF Entry
  <2>6. QED
    BY <1>1, <2>1, <2>2, <2>3, <2>4, <2>5, MapKept
<1>12. CASE OM!FeedEnd
  <2>1. /\ mFeed # Nil /\ mFeed' = Nil /\ mBlocks' = mBlocks - 1 /\ UNCHANGED <<mRoot, mLen, mExists, mPhase>>
        /\ mPhase = "ready"
    BY <1>12 DEF OM!FeedEnd, OM!Extending, OM!IterDestroyed
  <2>2. QED
    BY <1>1, <2>1, MapKept
<1>13. QED
  BY <1>2, <1>3, <1>4, <1>5, <1>6, <1>7, <1>8, <1>9, <1>10, <1>11, <1>12 DEF OM!Next

-----------------------------------------------------------------------------
(* Refinement of MapSpec.                                                  *)

LEMMA MapSpecInit ==
  ASSUME OM!Init
  PROVE  OM!Map!Init
<1>1. mRoot = LeafOf("omap") /\ mExists = FALSE /\ mPhase = "ready" /\ mCall = OM!NoCall /\ mResult = Nil
  BY OmIs DEF OM!Init
<1>2. KeysOf(mRoot) = {}
  BY <1>1, NullIs, OmIs
<1>3. OM!Entries = [k \in {} |-> Nil]
  BY <1>2, HeldIs DEF Held
<1>4. QED
  BY <1>1, <1>3 DEF OM!Map!Init, OM!Map!NoMap, OM!Map!NoCall, OM!NoCall

LEMMA NoEntries ==
  [OM!Map!NoMap EXCEPT !.exists = TRUE] = [exists |-> TRUE, at |-> [k \in {} |-> Nil]]
<1> DEFINE a == [k \in {} |-> Nil]
<1>1. \A b, e, f : [[exists |-> e, at |-> b] EXCEPT !.exists = f] = [exists |-> f, at |-> b]
  OBVIOUS
<1>2. OM!Map!NoMap = [exists |-> FALSE, at |-> a]
  BY DEF OM!Map!NoMap
<1> HIDE DEF a
<1>3. [OM!Map!NoMap EXCEPT !.exists = TRUE] = [exists |-> TRUE, at |-> a]
  BY <1>1, <1>2, Zenon
<1>4. QED
  BY <1>3 DEF a

LEMMA MapStutter ==
  ASSUME UNCHANGED <<mRoot, mExists, mPhase, mCall, mResult>>
  PROVE  UNCHANGED OM!Map!mapVars
<1>1. OM!Entries' = OM!Entries
  BY HeldIs
<1>2. QED
  BY <1>1 DEF OM!Map!mapVars

LEMMA MapSpecStep ==
  ASSUME MapInv, [OM!Next]_(OM!vars)
  PROVE  [OM!Map!Next]_(OM!Map!mapVars)
<1>1. CASE UNCHANGED OM!vars \/ OM!MinEntry \/ OM!MaxEntry \/ OM!ExtendInvalid \/ OM!FeedEnd
           \/ \E s \in MapSources : OM!ExtendCall(s)
  <2>1. UNCHANGED <<mRoot, mExists, mPhase, mCall, mResult>>
    BY <1>1 DEF OM!vars, OM!MinEntry, OM!MaxEntry, OM!ExtendInvalid, OM!FeedEnd, OM!ExtendCall, OM!Ends
  <2>2. QED
    BY <2>1, MapStutter
<1>2. OM!Entries = Held(mRoot) /\ OM!Entries' = Held(mRoot')
  BY HeldIs
<1>3. ASSUME IsLeaf(mRoot') PROVE OM!Entries' = [k \in {} |-> Nil]
  <2>1. KeysOf(mRoot') = {}
    BY <1>3, LeafIs
  <2>2. QED
    BY <1>2, <2>1 DEF Held
<1>4. CASE OM!Create
  <2>1. ~mExists /\ IsLeaf(mRoot) /\ mPhase = "ready" /\ UNCHANGED <<mRoot, mPhase, mCall>>
    BY <1>4 DEF OM!Create, MapInv
  <2>2. OM!Entries' = [k \in {} |-> Nil] /\ OM!Entries = OM!Entries'
    BY <1>2, <1>3, <2>1
  <2>3. (mExists' = TRUE /\ mResult' = "OK") \/ (mExists' = mExists /\ mResult' = "OOM")
    BY <1>4 DEF OM!Create
  <2>4. OM!Map!Create
    <3>1. mExists' = TRUE => [exists |-> mExists', at |-> OM!Entries'] = [OM!Map!NoMap EXCEPT !.exists = TRUE]
      BY <2>2, NoEntries
    <3>2. mExists' = mExists => [exists |-> mExists', at |-> OM!Entries'] = [exists |-> mExists, at |-> OM!Entries]
      BY <2>2
    <3>3. ~[exists |-> mExists, at |-> OM!Entries].exists
      BY <2>1
    <3>4. QED
      BY <2>1, <2>3, <3>1, <3>2, <3>3, Zenon DEF OM!Map!Create
  <2>5. QED
    BY <2>4 DEF OM!Map!Next
<1>5. CASE OM!Clear
  <2>1. /\ mExists /\ mPhase = "ready" /\ mRoot' = LeafOf("omap") /\ mResult' = "OK"
        /\ UNCHANGED <<mExists, mPhase, mCall>>
    BY <1>5, OmIs DEF OM!Clear, OM!Emptied, OM!Idle
  <2>2. OM!Entries' = [k \in {} |-> Nil]
    BY <1>3, <2>1, NullIs, OmIs
  <2>3. mExists' = TRUE
    BY <2>1 DEF MapInv
  <2>4. OM!Map!Clear
    <3>1. [exists |-> mExists', at |-> OM!Entries'] = [OM!Map!NoMap EXCEPT !.exists = TRUE]
      BY <2>2, <2>3, NoEntries
    <3>2. [exists |-> mExists, at |-> OM!Entries].exists
      BY <2>1
    <3>3. QED
      BY <2>1, <3>1, <3>2, Zenon DEF OM!Map!Clear
  <2>5. QED
    BY <2>4 DEF OM!Map!Next
<1>6. CASE OM!Destroy
  <2>1. /\ mExists /\ mPhase = "ready" /\ mRoot' = LeafOf("omap") /\ mResult' = "OK"
        /\ mExists' = FALSE /\ UNCHANGED <<mPhase, mCall>>
    BY <1>6, OmIs DEF OM!Destroy, OM!Emptied, OM!Idle
  <2>2. OM!Entries' = [k \in {} |-> Nil]
    BY <1>3, <2>1, NullIs, OmIs
  <2>3. OM!Map!Destroy
    BY <2>1, <2>2 DEF OM!Map!Destroy, OM!Map!NoMap
  <2>4. QED
    BY <2>3 DEF OM!Map!Next
<1>7. ASSUME mExists, mPhase = "ready", NEW c \in OM!Calls, OM!Invoke(c), UNCHANGED <<mRoot, mExists>>
      PROVE  OM!Map!Invoke
  <2>1. OM!Entries' = OM!Entries
    BY <1>2, <1>7
  <2>2. mCall' \in OM!Map!Calls
    BY <1>7 DEF OM!Invoke, OM!Calls, OM!Map!Calls
  <2>3. QED
    BY <1>7, <2>1, <2>2 DEF OM!Map!Invoke, OM!Invoke
<1>8. CASE OM!CallMap
  <2>1. mExists /\ mPhase = "ready" /\ UNCHANGED <<mRoot, mExists>> /\ \E c \in OM!Calls : OM!Invoke(c)
    BY <1>8 DEF OM!CallMap, OM!Idle
  <2>2. OM!Map!Invoke
    BY <1>7, <2>1
  <2>3. QED
    BY <2>2 DEF OM!Map!Next
<1>9. CASE OM!FeedOne
  <2> DEFINE c == [op |-> "set", key |-> mFeed[1][1], value |-> mFeed[1][2]]
  <2>1. /\ mFeed # Nil /\ mFeed # <<>> /\ mPhase = "ready" /\ UNCHANGED <<mRoot, mExists>> /\ OM!Invoke(c)
    BY <1>9 DEF OM!FeedOne, OM!Extending
  <2>2. mExists /\ mFeed \in Seq(Entry)
    BY <2>1 DEF MapInv
  <2>3. mFeed[1] \in Entry
    BY <2>1, <2>2
  <2>4. c \in OM!Calls
    BY <2>3 DEF Entry, OM!Calls
  <2>5. OM!Map!Invoke
    BY <1>7, <2>1, <2>2, <2>4
  <2>6. QED
    BY <2>5 DEF OM!Map!Next
<1>10. ASSUME mPhase = "pending"
       PROVE  LET k == mCall.key IN
              /\ mCall \in OM!Calls /\ k \in MapKeys /\ k \in Nat \ {0} /\ Good("omap", mRoot)
              /\ OM!Contains(k) <=> k \in KeysOf(mRoot)
              /\ DOMAIN OM!Entries = KeysOf(mRoot)
              /\ k \in KeysOf(mRoot) => OM!At(k).val = OM!Entries[k]
  <2> DEFINE k == mCall.key
  <2>1. mCall \in OM!Calls /\ Good("omap", mRoot)
    BY <1>10 DEF MapInv
  <2>2. k \in MapKeys
    BY <2>1 DEF OM!Calls
  <2>3. QED
    BY <1>2, <2>1, <2>2, MapIs
<1>11. ASSUME mPhase = "pending", mPhase' = "ready", mCall' = OM!NoCall,
              OM!Map!SetEffect \/ OM!Map!GetEffect \/ OM!Map!RemoveEffect
       PROVE  OM!Map!Next
  <2>1. mCall' = OM!Map!NoCall
    BY <1>11 DEF OM!NoCall, OM!Map!NoCall
  <2>2. OM!Map!Effect
    BY <1>11, <2>1 DEF OM!Map!Effect
  <2>3. QED
    BY <2>2 DEF OM!Map!Next
<1>12. CASE OM!Set
  <2> DEFINE k == mCall.key  v == mCall.value
  <2>1. /\ mPhase = "pending" /\ mCall.op = "set" /\ mRoot' = OM!DoSet(mRoot, k, v) /\ mResult' = "OK"
        /\ mPhase' = "ready" /\ mCall' = OM!NoCall /\ mExists' = mExists
    BY <1>12 DEF OM!Set, OM!Pending, OM!Returned
  <2>2. /\ KeysOf(mRoot') = KeysOf(mRoot) \cup {k} /\ Find(mRoot', k).val = v
        /\ \A x \in KeysOf(mRoot) : x # k => Find(mRoot', x).val = Find(mRoot, x).val
    BY <1>10, <2>1, SetEntries
  <2>3. OM!Entries' = [x \in (DOMAIN OM!Entries) \cup {k} |-> IF x = k THEN v ELSE OM!Entries[x]]
    BY <1>2, <2>2 DEF Held
  <2>4. OM!Map!SetEffect
    BY <2>1, <2>3 DEF OM!Map!SetEffect, OM!Map!Put
  <2>5. QED
    BY <1>11, <2>1, <2>4
<1>13. CASE OM!SetRefused
  <2>1. /\ mPhase = "pending" /\ mCall.op = "set" /\ mRoot' = mRoot /\ mResult' = "OOM"
        /\ mPhase' = "ready" /\ mCall' = OM!NoCall /\ mExists' = mExists
    BY <1>13 DEF OM!SetRefused, OM!Pending, OM!Returned
  <2>2. OM!Entries' = OM!Entries
    BY <1>2, <2>1
  <2>3. OM!Map!SetEffect
    BY <2>1, <2>2 DEF OM!Map!SetEffect
  <2>4. QED
    BY <1>11, <2>1, <2>3
<1>14. CASE OM!Get
  <2> DEFINE k == mCall.key
  <2>1. /\ mPhase = "pending" /\ mCall.op = "get" /\ mRoot' = mRoot
        /\ mResult' = IF OM!Contains(k) THEN OM!At(k).val ELSE "NOT_FOUND"
        /\ mPhase' = "ready" /\ mCall' = OM!NoCall /\ mExists' = mExists
    BY <1>14 DEF OM!Get, OM!Pending, OM!Returned
  <2>2. OM!Entries' = OM!Entries
    BY <1>2, <2>1
  <2>3. mResult' = IF k \in DOMAIN OM!Entries THEN OM!Entries[k] ELSE "NOT_FOUND"
    BY <1>10, <2>1
  <2>4. OM!Map!GetEffect
    BY <2>1, <2>2, <2>3 DEF OM!Map!GetEffect
  <2>5. QED
    BY <1>11, <2>1, <2>4
<1>15. CASE OM!Remove
  <2> DEFINE k == mCall.key
  <2>1. /\ mPhase = "pending" /\ mCall.op = "remove" /\ mRoot' = OM!RemoveFrom(mRoot, k)
        /\ mPhase' = "ready" /\ mCall' = OM!NoCall /\ mExists' = mExists
        /\ mResult' = IF OM!Contains(k) THEN "OK" ELSE "NOT_FOUND"
    BY <1>15 DEF OM!Remove, OM!Pending, OM!Returned
  <2>2. /\ KeysOf(mRoot') = KeysOf(mRoot) \ {k}
        /\ \A x \in KeysOf(mRoot') : Find(mRoot', x).val = Find(mRoot, x).val
    BY <1>10, <2>1, RemoveEntries
  <2>3. OM!Entries' = [x \in (DOMAIN OM!Entries) \ {k} |-> OM!Entries[x]]
    BY <1>2, <2>2 DEF Held
  <2>4. OM!Contains(k) <=> k \in DOMAIN OM!Entries
    BY <1>10, <2>1
  <2>5. CASE k \in DOMAIN OM!Entries
    <3>1. OM!Map!RemoveEffect
      BY <2>1, <2>3, <2>4, <2>5 DEF OM!Map!RemoveEffect, OM!Map!Drop
    <3>2. QED
      BY <1>11, <2>1, <3>1
  <2>6. CASE k \notin DOMAIN OM!Entries
    <3>1. OM!Entries' = OM!Entries
      BY <1>2, <2>3, <2>6 DEF Held
    <3>2. OM!Map!RemoveEffect
      BY <2>1, <2>4, <2>6, <3>1 DEF OM!Map!RemoveEffect
    <3>3. QED
      BY <1>11, <2>1, <3>2
  <2>7. QED
    BY <2>5, <2>6
<1>16. QED
  BY <1>1, <1>4, <1>5, <1>6, <1>8, <1>9, <1>12, <1>13, <1>14, <1>15 DEF OM!Next

-----------------------------------------------------------------------------
(* The theorems, of a behaviour of the trees or of the map.                *)

IInv == TreesInv /\ MapInv

LEMMA AnyStep ==
  ASSUME IInv, [AnyNext]_all
  PROVE  [Next]_vars /\ [OM!Next]_(OM!vars) /\ IInv'
<1>1. [Next]_vars /\ [OM!Next]_(OM!vars)
  <2>1. CASE Next /\ UNCHANGED mapVars
    BY <2>1 DEF mapVars, OM!vars
  <2>2. CASE OM!Next /\ UNCHANGED vars
    BY <2>2
  <2>3. CASE UNCHANGED all
    BY <2>3 DEF all, mapVars, OM!vars
  <2>4. QED
    BY <2>1, <2>2, <2>3 DEF AnyNext
<1>2. QED
  BY <1>1, TreesStep, MapStep DEF IInv

LEMMA AnyInv == AnySpec => []IInv
<1>1. AnyInit => IInv
  BY TreesInit, MapInit DEF AnyInit, IInv
<1>2. IInv /\ [AnyNext]_all => IInv'
  BY AnyStep
<1>3. QED
  BY <1>1, <1>2, PTL DEF AnySpec

LEMMA InvOrdered ==
  ASSUME IInv
  PROVE  SearchOrder
<1>1. \A n \in Names : Ordered(root[n])
  BY OrderedIn DEF IInv, TreesInv
<1>2. QED
  BY <1>1 DEF SearchOrder

LEMMA InvCounts ==
  ASSUME IInv
  PROVE  CountsAgree
<1>1. Cardinality(alive) = IF alive = {} THEN 0 ELSE 1
  <2>1. Cardinality({}) = 0 /\ Cardinality({"avl"}) = 1 /\ Cardinality({"bst"}) = 1
    BY FS_EmptySet, FS_Singleton
  <2>2. QED
    BY <2>1 DEF IInv, TreesInv
<1>2. QED
  BY <1>1 DEF CountsAgree, IInv, TreesInv

LEMMA InvBalanced ==
  ASSUME IInv
  PROVE  AvlBalanced
<1>1. Good("avl", root["avl"]) /\ "avl" \in Kinds
  BY NamesAre DEF IInv, TreesInv, Kinds
<1>2. \A x \in Nodes(root["avl"]) : x.height = Height(x) /\ BalanceFactor(x) \in -1 .. 1
  BY <1>1, HeightIn
<1>3. QED
  BY <1>2 DEF AvlBalanced

LEMMA InvMap ==
  ASSUME IInv
  PROVE  OM!TreeOK
<1>1. MapInv /\ Good("omap", mRoot) /\ "omap" \in Kinds
  BY DEF IInv, MapInv, Kinds
<1>2. OM!Ordered(mRoot)
  BY <1>1, OrderedIn, SameTrees DEF Ordered, OM!Ordered
<1>3. \A x \in Nodes(mRoot) : x.height = Height(x) /\ BalanceFactor(x) \in -1 .. 1
  BY <1>1, HeightIn
<1>4. \A x \in OM!Nodes(mRoot) : x.height = OM!Height(x) /\ OM!BalanceFactor(x) \in -1 .. 1
  BY <1>3, SameTrees DEF BalanceFactor, OM!BalanceFactor
<1>5. QED
  BY <1>1, <1>2, <1>4, SameTrees DEF OM!TreeOK, MapInv

(* Whatever the keys and the order of inserts and removals, refused ones   *)
(* included, avl.c, bstree.c and omap.c keep search trees: rotations and   *)
(* the copying of a successor's key or entry lose no key and misplace      *)
(* none.  len counts the nodes of a tree, and the blocks are its nodes,    *)
(* its header and what an extend holds, after every path.                  *)
THEOREM TreesAreOrdered == AnySpec => []TreesOrdered
<1>1. IInv => TreesOrdered
  BY InvOrdered, InvCounts, InvMap DEF TreesOrdered
<1>2. QED
  BY <1>1, AnyInv, PTL

(* rebalance, which looks at stored heights only and rotates at most       *)
(* twice, restores balance at every node above an insert or a removal, for *)
(* trees of any size.                                                      *)
THEOREM AvlIsBalanced == AnySpec => []AvlBalanced
<1>1. IInv => AvlBalanced
  BY InvBalanced
<1>2. QED
  BY <1>1, AnyInv, PTL

(* avl_t and bstree_t promise what SetSpec says: each add, remove,         *)
(* contains, min and max is that call, on the tree and with the key it was *)
(* made with, so that a removal takes out its own key and not the          *)
(* successor's; a refused add changes nothing, and an extend ends with the *)
(* union or, out of memory, with a part of it.                             *)
THEOREM TreesRefineSet == AnySpec => SetsImplemented
<1>1. AnyInit => Sets!Init
  BY SetsInit DEF AnyInit
<1>2. IInv /\ IInv' /\ [AnyNext]_all => [Sets!Next]_(Sets!vars)
  BY AnyStep, SetsStep DEF IInv
<1>3. QED
  BY <1>1, <1>2, AnyInv, PTL DEF AnySpec, Sets!Spec, SetsImplemented

(* omap_t promises what MapSpec says: a set and a remove change their own  *)
(* key's entry only, although rotations and successors move others; a get  *)
(* returns what was last set; a set refused memory has no effect; and an   *)
(* extend is a sequence of such sets.                                      *)
THEOREM MapRefinesSpec == AnySpec => MapImplemented
<1>1. AnyInit => OM!Map!Init
  BY MapSpecInit DEF AnyInit
<1>2. IInv /\ [AnyNext]_all => [OM!Map!Next]_(OM!Map!mapVars)
  BY AnyStep, MapSpecStep DEF IInv
<1>3. QED
  BY <1>1, <1>2, AnyInv, PTL DEF AnySpec, OM!Map!Spec, OM!ImplementsMap, MapImplemented
=============================================================================
