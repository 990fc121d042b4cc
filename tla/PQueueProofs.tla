----------------------------- MODULE PQueueProofs -----------------------------
(***************************************************************************)
(* Theorems of PQueue, for every set of elements, every cmp and every      *)
(* capacity: the heap order holds, no block is lost, and pqueue_t          *)
(* implements the bag of PrioSpec.                                         *)
(***************************************************************************)
EXTENDS PQueue, SequenceTheorems, FiniteSetTheorems, WellFoundedInduction, TLAPS

-----------------------------------------------------------------------------
(* A set of numbers has a least, for the sets 0 .. x are finite and so     *)
(* well-ordered by inclusion.                                              *)
LEMMA Least ==
  ASSUME NEW T \in SUBSET Nat, T # {}
  PROVE  \E x \in T : \A y \in T : x <= y
<1> DEFINE R == StrictSubsetOrdering(Nat)
           F == {0 .. x : x \in T}
<1>1. IsWellFoundedOn(R, FiniteSubsetsOf(Nat))
  BY FS_StrictSubsetOrderingWellFounded
<1>2. F \subseteq FiniteSubsetsOf(Nat) /\ F # {}
  <2>1. ASSUME NEW x \in T PROVE 0 .. x \in FiniteSubsetsOf(Nat)
    <3>1. x \in Int /\ IsFiniteSet(0 .. x)
      BY FS_Interval
    <3>2. QED
      BY <3>1 DEF FiniteSubsetsOf
  <2>2. QED
    BY <2>1
<1> HIDE DEF R, F
<1>3. \E f \in F : \A g \in F : <<g, f>> \notin R
  BY <1>1, <1>2, WFMin
<1>4. PICK x \in T : \A y \in T : <<0 .. y, 0 .. x>> \notin R
  BY <1>3 DEF F
<1>5. ASSUME NEW y \in T PROVE ~(y < x)
  <2>1. SUFFICES ASSUME y < x PROVE <<0 .. y, 0 .. x>> \in R
    BY <1>4
  <2>2. 0 .. y \subseteq 0 .. x /\ x \in 0 .. x /\ x \notin 0 .. y
    BY <2>1
  <2>3. 0 .. y \in SUBSET Nat /\ 0 .. x \in SUBSET Nat
    OBVIOUS
  <2>4. QED
    BY <2>2, <2>3 DEF R, StrictSubsetOrdering
<1>6. QED
  BY <1>5

(* A loop over S goes on from x to nxt[x] while it is in go.               *)
Loop(f, S, go, nxt, out) == f = [x \in S |-> IF x \in go THEN f[nxt[x]] ELSE out[x]]

(* If it counts down, the function that follows it to where it stops       *)
(* exists.                                                                 *)
LEMMA LoopValue ==
  ASSUME NEW S, NEW m \in [S -> Nat], NEW go \in SUBSET S, NEW nxt, NEW out,
         \A x \in go : nxt[x] \in S /\ m[nxt[x]] < m[x]
  PROVE  \E f : Loop(f, S, go, nxt, out)
<1> DEFINE Fits(g, n) == \A x \in S : m[x] < n => g[x] = IF x \in go THEN g[nxt[x]] ELSE out[x]
<1>1. \A n \in Nat : \E g : Fits(g, n)
  <2> DEFINE T == {n \in Nat : ~\E g : Fits(g, n)}
  <2>1. SUFFICES ASSUME T # {} PROVE FALSE
    OBVIOUS
  <2>2. PICK n \in T : \A k \in T : n <= k
    <3>1. T \in SUBSET Nat
      OBVIOUS
    <3> HIDE DEF T
    <3>2. QED
      BY <2>1, <3>1, Least
  <2>3. n \in Nat /\ \A g : ~Fits(g, n)
    BY <2>2
  <2>4. n # 0
    <3>1. Fits(out, 0)
      OBVIOUS
    <3>2. QED
      BY <2>3, <3>1
  <2>5. n - 1 \in Nat /\ n - 1 \notin T
    BY <2>2, <2>3, <2>4
  <2>6. PICK g : Fits(g, n - 1)
    BY <2>5
  <2> DEFINE h == [x \in S |-> IF m[x] < n - 1 THEN g[x] ELSE IF x \in go THEN g[nxt[x]] ELSE out[x]]
  <2>7. Fits(h, n)
    <3> SUFFICES ASSUME NEW x \in S, m[x] < n PROVE h[x] = IF x \in go THEN h[nxt[x]] ELSE out[x]
      OBVIOUS
    <3>1. h[x] = IF x \in go THEN g[nxt[x]] ELSE out[x]
      BY <2>6
    <3>2. CASE x \in go
      <4>1. nxt[x] \in S /\ m[nxt[x]] \in Nat /\ m[x] \in Nat /\ m[nxt[x]] < m[x]
        BY <3>2
      <4>2. m[nxt[x]] < n - 1
        BY <4>1, <2>3
      <4>3. h[nxt[x]] = g[nxt[x]]
        BY <4>1, <4>2
      <4>4. QED
        BY <3>1, <3>2, <4>3
    <3>3. QED
      BY <3>1, <3>2
  <2>8. QED
    BY <2>3, <2>7
<1>2. ASSUME NEW g, NEW h, NEW n \in Nat, Fits(g, n), Fits(h, n), NEW x \in S, m[x] < n
      PROVE  g[x] = h[x]
  <2> DEFINE B == {y \in S : m[y] < n /\ g[y] # h[y]}
             T == {m[y] : y \in B}
  <2>1. SUFFICES ASSUME B # {} PROVE FALSE
    BY <1>2
  <2>2. PICK k \in T : \A j \in T : k <= j
    <3>1. T \in SUBSET Nat /\ T # {}
      BY <2>1
    <3> HIDE DEF T
    <3>2. QED
      BY <3>1, Least
  <2>3. PICK y \in B : k = m[y]
    BY <2>2
  <2>4. y \in go
    BY <1>2, <2>3
  <2>5. nxt[y] \in S /\ m[nxt[y]] \in Nat /\ m[y] \in Nat /\ m[nxt[y]] < m[y] /\ m[y] < n
    BY <2>3, <2>4
  <2>6. g[nxt[y]] # h[nxt[y]]
    BY <1>2, <2>3, <2>4
  <2>7. m[nxt[y]] \in T
    BY <2>5, <2>6
  <2> HIDE DEF T
  <2>8. k <= m[nxt[y]]
    BY <2>2, <2>7
  <2>9. QED
    BY <2>3, <2>5, <2>8
<1> DEFINE G(n) == CHOOSE g : Fits(g, n)
           F == [x \in S |-> G(m[x] + 1)[x]]
<1>3. \A n \in Nat : Fits(G(n), n)
  BY <1>1
<1> HIDE DEF G
<1>4. ASSUME NEW x \in go PROVE F[x] = F[nxt[x]]
  <2>1. x \in S /\ nxt[x] \in S /\ m[nxt[x]] \in Nat /\ m[x] \in Nat /\ m[nxt[x]] < m[x]
    OBVIOUS
  <2>2. /\ Fits(G(m[x] + 1), m[x] + 1) /\ Fits(G(m[nxt[x]] + 1), m[nxt[x]] + 1)
        /\ m[x] + 1 \in Nat /\ m[nxt[x]] + 1 \in Nat
    BY <1>3, <2>1
  <2>3. G(m[x] + 1)[x] = G(m[x] + 1)[nxt[x]]
    BY <2>1, <2>2
  <2>4. Fits(G(m[x] + 1), m[nxt[x]] + 1)
    <3>1. \A y \in S : m[y] \in Nat /\ (m[y] < m[nxt[x]] + 1 => m[y] < m[x] + 1)
      BY <2>1
    <3>2. QED
      BY <2>2, <3>1
  <2>5. m[nxt[x]] < m[nxt[x]] + 1
    BY <2>1
  <2> HIDE DEF Fits
  <2>6. G(m[x] + 1)[nxt[x]] = G(m[nxt[x]] + 1)[nxt[x]]
    BY <1>2, <2>1, <2>2, <2>4, <2>5
  <2>7. QED
    BY <2>1, <2>3, <2>6
<1>5. ASSUME NEW x \in S, x \notin go PROVE F[x] = out[x]
  <2>1. m[x] \in Nat /\ m[x] + 1 \in Nat /\ m[x] < m[x] + 1
    OBVIOUS
  <2>2. QED
    BY <1>3, <1>5, <2>1
<1>6. F = [x \in S |-> IF x \in go THEN F[nxt[x]] ELSE out[x]]
  <2> HIDE DEF Fits
  <2>1. \A x \in S : F[x] = IF x \in go THEN F[nxt[x]] ELSE out[x]
    BY <1>4, <1>5
  <2> DEFINE E == [x \in S |-> IF x \in go THEN F[nxt[x]] ELSE out[x]]
  <2>2. DOMAIN F = S /\ F = [x \in S |-> F[x]]
    OBVIOUS
  <2> HIDE DEF F
  <2>3. F = E
    BY <2>1, <2>2
  <2>4. QED
    BY <2>3
<1>7. QED
  BY <1>6 DEF Loop

(* What the loop keeps, it has where it stops.                             *)
LEMMA LoopKeeps ==
  ASSUME NEW S, NEW m \in [S -> Nat], NEW go \in SUBSET S, NEW nxt, NEW out,
         \A x \in go : nxt[x] \in S /\ m[nxt[x]] < m[x],
         NEW f, Loop(f, S, go, nxt, out),
         NEW Q \in SUBSET S, \A x \in Q \cap go : nxt[x] \in Q
  PROVE  \A x \in Q : \E y \in Q : y \notin go /\ f[x] = out[y]
<1> DEFINE B == {x \in Q : ~\E y \in Q : y \notin go /\ f[x] = out[y]}
           T == {m[x] : x \in B}
<1>1. SUFFICES ASSUME B # {} PROVE FALSE
  OBVIOUS
<1>2. PICK k \in T : \A j \in T : k <= j
  <2>1. T \in SUBSET Nat /\ T # {}
    BY <1>1
  <2> HIDE DEF T
  <2>2. QED
    BY <2>1, Least
<1>3. PICK x \in B : k = m[x]
  BY <1>2
<1>4. x \in S /\ x \in Q
  BY <1>3
<1>5. x \in go
  <2>1. x \notin go => f[x] = out[x]
    BY <1>4 DEF Loop
  <2>2. QED
    BY <1>3, <1>4, <2>1
<1>6. nxt[x] \in Q /\ m[nxt[x]] \in Nat /\ m[x] \in Nat /\ m[nxt[x]] < m[x] /\ f[x] = f[nxt[x]]
  BY <1>4, <1>5 DEF Loop
<1>7. nxt[x] \in B
  BY <1>3, <1>6
<1>8. m[nxt[x]] \in T
  BY <1>7
<1> HIDE DEF T
<1>9. k <= m[nxt[x]]
  BY <1>2, <1>8
<1>10. QED
  BY <1>3, <1>6, <1>9

-----------------------------------------------------------------------------
(* Positions of a heap.                                                    *)

LEMMA ParentIs ==
  \A i \in Nat \ {0} : Parent(i) \in Nat /\ Parent(i) < i /\ (i = 2 * Parent(i) + 1 \/ i = 2 * Parent(i) + 2)
BY DEF Parent

LEMMA ParentOf ==
  \A i \in Nat : Parent(2 * i + 1) = i /\ Parent(2 * i + 2) = i
BY DEF Parent

LEMMA LessIs == \A a, b \in Elems : Prio[a] \in Int /\ Prio[b] \in Int /\ (Less(a, b) <=> Prio[a] < Prio[b])
BY PQueueAssumption DEF Less

LEMMA AtIs == \A d \in Seq(Elems) : Len(d) \in Nat /\ \A i \in 0 .. Len(d) - 1 : At(d, i) \in Elems
BY DEF At

LEMMA SwapIs ==
  ASSUME NEW d \in Seq(Elems), NEW i \in 0 .. Len(d) - 1, NEW j \in 0 .. Len(d) - 1
  PROVE  /\ Swapped(d, i, j) \in Seq(Elems) /\ Len(Swapped(d, i, j)) = Len(d)
         /\ \A k \in 0 .. Len(d) - 1 :
              At(Swapped(d, i, j), k) = IF k = j THEN At(d, i) ELSE IF k = i THEN At(d, j) ELSE At(d, k)
BY DEF Swapped, At

(* No child of position i comes before what stands at s.                   *)
NoChildLess(d, i, s) == \A c \in {2 * i + 1, 2 * i + 2} : c < Len(d) => ~Less(At(d, c), At(d, s))

LEMMA SmallestIs ==
  ASSUME NEW d \in Seq(Elems), NEW i \in Nat, NEW s, s = Smallest(d, i)
  PROVE  /\ s \in Nat
         /\ s # i => s > i /\ s < Len(d) /\ (s = 2 * i + 1 \/ s = 2 * i + 2) /\ Less(At(d, s), At(d, i))
         /\ NoChildLess(d, i, s)
<1>1. /\ Len(d) \in Nat
      /\ 2 * i + 1 \in Nat /\ 2 * i + 2 \in Nat /\ 2 * i + 1 > i /\ 2 * i + 2 > i
  OBVIOUS
<1> PICK l : l = Lesser(d, i, 2 * i + 1)
  OBVIOUS
<1>2. /\ l = IF 2 * i + 1 < Len(d) /\ Less(At(d, 2 * i + 1), At(d, i)) THEN 2 * i + 1 ELSE i
      /\ s = IF 2 * i + 2 < Len(d) /\ Less(At(d, 2 * i + 2), At(d, l)) THEN 2 * i + 2 ELSE l
  BY DEF Lesser, Smallest
<1>3. CASE i < Len(d)
  <2>1. /\ Prio[At(d, i)] \in Int
        /\ \A c \in {2 * i + 1, 2 * i + 2} : c < Len(d) =>
             /\ At(d, c) \in Elems /\ Prio[At(d, c)] \in Int
             /\ \A b \in {i, 2 * i + 1, 2 * i + 2} : b < Len(d) =>
                  (Less(At(d, c), At(d, b)) <=> Prio[At(d, c)] < Prio[At(d, b)])
    BY <1>1, <1>3, AtIs, LessIs
  <2>2. QED
    BY <1>1, <1>2, <1>3, <2>1 DEF NoChildLess
<1>4. CASE ~(i < Len(d))
  BY <1>1, <1>2, <1>4 DEF NoChildLess
<1>5. QED
  BY <1>3, <1>4

-----------------------------------------------------------------------------
(* The sifts as loops.                                                     *)
First == [h \in Heaps |-> h[1]]

UpLeft == [h \in Within |-> h[2]]
UpGoes == {h \in Within : h[2] > 0 /\ Less(At(h[1], h[2]), At(h[1], Parent(h[2])))}
UpNext == [h \in Within |-> <<Swapped(h[1], h[2], Parent(h[2])), Parent(h[2])>>]

LEMMA UpLoops ==
  /\ UpLeft \in [Within -> Nat] /\ UpGoes \in SUBSET Within
  /\ \A h \in UpGoes : UpNext[h] \in Within /\ UpLeft[UpNext[h]] < UpLeft[h]
<1>1. UpLeft \in [Within -> Nat] /\ UpGoes \in SUBSET Within
  BY DEF UpLeft, UpGoes, Within, Heaps
<1>2. ASSUME NEW h \in UpGoes
      PROVE  UpNext[h] \in Within /\ UpLeft[UpNext[h]] < UpLeft[h]
  <2>1. PICK d \in Seq(Elems), i \in Nat : h = <<d, i>> /\ h[1] = d /\ h[2] = i /\ i < Len(d) /\ i > 0
    BY DEF UpGoes, Within, Heaps
  <2>2. Parent(i) \in Nat /\ Parent(i) < i /\ Len(d) \in Nat
    BY <2>1, ParentIs
  <2>3. Swapped(d, i, Parent(i)) \in Seq(Elems) /\ Len(Swapped(d, i, Parent(i))) = Len(d)
    BY <2>1, <2>2, SwapIs
  <2>4. h \in Within /\ UpNext[h] = <<Swapped(d, i, Parent(i)), Parent(i)>>
    BY <1>1, <2>1 DEF UpNext
  <2>5. UpNext[h] \in Within
    BY <2>1, <2>2, <2>3, <2>4 DEF Within, Heaps
  <2>6. QED
    BY <2>1, <2>2, <2>4, <2>5 DEF UpLeft
<1>3. QED
  BY <1>1, <1>2

LEMMA UpForm ==
  ASSUME NEW f
  PROVE  Loop(f, Within, UpGoes, UpNext, First)
         <=> f = [h \in Within |-> LET d == h[1]  i == h[2] IN
                    IF i > 0 /\ Less(At(d, i), At(d, Parent(i)))
                    THEN f[<<Swapped(d, i, Parent(i)), Parent(i)>>] ELSE d]
<1>1. \A h \in Within :
        (IF h \in UpGoes THEN f[UpNext[h]] ELSE First[h])
        = IF h[2] > 0 /\ Less(At(h[1], h[2]), At(h[1], Parent(h[2])))
          THEN f[<<Swapped(h[1], h[2], Parent(h[2])), Parent(h[2])>>] ELSE h[1]
  BY DEF UpGoes, UpNext, First, Within
<1>2. QED
  BY <1>1 DEF Loop

LEMMA UpIs == Loop(SiftUp, Within, UpGoes, UpNext, First)
<1>1. \E f : Loop(f, Within, UpGoes, UpNext, First)
  BY UpLoops, LoopValue
<1>2. \E f : f = [h \in Within |-> LET d == h[1]  i == h[2] IN
                    IF i > 0 /\ Less(At(d, i), At(d, Parent(i)))
                    THEN f[<<Swapped(d, i, Parent(i)), Parent(i)>>] ELSE d]
  BY <1>1, UpForm
<1>3. SiftUp = [h \in Within |-> LET d == h[1]  i == h[2] IN
                    IF i > 0 /\ Less(At(d, i), At(d, Parent(i)))
                    THEN SiftUp[<<Swapped(d, i, Parent(i)), Parent(i)>>] ELSE d]
  BY <1>2 DEF SiftUp
<1>4. QED
  BY <1>3, UpForm

DownLeft == [h \in Heaps |-> IF h[2] < Len(h[1]) THEN Len(h[1]) - h[2] ELSE 0]
DownGoes == {h \in Heaps : Smallest(h[1], h[2]) # h[2]}
DownNext == [h \in Heaps |-> <<Swapped(h[1], h[2], Smallest(h[1], h[2])), Smallest(h[1], h[2])>>]

LEMMA DownLoops ==
  /\ DownLeft \in [Heaps -> Nat] /\ DownGoes \in SUBSET Heaps
  /\ \A h \in DownGoes : DownNext[h] \in Heaps /\ DownLeft[DownNext[h]] < DownLeft[h]
<1>1. DownLeft \in [Heaps -> Nat] /\ DownGoes \in SUBSET Heaps
  BY DEF DownLeft, DownGoes, Heaps
<1>2. ASSUME NEW h \in DownGoes
      PROVE  DownNext[h] \in Heaps /\ DownLeft[DownNext[h]] < DownLeft[h]
  <2>1. PICK d \in Seq(Elems), i \in Nat : h = <<d, i>> /\ h[1] = d /\ h[2] = i /\ Smallest(d, i) # i
    BY DEF DownGoes, Heaps
  <2>2. PICK s : s = Smallest(d, i)
    OBVIOUS
  <2>3. s \in Nat /\ s > i /\ s < Len(d) /\ Len(d) \in Nat
    BY <2>1, <2>2, SmallestIs
  <2>4. Swapped(d, i, s) \in Seq(Elems) /\ Len(Swapped(d, i, s)) = Len(d)
    BY <2>1, <2>3, SwapIs
  <2>5. h \in Heaps /\ DownNext[h] = <<Swapped(d, i, s), s>>
    BY <1>1, <2>1, <2>2 DEF DownNext
  <2>6. DownNext[h] \in Heaps
    BY <2>1, <2>3, <2>4, <2>5 DEF Heaps
  <2>7. QED
    BY <2>1, <2>3, <2>4, <2>5, <2>6 DEF DownLeft
<1>3. QED
  BY <1>1, <1>2

LEMMA DownForm ==
  ASSUME NEW f
  PROVE  Loop(f, Heaps, DownGoes, DownNext, First)
         <=> f = [h \in Heaps |-> LET d == h[1]  i == h[2]  s == Smallest(d, i) IN
                    IF s = i THEN d ELSE f[<<Swapped(d, i, s), s>>]]
<1>1. \A h \in Heaps :
        (IF h \in DownGoes THEN f[DownNext[h]] ELSE First[h])
        = IF Smallest(h[1], h[2]) = h[2] THEN h[1]
          ELSE f[<<Swapped(h[1], h[2], Smallest(h[1], h[2])), Smallest(h[1], h[2])>>]
  BY DEF DownGoes, DownNext, First
<1>2. [h \in Heaps |-> IF h \in DownGoes THEN f[DownNext[h]] ELSE First[h]]
      = [h \in Heaps |-> LET d == h[1]  i == h[2]  s == Smallest(d, i) IN
           IF s = i THEN d ELSE f[<<Swapped(d, i, s), s>>]]
  BY <1>1
<1>3. QED
  BY <1>2, Zenon DEF Loop

LEMMA DownIs == Loop(SiftDown, Heaps, DownGoes, DownNext, First)
<1>1. \E f : Loop(f, Heaps, DownGoes, DownNext, First)
  BY DownLoops, LoopValue
<1>2. \E f : f = [h \in Heaps |-> LET d == h[1]  i == h[2]  s == Smallest(d, i) IN
                    IF s = i THEN d ELSE f[<<Swapped(d, i, s), s>>]]
  BY <1>1, DownForm
<1>3. SiftDown = [h \in Heaps |-> LET d == h[1]  i == h[2]  s == Smallest(d, i) IN
                    IF s = i THEN d ELSE SiftDown[<<Swapped(d, i, s), s>>]]
  BY <1>2 DEF SiftDown
<1>4. QED
  BY <1>3, DownForm

-----------------------------------------------------------------------------
(* The order of n ranks, from position b on, and of a heap that is being   *)
(* sifted at i: what hangs below i is in order with what is above it.      *)

InOrder(n, r, b) == \A j \in 1 .. n - 1 : Parent(j) >= b => ~(r[j] < r[Parent(j)])

Rising(n, r, i) ==
  /\ \A j \in 1 .. n - 1 : j # i => ~(r[j] < r[Parent(j)])
  /\ \A c \in 1 .. n - 1 : Parent(c) = i /\ i > 0 => ~(r[c] < r[Parent(i)])

Sinking(n, r, i, b) ==
  /\ i >= b
  /\ \A j \in 1 .. n - 1 : Parent(j) >= b /\ Parent(j) # i => ~(r[j] < r[Parent(j)])
  /\ \A c \in 1 .. n - 1 : Parent(c) = i /\ i > 0 /\ Parent(i) >= b => ~(r[c] < r[Parent(i)])

Exchanged(n, r, t, i, j) ==
  \A k \in 0 .. n - 1 : t[k] = IF k = j THEN r[i] ELSE IF k = i THEN r[j] ELSE r[k]

Ranks(d) == [k \in 0 .. Len(d) - 1 |-> Prio[At(d, k)]]

LEMMA RanksAre ==
  ASSUME NEW d \in Seq(Elems)
  PROVE  /\ Len(d) \in Nat /\ Ranks(d) \in [0 .. Len(d) - 1 -> Int]
         /\ \A i, j \in 0 .. Len(d) - 1 : Less(At(d, i), At(d, j)) <=> Ranks(d)[i] < Ranks(d)[j]
<1>1. \A i \in 0 .. Len(d) - 1 : At(d, i) \in Elems
  BY AtIs
<1>2. QED
  BY <1>1, LessIs DEF Ranks

LEMMA RanksExchanged ==
  ASSUME NEW d \in Seq(Elems), NEW i \in 0 .. Len(d) - 1, NEW j \in 0 .. Len(d) - 1
  PROVE  /\ Swapped(d, i, j) \in Seq(Elems) /\ Len(Swapped(d, i, j)) = Len(d)
         /\ Exchanged(Len(d), Ranks(d), Ranks(Swapped(d, i, j)), i, j)
<1>1. /\ Swapped(d, i, j) \in Seq(Elems) /\ Len(Swapped(d, i, j)) = Len(d)
      /\ \A k \in 0 .. Len(d) - 1 :
           At(Swapped(d, i, j), k) = IF k = j THEN At(d, i) ELSE IF k = i THEN At(d, j) ELSE At(d, k)
  BY SwapIs
<1>2. QED
  BY <1>1 DEF Ranks, Exchanged

LEMMA RisesOn ==
  ASSUME NEW n \in Nat, NEW r \in [0 .. n - 1 -> Int], NEW i \in 1 .. n - 1, NEW p, p = Parent(i), r[i] < r[p],
         NEW t \in [0 .. n - 1 -> Int], Rising(n, r, i), Exchanged(n, r, t, i, p)
  PROVE  Rising(n, t, p)
<1>1. p \in 0 .. n - 1 /\ p < i /\ i > 0 /\ i \in 0 .. n - 1
  BY ParentIs
<1>2. \A j \in 1 .. n - 1 : /\ Parent(j) \in 0 .. n - 1 /\ Parent(j) < j /\ j \in 0 .. n - 1
                            /\ r[j] \in Int /\ r[Parent(j)] \in Int
  BY ParentIs
<1>3. \A k \in 0 .. n - 1 : t[k] = IF k = p THEN r[i] ELSE IF k = i THEN r[p] ELSE r[k]
  BY DEF Exchanged
<1>4. /\ \A j \in 1 .. n - 1 : j # i => ~(r[j] < r[Parent(j)])
      /\ \A c \in 1 .. n - 1 : Parent(c) = i => ~(r[c] < r[p])
  BY <1>1 DEF Rising
<1>5. ASSUME NEW j \in 1 .. n - 1, j # p PROVE ~(t[j] < t[Parent(j)])
  <2>1. CASE j = i
    BY <1>1, <1>3, <2>1
  <2>2. CASE j # i /\ Parent(j) = p
    BY <1>1, <1>2, <1>3, <1>4, <1>5, <2>2
  <2>3. CASE j # i /\ Parent(j) = i
    BY <1>1, <1>2, <1>3, <1>4, <1>5, <2>3
  <2>4. CASE j # i /\ Parent(j) # p /\ Parent(j) # i
    BY <1>1, <1>2, <1>3, <1>4, <1>5, <2>4
  <2>5. QED
    BY <2>1, <2>2, <2>3, <2>4
<1>6. ASSUME NEW c \in 1 .. n - 1, Parent(c) = p, p > 0 PROVE ~(t[c] < t[Parent(p)])
  <2>0. p \in 1 .. n - 1 /\ p # i
    BY <1>1, <1>6
  <2> PICK q : q = Parent(p)
    OBVIOUS
  <2>a. q \in 0 .. n - 1 /\ q < p
    BY ONLY <1>2, <2>0, q = Parent(p)
  <2>b. q # p /\ q # i
    BY ONLY <1>1, <2>a, n \in Nat, i \in 1 .. n - 1
  <2>1. Parent(p) \in 0 .. n - 1 /\ Parent(p) # p /\ Parent(p) # i /\ p \in 1 .. n - 1 /\ p # i
    BY <2>0, <2>a, <2>b
  <2>2. t[Parent(p)] = r[Parent(p)] /\ ~(r[p] < r[Parent(p)]) /\ r[Parent(p)] \in Int /\ r[p] \in Int
    BY <1>3, <1>4, <2>1
  <2>3. CASE c = i
    BY <1>1, <1>3, <2>2, <2>3
  <2>4. CASE c # i
    <3>1. c # p /\ t[c] = r[c] /\ ~(r[c] < r[p]) /\ r[c] \in Int
      BY <1>2, <1>3, <1>4, <1>6, <2>4
    <3>2. QED
      BY <2>2, <3>1
  <2>5. QED
    BY <2>3, <2>4
<1>7. QED
  BY <1>5, <1>6 DEF Rising

LEMMA SinksOn ==
  ASSUME NEW n \in Nat, NEW b \in Nat, NEW r \in [0 .. n - 1 -> Int], NEW i \in 0 .. n - 1,
         NEW s \in 1 .. n - 1, Parent(s) = i, r[s] < r[i],
         \A c \in 1 .. n - 1 : Parent(c) = i => ~(r[c] < r[s]),
         NEW t \in [0 .. n - 1 -> Int], Sinking(n, r, i, b), Exchanged(n, r, t, i, s)
  PROVE  Sinking(n, t, s, b)
<1>1. i < s /\ i >= b /\ s \in 0 .. n - 1
  <2>1. s \in Nat \ {0} /\ s \in 0 .. n - 1
    OBVIOUS
  <2>2. Parent(s) < s
    BY <2>1, ParentIs
  <2>3. QED
    BY <2>1, <2>2 DEF Sinking
<1>2. \A j \in 1 .. n - 1 : /\ Parent(j) \in 0 .. n - 1 /\ Parent(j) < j /\ j \in 0 .. n - 1
                            /\ r[j] \in Int /\ r[Parent(j)] \in Int
  BY ParentIs
<1>3. \A k \in 0 .. n - 1 : t[k] = IF k = s THEN r[i] ELSE IF k = i THEN r[s] ELSE r[k]
  BY DEF Exchanged
<1>4. \A j \in 1 .. n - 1 : Parent(j) >= b /\ Parent(j) # i => ~(r[j] < r[Parent(j)])
  BY DEF Sinking
<1>5. ASSUME NEW j \in 1 .. n - 1, Parent(j) >= b, Parent(j) # s PROVE ~(t[j] < t[Parent(j)])
  <2>1. CASE j = s
    BY <1>1, <1>3, <2>1
  <2>2. CASE j # s /\ Parent(j) = i
    <3>1. j # i /\ t[j] = r[j] /\ t[Parent(j)] = r[s] /\ ~(r[j] < r[s])
      BY <1>1, <1>2, <1>3, <2>2
    <3>2. QED
      BY <3>1
  <2>3. CASE j = i
    <3>1. Parent(i) \in 0 .. n - 1 /\ Parent(i) # i /\ t[i] = r[s] /\ i > 0
      BY <1>1, <1>2, <1>3, <2>3
    <3>2. t[Parent(i)] = r[Parent(i)] /\ Parent(s) = i
      BY <1>3, <1>5, <2>3, <3>1
    <3>3. ~(r[s] < r[Parent(i)])
      BY <1>5, <2>3, <3>1 DEF Sinking
    <3>4. QED
      BY <2>3, <3>1, <3>2, <3>3
  <2>4. CASE j # s /\ j # i /\ Parent(j) # i
    <3>1. t[j] = r[j] /\ t[Parent(j)] = r[Parent(j)]
      BY <1>2, <1>3, <1>5, <2>4
    <3>2. QED
      BY <1>4, <1>5, <2>4, <3>1
  <2>5. QED
    BY <2>1, <2>2, <2>3, <2>4
<1>6. ASSUME NEW c \in 1 .. n - 1, Parent(c) = s PROVE ~(t[c] < t[Parent(s)])
  <2>1. c # s /\ c # i /\ s # i /\ s >= b /\ c \in 0 .. n - 1
    <3>1. c \in 0 .. n - 1 /\ s < c
      BY <1>2, <1>6
    <3>2. QED
      BY <1>1, <3>1
  <2>2. t[c] = r[c] /\ t[i] = r[s]
    BY <1>3, <2>1
  <2>3. ~(r[c] < r[s])
    BY <1>4, <1>6, <2>1
  <2>4. QED
    BY <2>2, <2>3
<1>7. s >= b
  BY <1>1
<1>8. QED
  BY <1>5, <1>6, <1>7 DEF Sinking

Ordered(d, b) == InOrder(Len(d), Ranks(d), b)
RisingAt(d, i) == Rising(Len(d), Ranks(d), i)
SinkingAt(d, i, b) == Sinking(Len(d), Ranks(d), i, b)

LEMMA RisingStep ==
  ASSUME NEW d \in Seq(Elems), NEW i \in 1 .. Len(d) - 1, Less(At(d, i), At(d, Parent(i))), RisingAt(d, i)
  PROVE  RisingAt(Swapped(d, i, Parent(i)), Parent(i))
<1> PICK p, u : p = Parent(i) /\ u = Swapped(d, i, p)
  OBVIOUS
<1>1. p \in 0 .. Len(d) - 1 /\ i \in 0 .. Len(d) - 1
  BY RanksAre, ParentIs
<1>2. u \in Seq(Elems) /\ Len(u) = Len(d) /\ Exchanged(Len(d), Ranks(d), Ranks(u), i, p)
  BY <1>1, RanksExchanged
<1>3. Ranks(d)[i] < Ranks(d)[p]
  BY <1>1, RanksAre
<1>4. /\ Len(d) \in Nat /\ Ranks(d) \in [0 .. Len(d) - 1 -> Int] /\ Ranks(u) \in [0 .. Len(d) - 1 -> Int]
      /\ i \in 1 .. Len(d) - 1 /\ p = Parent(i) /\ Rising(Len(d), Ranks(d), i)
  BY <1>2, RanksAre DEF RisingAt
<1>5. Rising(Len(d), Ranks(u), p)
  BY ONLY <1>2, <1>3, <1>4, RisesOn
<1>6. QED
  BY <1>2, <1>5 DEF RisingAt

LEMMA SinkingStep ==
  ASSUME NEW d \in Seq(Elems), NEW i \in Nat, NEW b \in Nat, SinkingAt(d, i, b), Smallest(d, i) # i
  PROVE  SinkingAt(Swapped(d, i, Smallest(d, i)), Smallest(d, i), b)
<1> PICK s, u, n, r, t : s = Smallest(d, i) /\ u = Swapped(d, i, s) /\ n = Len(d) /\ r = Ranks(d) /\ t = Ranks(u)
  OBVIOUS
<1>0. d \in Seq(Elems) /\ i \in Nat /\ s = Smallest(d, i) /\ s # i
  OBVIOUS
<1>1. /\ s \in Nat /\ s > i /\ s < Len(d) /\ (s = 2 * i + 1 \/ s = 2 * i + 2) /\ Less(At(d, s), At(d, i))
      /\ \A c \in {2 * i + 1, 2 * i + 2} : c < Len(d) => ~Less(At(d, c), At(d, s))
  <2>1. s \in Nat /\ s > i /\ s < Len(d) /\ (s = 2 * i + 1 \/ s = 2 * i + 2)
    BY ONLY <1>0, SmallestIs
  <2>2. Less(At(d, s), At(d, i))
    BY ONLY <1>0, SmallestIs
  <2>3. NoChildLess(d, i, s)
    BY ONLY <1>0, SmallestIs
  <2>4. QED
    BY <2>1, <2>2, <2>3 DEF NoChildLess
<1>2. Parent(s) = i /\ Len(d) \in Nat
  BY <1>1, ParentOf, AtIs
<1>3. i \in 0 .. Len(d) - 1 /\ s \in 1 .. Len(d) - 1 /\ s \in 0 .. Len(d) - 1
  BY <1>1, <1>2
<1>4. u \in Seq(Elems) /\ Len(u) = Len(d) /\ Exchanged(Len(d), Ranks(d), Ranks(u), i, s)
  BY <1>3, RanksExchanged
<1>5. /\ Ranks(d) \in [0 .. Len(d) - 1 -> Int] /\ Ranks(u) \in [0 .. Len(d) - 1 -> Int]
      /\ \A j, k \in 0 .. Len(d) - 1 : Less(At(d, j), At(d, k)) <=> Ranks(d)[j] < Ranks(d)[k]
  BY <1>4, RanksAre
<1>6. ASSUME NEW c \in 1 .. n - 1, Parent(c) = i PROVE ~(r[c] < r[s])
  <2>1. c \in 0 .. Len(d) - 1 /\ c < Len(d) /\ c \in Nat \ {0}
    BY <1>2
  <2>2. c = 2 * i + 1 \/ c = 2 * i + 2
    BY <1>6, <2>1, ParentIs
  <2>3. ~Less(At(d, c), At(d, s))
    BY <1>1, <2>1, <2>2
  <2>4. QED
    BY <1>3, <1>5, <2>1, <2>3
<1>7. /\ n \in Nat /\ b \in Nat /\ r \in [0 .. n - 1 -> Int] /\ i \in 0 .. n - 1
      /\ s \in 1 .. n - 1 /\ Parent(s) = i /\ r[s] < r[i]
      /\ \A c \in 1 .. n - 1 : Parent(c) = i => ~(r[c] < r[s])
      /\ t \in [0 .. n - 1 -> Int] /\ Sinking(n, r, i, b) /\ Exchanged(n, r, t, i, s)
  BY <1>1, <1>2, <1>3, <1>4, <1>5, <1>6 DEF SinkingAt
<1>8. Sinking(n, t, s, b)
  BY ONLY <1>7, SinksOn
<1>9. QED
  BY <1>4, <1>8 DEF SinkingAt

-----------------------------------------------------------------------------
(* The elements of a heap as a bag.                                        *)

Holders(d, e) == {k \in DOMAIN d : d[k] = e}

LEMMA HoldersFinite ==
  ASSUME NEW d \in Seq(Elems), NEW e
  PROVE  IsFiniteSet(Holders(d, e)) /\ Cardinality(Holders(d, e)) \in Nat
<1>1. Len(d) \in Nat /\ Len(d) \in Int /\ 1 \in Int /\ DOMAIN d = 1 .. Len(d)
  OBVIOUS
<1>2. IsFiniteSet(1 .. Len(d))
  BY <1>1, FS_Interval
<1>3. Holders(d, e) \in SUBSET (1 .. Len(d))
  BY <1>1 DEF Holders
<1>4. QED
  BY <1>2, <1>3, FS_Subset, FS_CardinalityType

LEMMA BagIs ==
  ASSUME NEW d \in Seq(Elems)
  PROVE  /\ DOMAIN Bag(d) = {d[k] : k \in DOMAIN d}
         /\ \A e \in DOMAIN Bag(d) : Bag(d)[e] = Cardinality(Holders(d, e)) /\ Bag(d)[e] \in Nat \ {0}
<1>1. \A e \in DOMAIN Bag(d) : Bag(d)[e] = Cardinality(Holders(d, e)) /\ Holders(d, e) # {}
  BY DEF Bag, Holders
<1>2. \A e \in DOMAIN Bag(d) : Cardinality(Holders(d, e)) \in Nat \ {0}
  BY <1>1, HoldersFinite, FS_EmptySet
<1>3. QED
  BY <1>1, <1>2 DEF Bag

LEMMA BagSame ==
  ASSUME NEW d \in Seq(Elems), NEW u \in Seq(Elems), Len(u) = Len(d),
         NEW p \in [1 .. Len(d) -> 1 .. Len(d)], \A k \in 1 .. Len(d) : p[p[k]] = k,
         \A k \in 1 .. Len(d) : u[k] = d[p[k]]
  PROVE  Bag(u) = Bag(d)
<1>1. DOMAIN d = 1 .. Len(d) /\ DOMAIN u = 1 .. Len(d)
  OBVIOUS
<1>2. {d[k] : k \in DOMAIN d} = {u[k] : k \in DOMAIN u}
  BY <1>1
<1>3. ASSUME NEW e PROVE Cardinality(Holders(u, e)) = Cardinality(Holders(d, e))
  <2> DEFINE f == [k \in Holders(d, e) |-> p[k]]
  <2>1. \A k \in Holders(d, e) : k \in 1 .. Len(d) /\ p[k] \in Holders(u, e)
    BY <1>1 DEF Holders
  <2>2. \A k \in Holders(u, e) : k \in 1 .. Len(d) /\ p[k] \in Holders(d, e)
    BY <1>1 DEF Holders
  <2>3. f \in [Holders(d, e) -> Holders(u, e)]
    BY <2>1
  <2>4. \A j, k \in Holders(d, e) : f[j] = f[k] => j = k
    BY <2>1
  <2>5. \A k \in Holders(u, e) : \E j \in Holders(d, e) : f[j] = k
    <3>1. ASSUME NEW k \in Holders(u, e) PROVE \E j \in Holders(d, e) : f[j] = k
      <4>1. p[k] \in Holders(d, e) /\ p[p[k]] = k
        BY <2>2
      <4>2. f[p[k]] = k
        BY <4>1
      <4>3. QED
        BY <4>1, <4>2
    <3>2. QED
      BY <3>1
  <2> HIDE DEF f
  <2>6. f \in Injection(Holders(d, e), Holders(u, e))
    BY <2>3, <2>4 DEF Injection, IsInjective
  <2>7. f \in Surjection(Holders(d, e), Holders(u, e))
    BY <2>3, <2>5 DEF Surjection
  <2>8. ExistsBijection(Holders(d, e), Holders(u, e))
    BY <2>6, <2>7 DEF ExistsBijection, Bijection
  <2>9. QED
    BY <2>8, HoldersFinite, FS_Bijection
<1>4. QED
  BY <1>2, <1>3 DEF Bag, Holders

LEMMA SwapBag ==
  ASSUME NEW d \in Seq(Elems), NEW i \in 0 .. Len(d) - 1, NEW j \in 0 .. Len(d) - 1
  PROVE  Bag(Swapped(d, i, j)) = Bag(d)
<1> DEFINE p == [k \in 1 .. Len(d) |-> IF k = j + 1 THEN i + 1 ELSE IF k = i + 1 THEN j + 1 ELSE k]
           u == Swapped(d, i, j)
<1>1. u \in Seq(Elems) /\ Len(u) = Len(d) /\ Len(d) \in Nat
  BY SwapIs
<1>2. \A k \in 1 .. Len(d) : u[k] = d[p[k]]
  BY DEF Swapped, At
<1>3. p \in [1 .. Len(d) -> 1 .. Len(d)] /\ \A k \in 1 .. Len(d) : p[p[k]] = k
  BY <1>1
<1> HIDE DEF p, u
<1>4. Bag(u) = Bag(d)
  BY <1>1, <1>2, <1>3, BagSame
<1>5. QED
  BY <1>4 DEF u

(* A bag with one more e.  *)
Plus(B, e) ==
  [x \in DOMAIN B \cup {e} |-> IF x \in DOMAIN B THEN IF x = e THEN B[x] + 1 ELSE B[x] ELSE 1]

LEMMA AppendBag ==
  ASSUME NEW d \in Seq(Elems), NEW e \in Elems
  PROVE  Bag(Append(d, e)) = Plus(Bag(d), e)
<1> PICK u : u = Append(d, e)
  OBVIOUS
<1>1. /\ u \in Seq(Elems) /\ Len(d) \in Nat /\ DOMAIN d = 1 .. Len(d) /\ DOMAIN u = 1 .. Len(d) + 1
      /\ u[Len(d) + 1] = e /\ \A k \in 1 .. Len(d) : u[k] = d[k]
  OBVIOUS
<1>2. {u[k] : k \in DOMAIN u} = {d[k] : k \in DOMAIN d} \cup {e}
  BY <1>1
<1>3. ASSUME NEW x, x # e PROVE Holders(u, x) = Holders(d, x)
  BY <1>1, <1>3 DEF Holders
<1>4. Holders(u, e) = Holders(d, e) \cup {Len(d) + 1} /\ Len(d) + 1 \notin Holders(d, e)
  BY <1>1 DEF Holders
<1>5. Cardinality(Holders(u, e)) = Cardinality(Holders(d, e)) + 1
  BY <1>4, HoldersFinite, FS_AddElement
<1>6. e \notin DOMAIN Bag(d) => Cardinality(Holders(d, e)) = 0
  <2>1. e \notin DOMAIN Bag(d) => Holders(d, e) = {}
    BY BagIs DEF Holders
  <2>2. QED
    BY <2>1, FS_EmptySet
<1>7. DOMAIN Bag(u) = DOMAIN Bag(d) \cup {e}
  BY <1>1, <1>2, BagIs
<1>8. ASSUME NEW x \in DOMAIN Bag(u)
      PROVE  Bag(u)[x] = IF x \in DOMAIN Bag(d) THEN IF x = e THEN Bag(d)[x] + 1 ELSE Bag(d)[x] ELSE 1
  <2>1. Bag(u)[x] = Cardinality(Holders(u, x))
    BY <1>1, BagIs
  <2>2. x \in DOMAIN Bag(d) => Bag(d)[x] = Cardinality(Holders(d, x))
    BY BagIs
  <2>3. CASE x = e
    BY <1>5, <1>6, <2>1, <2>2, <2>3
  <2>4. CASE x # e
    BY <1>3, <1>7, <2>1, <2>2, <2>4
  <2>5. QED
    BY <2>3, <2>4
<1>9. Bag(u) = [x \in DOMAIN Bag(u) |-> Bag(u)[x]]
  BY DEF Bag
<1>10. Bag(u) = Plus(Bag(d), e)
  BY <1>7, <1>8, <1>9 DEF Plus
<1>11. QED
  BY <1>10

LEMMA EmptyBagIs == Bag(<<>>) = Prios!EmptyBag
BY DEF Bag, Prios!EmptyBag, Prios!SetToBag

LEMMA WithIs ==
  ASSUME NEW d \in Seq(Elems), NEW e
  PROVE  Prios!With(Bag(d), e) = Plus(Bag(d), e)
<1>1. \A x \in DOMAIN Bag(d) : Bag(d)[x] \in Nat
  BY BagIs
<1> PICK B : B = Bag(d)
  OBVIOUS
<1>2. Prios!With(B, e) = Plus(B, e)
  BY <1>1 DEF Prios!With, Prios!(+), Prios!SetToBag, Plus
<1>3. QED
  BY <1>2

LEMMA WithoutIs ==
  ASSUME NEW d \in Seq(Elems), NEW e
  PROVE  Prios!Without(Plus(Bag(d), e), e) = Bag(d)
<1> PICK B, C : B = Bag(d) /\ C = Plus(B, e)
  OBVIOUS
<1>1. \A x \in DOMAIN B : B[x] \in Nat \ {0}
  BY BagIs
<1>2. B = [x \in DOMAIN B |-> B[x]]
  BY DEF Bag
<1> DEFINE L1 == [x \in DOMAIN C |-> IF x \in {e} THEN C[x] - 1 ELSE C[x]]
<1>3. Prios!Without(C, e) = [x \in {y \in DOMAIN L1 : L1[y] > 0} |-> L1[x]]
  BY DEF Prios!Without, Prios!(-), Prios!SetToBag
<1>4. \A x \in DOMAIN L1 : L1[x] = IF x \in DOMAIN B THEN B[x] ELSE 0
  BY <1>1 DEF Plus
<1>5. DOMAIN L1 = DOMAIN B \cup {e}
  BY DEF Plus
<1> HIDE DEF L1
<1>6. {y \in DOMAIN L1 : L1[y] > 0} = DOMAIN B
  <2>1. ASSUME NEW y \in DOMAIN B PROVE L1[y] > 0
    <3>1. L1[y] = B[y] /\ B[y] \in Nat \ {0}
      BY <1>1, <1>4, <1>5
    <3>2. QED
      BY <3>1
  <2>2. ASSUME NEW y \in DOMAIN L1, y \notin DOMAIN B PROVE ~(L1[y] > 0)
    <3>1. L1[y] = 0
      BY <1>4, <2>2
    <3>2. QED
      BY <3>1
  <2>3. QED
    BY <1>5, <2>1, <2>2
<1>7. [x \in {y \in DOMAIN L1 : L1[y] > 0} |-> L1[x]] = [x \in DOMAIN B |-> B[x]]
  BY <1>4, <1>5, <1>6
<1>8. QED
  BY <1>2, <1>3, <1>7

-----------------------------------------------------------------------------
(* What the sifts and heapify return.                                      *)

(* A heap of the same elements, in order from b on.                        *)
SiftedFrom(u, d) == u \in Seq(Elems) /\ Len(u) = Len(d) /\ Bag(u) = Bag(d)

LEMMA RisenIs ==
  ASSUME NEW d \in Seq(Elems), NEW i \in Nat, RisingAt(d, i), i = 0 \/ ~Less(At(d, i), At(d, Parent(i))), i < Len(d)
  PROVE  Ordered(d, 0)
<1>1. i > 0 => i \in 0 .. Len(d) - 1 /\ Parent(i) \in 0 .. Len(d) - 1
  BY RanksAre, ParentIs
<1>2. i > 0 => ~(Ranks(d)[i] < Ranks(d)[Parent(i)])
  BY <1>1, RanksAre
<1>3. QED
  BY <1>2 DEF Ordered, InOrder, RisingAt, Rising

LEMMA SunkIs ==
  ASSUME NEW d \in Seq(Elems), NEW i \in Nat, NEW b \in Nat, SinkingAt(d, i, b), Smallest(d, i) = i
  PROVE  Ordered(d, b)
<1> SUFFICES ASSUME NEW j \in 1 .. Len(d) - 1, Parent(j) >= b PROVE ~(Ranks(d)[j] < Ranks(d)[Parent(j)])
  BY DEF Ordered, InOrder
<1>1. CASE Parent(j) # i
  BY <1>1 DEF SinkingAt, Sinking
<1>2. CASE Parent(j) = i
  <2>1. Len(d) \in Nat /\ j \in Nat \ {0} /\ j < Len(d) /\ j \in 0 .. Len(d) - 1
    BY RanksAre
  <2>a. Parent(j) < j /\ (j = 2 * Parent(j) + 1 \/ j = 2 * Parent(j) + 2)
    BY <2>1, ParentIs
  <2>2. (j = 2 * i + 1 \/ j = 2 * i + 2) /\ i \in 0 .. Len(d) - 1
    BY <1>2, <2>1, <2>a
  <2>3. i = Smallest(d, i)
    OBVIOUS
  <2>4. NoChildLess(d, i, i)
    BY ONLY <2>3, d \in Seq(Elems), i \in Nat, SmallestIs
  <2>5. ~Less(At(d, j), At(d, i))
    BY <2>1, <2>2, <2>4 DEF NoChildLess
  <2>6. QED
    BY <1>2, <2>1, <2>2, <2>5, RanksAre
<1>3. QED
  BY <1>1, <1>2

LEMMA SiftUpIs ==
  ASSUME NEW d \in Seq(Elems), NEW i \in Nat, i < Len(d), RisingAt(d, i)
  PROVE  SiftedFrom(SiftUp[<<d, i>>], d) /\ Ordered(SiftUp[<<d, i>>], 0)
<1> DEFINE Q == {h \in Within : SiftedFrom(h[1], d) /\ RisingAt(h[1], h[2])}
<1>1. ASSUME NEW h \in Q, h \in UpGoes PROVE UpNext[h] \in Q
  <2>1. PICK u \in Seq(Elems), k \in Nat :
          /\ h = <<u, k>> /\ h[1] = u /\ h[2] = k /\ k < Len(u) /\ k > 0 /\ Less(At(u, k), At(u, Parent(k)))
          /\ SiftedFrom(u, d) /\ RisingAt(u, k)
    BY <1>1 DEF UpGoes, Within, Heaps
  <2>2. k \in 1 .. Len(u) - 1 /\ k \in 0 .. Len(u) - 1 /\ Parent(k) \in 0 .. Len(u) - 1
    BY <2>1, ParentIs, RanksAre
  <2> PICK v : v = Swapped(u, k, Parent(k))
    OBVIOUS
  <2>3. v \in Seq(Elems) /\ Len(v) = Len(u) /\ Bag(v) = Bag(u)
    BY <2>2, SwapIs, SwapBag
  <2>4. RisingAt(v, Parent(k))
    BY <2>1, <2>2, RisingStep
  <2>5. h \in Within /\ UpNext[h] = <<v, Parent(k)>>
    BY <2>1 DEF UpNext
  <2>6. UpNext[h] \in Within
    BY <1>1, UpLoops
  <2>7. QED
    BY <2>1, <2>3, <2>4, <2>5, <2>6 DEF SiftedFrom
<1>2. <<d, i>> \in Q
  BY DEF Within, Heaps, SiftedFrom
<1>3. Q \in SUBSET Within
  OBVIOUS
<1> HIDE DEF Q
<1>4. \A h \in Q \cap UpGoes : UpNext[h] \in Q
  BY <1>1
<1>5. \A h \in Q : \E y \in Q : y \notin UpGoes /\ SiftUp[h] = First[y]
  BY ONLY <1>3, <1>4, UpLoops, UpIs, LoopKeeps
<1>6. PICK y \in Q : y \notin UpGoes /\ SiftUp[<<d, i>>] = First[y]
  BY <1>2, <1>5
<1>7. PICK u \in Seq(Elems), k \in Nat :
        /\ y = <<u, k>> /\ y[1] = u /\ y[2] = k /\ k < Len(u) /\ SiftedFrom(u, d) /\ RisingAt(u, k)
        /\ y \in Within /\ y \in Heaps
  BY DEF Q, Within, Heaps
<1>8. k = 0 \/ ~Less(At(u, k), At(u, Parent(k)))
  BY <1>6, <1>7 DEF UpGoes
<1>9. SiftUp[<<d, i>>] = u
  BY <1>6, <1>7 DEF First
<1>10. Ordered(u, 0)
  BY <1>7, <1>8, RisenIs
<1>11. QED
  BY <1>7, <1>9, <1>10

(* Past the end there is nothing to sift.                                  *)
LEMMA SiftDownIs ==
  ASSUME NEW d \in Seq(Elems), NEW i \in Nat, NEW b \in Nat
  PROVE  SiftedFrom(SiftDown[<<d, i>>], d) /\ (SinkingAt(d, i, b) => Ordered(SiftDown[<<d, i>>], b))
<1> DEFINE Q == {h \in Heaps : SiftedFrom(h[1], d) /\ (SinkingAt(d, i, b) => SinkingAt(h[1], h[2], b))}
<1>1. ASSUME NEW h \in Q, h \in DownGoes PROVE DownNext[h] \in Q
  <2>1. PICK u \in Seq(Elems), k \in Nat :
          /\ h = <<u, k>> /\ h[1] = u /\ h[2] = k /\ Smallest(u, k) # k
          /\ SiftedFrom(u, d) /\ (SinkingAt(d, i, b) => SinkingAt(u, k, b))
    BY <1>1 DEF DownGoes, Heaps
  <2> PICK s, v : s = Smallest(u, k) /\ v = Swapped(u, k, s)
    OBVIOUS
  <2>2. s = Smallest(u, k) /\ s # k /\ u \in Seq(Elems) /\ k \in Nat
    BY <2>1
  <2>3. s \in Nat /\ s > k /\ s < Len(u)
    BY ONLY <2>2, SmallestIs
  <2>4. k \in 0 .. Len(u) - 1 /\ s \in 0 .. Len(u) - 1
    BY <2>3, RanksAre
  <2>5. v \in Seq(Elems) /\ Len(v) = Len(u) /\ Bag(v) = Bag(u)
    BY <2>4, SwapIs, SwapBag
  <2>6. SinkingAt(d, i, b) => SinkingAt(v, s, b)
    BY <2>1, <2>2, SinkingStep
  <2>7. h \in Heaps /\ DownNext[h] = <<v, s>>
    BY <2>1 DEF DownNext
  <2>8. DownNext[h] \in Heaps
    BY <1>1, DownLoops
  <2>9. QED
    BY <2>1, <2>5, <2>6, <2>7, <2>8 DEF SiftedFrom
<1>2. <<d, i>> \in Q
  BY DEF Heaps, SiftedFrom
<1>3. Q \in SUBSET Heaps
  OBVIOUS
<1> HIDE DEF Q
<1>4. \A h \in Q \cap DownGoes : DownNext[h] \in Q
  BY <1>1
<1>5. \A h \in Q : \E y \in Q : y \notin DownGoes /\ SiftDown[h] = First[y]
  BY ONLY <1>3, <1>4, DownLoops, DownIs, LoopKeeps
<1>6. PICK y \in Q : y \notin DownGoes /\ SiftDown[<<d, i>>] = First[y]
  BY <1>2, <1>5
<1>7. PICK u \in Seq(Elems), k \in Nat :
        /\ y = <<u, k>> /\ y[1] = u /\ y[2] = k /\ SiftedFrom(u, d) /\ (SinkingAt(d, i, b) => SinkingAt(u, k, b)) /\ y \in Heaps
  BY DEF Q, Heaps
<1>8. Smallest(u, k) = k
  BY <1>6, <1>7 DEF DownGoes
<1>9. SiftDown[<<d, i>>] = u
  BY <1>6, <1>7 DEF First
<1>10. SinkingAt(d, i, b) => Ordered(u, b)
  BY <1>7, <1>8, SunkIs
<1>11. QED
  BY <1>7, <1>9, <1>10

HeapifyLeft == [h \in Heaps |-> h[2]]
HeapifyGoes == {h \in Heaps : h[2] > 0}
HeapifyNext == [h \in Heaps |-> <<SiftDown[<<h[1], h[2] - 1>>], h[2] - 1>>]

LEMMA HeapifyLoops ==
  /\ HeapifyLeft \in [Heaps -> Nat] /\ HeapifyGoes \in SUBSET Heaps
  /\ \A h \in HeapifyGoes : HeapifyNext[h] \in Heaps /\ HeapifyLeft[HeapifyNext[h]] < HeapifyLeft[h]
<1>1. HeapifyLeft \in [Heaps -> Nat] /\ HeapifyGoes \in SUBSET Heaps
  BY DEF HeapifyLeft, HeapifyGoes, Heaps
<1>2. ASSUME NEW h \in HeapifyGoes
      PROVE  HeapifyNext[h] \in Heaps /\ HeapifyLeft[HeapifyNext[h]] < HeapifyLeft[h]
  <2>1. PICK d \in Seq(Elems), n \in Nat : h = <<d, n>> /\ h[1] = d /\ h[2] = n /\ n > 0
    BY DEF HeapifyGoes, Heaps
  <2>2. n - 1 \in Nat /\ SiftDown[<<d, n - 1>>] \in Seq(Elems)
    BY <2>1, SiftDownIs DEF SiftedFrom
  <2>3. h \in Heaps /\ HeapifyNext[h] = <<SiftDown[<<d, n - 1>>], n - 1>>
    BY <1>1, <2>1 DEF HeapifyNext
  <2>4. HeapifyNext[h] \in Heaps
    BY <2>2, <2>3 DEF Heaps
  <2>5. QED
    BY <2>1, <2>2, <2>3, <2>4 DEF HeapifyLeft
<1>3. QED
  BY <1>1, <1>2

LEMMA HeapifyForm ==
  ASSUME NEW f
  PROVE  Loop(f, Heaps, HeapifyGoes, HeapifyNext, First)
         <=> f = [h \in Heaps |-> LET d == h[1]  n == h[2] IN
                    IF n = 0 THEN d ELSE f[<<SiftDown[<<d, n - 1>>], n - 1>>]]
<1>1. \A h \in Heaps :
        (IF h \in HeapifyGoes THEN f[HeapifyNext[h]] ELSE First[h])
        = IF h[2] = 0 THEN h[1] ELSE f[<<SiftDown[<<h[1], h[2] - 1>>], h[2] - 1>>]
  <2> SUFFICES ASSUME NEW h \in Heaps
               PROVE  (IF h \in HeapifyGoes THEN f[HeapifyNext[h]] ELSE First[h])
                      = IF h[2] = 0 THEN h[1] ELSE f[<<SiftDown[<<h[1], h[2] - 1>>], h[2] - 1>>]
    OBVIOUS
  <2>1. h \in HeapifyGoes <=> h[2] # 0
    BY DEF HeapifyGoes, Heaps
  <2>2. QED
    BY <2>1 DEF HeapifyNext, First
<1>2. [h \in Heaps |-> IF h \in HeapifyGoes THEN f[HeapifyNext[h]] ELSE First[h]]
      = [h \in Heaps |-> LET d == h[1]  n == h[2] IN
           IF n = 0 THEN d ELSE f[<<SiftDown[<<d, n - 1>>], n - 1>>]]
  BY <1>1
<1>3. QED
  BY <1>2, Zenon DEF Loop

LEMMA HeapifyEquals == Loop(Heapify, Heaps, HeapifyGoes, HeapifyNext, First)
<1>1. \E f : Loop(f, Heaps, HeapifyGoes, HeapifyNext, First)
  BY HeapifyLoops, LoopValue
<1>2. \E f : f = [h \in Heaps |-> LET d == h[1]  n == h[2] IN
                    IF n = 0 THEN d ELSE f[<<SiftDown[<<d, n - 1>>], n - 1>>]]
  BY <1>1, HeapifyForm
<1>3. Heapify = [h \in Heaps |-> LET d == h[1]  n == h[2] IN
                    IF n = 0 THEN d ELSE Heapify[<<SiftDown[<<d, n - 1>>], n - 1>>]]
  BY <1>2 DEF Heapify
<1>4. QED
  BY <1>3, HeapifyForm

LEMMA HeapifyIs ==
  ASSUME NEW d \in Seq(Elems), NEW n \in Nat, Ordered(d, n)
  PROVE  SiftedFrom(Heapify[<<d, n>>], d) /\ Ordered(Heapify[<<d, n>>], 0)
<1> DEFINE Q == {h \in Heaps : SiftedFrom(h[1], d) /\ Ordered(h[1], h[2])}
<1>1. ASSUME NEW h \in Q, h \in HeapifyGoes PROVE HeapifyNext[h] \in Q
  <2>1. PICK u \in Seq(Elems), k \in Nat :
          /\ h = <<u, k>> /\ h[1] = u /\ h[2] = k /\ k > 0 /\ SiftedFrom(u, d) /\ Ordered(u, k)
    BY <1>1 DEF HeapifyGoes, Heaps
  <2> PICK m, v : m = k - 1 /\ v = SiftDown[<<u, m>>]
    OBVIOUS
  <2>2. m \in Nat
    BY <2>1
  <2>3. SinkingAt(u, m, m)
    <3>1. \A j \in 1 .. Len(u) - 1 : Parent(j) \in Nat /\ Parent(j) < j
      <4>1. Len(u) \in Nat /\ \A j \in 1 .. Len(u) - 1 : j \in Nat \ {0}
        BY RanksAre
      <4>2. QED
        BY <4>1, ParentIs
    <3>2. m > 0 => Parent(m) \in Nat /\ Parent(m) < m
      BY <2>2, ParentIs
    <3>3. \A j \in 1 .. Len(u) - 1 : Parent(j) >= m /\ Parent(j) # m => Parent(j) >= k
      <4> SUFFICES ASSUME NEW j \in 1 .. Len(u) - 1, Parent(j) >= m, Parent(j) # m PROVE Parent(j) >= k
        OBVIOUS
      <4> PICK q : q = Parent(j)
        OBVIOUS
      <4>1. q \in Nat /\ m \in Nat /\ k = m + 1 /\ q >= m /\ q # m
        BY <2>1, <2>2, <3>1
      <4>2. q >= k
        BY ONLY <4>1
      <4>3. QED
        BY <4>2
    <3>4. m > 0 => ~(Parent(m) >= m)
      BY <2>2, <3>2
    <3>5. QED
      BY <2>1, <2>2, <3>3, <3>4 DEF SinkingAt, Sinking, Ordered, InOrder
  <2>4. SiftedFrom(v, u) /\ Ordered(v, m)
    BY <2>2, <2>3, SiftDownIs
  <2>5. HeapifyNext[h] = <<v, m>>
    BY <2>1 DEF HeapifyNext
  <2>6. QED
    BY <2>1, <2>2, <2>4, <2>5 DEF SiftedFrom, Heaps
<1>2. <<d, n>> \in Q
  BY DEF Heaps, SiftedFrom
<1>3. Q \in SUBSET Heaps
  OBVIOUS
<1> HIDE DEF Q
<1>4. \A h \in Q \cap HeapifyGoes : HeapifyNext[h] \in Q
  BY <1>1
<1>5. \A h \in Q : \E y \in Q : y \notin HeapifyGoes /\ Heapify[h] = First[y]
  BY ONLY <1>3, <1>4, HeapifyLoops, HeapifyEquals, LoopKeeps
<1>6. PICK y \in Q : y \notin HeapifyGoes /\ Heapify[<<d, n>>] = First[y]
  BY <1>2, <1>5
<1>7. PICK u \in Seq(Elems), k \in Nat :
        /\ y = <<u, k>> /\ y[1] = u /\ y[2] = k /\ SiftedFrom(u, d) /\ Ordered(u, k) /\ y \in Heaps
  BY DEF Q, Heaps
<1>8. k = 0
  BY <1>6, <1>7 DEF HeapifyGoes
<1>9. Heapify[<<d, n>>] = u
  BY <1>6, <1>7 DEF First
<1>10. QED
  BY <1>7, <1>8, <1>9

(* Where heapify starts, there is nothing below.                           *)
LEMMA NothingBelow ==
  ASSUME NEW d \in Seq(Elems), NEW l \in Nat, Len(d) <= l
  PROVE  Halved(l) \in Nat /\ Ordered(d, Halved(l))
<1>1. Halved(l) \in Nat /\ 2 * Halved(l) + 1 >= l
  BY DEF Halved
<1>2. ASSUME NEW j \in 1 .. Len(d) - 1 PROVE ~(Parent(j) >= Halved(l))
  <2>1. Len(d) \in Nat /\ j \in Nat \ {0} /\ j < l
    BY RanksAre
  <2>2. Parent(j) \in Nat /\ (j = 2 * Parent(j) + 1 \/ j = 2 * Parent(j) + 2)
    BY <2>1, ParentIs
  <2>3. QED
    BY <1>1, <2>1, <2>2
<1>3. QED
  BY <1>1, <1>2 DEF Ordered, InOrder

LEMMA PushHeap ==
  ASSUME NEW d \in Seq(Elems), NEW e \in Elems, Ordered(d, 0), NEW u, u = SiftUp[<<Append(d, e), Len(d)>>]
  PROVE  u \in Seq(Elems) /\ Len(u) = Len(d) + 1 /\ Bag(u) = Plus(Bag(d), e) /\ Ordered(u, 0)
<1> PICK c, n : c = Append(d, e) /\ n = Len(d)
  OBVIOUS
<1>1. c \in Seq(Elems) /\ Len(c) = n + 1 /\ n \in Nat /\ n < Len(c) /\ \A k \in 1 .. n : c[k] = d[k]
  OBVIOUS
<1>2. \A k \in 0 .. n - 1 : Ranks(c)[k] = Ranks(d)[k]
  BY <1>1 DEF Ranks, At
<1>3. \A j \in 1 .. n : Parent(j) \in Nat /\ Parent(j) < j
  BY <1>1, ParentIs
<1>4. ASSUME NEW j \in 1 .. n, j # n PROVE ~(Ranks(c)[j] < Ranks(c)[Parent(j)])
  <2>1. j \in 0 .. n - 1 /\ Parent(j) \in 0 .. n - 1 /\ Parent(j) >= 0 /\ j \in 1 .. n - 1
    BY <1>1, <1>3, <1>4
  <2>2. ~(Ranks(d)[j] < Ranks(d)[Parent(j)])
    BY <2>1 DEF Ordered, InOrder
  <2>3. QED
    BY <1>2, <2>1, <2>2
<1>5. \A j \in 1 .. n : Parent(j) # n
  BY <1>1, <1>3
<1>6. RisingAt(c, n)
  BY <1>1, <1>4, <1>5 DEF RisingAt, Rising
<1>7. SiftedFrom(SiftUp[<<c, n>>], c) /\ Ordered(SiftUp[<<c, n>>], 0)
  BY ONLY <1>1, <1>6, SiftUpIs
<1>8. Bag(c) = Plus(Bag(d), e)
  BY AppendBag
<1>9. QED
  BY <1>1, <1>7, <1>8 DEF SiftedFrom

LEMMA PopHeap ==
  ASSUME NEW d \in Seq(Elems), d # <<>>, Ordered(d, 0)
  PROVE  /\ WithoutFirst(d) \in Seq(Elems) /\ Len(WithoutFirst(d)) = Len(d) - 1
         /\ Bag(d) = Plus(Bag(WithoutFirst(d)), d[1]) /\ Ordered(WithoutFirst(d), 0)
<1>1. Len(d) \in Nat \ {0} /\ d[1] \in Elems
  OBVIOUS
<1>2. CASE Len(d) = 1
  <2>1. WithoutFirst(d) = <<>> /\ <<>> \in Seq(Elems)
    BY <1>2 DEF WithoutFirst
  <2>2. d = Append(<<>>, d[1])
    BY <1>1, <1>2
  <2>3. Bag(d) = Plus(Bag(<<>>), d[1])
    BY <1>1, <2>1, <2>2, AppendBag
  <2>4. Ordered(<<>>, 0)
    BY DEF Ordered, InOrder
  <2>5. QED
    BY <1>2, <2>1, <2>3, <2>4
<1>3. CASE Len(d) # 1
  <2> PICK n, c : n = Len(d) /\ c = [LastKept(d) EXCEPT ![1] = d[n]]
    OBVIOUS
  <2>1. n \in Nat /\ n > 1 /\ 0 \in 0 .. n - 1 /\ n - 1 \in 0 .. n - 1
    BY <1>1, <1>3
  <2>2. LastKept(d) \in Seq(Elems) /\ Len(LastKept(d)) = n - 1 /\ \A k \in 1 .. n - 1 : LastKept(d)[k] = d[k]
    BY <2>1 DEF LastKept
  <2>3. c \in Seq(Elems) /\ Len(c) = n - 1 /\ \A k \in 1 .. n - 1 : c[k] = IF k = 1 THEN d[n] ELSE d[k]
    BY <2>1, <2>2
  <2>4. Append(c, d[1]) = Swapped(d, 0, n - 1)
    <3>1. Append(c, d[1]) \in Seq(Elems) /\ Len(Append(c, d[1])) = n
      BY <1>1, <2>1, <2>3
    <3>2. Swapped(d, 0, n - 1) \in Seq(Elems) /\ Len(Swapped(d, 0, n - 1)) = n
      BY <2>1, SwapIs
    <3>3. \A k \in 1 .. n : Append(c, d[1])[k] = Swapped(d, 0, n - 1)[k]
      BY <1>1, <2>1, <2>3 DEF Swapped, At
    <3>4. QED
      BY <3>1, <3>2, <3>3
  <2>5. Bag(d) = Plus(Bag(c), d[1])
    <3>1. Bag(Append(c, d[1])) = Plus(Bag(c), d[1])
      BY <1>1, <2>3, AppendBag
    <3>2. Bag(Swapped(d, 0, n - 1)) = Bag(d)
      BY <2>1, SwapBag
    <3>3. QED
      BY <2>4, <3>1, <3>2
  <2>6. \A k \in 1 .. n - 2 : Ranks(c)[k] = Ranks(d)[k]
    BY <2>1, <2>3 DEF Ranks, At
  <2>7. \A j \in 1 .. n - 2 : Parent(j) # 0 => Parent(j) \in 1 .. n - 2 /\ j \in 1 .. n - 1
    BY <2>1, ParentIs
  <2>8. SinkingAt(c, 0, 0)
    <3>1. ASSUME NEW j \in 1 .. n - 2, Parent(j) # 0 PROVE ~(Ranks(c)[j] < Ranks(c)[Parent(j)])
      <4>1. Parent(j) \in 1 .. n - 2 /\ j \in 1 .. n - 1 /\ Parent(j) >= 0
        BY <2>1, <2>7, <3>1
      <4>2. ~(Ranks(d)[j] < Ranks(d)[Parent(j)])
        BY <4>1 DEF Ordered, InOrder
      <4>3. QED
        BY <2>6, <4>1, <4>2
    <3>2. Len(c) - 1 = n - 2
      BY <2>1, <2>3
    <3>3. \A j \in 1 .. Len(c) - 1 : Parent(j) >= 0 /\ Parent(j) # 0 => ~(Ranks(c)[j] < Ranks(c)[Parent(j)])
      BY <3>1, <3>2
    <3> PICK w, r : w = Len(c) /\ r = Ranks(c)
      OBVIOUS
    <3>4. 0 >= 0 /\ ~(0 > 0)
      OBVIOUS
    <3>5. \A j \in 1 .. w - 1 : Parent(j) >= 0 /\ Parent(j) # 0 => ~(r[j] < r[Parent(j)])
      BY <3>3
    <3>6. \A x \in 1 .. w - 1 : Parent(x) = 0 /\ 0 > 0 /\ Parent(0) >= 0 => ~(r[x] < r[Parent(0)])
      BY <3>4
    <3>7. Sinking(w, r, 0, 0)
      BY <3>4, <3>5, <3>6, Zenon DEF Sinking
    <3>8. QED
      BY <3>7 DEF SinkingAt
  <2>9. SiftedFrom(SiftDown[<<c, 0>>], c) /\ Ordered(SiftDown[<<c, 0>>], 0)
    BY <2>3, <2>8, SiftDownIs
  <2>10. WithoutFirst(d) = SiftDown[<<c, 0>>]
    BY <1>3 DEF WithoutFirst
  <2>11. QED
    BY <2>3, <2>5, <2>9, <2>10 DEF SiftedFrom
<1>4. QED
  BY <1>2, <1>3

LEMMA RootLeast ==
  ASSUME NEW d \in Seq(Elems), d # <<>>, Ordered(d, 0)
  PROVE  \A k \in DOMAIN d : Prio[d[1]] <= Prio[d[k]]
<1> DEFINE T == {k \in 0 .. Len(d) - 1 : Ranks(d)[k] < Ranks(d)[0]}
<1>1. Len(d) \in Nat \ {0} /\ 0 \in 0 .. Len(d) - 1 /\ Ranks(d) \in [0 .. Len(d) - 1 -> Int]
  BY RanksAre
<1>2. T = {}
  <2>1. SUFFICES ASSUME T # {} PROVE FALSE
    OBVIOUS
  <2>2. PICK k \in T : \A j \in T : k <= j
    <3>1. T \in SUBSET Nat
      OBVIOUS
    <3> HIDE DEF T
    <3>2. QED
      BY <2>1, <3>1, Least
  <2>3. k \in 1 .. Len(d) - 1 /\ Ranks(d)[k] < Ranks(d)[0]
    BY <1>1, <2>2
  <2>4. Parent(k) \in 0 .. Len(d) - 1 /\ Parent(k) < k /\ Parent(k) >= 0
    BY <1>1, <2>3, ParentIs
  <2>5. ~(Ranks(d)[k] < Ranks(d)[Parent(k)])
    BY <2>3, <2>4 DEF Ordered, InOrder
  <2>6. Parent(k) \in T
    BY <1>1, <2>3, <2>4, <2>5
  <2> HIDE DEF T
  <2>7. k <= Parent(k)
    BY <2>2, <2>6
  <2>8. QED
    BY <2>3, <2>4, <2>7
<1>3. ASSUME NEW k \in DOMAIN d PROVE Prio[d[1]] <= Prio[d[k]]
  <2>1. k - 1 \in 0 .. Len(d) - 1 /\ (k - 1) + 1 = k
    BY <1>1
  <2>2. ~(Ranks(d)[k - 1] < Ranks(d)[0])
    BY <1>2, <2>1
  <2>3. Ranks(d)[k - 1] = Prio[d[k]] /\ Ranks(d)[0] = Prio[d[1]]
    BY <1>1, <2>1 DEF Ranks, At
  <2>4. QED
    BY <1>1, <2>1, <2>2, <2>3
<1>4. QED
  BY <1>3

-----------------------------------------------------------------------------
(* The heap order of the model is the order of every position.             *)
LEMMA OrderIs ==
  ASSUME NEW d \in Seq(Elems)
  PROVE  Ordered(d, 0) <=> \A i \in 1 .. Len(d) - 1 : ~Less(At(d, i), At(d, Parent(i)))
<1> PICK r : r = Ranks(d)
  OBVIOUS
<1>1. ASSUME NEW j \in 1 .. Len(d) - 1
      PROVE  Parent(j) >= 0 /\ (r[j] < r[Parent(j)] <=> Less(At(d, j), At(d, Parent(j))))
  <2>1. Len(d) \in Nat /\ j \in Nat \ {0} /\ j \in 0 .. Len(d) - 1
    BY RanksAre
  <2>2. Parent(j) \in Nat /\ Parent(j) < j
    BY <2>1, ParentIs
  <2>3. Parent(j) \in 0 .. Len(d) - 1
    BY <2>1, <2>2
  <2>4. r[j] = Prio[At(d, j)] /\ r[Parent(j)] = Prio[At(d, Parent(j))]
    BY <2>1, <2>3 DEF Ranks
  <2>5. QED
    BY <2>2, <2>4 DEF Less
<1>2. QED
  BY <1>1 DEF Ordered, InOrder

LEMMA EmptyOrder == Ordered(<<>>, 0)
BY DEF Ordered, InOrder

(* Where a call in progress stands.                                        *)
Standing ==
  /\ pc = "none" => ~hasVec /\ data = <<>> /\ slice = Nil
  /\ pc = "extend" => feed \in Sources
  /\ pc = "fill" => Len(data) + Len(feed) <= Len(source)
  /\ pc = "drain" => slice \in Seq(Elems)
  /\ pc \notin {"idle", "drain"} => slice = Nil

PInv == TypeOK /\ (pc # "fill" => Ordered(data, 0)) /\ NothingLeaks /\ Standing

(* One vec_push of the queue's vec_t.                                      *)
LEMMA VecGrows ==
  ASSUME TypeOK, Appended, Len(data') = Len(data) + 1
  PROVE  /\ hasVec = TRUE /\ hasVec' = TRUE /\ source' = source
         /\ cap' \in 0 .. MaxCap /\ cap' # 0 /\ Len(data') <= cap'
         /\ blocks' = blocks + (IF cap = 0 THEN 1 ELSE 0)
<1>1. cap \in Nat /\ MaxCap \in Nat /\ InitCap \in Nat \ {0} /\ Len(data) \in Nat /\ Len(data) <= cap
      /\ cap <= MaxCap /\ blocks \in Nat /\ hasVec \in BOOLEAN
  BY PQueueAssumption DEF TypeOK
<1>2. cap' \in 0 .. MaxCap /\ cap' # 0 /\ Len(data') <= cap'
  <2>1. CASE Len(data) = cap
    BY <1>1, <2>1 DEF Appended, Full, NewCap
  <2>2. CASE Len(data) # cap
    BY <1>1, <2>2 DEF Appended, Full, NewCap
  <2>3. QED
    BY <2>1, <2>2
<1>3. QED
  BY <1>1, <1>2 DEF Appended

(* A step that leaves pc, feed, source and slice alone and keeps the       *)
(* order keeps the invariant.                                              *)
LEMMA PKept ==
  ASSUME PInv, pc \in {"idle", "drain"},
         data' \in Seq(Elems), Ordered(data', 0), cap' \in 0 .. MaxCap, Len(data') <= cap',
         hasVec' = hasVec, (~hasVec => cap' = 0), source' = source, feed' = feed, pc' = pc,
         slice' = slice \/ (slice' \in Seq(Elems) /\ slice # Nil),
         blocks' = blocks - (IF cap = 0 THEN 0 ELSE 1) + (IF cap' = 0 THEN 0 ELSE 1)
  PROVE  PInv'
<1>1. Standing'
  BY DEF PInv, Standing
<1>2. slice' = Nil <=> slice = Nil
  BY PQueueAssumption
<1>3. NothingLeaks'
  BY <1>2 DEF PInv, TypeOK, NothingLeaks, ExtendBlocks
<1>4. blocks' \in Nat
  BY <1>3 DEF PInv, TypeOK, NothingLeaks, ExtendBlocks
<1>5. TypeOK'
  BY <1>4 DEF PInv, TypeOK
<1>6. QED
  BY <1>1, <1>3, <1>5 DEF PInv

LEMMA PInit == Init => PInv
<1> SUFFICES ASSUME Init PROVE PInv
  OBVIOUS
<1>1. <<>> \in Seq(Elems) /\ Len(<<>>) = 0 /\ MaxCap \in Nat
  BY PQueueAssumption
<1>2. TypeOK
  <2>1. /\ data \in Seq(Elems) /\ Len(data) <= cap /\ source \in Seq(Elems) /\ feed \in Seq(Elems)
        /\ slice = Nil /\ blocks \in Nat /\ (~hasVec => cap = 0)
        /\ pc \in {"none", "idle", "extend", "feeding", "fill", "drain"}
    BY <1>1 DEF Init
  <2>2. cap \in 0 .. MaxCap
    BY <1>1 DEF Init
  <2>3. hasVec \in BOOLEAN
    BY Zenon DEF Init
  <2>4. QED
    BY <2>1, <2>2, <2>3 DEF TypeOK
<1>3. NothingLeaks
  BY DEF Init, NothingLeaks, ExtendBlocks
<1>4. Standing
  BY DEF Init, Standing
<1>5. Ordered(data, 0)
  BY EmptyOrder DEF Init
<1>6. QED
  BY <1>2, <1>3, <1>4, <1>5 DEF PInv

LEMMA PPopped ==
  ASSUME PInv, pc # "fill", data # <<>>, data' = WithoutFirst(data)
  PROVE  /\ data' \in Seq(Elems) /\ Len(data') = Len(data) - 1 /\ Ordered(data', 0)
         /\ Bag(data) = Plus(Bag(data'), data[1]) /\ Len(data') <= cap /\ data[1] \in Elems
<1>1. data \in Seq(Elems) /\ Ordered(data, 0) /\ Len(data) <= cap /\ cap \in Nat
  BY PQueueAssumption DEF PInv, TypeOK
<1> PICK d, u : d = data /\ u = data'
  OBVIOUS
<1>2. d \in Seq(Elems) /\ d # <<>> /\ Ordered(d, 0) /\ u = WithoutFirst(d)
  BY <1>1
<1>3. u \in Seq(Elems) /\ Len(u) = Len(d) - 1 /\ Bag(d) = Plus(Bag(u), d[1]) /\ Ordered(u, 0)
  BY ONLY <1>2, PopHeap
<1>4. Len(u) <= cap /\ d[1] \in Elems
  BY <1>1, <1>2, <1>3
<1>5. QED
  BY <1>3, <1>4

LEMMA PPushed ==
  ASSUME PInv, pc # "fill", NEW e \in Elems, Pushed(e)
  PROVE  /\ data' \in Seq(Elems) /\ Len(data') = Len(data) + 1 /\ Ordered(data', 0)
         /\ Bag(data') = Plus(Bag(data), e)
         /\ hasVec = TRUE /\ hasVec' = TRUE /\ source' = source
         /\ cap' \in 0 .. MaxCap /\ cap' # 0 /\ Len(data') <= cap'
         /\ blocks' = blocks + (IF cap = 0 THEN 1 ELSE 0)
<1>1. data \in Seq(Elems) /\ Ordered(data, 0) /\ TypeOK
  BY DEF PInv, TypeOK
<1> PICK d, u : d = data /\ u = data'
  OBVIOUS
<1>2. d \in Seq(Elems) /\ Ordered(d, 0) /\ u = SiftUp[<<Append(d, e), Len(d)>>]
  BY <1>1 DEF Pushed
<1>3. u \in Seq(Elems) /\ Len(u) = Len(d) + 1 /\ Bag(u) = Plus(Bag(d), e) /\ Ordered(u, 0)
  BY ONLY <1>2, PushHeap, e \in Elems
<1>4. Appended /\ Len(data') = Len(data) + 1
  BY <1>3 DEF Pushed
<1>5. QED
  BY <1>1, <1>3, <1>4, VecGrows

LEMMA PCallKept ==
  ASSUME PInv,
         \/ PushRefused \/ Pop \/ Peek \/ Clear \/ \E e \in Elems : Push(e)
         \/ DrainNothing \/ DrainRefused \/ DrainOne
  PROVE  PInv'
<1>1. /\ data \in Seq(Elems) /\ cap \in 0 .. MaxCap /\ Len(data) <= cap /\ cap \in Nat /\ blocks \in Nat
      /\ (~hasVec => cap = 0) /\ Len(<<>>) = 0 /\ <<>> \in Seq(Elems)
      /\ (pc # "fill" => Ordered(data, 0))
  BY PQueueAssumption DEF PInv, TypeOK
<1>2. CASE PushRefused \/ Peek \/ DrainNothing
  <2>1. /\ pc = "idle" /\ data' = data /\ cap' = cap /\ hasVec' = hasVec /\ source' = source
        /\ feed' = feed /\ pc' = pc /\ slice' = slice /\ blocks' = blocks
    BY <1>2 DEF PushRefused, Peek, DrainNothing, Idle, queue
  <2>2. Ordered(data', 0) /\ blocks' = blocks - (IF cap = 0 THEN 0 ELSE 1) + (IF cap' = 0 THEN 0 ELSE 1)
    BY <1>1, <2>1
  <2>3. QED
    BY <1>1, <2>1, <2>2, PKept
<1>3. CASE Clear \/ DrainRefused
  <2>1. /\ pc = "idle" /\ data' = <<>> /\ cap' = cap /\ hasVec' = hasVec /\ source' = source
        /\ feed' = feed /\ pc' = pc /\ slice' = slice /\ blocks' = blocks
    BY <1>3 DEF Clear, DrainRefused, Idle
  <2>2. Ordered(data', 0) /\ blocks' = blocks - (IF cap = 0 THEN 0 ELSE 1) + (IF cap' = 0 THEN 0 ELSE 1)
    BY <1>1, <2>1, EmptyOrder
  <2>3. QED
    BY <1>1, <2>1, <2>2, PKept
<1>4. CASE Pop
  <2>1. /\ pc = "idle" /\ cap' = cap /\ hasVec' = hasVec /\ source' = source
        /\ feed' = feed /\ pc' = pc /\ slice' = slice /\ blocks' = blocks
    BY <1>4 DEF Pop, Idle
  <2>2. data' \in Seq(Elems) /\ Ordered(data', 0) /\ Len(data') <= cap'
    <3>1. CASE data = <<>>
      BY <1>1, <1>4, <2>1, <3>1 DEF Pop
    <3>2. CASE data # <<>>
      BY <1>4, <2>1, <3>2, PPopped DEF Pop
    <3>3. QED
      BY <3>1, <3>2
  <2>3. blocks' = blocks - (IF cap = 0 THEN 0 ELSE 1) + (IF cap' = 0 THEN 0 ELSE 1)
    BY <1>1, <2>1
  <2>4. QED
    BY <1>1, <2>1, <2>2, <2>3, PKept
<1>5. CASE DrainOne
  <2>1. /\ pc = "drain" /\ cap' = cap /\ hasVec' = hasVec /\ source' = source /\ data # <<>>
        /\ feed' = feed /\ pc' = pc /\ blocks' = blocks /\ data' = WithoutFirst(data)
        /\ slice' = Append(slice, data[1])
    BY <1>5 DEF DrainOne
  <2>2. data' \in Seq(Elems) /\ Ordered(data', 0) /\ Len(data') <= cap' /\ data[1] \in Elems
    BY <2>1, PPopped
  <2>3. slice \in Seq(Elems) /\ slice # Nil
    BY <2>1, PQueueAssumption DEF PInv, Standing
  <2>4. slice' \in Seq(Elems)
    BY <2>1, <2>2, <2>3
  <2>5. blocks' = blocks - (IF cap = 0 THEN 0 ELSE 1) + (IF cap' = 0 THEN 0 ELSE 1)
    BY <1>1, <2>1
  <2>6. QED
    BY <1>1, <2>1, <2>2, <2>3, <2>4, <2>5, PKept
<1>6. CASE \E e \in Elems : Push(e)
  <2>1. PICK e \in Elems : Push(e)
    BY <1>6
  <2>2. Pushed(e) /\ pc = "idle" /\ pc' = pc /\ feed' = feed /\ slice' = slice
    BY <2>1 DEF Push, Idle
  <2>3. /\ data' \in Seq(Elems) /\ Ordered(data', 0) /\ hasVec' = hasVec /\ hasVec /\ source' = source
        /\ cap' \in 0 .. MaxCap /\ Len(data') <= cap' /\ cap' # 0
        /\ blocks' = blocks + (IF cap = 0 THEN 1 ELSE 0)
    BY <2>2, PPushed
  <2>4. blocks' = blocks - (IF cap = 0 THEN 0 ELSE 1) + (IF cap' = 0 THEN 0 ELSE 1)
    BY <1>1, <2>3
  <2>5. QED
    BY <2>2, <2>3, <2>4, PKept
<1>7. QED
  BY <1>2, <1>3, <1>4, <1>5, <1>6

(* The parts of the invariant, for a step that moves pc.                   *)
LEMMA PMoved ==
  ASSUME PInv, NothingLeaks', Standing',
         data' \in Seq(Elems), pc' # "fill" => Ordered(data', 0), cap' \in 0 .. MaxCap, Len(data') <= cap',
         hasVec' \in BOOLEAN, (~hasVec' => cap' = 0), source' \in Seq(Elems), feed' \in Seq(Elems),
         slice' = Nil \/ slice' \in Seq(Elems),
         pc' \in {"none", "idle", "extend", "feeding", "fill", "drain"}
  PROVE  PInv'
<1>1. blocks' \in Nat
  BY DEF NothingLeaks, ExtendBlocks
<1>2. TypeOK'
  BY <1>1 DEF TypeOK
<1>3. QED
  BY <1>2 DEF PInv

LEMMA PHeld ==
  ASSUME PInv
  PROVE  /\ data \in Seq(Elems) /\ cap \in 0 .. MaxCap /\ cap \in Nat /\ MaxCap \in Nat /\ Len(data) <= cap
         /\ Len(data) \in Nat /\ (~hasVec => cap = 0) /\ hasVec \in BOOLEAN
         /\ source \in Seq(Elems) /\ feed \in Seq(Elems) /\ (slice = Nil \/ slice \in Seq(Elems))
         /\ blocks \in Nat /\ (pc # "fill" => Ordered(data, 0))
         /\ <<>> \in Seq(Elems) /\ Len(<<>>) = 0 /\ 0 \in 0 .. MaxCap /\ Nil \notin Seq(Elems)
BY PQueueAssumption DEF PInv, TypeOK

LEMMA PMadeKept ==
  ASSUME PInv, Create \/ CreateRefused \/ Destroy \/ \E v \in Sources : FromVec(v)
  PROVE  PInv'
<1>1. CASE CreateRefused
  <2>1. UNCHANGED <<hasVec, data, cap, source, slice, pc, feed, blocks>>
    BY <1>1 DEF CreateRefused, queue
  <2>2. NothingLeaks' /\ Standing'
    BY <2>1 DEF PInv, NothingLeaks, ExtendBlocks, Standing
  <2>3. TypeOK'
    BY <2>1 DEF PInv, TypeOK
  <2>4. QED
    BY <2>1, <2>2, <2>3 DEF PInv
<1>2. CASE Destroy
  <2>1. /\ pc = "idle" /\ slice = Nil /\ hasVec' = FALSE /\ data' = <<>> /\ cap' = 0 /\ source' = <<>>
        /\ pc' = "none" /\ slice' = Nil /\ feed' = feed
        /\ blocks' = blocks - (IF hasVec THEN 1 ELSE 0) - (IF cap = 0 THEN 0 ELSE 1) - 1
    BY <1>2 DEF Destroy, Idle, VecFree
  <2>2. NothingLeaks'
    BY <2>1 DEF PInv, NothingLeaks, ExtendBlocks
  <2>3. Standing'
    BY <2>1 DEF Standing
  <2>4. hasVec' \in BOOLEAN
    BY <2>1, Zenon
  <2>5. QED
    BY <2>1, <2>2, <2>3, <2>4, EmptyOrder, PHeld, PMoved
<1>3. CASE Create
  <2>1. /\ pc = "none" /\ slice = Nil /\ hasVec' \in BOOLEAN /\ data' = <<>> /\ cap' = 0 /\ source' = <<>>
        /\ pc' = "idle" /\ slice' = Nil /\ feed' = feed
        /\ blocks' = blocks + (IF hasVec' THEN 2 ELSE 1)
    BY <1>3 DEF Create, Created
  <2>2. ~hasVec /\ cap = 0
    BY <2>1, PHeld DEF PInv, Standing
  <2>3. NothingLeaks'
    BY <2>1, <2>2 DEF PInv, NothingLeaks, ExtendBlocks
  <2>4. Standing'
    BY <2>1 DEF Standing
  <2>5. QED
    BY <2>1, <2>3, <2>4, EmptyOrder, PHeld, PMoved
<1>4. CASE \E v \in Sources : FromVec(v)
  <2>1. PICK v \in Sources : FromVec(v)
    BY <1>4
  <2>2. /\ pc = "none" /\ slice = Nil /\ hasVec' \in BOOLEAN /\ data' = <<>> /\ cap' = 0 /\ source' = v
        /\ pc' = "fill" /\ slice' = Nil /\ feed' = v
        /\ blocks' = blocks + (IF hasVec' THEN 2 ELSE 1)
    BY <2>1 DEF FromVec, Created
  <2>3. ~hasVec /\ cap = 0 /\ v \in Seq(Elems) /\ Len(v) \in Nat
    BY <2>2, PHeld, PQueueAssumption DEF PInv, Standing
  <2>4. NothingLeaks'
    BY <2>2, <2>3 DEF PInv, NothingLeaks, ExtendBlocks
  <2>5. Standing'
    BY <2>2, <2>3 DEF Standing
  <2>6. QED
    BY <2>2, <2>3, <2>4, <2>5, PHeld, PMoved
<1>5. QED
  BY <1>1, <1>2, <1>3, <1>4

(* A heapify from the middle of the vec_t the queue is made from.          *)
LEMMA PHeapified ==
  ASSUME PInv, FillDone
  PROVE  data' \in Seq(Elems) /\ Len(data') = Len(data) /\ Bag(data') = Bag(data) /\ Ordered(data', 0)
<1> PICK d, u, l : d = data /\ u = data' /\ l = Len(source)
  OBVIOUS
<1>1. d \in Seq(Elems) /\ l \in Nat /\ Len(d) <= l /\ u = Heapify[<<d, Halved(l)>>]
  BY PHeld DEF FillDone, PInv, Standing
<1>2. Halved(l) \in Nat /\ Ordered(d, Halved(l))
  BY ONLY <1>1, NothingBelow
<1>3. SiftedFrom(u, d) /\ Ordered(u, 0)
  BY ONLY <1>1, <1>2, HeapifyIs
<1>4. QED
  BY <1>3 DEF SiftedFrom

LEMMA PFillKept ==
  ASSUME PInv, Fill \/ FillRefused \/ FillDone
  PROVE  PInv'
<1>1. CASE Fill
  <2>1. /\ pc = "fill" /\ pc' = "fill" /\ feed # <<>> /\ data' = Append(data, Head(feed)) /\ feed' = Tail(feed)
        /\ slice' = slice /\ Appended
    BY <1>1 DEF Fill
  <2>2. Head(feed) \in Elems /\ Tail(feed) \in Seq(Elems) /\ Len(Tail(feed)) = Len(feed) - 1 /\ Len(feed) \in Nat
    BY <2>1, PHeld
  <2>3. data' \in Seq(Elems) /\ Len(data') = Len(data) + 1 /\ TypeOK
    BY <2>1, <2>2, PHeld DEF PInv
  <2>4. /\ hasVec = TRUE /\ hasVec' = TRUE /\ source' = source
        /\ cap' \in 0 .. MaxCap /\ cap' # 0 /\ Len(data') <= cap'
        /\ blocks' = blocks + (IF cap = 0 THEN 1 ELSE 0)
    BY <2>1, <2>3, VecGrows
  <2>5. slice = Nil /\ slice' = Nil /\ Len(source) \in Nat
    BY <2>1, PHeld DEF PInv, Standing
  <2>6. Standing'
    BY <2>1, <2>2, <2>3, <2>4, <2>5, PHeld DEF PInv, Standing
  <2>7. NothingLeaks'
    BY <2>1, <2>4, <2>5, PHeld DEF PInv, NothingLeaks, ExtendBlocks
  <2>8. QED
    BY <2>1, <2>2, <2>3, <2>4, <2>5, <2>6, <2>7, PHeld, PMoved
<1>2. CASE FillRefused
  <2>1. /\ pc = "fill" /\ pc' = "fill" /\ feed # <<>> /\ feed' = Tail(feed)
        /\ UNCHANGED <<hasVec, data, cap, source, slice, blocks>>
    BY <1>2 DEF FillRefused
  <2>2. Tail(feed) \in Seq(Elems) /\ Len(Tail(feed)) = Len(feed) - 1 /\ Len(feed) \in Nat /\ Len(source) \in Nat
    BY <2>1, PHeld
  <2>3. Standing'
    BY <2>1, <2>2, PHeld DEF PInv, Standing
  <2>4. NothingLeaks'
    BY <2>1 DEF PInv, NothingLeaks, ExtendBlocks
  <2>5. QED
    BY <2>1, <2>2, <2>3, <2>4, PHeld, PMoved
<1>3. CASE FillDone
  <2>1. /\ pc = "fill" /\ pc' = "idle" /\ source' = <<>>
        /\ UNCHANGED <<hasVec, cap, slice, feed, blocks>>
    BY <1>3 DEF FillDone
  <2>2. data' \in Seq(Elems) /\ Len(data') = Len(data) /\ Ordered(data', 0)
    BY <1>3, PHeapified
  <2>3. Standing'
    BY <2>1 DEF PInv, Standing
  <2>4. NothingLeaks'
    BY <2>1 DEF PInv, NothingLeaks, ExtendBlocks
  <2>5. QED
    BY <2>1, <2>2, <2>3, <2>4, PHeld, PMoved
<1>4. QED
  BY <1>1, <1>2, <1>3

LEMMA PDrainKept ==
  ASSUME PInv, Drain \/ DrainDone \/ FreeSlice
  PROVE  PInv'
<1>1. UNCHANGED <<hasVec, data, cap, source, feed>> /\ pc # "fill"
  BY DEF Drain, DrainDone, FreeSlice, Idle, queue
<1>2. CASE Drain
  <2>1. pc = "idle" /\ slice = Nil /\ pc' = "drain" /\ slice' = <<>> /\ blocks' = blocks + 1
    BY <1>2 DEF Drain, Idle
  <2>2. Standing'
    BY <2>1, PHeld DEF Standing
  <2>3. slice = Nil <=> slice' # Nil
    BY <2>1, PHeld
  <2>4. pc' \in {"idle", "drain"} /\ blocks = blocks' + (0 - 1)
    BY <2>1, PHeld
  <2>5. NothingLeaks'
    BY <1>1, <2>1, <2>3, <2>4 DEF PInv, NothingLeaks, ExtendBlocks
  <2>6. QED
    BY <1>1, <2>1, <2>2, <2>5, PHeld, PMoved
<1>3. CASE DrainDone
  <2>1. pc = "drain" /\ pc' = "idle" /\ slice' = slice /\ blocks' = blocks
    BY <1>3 DEF DrainDone
  <2>2. Standing'
    BY <2>1 DEF Standing
  <2>3. NothingLeaks'
    BY <1>1, <2>1 DEF PInv, NothingLeaks, ExtendBlocks
  <2>4. QED
    BY <1>1, <2>1, <2>2, <2>3, PHeld, PMoved
<1>4. CASE FreeSlice
  <2>1. pc = "idle" /\ pc' = pc /\ slice # Nil /\ slice' = Nil /\ blocks' = blocks - 1
    BY <1>4 DEF FreeSlice
  <2>2. Standing'
    BY <2>1 DEF Standing
  <2>3. slice = Nil <=> slice' # Nil
    BY <2>1, PHeld
  <2>4. pc' \in {"idle", "drain"} /\ blocks = blocks' + 1
    BY <2>1, PHeld
  <2>5. NothingLeaks'
    BY <1>1, <2>1, <2>3, <2>4 DEF PInv, NothingLeaks, ExtendBlocks
  <2>6. QED
    BY <1>1, <2>1, <2>2, <2>5, PHeld, PMoved
<1>5. QED
  BY <1>2, <1>3, <1>4

LEMMA PExtendKept ==
  ASSUME PInv, ExtendStart \/ ExtendStep
  PROVE  PInv'
<1>1. CASE FeedOne(Pushed(Head(feed))) /\ UNCHANGED slice
  <2>1. /\ pc = "feeding" /\ pc' = "feeding" /\ feed # <<>> /\ Pushed(Head(feed)) /\ feed' = Tail(feed)
        /\ slice' = slice
    BY <1>1 DEF FeedOne
  <2>2. Head(feed) \in Elems /\ Tail(feed) \in Seq(Elems)
    BY <2>1, PHeld
  <2>3. /\ data' \in Seq(Elems) /\ Ordered(data', 0) /\ hasVec = TRUE /\ hasVec' = TRUE /\ source' = source
        /\ cap' \in 0 .. MaxCap /\ cap' # 0 /\ Len(data') <= cap'
        /\ blocks' = blocks + (IF cap = 0 THEN 1 ELSE 0)
    BY <2>1, <2>2, PPushed
  <2>4. Standing'
    BY <2>1 DEF PInv, Standing
  <2>5. NothingLeaks'
    BY <2>1, <2>3, PHeld DEF PInv, NothingLeaks, ExtendBlocks
  <2>6. QED
    BY <2>1, <2>2, <2>3, <2>4, <2>5, PHeld, PMoved
<1>2. CASE ~(FeedOne(Pushed(Head(feed))) /\ UNCHANGED slice)
  <2>1. UNCHANGED <<hasVec, data, cap, source, slice>>
    BY <1>2 DEF ExtendStart, ExtendStep, queue
  <2>2. \/ \E s \in Sources : pc = "idle" /\ slice = Nil /\ pc' = "extend" /\ feed' = s /\ blocks' = blocks + 1
        \/ pc = "extend" /\ pc' = "idle" /\ feed' = <<>> /\ blocks' = blocks - 1
        \/ pc = "extend" /\ pc' = "feeding" /\ feed' = feed /\ blocks' = blocks + 1
        \/ pc = "feeding" /\ pc' = "idle" /\ feed' = <<>> /\ blocks' = blocks - 1 - 1
    BY <1>2 DEF ExtendStart, Idle, ExtendCall, ExtendStep, ExtendRefused, ExtendScratch, FeedRefused, FeedDone,
                FeedEnd, IterDestroy, ScratchFree
  <2>3. feed' \in Seq(Elems)
    BY <2>2, PHeld, PQueueAssumption
  <2>4. slice' = Nil /\ slice = Nil
    BY <2>1, <2>2 DEF PInv, Standing
  <2>5. Standing'
    BY <2>2, <2>4 DEF Standing
  <2>6. NothingLeaks'
    BY <2>1, <2>2, <2>4, PHeld DEF PInv, NothingLeaks, ExtendBlocks
  <2>7. pc # "fill" /\ pc' \in {"none", "idle", "extend", "feeding", "fill", "drain"}
    BY <2>2
  <2>8. QED
    BY <2>1, <2>3, <2>4, <2>5, <2>6, <2>7, PHeld, PMoved
<1>3. QED
  BY <1>1, <1>2

LEMMA PNext == PInv /\ [Next]_vars => PInv'
<1> SUFFICES ASSUME PInv, [Next]_vars PROVE PInv'
  OBVIOUS
<1>1. CASE UNCHANGED vars
  <2>1. UNCHANGED <<hasVec, data, cap, source, slice, pc, feed, blocks>>
    BY <1>1 DEF vars, queue
  <2>2. NothingLeaks' /\ Standing'
    BY <2>1 DEF PInv, NothingLeaks, ExtendBlocks, Standing
  <2>3. TypeOK'
    BY <2>1 DEF PInv, TypeOK
  <2>4. QED
    BY <2>1, <2>2, <2>3 DEF PInv
<1>2. CASE Create \/ CreateRefused \/ Destroy \/ \E v \in Sources : FromVec(v)
  BY <1>2, PMadeKept
<1>3. CASE \/ PushRefused \/ Pop \/ Peek \/ Clear \/ \E e \in Elems : Push(e)
           \/ DrainNothing \/ DrainRefused \/ DrainOne
  BY <1>3, PCallKept
<1>4. CASE Fill \/ FillRefused \/ FillDone
  BY <1>4, PFillKept
<1>5. CASE Drain \/ DrainDone \/ FreeSlice
  BY <1>5, PDrainKept
<1>6. CASE ExtendStart \/ ExtendStep
  BY <1>6, PExtendKept
<1>7. QED
  BY <1>1, <1>2, <1>3, <1>4, <1>5, <1>6 DEF Next

LEMMA PInductive == Spec => []PInv
BY PInit, PNext, PTL DEF Spec

(* Types; the vec_t never holds more than it has room for, whatever is     *)
(* pushed, popped, extended, drained or heapified (pqueue.c, vec.c).       *)
THEOREM PQueueTypes == Spec => []TypeOK
<1>1. PInv => TypeOK
  BY DEF PInv
<1>2. QED
  BY <1>1, PInductive, PTL

(* No element comes before its parent: sift_up, sift_down and heapify of   *)
(* pqueue.c restore the order of the whole heap, for every cmp, ties and   *)
(* all, and every number of elements.                                      *)
THEOREM HeapOrderCorrect == Spec => []HeapOrder
<1>1. PInv => HeapOrder
  <2>1. SUFFICES ASSUME PInv PROVE HeapOrder
    OBVIOUS
  <2> PICK d : d = data
    OBVIOUS
  <2>2. d \in Seq(Elems) /\ (pc # "fill" => Ordered(d, 0))
    BY <2>1, PHeld
  <2>3. Ordered(d, 0) <=> \A i \in 1 .. Len(d) - 1 : ~Less(At(d, i), At(d, Parent(i)))
    BY <2>2, OrderIs
  <2>4. QED
    BY <2>2, <2>3 DEF HeapOrder
<1>2. QED
  BY <1>1, PInductive, PTL

(* pqueue_t and its vec_t, its drains and its extends hold exactly the     *)
(* blocks that have not been freed (pqueue.c, vec.c, collection.c).        *)
THEOREM PQueueBlocks == Spec => []NothingLeaks
<1>1. PInv => NothingLeaks
  BY DEF PInv
<1>2. QED
  BY <1>1, PInductive, PTL

-----------------------------------------------------------------------------
(* The refinement of PrioSpec.                                             *)
LEMMA BagPrimed == Bag(data)' = Bag(data')
BY DEF Bag

LEMMA Doings ==
  /\ Doing = CASE pc = "feeding" -> "extend" [] pc = "drain" -> "drain"
               [] pc = "fill" -> "build" [] OTHER -> "nothing"
  /\ Doing' = CASE pc' = "feeding" -> "extend" [] pc' = "drain" -> "drain"
                [] pc' = "fill" -> "build" [] OTHER -> "nothing"
BY DEF Doing

LEMMA NoneInBag ==
  ASSUME NEW d \in Seq(Elems)
  PROVE  Bag(d) = Prios!EmptyBag <=> d = <<>>
<1>1. DOMAIN Bag(<<>>) = {}
  BY DEF Bag
<1>2. d # <<>> => DOMAIN Bag(d) # {}
  <2>1. d # <<>> => 1 \in DOMAIN d
    OBVIOUS
  <2>2. DOMAIN Bag(d) = {d[k] : k \in DOMAIN d}
    BY BagIs
  <2>3. QED
    BY <2>1, <2>2, Zenon
<1>3. QED
  BY <1>1, <1>2, EmptyBagIs

(* The root is one of the least of the bag.                                *)
LEMMA TopLeast ==
  ASSUME NEW d \in Seq(Elems), d # <<>>, Ordered(d, 0)
  PROVE  /\ d[1] \in Prios!BagToSet(Bag(d)) /\ Prios!BagIn(d[1], Bag(d))
         /\ \A f \in Prios!BagToSet(Bag(d)) : Prio[d[1]] <= Prio[f]
<1>1. Prios!BagToSet(Bag(d)) = {d[k] : k \in DOMAIN d}
  BY BagIs DEF Prios!BagToSet
<1>2. 1 \in DOMAIN d
  OBVIOUS
<1>3. \A k \in DOMAIN d : Prio[d[1]] <= Prio[d[k]]
  BY RootLeast
<1>4. QED
  BY <1>1, <1>2, <1>3 DEF Prios!BagIn

(* One element popped, as the bag sees it.                                 *)
LEMMA PopSeen ==
  ASSUME PInv, pc # "fill", data # <<>>, data' = WithoutFirst(data)
  PROVE  \E e \in Prios!BagToSet(Bag(data)) :
           e = data[1] /\ Prios!Least(e) /\ Bag(data)' = Prios!Without(Bag(data), e)
<1>1. data' \in Seq(Elems) /\ Bag(data) = Plus(Bag(data'), data[1])
  BY PPopped
<1> PICK d, u : d = data /\ u = data'
  OBVIOUS
<1>2. d \in Seq(Elems) /\ d # <<>> /\ Ordered(d, 0) /\ u \in Seq(Elems) /\ Bag(d) = Plus(Bag(u), d[1])
  BY <1>1, PHeld
<1>3. Prios!Without(Bag(d), d[1]) = Bag(u)
  BY ONLY <1>2, WithoutIs
<1>4. /\ d[1] \in Prios!BagToSet(Bag(d)) /\ Prios!BagIn(d[1], Bag(d))
      /\ \A f \in Prios!BagToSet(Bag(d)) : Prio[d[1]] <= Prio[f]
  BY ONLY <1>2, TopLeast
<1>5. Prios!Least(data[1])
  BY <1>4 DEF Prios!Least
<1>6. QED
  BY <1>3, <1>4, <1>5, BagPrimed

LEMMA PushSeen ==
  ASSUME PInv, pc # "fill", NEW e \in Elems, Pushed(e)
  PROVE  Bag(data)' = Prios!With(Bag(data), e)
<1>1. data' \in Seq(Elems) /\ Bag(data') = Plus(Bag(data), e) /\ data \in Seq(Elems)
  BY PPushed, PHeld
<1> PICK d : d = data
  OBVIOUS
<1>2. Prios!With(Bag(d), e) = Plus(Bag(d), e)
  BY <1>1, WithIs
<1>3. QED
  BY <1>1, <1>2, BagPrimed

LEMMA PInitPrio == Init => Prios!Init
<1> SUFFICES ASSUME Init PROVE Prios!Init
  OBVIOUS
<1>1. data = <<>> /\ pc = "none" /\ slice = Nil /\ ret = Nil
  BY DEF Init
<1>2. Bag(data) = Prios!EmptyBag
  BY <1>1, EmptyBagIs
<1>3. Doing = "nothing"
  BY <1>1, Doings
<1>4. QED
  BY <1>1, <1>2, <1>3 DEF Prios!Init

(* The calls of one step on a queue: only the bag and the result change.   *)
LEMMA PStill ==
  ASSUME pc = "idle", UNCHANGED <<slice, pc, feed>>
  PROVE  /\ Prios!Ready
         /\ (Bag(data)' = Bag(data) => Prios!Leave(ret'))
         /\ Prios!Change(Bag(data)', ret')
<1>1. Doing = "nothing" /\ Doing' = "nothing"
  BY Doings
<1>2. QED
  BY <1>1 DEF Prios!Ready, Prios!Leave, Prios!Change

LEMMA PCallSeen ==
  ASSUME PInv,
         \/ PushRefused \/ Pop \/ Peek \/ Clear \/ \E e \in Elems : Push(e)
         \/ DrainNothing \/ DrainRefused
  PROVE  Prios!Next
<1>1. pc = "idle" /\ UNCHANGED <<slice, pc, feed>>
  BY DEF PushRefused, Pop, Peek, Clear, Push, DrainNothing, DrainRefused, Idle
<1>2. /\ Prios!Ready /\ (Bag(data)' = Bag(data) => Prios!Leave(ret'))
      /\ Prios!Change(Bag(data)', ret')
  BY <1>1, PStill
<1>3. /\ data' = data => Bag(data)' = Bag(data)
      /\ data' = <<>> => Bag(data)' = Prios!EmptyBag
      /\ Bag(data) = Prios!EmptyBag <=> data = <<>>
      /\ data # <<>> => Ordered(data, 0) /\ data \in Seq(Elems)
  BY <1>1, BagPrimed, EmptyBagIs, NoneInBag, PHeld
<1>4. CASE PushRefused
  <2>1. data' = data /\ ret' \in {"OOM", "INVALID"}
    BY <1>4 DEF PushRefused, queue
  <2>2. \E r \in {"OOM", "INVALID"} : Prios!Ready /\ Prios!Leave(r)
    BY <1>2, <1>3, <2>1
  <2>3. QED
    BY <2>2 DEF Prios!Next
<1>5. CASE Pop
  <2>1. CASE data = <<>>
    <3>1. data' = data /\ ret' = "NOT_FOUND"
      BY <1>5, <2>1 DEF Pop
    <3>2. Prios!Pop
      BY <1>2, <1>3, <2>1, <3>1 DEF Prios!Pop
    <3>3. QED
      BY <3>2 DEF Prios!Next
  <2>2. CASE data # <<>>
    <3>1. data' = WithoutFirst(data) /\ ret' = data[1]
      BY <1>5, <2>2 DEF Pop
    <3>2. PICK e \in Prios!BagToSet(Bag(data)) :
            e = data[1] /\ Prios!Least(e) /\ Bag(data)' = Prios!Without(Bag(data), e)
      BY <1>1, <2>2, <3>1, PopSeen
    <3>3. Prios!Change(Prios!Without(Bag(data), e), e)
      BY <1>2, <3>1, <3>2
    <3>4. Prios!Pop
      BY <1>2, <1>3, <2>2, <3>2, <3>3 DEF Prios!Pop
    <3>5. QED
      BY <3>4 DEF Prios!Next
  <2>3. QED
    BY <2>1, <2>2
<1>6. CASE Peek
  <2>1. data' = data /\ ret' = IF data = <<>> THEN "NOT_FOUND" ELSE data[1]
    BY <1>6 DEF Peek, queue
  <2>2. CASE data = <<>>
    <3>1. Prios!Peek
      BY <1>2, <1>3, <2>1, <2>2 DEF Prios!Peek
    <3>2. QED
      BY <3>1 DEF Prios!Next
  <2>3. CASE data # <<>>
    <3> PICK d : d = data
      OBVIOUS
    <3>1. d \in Seq(Elems) /\ d # <<>> /\ Ordered(d, 0)
      BY <1>3, <2>3
    <3>2. /\ d[1] \in Prios!BagToSet(Bag(d)) /\ Prios!BagIn(d[1], Bag(d))
          /\ \A f \in Prios!BagToSet(Bag(d)) : Prio[d[1]] <= Prio[f]
      BY ONLY <3>1, TopLeast
    <3>3. Prios!Least(d[1]) /\ Prios!Leave(d[1])
      BY <1>2, <1>3, <2>1, <2>3, <3>2 DEF Prios!Least
    <3>4. Prios!Peek
      BY <1>2, <1>3, <2>3, <3>2, <3>3 DEF Prios!Peek
    <3>5. QED
      BY <3>4 DEF Prios!Next
  <2>4. QED
    BY <2>2, <2>3
<1>7. CASE Clear
  <2>1. data' = <<>> /\ ret' = "OK"
    BY <1>7 DEF Clear
  <2>2. QED
    BY <1>2, <1>3, <2>1 DEF Prios!Clear, Prios!Next
<1>8. CASE DrainNothing
  <2>1. data' = <<>> /\ ret' = "OK"
    BY <1>8 DEF DrainNothing, queue
  <2>2. QED
    BY <1>2, <1>3, <2>1 DEF Prios!Clear, Prios!Next
<1>9. CASE DrainRefused
  <2>1. data' = <<>> /\ ret' = "OOM"
    BY <1>9 DEF DrainRefused
  <2>2. QED
    BY <1>2, <1>3, <2>1 DEF Prios!DrainRefused, Prios!Next
<1>10. CASE \E e \in Elems : Push(e)
  <2>1. PICK e \in Elems : Push(e)
    BY <1>10
  <2>2. Pushed(e) /\ ret' = "OK"
    BY <2>1 DEF Push
  <2>3. Bag(data)' = Prios!With(Bag(data), e)
    BY <1>1, <2>2, PushSeen
  <2>4. Prios!Push(e)
    BY <1>2, <2>2, <2>3 DEF Prios!Push
  <2>5. QED
    BY <2>4 DEF Prios!Next
<1>11. QED
  BY <1>4, <1>5, <1>6, <1>7, <1>8, <1>9, <1>10

LEMMA PMadeSeen ==
  ASSUME PInv, Create \/ CreateRefused \/ Destroy \/ \E v \in Sources : FromVec(v)
  PROVE  Prios!Next
<1>1. /\ data' = data => Bag(data)' = Bag(data)
      /\ data' = <<>> => Bag(data)' = Prios!EmptyBag
      /\ Bag(data) = Prios!EmptyBag <=> data = <<>>
  BY BagPrimed, EmptyBagIs, NoneInBag, PHeld
<1>2. pc = "none" => data = <<>> /\ slice = Nil
  BY DEF PInv, Standing
<1>3. CASE Create
  <2>1. pc = "none" /\ pc' = "idle" /\ data' = <<>> /\ ret' = "OK" /\ slice' = slice /\ feed' = feed
    BY <1>3 DEF Create, Created
  <2>2. Doing = "nothing" /\ Doing' = "nothing" /\ Bag(data)' = Bag(data)
    BY <1>1, <1>2, <2>1, Doings
  <2>3. Prios!Create
    BY <2>1, <2>2 DEF Prios!Create
  <2>4. QED
    BY <2>3 DEF Prios!Next
<1>4. CASE CreateRefused
  <2>1. pc = "none" /\ pc' = pc /\ data' = data /\ ret' = "OOM" /\ slice' = slice /\ feed' = feed
    BY <1>4 DEF CreateRefused, queue
  <2>2. Doing = "nothing" /\ Doing' = "nothing" /\ Bag(data)' = Bag(data)
    BY <1>1, <2>1, Doings
  <2>3. Prios!Create
    BY <2>1, <2>2 DEF Prios!Create, Prios!Leave
  <2>4. QED
    BY <2>3 DEF Prios!Next
<1>5. CASE Destroy
  <2>1. pc = "idle" /\ pc' = "none" /\ data' = <<>> /\ ret' = "OK" /\ slice' = slice /\ feed' = feed
    BY <1>5 DEF Destroy, Idle
  <2>2. Doing = "nothing" /\ Doing' = "nothing" /\ Bag(data)' = Prios!EmptyBag
    BY <1>1, <2>1, Doings
  <2>3. Prios!Destroy
    BY <2>1, <2>2 DEF Prios!Destroy, Prios!Ready
  <2>4. QED
    BY <2>3 DEF Prios!Next
<1>6. CASE \E v \in Sources : FromVec(v)
  <2>1. PICK v \in Sources : FromVec(v)
    BY <1>6
  <2>2. pc = "none" /\ pc' = "fill" /\ data' = <<>> /\ ret' = Nil /\ slice' = slice /\ feed' = v
    BY <2>1 DEF FromVec, Created
  <2>3. Doing' = "build" /\ Bag(data)' = Bag(data)
    BY <1>1, <1>2, <2>2, Doings
  <2>4. Prios!Build(v)
    BY <2>2, <2>3 DEF Prios!Build, Prios!Begin
  <2>5. QED
    BY <2>4 DEF Prios!Next
<1>7. QED
  BY <1>3, <1>4, <1>5, <1>6

LEMMA PFillSeen ==
  ASSUME PInv, Fill \/ FillRefused \/ FillDone
  PROVE  Prios!Next
<1>1. pc = "fill" /\ slice' = slice /\ Doing = "build" /\ data \in Seq(Elems) /\ feed \in Seq(Elems)
  BY Doings, PHeld DEF Fill, FillRefused, FillDone
<1>2. CASE Fill
  <2>1. pc' = "fill" /\ feed # <<>> /\ data' = Append(data, Head(feed)) /\ feed' = Tail(feed) /\ ret' = ret
    BY <1>2 DEF Fill
  <2> PICK d, e : d = data /\ e = Head(feed)
    OBVIOUS
  <2>2. d \in Seq(Elems) /\ e \in Elems
    BY <1>1, <2>1
  <2>3. Bag(Append(d, e)) = Plus(Bag(d), e) /\ Prios!With(Bag(d), e) = Plus(Bag(d), e)
    BY <2>2, AppendBag, WithIs
  <2>4. Bag(data)' = Prios!With(Bag(data), Head(feed)) /\ Doing' = "build"
    BY <2>1, <2>3, BagPrimed, Doings
  <2>5. Prios!Feed
    BY <1>1, <2>1, <2>4 DEF Prios!Feed
  <2>6. QED
    BY <2>5 DEF Prios!Next
<1>3. CASE FillRefused
  <2>1. pc' = "fill" /\ feed # <<>> /\ data' = data /\ feed' = Tail(feed) /\ ret' = ret
    BY <1>3 DEF FillRefused
  <2>2. Bag(data)' = Bag(data) /\ Doing' = "build"
    BY <2>1, BagPrimed, Doings
  <2>3. Prios!Skip
    BY <1>1, <2>1, <2>2 DEF Prios!Skip
  <2>4. QED
    BY <2>3 DEF Prios!Next
<1>4. CASE FillDone
  <2>1. pc' = "idle" /\ feed = <<>> /\ ret' = "OK"
    BY <1>4 DEF FillDone
  <2>2. Bag(data)' = Bag(data) /\ Doing' = "nothing"
    BY <1>4, <2>1, PHeapified, BagPrimed, Doings
  <2>3. Prios!End
    BY <1>1, <2>1, <2>2 DEF Prios!End
  <2>4. QED
    BY <2>3 DEF Prios!Next
<1>5. QED
  BY <1>2, <1>3, <1>4

LEMMA PDrainSeen ==
  ASSUME PInv, Drain \/ DrainOne \/ DrainDone \/ FreeSlice
  PROVE  Prios!Next
<1>1. data' = data => Bag(data)' = Bag(data)
  BY BagPrimed
<1>2. CASE Drain
  <2>1. pc = "idle" /\ pc' = "drain" /\ data' = data /\ slice = Nil /\ slice' = <<>> /\ ret' = Nil /\ feed' = feed
    BY <1>2 DEF Drain, Idle, queue
  <2>2. Doing = "nothing" /\ Doing' = "drain"
    BY <2>1, Doings
  <2>3. Prios!Drain
    BY <1>1, <2>1, <2>2 DEF Prios!Drain, Prios!Ready
  <2>4. QED
    BY <2>3 DEF Prios!Next
<1>3. CASE DrainOne
  <2>1. /\ pc = "drain" /\ pc' = "drain" /\ data # <<>> /\ data' = WithoutFirst(data) /\ ret' = ret /\ feed' = feed
        /\ slice' = Append(slice, data[1])
    BY <1>3 DEF DrainOne
  <2>2. Doing = "drain" /\ Doing' = "drain"
    BY <2>1, Doings
  <2>3. slice \in Seq(Elems) /\ slice # Nil
    BY <2>1, PHeld DEF PInv, Standing
  <2>4. slice' # Nil
    <3>1. data[1] \in Elems
      BY <2>1, PHeld
    <3>2. slice' \in Seq(Elems)
      BY <2>1, <2>3, <3>1
    <3>3. QED
      BY <3>2, PHeld
  <2>5. PICK e \in Prios!BagToSet(Bag(data)) :
          e = data[1] /\ Prios!Least(e) /\ Bag(data)' = Prios!Without(Bag(data), e)
    BY <2>1, PopSeen
  <2>6. Prios!DrainOne
    BY <2>1, <2>2, <2>3, <2>4, <2>5 DEF Prios!DrainOne
  <2>7. QED
    BY <2>6 DEF Prios!Next
<1>4. CASE DrainDone
  <2>1. pc = "drain" /\ pc' = "idle" /\ data' = data /\ slice' = slice /\ ret' = "OK"
    BY <1>4 DEF DrainDone, queue
  <2>2. Doing = "drain" /\ Doing' = "nothing"
    BY <2>1, Doings
  <2>3. Prios!End
    BY <1>1, <2>1, <2>2 DEF Prios!End
  <2>4. QED
    BY <2>3 DEF Prios!Next
<1>5. CASE FreeSlice
  <2>1. pc = "idle" /\ pc' = pc /\ data' = data /\ slice' = Nil /\ ret' = ret /\ feed' = feed
    BY <1>5 DEF FreeSlice, queue
  <2>2. Doing = "nothing" /\ Doing' = "nothing"
    BY <2>1, Doings
  <2>3. Prios!FreeSlice
    BY <1>1, <2>1, <2>2 DEF Prios!FreeSlice
  <2>4. QED
    BY <2>3 DEF Prios!Next
<1>6. QED
  BY <1>2, <1>3, <1>4, <1>5

LEMMA PExtendSeen ==
  ASSUME PInv, ExtendStart \/ ExtendStep
  PROVE  Prios!Next \/ UNCHANGED Prios!vars
<1>1. CASE FeedOne(Pushed(Head(feed))) /\ UNCHANGED slice
  <2>1. /\ pc = "feeding" /\ pc' = "feeding" /\ feed # <<>> /\ Pushed(Head(feed)) /\ feed' = Tail(feed)
        /\ slice' = slice /\ ret' = ret
    BY <1>1 DEF FeedOne
  <2>2. Head(feed) \in Elems
    BY <2>1, PHeld
  <2>3. Bag(data)' = Prios!With(Bag(data), Head(feed)) /\ Doing = "extend" /\ Doing' = "extend"
    BY <2>1, <2>2, PushSeen, Doings
  <2>4. Prios!Feed
    BY <2>1, <2>3 DEF Prios!Feed
  <2>5. QED
    BY <2>4 DEF Prios!Next
<1>2. CASE ~(FeedOne(Pushed(Head(feed))) /\ UNCHANGED slice)
  <2>1. UNCHANGED <<data, slice>>
    BY <1>2 DEF ExtendStart, ExtendStep, queue
  <2>2. Bag(data)' = Bag(data)
    BY <2>1, BagPrimed
  <2>3. CASE ExtendStart
    <3>1. pc = "idle" /\ pc' = "extend" /\ ret' = ret
      BY <2>3 DEF ExtendStart, ExtendCall
    <3>2. Doing = "nothing" /\ Doing' = "nothing"
      BY <3>1, Doings
    <3>3. QED
      BY <2>1, <2>2, <3>1, <3>2 DEF Prios!vars
  <2>4. CASE ExtendRefused
    <3>1. pc = "extend" /\ pc' = "idle" /\ ret' \in {"INVALID", "OOM"}
      BY <2>4 DEF ExtendRefused
    <3>2. Doing = "nothing" /\ Doing' = "nothing"
      BY <3>1, Doings
    <3>3. Prios!Ready /\ Prios!Leave(ret')
      BY <2>1, <2>2, <3>1, <3>2 DEF Prios!Ready, Prios!Leave
    <3>4. \E r \in {"OOM", "INVALID"} : Prios!Ready /\ Prios!Leave(r)
      BY <3>1, <3>3
    <3>5. QED
      BY <3>4 DEF Prios!Next
  <2>5. CASE ExtendScratch
    <3>1. pc = "extend" /\ pc' = "feeding" /\ ret' = Nil /\ feed' = feed
      BY <2>5 DEF ExtendScratch
    <3>2. Doing = "nothing" /\ Doing' = "extend"
      BY <3>1, Doings
    <3>3. feed \in Sources
      BY <3>1 DEF PInv, Standing
    <3>4. Prios!Extend(feed)
      BY <2>1, <2>2, <3>1, <3>2 DEF Prios!Extend, Prios!Ready, Prios!Begin
    <3>5. QED
      BY <3>3, <3>4 DEF Prios!Next
  <2>6. CASE FeedRefused(Full) \/ FeedDone
    <3>1. pc = "feeding" /\ pc' = "idle" /\ ret' = (IF feed = <<>> THEN "OK" ELSE "OOM")
      BY <2>6 DEF FeedRefused, FeedDone, FeedEnd
    <3>2. Doing = "extend" /\ Doing' = "nothing"
      BY <3>1, Doings
    <3>3. Prios!End
      BY <2>1, <2>2, <3>1, <3>2 DEF Prios!End
    <3>4. QED
      BY <3>3 DEF Prios!Next
  <2>7. QED
    BY <1>2, <2>3, <2>4, <2>5, <2>6 DEF ExtendStep
<1>3. QED
  BY <1>1, <1>2

LEMMA PNextPrio == PInv /\ [Next]_vars => [Prios!Next]_(Prios!vars)
<1> SUFFICES ASSUME PInv, [Next]_vars PROVE Prios!Next \/ UNCHANGED Prios!vars
  OBVIOUS
<1>1. CASE UNCHANGED vars
  <2>1. UNCHANGED <<data, slice, pc, feed, ret>>
    BY <1>1 DEF vars, queue
  <2>2. Bag(data)' = Bag(data) /\ Doing' = Doing
    BY <2>1, BagPrimed, Doings
  <2>3. QED
    BY <2>1, <2>2 DEF Prios!vars
<1>2. CASE Create \/ CreateRefused \/ Destroy \/ \E v \in Sources : FromVec(v)
  BY <1>2, PMadeSeen
<1>3. CASE \/ PushRefused \/ Pop \/ Peek \/ Clear \/ \E e \in Elems : Push(e)
           \/ DrainNothing \/ DrainRefused
  BY <1>3, PCallSeen
<1>4. CASE Fill \/ FillRefused \/ FillDone
  BY <1>4, PFillSeen
<1>5. CASE Drain \/ DrainOne \/ DrainDone \/ FreeSlice
  BY <1>5, PDrainSeen
<1>6. CASE ExtendStart \/ ExtendStep
  BY <1>6, PExtendSeen
<1>7. QED
  BY <1>1, <1>2, <1>3, <1>4, <1>5, <1>6 DEF Next

(* pqueue_t gives back one of the least elements of the bag it holds at a  *)
(* time: every call of pqueue.c, done or refused, is one of PrioSpec's.    *)
THEOREM PQueueRefines == Spec => ImplementsPrio
BY PInitPrio, PNextPrio, PInductive, PTL DEF Spec, ImplementsPrio, Prios!Spec
=============================================================================
