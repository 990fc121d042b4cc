---------------------------- MODULE HashSetProofs ----------------------------
(***************************************************************************)
(* Theorems of HashSet, for every set of names and keys, every hash        *)
(* function, capacity and threshold: its types, that a probe finds every   *)
(* key and no other, that no block is lost, and that set_t with its        *)
(* algebra implements the sets of SetSpec.                                 *)
(***************************************************************************)
EXTENDS HashSet, SequenceTheorems, FiniteSetTheorems, WellFoundedInduction, TLAPS

-----------------------------------------------------------------------------

(* The successor of a slot is the next one, or the first.  *)
LEMMA ModWrap ==
  ASSUME NEW c \in Nat \ {0}, NEW s \in Slots(c)
  PROVE  (s + 1) % c = IF s + 1 = c THEN 0 ELSE s + 1
  BY SMT DEF Slots
LEMMA ModRange ==
  ASSUME NEW c \in Nat \ {0}, NEW x \in Nat
  PROVE  x % c \in 0 .. c - 1
  BY SMT

(* A key's home is a slot.  *)
LEMMA HomeInRange ==
  ASSUME NEW c \in Nat \ {0}, NEW k \in Keys
  PROVE  HomeOf(k, c) \in Slots(c)
<1>1. Hash[k] \in Nat
  BY HashSetAssumption
<1>2. QED
  BY <1>1, ModRange DEF HomeOf, Slots

-----------------------------------------------------------------------------
(* The order of the buckets.  *)

Filled == [key : Keys, psl : Nat \ {0}]
Cells  == Filled \cup {Empty}
Occ(b, c) == {s \in Slots(c) : b[s].psl # 0}
Blanks(c) == [s \in Slots(c) |-> Empty]

(* How far slot s is from slot h, and the slot d before s, round the array *)
(* of c buckets.                                                           *)
Dist(h, s, c) == IF h <= s THEN s - h ELSE s + c - h
Back(s, d, c) == IF d <= s THEN s - d ELSE s + c - d

(* A bucket's psl tells how far it sits from its key's home.  *)
Aligned(e, s, c) == e.psl - 1 = Dist(HomeOf(e.key, c), s, c)

(* No bucket between a key's home and its place is poorer than the key     *)
(* would have been there, unless it is the hole a removal has yet to close. *)
Run(b, c, hole, p, s) == \A d \in 1 .. p - 1 :
                           b[Back(s, d, c)].psl >= p - d \/ Back(s, d, c) = hole

Ordered(b, c, hole) == \A s \in Occ(b, c) :
                         Aligned(b[s], s, c) /\ Run(b, c, hole, b[s].psl, s)
NoHole == -1

DistinctIn(b, S)    == \A s, t \in S : b[s].key = b[t].key => s = t
Absent(k, b, S)     == \A s \in S : b[s].key # k
Beyond(b, S, k, p)  == \A s \in S : b[s].key = k => b[s].psl >= p

-----------------------------------------------------------------------------
(* The order of a table of c buckets under each change the code makes.  *)

(* An aligned bucket's psl is at most the number of buckets.  *)
LEMMA PslBounded ==
  ASSUME NEW c \in Nat \ {0}, NEW s \in Slots(c), NEW e \in Filled,
         Aligned(e, s, c)
  PROVE  e.psl \in 1 .. c
<1>1. HomeOf(e.key, c) \in Slots(c) /\ e.psl \in Nat \ {0}
  BY HomeInRange, HashSetAssumption DEF Filled
<1>2. QED
  BY <1>1 DEF Aligned, Dist, Slots

(* Putting an entry in the place of an emptier or poorer bucket keeps the  *)
(* order.                                                                  *)
LEMMA PlaceKeepsOrder ==
  ASSUME NEW c \in Nat \ {0}, NEW b \in [Slots(c) -> Cells],
         NEW s \in Slots(c), NEW e \in Filled,
         Ordered(b, c, NoHole), Aligned(e, s, c), Run(b, c, NoHole, e.psl, s),
         b[s].psl < e.psl
  PROVE  Ordered([b EXCEPT ![s] = e], c, NoHole)
<1> DEFINE b2 == [b EXCEPT ![s] = e]
<1>1. e.psl \in 1 .. c
  BY PslBounded
<1>2. ASSUME NEW t \in Occ(b2, c)
      PROVE  Aligned(b2[t], t, c) /\ Run(b2, c, NoHole, b2[t].psl, t)
  <2>0. t \in Slots(c) /\ b2[t].psl # 0
    BY DEF Occ
  <2>1. CASE t = s
    <3>1. ASSUME NEW d \in 1 .. e.psl - 1
          PROVE  b2[Back(s, d, c)].psl >= e.psl - d
      <4>1. Back(s, d, c) \in Slots(c) /\ Back(s, d, c) # s /\ Back(s, d, c) # NoHole
        BY <1>1 DEF Back, Slots, NoHole
      <4>2. b[Back(s, d, c)].psl >= e.psl - d
        BY <4>1 DEF Run
      <4>3. QED
        BY <4>1, <4>2
    <3>2. QED
      BY <2>1, <3>1 DEF Run
  <2>2. CASE t # s
    <3>1. b2[t] = b[t] /\ t \in Occ(b, c)
      BY <2>0, <2>2 DEF Occ
    <3>2. Aligned(b[t], t, c) /\ Run(b, c, NoHole, b[t].psl, t)
      BY <3>1 DEF Ordered
    <3>3. b[t] \in Filled
      BY <2>0, <3>1 DEF Cells, Empty
    <3>4. b[t].psl \in 1 .. c
      BY <2>0, <3>2, <3>3, PslBounded
    <3>5. ASSUME NEW d \in 1 .. b[t].psl - 1
          PROVE  b2[Back(t, d, c)].psl >= b[t].psl - d
      <4>1. Back(t, d, c) \in Slots(c) /\ Back(t, d, c) # NoHole
        BY <2>0, <3>4 DEF Back, Slots, NoHole
      <4>2. b[Back(t, d, c)].psl >= b[t].psl - d
        BY <3>2, <4>1 DEF Run
      <4>3. b[s].psl \in Int /\ e.psl \in Int
        BY <1>1, HashSetAssumption DEF Cells, Filled, Empty
      <4>4. CASE Back(t, d, c) = s
        BY <4>2, <4>3, <4>4, <3>4
      <4>5. CASE Back(t, d, c) # s
        BY <4>1, <4>2, <4>5
      <4>6. QED
        BY <4>4, <4>5
    <3>6. QED
      BY <3>1, <3>2, <3>5 DEF Run
  <2>3. QED
    BY <2>1, <2>2
<1>3. QED
  BY <1>2 DEF Ordered

(* Something carried past an occupied bucket has not been round the whole  *)
(* array, as long as one bucket is empty.                                  *)
LEMMA CarriedNotRound ==
  ASSUME NEW c \in Nat \ {0}, NEW b \in [Slots(c) -> Cells],
         NEW s \in Slots(c), NEW p \in 1 .. c, Run(b, c, NoHole, p, s),
         b[s].psl # 0,
         NEW e \in Slots(c), b[e].psl = 0
  PROVE  p < c
<1>1. SUFFICES ASSUME p = c PROVE FALSE
  OBVIOUS
<1> DEFINE d == Dist(e, s, c)
<1>2. e # s
  OBVIOUS
<1>3. d \in 1 .. p - 1 /\ Back(s, d, c) = e /\ e # NoHole
  BY <1>1, <1>2 DEF Dist, Back, Slots, NoHole
<1>4. b[e].psl >= p - d
  BY <1>3 DEF Run
<1>5. QED
  BY <1>3, <1>4

(* What is carried to the next bucket stays aligned and its run unbroken,  *)
(* when the bucket it leaves behind is at least as far from home.          *)
LEMMA CarryKeepsRun ==
  ASSUME NEW c \in Nat \ {0}, NEW b \in [Slots(c) -> Cells],
         NEW s \in Slots(c), NEW p \in 1 .. c,
         Run(b, c, NoHole, p, s), p < c, b[s].psl >= p,
         NEW n \in Slots(c), n = IF s + 1 = c THEN 0 ELSE s + 1
  PROVE  Run(b, c, NoHole, p + 1, n)
<1>1. ASSUME NEW d \in 1 .. p
      PROVE  b[Back(n, d, c)].psl >= p + 1 - d
  <2>1. CASE d = 1
    <3>1. Back(n, d, c) = s
      BY <2>1 DEF Back, Slots
    <3>2. b[s].psl \in Int
      BY HashSetAssumption DEF Cells, Filled, Empty
    <3>3. QED
      BY <2>1, <3>1, <3>2
  <2>2. CASE d # 1
    <3>1. /\ d - 1 \in 1 .. p - 1
          /\ Back(n, d, c) = Back(s, d - 1, c)
          /\ Back(s, d - 1, c) \in Slots(c)
          /\ Back(s, d - 1, c) # NoHole
      BY <2>2 DEF Back, Slots, NoHole
    <3>2. b[Back(s, d - 1, c)].psl >= p - (d - 1)
      BY <3>1 DEF Run
    <3>3. QED
      BY <3>1, <3>2
  <2>3. QED
    BY <2>1, <2>2
<1>2. (p + 1) - 1 = p
  OBVIOUS
<1>3. QED
  BY <1>1, <1>2 DEF Run

LEMMA CarryKeepsAligned ==
  ASSUME NEW c \in Nat \ {0}, NEW s \in Slots(c),
         NEW e \in Filled, Aligned(e, s, c), e.psl < c,
         NEW n \in Slots(c), n = IF s + 1 = c THEN 0 ELSE s + 1,
         NEW f \in Filled, f.key = e.key, f.psl = e.psl + 1
  PROVE  Aligned(f, n, c)
<1>1. HomeOf(e.key, c) \in Slots(c) /\ e.psl \in Nat
  BY HomeInRange, HashSetAssumption DEF Filled
<1>2. QED
  BY <1>1 DEF Aligned, Dist, Slots

(* Emptying a bucket leaves an order with a hole.  *)
LEMMA RemoveKeepsOrder ==
  ASSUME NEW c \in Nat \ {0}, NEW b \in [Slots(c) -> Cells],
         NEW s \in Slots(c), Ordered(b, c, NoHole)
  PROVE  Ordered([b EXCEPT ![s] = Empty], c, s)
<1> DEFINE b2 == [b EXCEPT ![s] = Empty]
<1>1. ASSUME NEW t \in Occ(b2, c)
      PROVE  Aligned(b2[t], t, c) /\ Run(b2, c, s, b2[t].psl, t)
  <2>1. t \in Slots(c) /\ t # s /\ b2[t] = b[t] /\ t \in Occ(b, c)
    BY DEF Occ, Empty
  <2>2. Aligned(b[t], t, c) /\ Run(b, c, NoHole, b[t].psl, t) /\ b[t] \in Filled
    BY <2>1 DEF Ordered, Occ, Cells, Empty
  <2>3. b[t].psl \in 1 .. c
    BY <2>1, <2>2, PslBounded
  <2>4. ASSUME NEW d \in 1 .. b[t].psl - 1
        PROVE  b2[Back(t, d, c)].psl >= b[t].psl - d \/ Back(t, d, c) = s
    <3>1. Back(t, d, c) \in Slots(c) /\ Back(t, d, c) # NoHole
      BY <2>1, <2>3 DEF Back, Slots, NoHole
    <3>2. QED
      BY <2>2, <3>1 DEF Run
  <2>5. QED
    BY <2>1, <2>2, <2>4 DEF Run
<1>2. QED
  BY <1>1 DEF Ordered

(* Moving the bucket after the hole into it, one step nearer its home,     *)
(* moves the hole on and keeps the order.                                  *)
LEMMA ShiftKeepsOrder ==
  ASSUME NEW c \in Nat \ {0}, NEW b \in [Slots(c) -> Cells],
         NEW h \in Slots(c), b[h].psl = 0, Ordered(b, c, h),
         NEW n \in Slots(c), n = IF h + 1 = c THEN 0 ELSE h + 1,
         b[n].psl > 1,
         NEW e, e = Nearer(b[n])
  PROVE  Ordered([b EXCEPT ![h] = e, ![n] = Empty], c, n)
<1> DEFINE b2 == [b EXCEPT ![h] = e, ![n] = Empty]
<1>1. n # h /\ b[n] \in Filled /\ n \in Occ(b, c)
  BY DEF Cells, Empty, Occ
<1>2. Aligned(b[n], n, c) /\ Run(b, c, h, b[n].psl, n) /\ b[n].psl \in 2 .. c
  BY <1>1, PslBounded DEF Ordered
<1>3. e \in Filled /\ e.psl = b[n].psl - 1 /\ e.key = b[n].key
  BY <1>1, <1>2, HashSetAssumption DEF Filled, Nearer, Entry
<1>4. b2[h] = e /\ b2[n] = Empty
  BY <1>1
<1> PICK q \in 2 .. c : q = b[n].psl
  BY <1>2
<1>5. Aligned(e, h, c)
  <2>1. PICK home \in Slots(c) : home = HomeOf(e.key, c)
    BY <1>3, HomeInRange DEF Filled
  <2>2. q - 1 = Dist(home, n, c)
    BY <1>2, <1>3, <2>1 DEF Aligned
  <2>3. q - 2 = Dist(home, h, c)
    BY ONLY <2>2, h \in Slots(c), n = (IF h + 1 = c THEN 0 ELSE h + 1),
            c \in Nat \ {0}, home \in Slots(c), q \in 2 .. c DEF Dist, Slots
  <2>4. QED
    BY <1>3, <2>1, <2>3 DEF Aligned
<1>6. Run(b2, c, n, e.psl, h)
  <2>1. ASSUME NEW d \in 1 .. e.psl - 1
        PROVE  b2[Back(h, d, c)].psl >= e.psl - d
    <3>0. d \in 1 .. q - 2
      BY <1>3
    <3>1. /\ d + 1 \in 1 .. q - 1
          /\ Back(h, d, c) = Back(n, d + 1, c)
          /\ Back(h, d, c) \in Slots(c) /\ Back(h, d, c) # h /\ Back(h, d, c) # n
      BY ONLY <3>0, h \in Slots(c), n = (IF h + 1 = c THEN 0 ELSE h + 1),
              c \in Nat \ {0}, q \in 2 .. c DEF Back, Slots
    <3>2. b[Back(n, d + 1, c)].psl >= q - (d + 1)
      BY <1>2, <3>1 DEF Run
    <3>3. b2[Back(h, d, c)] = b[Back(h, d, c)]
      BY <3>1
    <3>4. QED
      BY <1>3, <3>0, <3>1, <3>2, <3>3
  <2>2. QED
    BY <2>1 DEF Run
<1>7. ASSUME NEW t \in Slots(c) \ {h, n}, b[t].psl # 0
      PROVE  Aligned(b[t], t, c) /\ Run(b2, c, n, b[t].psl, t)
  <2>1. Aligned(b[t], t, c) /\ Run(b, c, h, b[t].psl, t) /\ b[t] \in Filled
    BY <1>7 DEF Ordered, Occ, Cells, Empty
  <2>2. b[t].psl \in 1 .. c
    BY <2>1, PslBounded
  <2>3. ASSUME NEW d \in 1 .. b[t].psl - 1, Back(t, d, c) # n
        PROVE  b2[Back(t, d, c)].psl >= b[t].psl - d
    <3>1. Back(t, d, c) \in Slots(c)
      BY <2>2 DEF Back, Slots
    <3>2. CASE Back(t, d, c) = h
      <4>1. d - 1 \in 1 .. b[t].psl - 1 /\ Back(t, d - 1, c) = n
        BY <2>2, <3>2, <1>7 DEF Back, Slots
      <4>2. b[n].psl >= b[t].psl - (d - 1)
        BY <1>1, <2>1, <4>1 DEF Run
      <4>3. QED
        BY <1>2, <1>3, <1>4, <2>2, <3>2, <4>2
    <3>3. CASE Back(t, d, c) # h
      BY <2>1, <2>3, <3>1, <3>3 DEF Run
    <3>4. QED
      BY <3>2, <3>3
  <2>4. QED
    BY <2>1, <2>3 DEF Run
<1>8. ASSUME NEW t \in Occ(b2, c)
      PROVE  Aligned(b2[t], t, c) /\ Run(b2, c, n, b2[t].psl, t)
  <2>1. t \in Slots(c) /\ t # n
    BY <1>4 DEF Occ, Empty
  <2>2. CASE t = h
    BY <1>4, <1>5, <1>6, <2>2
  <2>3. CASE t # h
    BY <1>7, <2>1, <2>3 DEF Occ
  <2>4. QED
    BY <2>2, <2>3
<1>9. QED
  BY <1>8 DEF Ordered

(* A hole before an empty bucket, or before one at home, breaks no run.  *)
LEMMA ShiftEndKeepsOrder ==
  ASSUME NEW c \in Nat \ {0}, NEW b \in [Slots(c) -> Cells],
         NEW h \in Slots(c), Ordered(b, c, h), b[h].psl = 0,
         NEW n \in Slots(c), n = IF h + 1 = c THEN 0 ELSE h + 1,
         ~(b[n].psl > 1)
  PROVE  Ordered(b, c, NoHole)
<1>1. ASSUME NEW t \in Occ(b, c)
      PROVE  Run(b, c, NoHole, b[t].psl, t)
  <2>1. /\ Aligned(b[t], t, c) /\ Run(b, c, h, b[t].psl, t)
        /\ b[t] \in Filled /\ t \in Slots(c) /\ t # h
    BY <1>1 DEF Ordered, Occ, Cells, Empty
  <2>2. b[t].psl \in 1 .. c
    BY <2>1, PslBounded
  <2>3. ASSUME NEW d \in 1 .. b[t].psl - 1
        PROVE  b[Back(t, d, c)].psl >= b[t].psl - d
    <3>1. CASE Back(t, d, c) = h
      <4>1. b[n].psl \in Int /\ d \in Int
        BY HashSetAssumption DEF Cells, Filled, Empty
      <4>2. CASE t = n
        BY <2>2, <4>1, <4>2
      <4>3. CASE t # n
        <5>1. d - 1 \in 1 .. b[t].psl - 1 /\ Back(t, d - 1, c) = n /\ n # h
          BY <2>1, <2>2, <3>1, <4>3 DEF Back, Slots
        <5>2. b[n].psl >= b[t].psl - (d - 1)
          BY <2>1, <5>1 DEF Run
        <5>3. QED
          BY <2>2, <4>1, <5>2
      <4>4. QED
        BY <4>2, <4>3
    <3>2. CASE Back(t, d, c) # h
      BY <2>1, <3>2 DEF Run
    <3>3. QED
      BY <3>1, <3>2
  <2>4. QED
    BY <2>3 DEF Run
<1>2. QED
  BY <1>1 DEF Ordered

-----------------------------------------------------------------------------
(* The occupied buckets under each change.  *)
(* The occupied buckets under each change.  *)

LEMMA OccupiedFinite ==
  ASSUME NEW c \in Nat, NEW b
  PROVE  /\ IsFiniteSet(Occ(b, c))
         /\ Cardinality(Occ(b, c)) \in Nat
<1>1. IsFiniteSet(Slots(c))
  BY FS_Interval DEF Slots
<1>2. Occ(b, c) \subseteq Slots(c)
  BY DEF Occ
<1>3. QED
  BY <1>1, <1>2, FS_Subset, FS_CardinalityType

LEMMA NoneOccupied ==
  ASSUME NEW c \in Nat
  PROVE  /\ Blanks(c) \in [Slots(c) -> Cells]
         /\ Occ(Blanks(c), c) = {}
         /\ Cardinality(Occ(Blanks(c), c)) = 0
<1>1. Blanks(c) \in [Slots(c) -> Cells]
  BY DEF Blanks, Cells
<1>2. Occ(Blanks(c), c) = {}
  BY DEF Blanks, Occ, Empty
<1>3. QED
  BY <1>1, <1>2, FS_EmptySet

LEMMA FillOne ==
  ASSUME NEW c \in Nat, NEW b \in [Slots(c) -> Cells], NEW s \in Slots(c),
         NEW e \in Filled, b[s].psl = 0
  PROVE  Cardinality(Occ([b EXCEPT ![s] = e], c)) = Cardinality(Occ(b, c)) + 1
<1>1. e.psl # 0
  BY HashSetAssumption DEF Filled
<1>2. Occ([b EXCEPT ![s] = e], c) = Occ(b, c) \cup {s} /\ s \notin Occ(b, c)
  BY <1>1 DEF Occ
<1>3. QED
  BY <1>2, OccupiedFinite, FS_AddElement

LEMMA SwapOne ==
  ASSUME NEW c \in Nat, NEW b \in [Slots(c) -> Cells], NEW s \in Slots(c),
         NEW e \in Filled, b[s].psl # 0
  PROVE  Occ([b EXCEPT ![s] = e], c) = Occ(b, c)
<1>1. e.psl # 0
  BY HashSetAssumption DEF Filled
<1>2. QED
  BY <1>1 DEF Occ

LEMMA EmptyOne ==
  ASSUME NEW c \in Nat, NEW b \in [Slots(c) -> Cells], NEW s \in Slots(c),
         b[s].psl # 0
  PROVE  Cardinality(Occ([b EXCEPT ![s] = Empty], c)) = Cardinality(Occ(b, c)) - 1
<1>1. Occ([b EXCEPT ![s] = Empty], c) = Occ(b, c) \ {s} /\ s \in Occ(b, c)
  BY DEF Occ, Empty
<1>2. QED
  BY <1>1, OccupiedFinite, FS_RemoveElement

(* With fewer entries than buckets, a bucket is empty.  *)
LEMMA OneIsEmpty ==
  ASSUME NEW c \in Nat, NEW b, Cardinality(Occ(b, c)) < c
  PROVE  \E e \in Slots(c) : b[e].psl = 0
<1>1. SUFFICES ASSUME \A e \in Slots(c) : b[e].psl # 0 PROVE FALSE
  OBVIOUS
<1>2. Occ(b, c) = 0 .. c - 1
  BY <1>1 DEF Occ, Slots
<1>3. Cardinality(0 .. c - 1) = c
  BY FS_Interval
<1>4. QED
  BY <1>2, <1>3
-----------------------------------------------------------------------------
(* Where the entry of a key can be, seen from slot s at which a probe for  *)
(* it stands with the psl p.                                               *)

(* An entry no nearer its home than the probe is at s, or ahead of it with *)
(* nothing poorer than the probe at s.                                     *)
LEMMA KeyAhead ==
  ASSUME NEW c \in Nat \ {0}, NEW b \in [Slots(c) -> Cells], NEW s \in Slots(c),
         NEW k \in Keys, NEW p \in 1 .. c,
         Ordered(b, c, NoHole), p - 1 = Dist(HomeOf(k, c), s, c),
         NEW t \in Occ(b, c), b[t].key = k, b[t].psl >= p
  PROVE  t = s \/ (b[t].psl >= p + 1 /\ b[s].psl >= p)
<1> PICK h \in Slots(c) : h = HomeOf(k, c)
  BY HomeInRange
<1>1. t \in Slots(c) /\ b[t] \in Filled
  BY DEF Occ, Cells, Empty
<1>2. Aligned(b[t], t, c) /\ Run(b, c, NoHole, b[t].psl, t)
  BY DEF Ordered
<1>3. PICK q \in 1 .. c : q = b[t].psl
  BY <1>1, <1>2, PslBounded
<1>4. q - 1 = Dist(h, t, c) /\ p - 1 = Dist(h, s, c)
  BY <1>2, <1>3 DEF Aligned
<1>5. CASE q = p
  BY <1>1, <1>4, <1>5 DEF Dist, Slots
<1>6. CASE q # p
  <2>1. q >= p + 1
    BY <1>3, <1>6
  <2>2. q - p \in 1 .. q - 1 /\ Back(t, q - p, c) = s /\ s # NoHole
    BY <1>1, <1>4, <2>1 DEF Dist, Back, Slots, NoHole
  <2>3. b[s].psl >= q - (q - p)
    BY <1>2, <1>3, <2>2 DEF Run
  <2>4. QED
    BY <1>3, <2>1, <2>3
<1>7. QED
  BY <1>5, <1>6

(* A poorer bucket, or an empty one, tells that the key is not there.      *)
LEMMA NoneAhead ==
  ASSUME NEW c \in Nat \ {0}, NEW b \in [Slots(c) -> Cells], NEW s \in Slots(c),
         NEW k \in Keys, NEW p \in 1 .. c,
         Ordered(b, c, NoHole), p - 1 = Dist(HomeOf(k, c), s, c),
         Beyond(b, Occ(b, c), k, p), b[s].psl < p
  PROVE  Absent(k, b, Occ(b, c))
<1>1. SUFFICES ASSUME NEW t \in Occ(b, c), b[t].key = k PROVE FALSE
  BY DEF Absent
<1>2. b[t].psl >= p
  BY <1>1 DEF Beyond
<1>3. b[s].psl \in Int
  BY HashSetAssumption DEF Cells, Filled, Empty
<1>4. QED
  BY <1>1, <1>2, <1>3, KeyAhead

(* Another key in the bucket: the key, if present, is further on.          *)
LEMMA FurtherAhead ==
  ASSUME NEW c \in Nat \ {0}, NEW b \in [Slots(c) -> Cells], NEW s \in Slots(c),
         NEW k \in Keys, NEW p \in 1 .. c,
         Ordered(b, c, NoHole), p - 1 = Dist(HomeOf(k, c), s, c),
         Beyond(b, Occ(b, c), k, p), b[s].key # k
  PROVE  Beyond(b, Occ(b, c), k, p + 1)
<1>1. SUFFICES ASSUME NEW t \in Occ(b, c), b[t].key = k PROVE b[t].psl >= p + 1
  BY DEF Beyond
<1>2. b[t].psl >= p
  BY <1>1 DEF Beyond
<1>3. QED
  BY <1>1, <1>2, KeyAhead

-----------------------------------------------------------------------------
(* A set of numbers has a least, for the sets 0 .. x are finite and so     *)
(* well-ordered by inclusion.                                              *)
LEMMA Least ==
  ASSUME NEW T \in SUBSET Nat, T # {}
  PROVE  \E x \in T : \A y \in T : x <= y
<1> DEFINE R == StrictSubsetOrdering(Nat)
           F == {0 .. x : x \in T}
<1>1. IsWellFoundedOn(R, FiniteSubsetsOf(Nat))
  BY FS_StrictSubsetOrderingWellFounded
<1>2. F \subseteq FiniteSubsetsOf(Nat) /\ F # {}
  <2>1. ASSUME NEW x \in T PROVE 0 .. x \in FiniteSubsetsOf(Nat)
    <3>1. x \in Int /\ IsFiniteSet(0 .. x)
      BY FS_Interval
    <3>2. QED
      BY <3>1 DEF FiniteSubsetsOf
  <2>2. QED
    BY <2>1
<1> HIDE DEF R, F
<1>3. \E f \in F : \A g \in F : <<g, f>> \notin R
  BY <1>1, <1>2, WFMin
<1>4. PICK x \in T : \A y \in T : <<0 .. y, 0 .. x>> \notin R
  BY <1>3 DEF F
<1>5. ASSUME NEW y \in T PROVE ~(y < x)
  <2>1. SUFFICES ASSUME y < x PROVE <<0 .. y, 0 .. x>> \in R
    BY <1>4
  <2>2. 0 .. y \subseteq 0 .. x /\ x \in 0 .. x /\ x \notin 0 .. y
    BY <2>1
  <2>3. 0 .. y \in SUBSET Nat /\ 0 .. x \in SUBSET Nat
    OBVIOUS
  <2>4. QED
    BY <2>2, <2>3 DEF R, StrictSubsetOrdering
<1>6. QED
  BY <1>5

-----------------------------------------------------------------------------
(* The loops of While.  A step of S is taken as long as the state is in    *)
(* go; then the state stays.                                                *)
OnceOf(go, nxt, y) == IF y \in go THEN nxt[y] ELSE y
Closed(S, go, nxt) == \A y \in go : nxt[y] \in S

(* The run of a loop from x on, and one as far as its n-th turn.           *)
RunTo(f, n, x, go, nxt) == f[0] = x /\ \A k \in 0 .. n - 1 : f[k + 1] = OnceOf(go, nxt, f[k])
Runs(f, x, go, nxt)     == f[0] = x /\ \A k \in Nat : f[k + 1] = OnceOf(go, nxt, f[k])
RunsIn(f, S, x, go, nxt) ==
  f[0] = x /\ \A k \in Nat : f[k] \in S => f[k + 1] = OnceOf(go, nxt, f[k])

LEMMA RunAgree ==
  ASSUME NEW f, NEW g, NEW n \in Nat, NEW x, NEW go, NEW nxt,
         RunTo(f, n, x, go, nxt), RunTo(g, n, x, go, nxt)
  PROVE  \A k \in 0 .. n : f[k] = g[k]
<1> DEFINE T == {k \in 0 .. n : f[k] # g[k]}
<1>1. SUFFICES ASSUME T # {} PROVE FALSE
  OBVIOUS
<1>2. PICK k \in T : \A j \in T : k <= j
  <2>1. T \in SUBSET Nat
    OBVIOUS
  <2> HIDE DEF T
  <2>2. QED
    BY <1>1, <2>1, Least
<1>3. k \in 0 .. n /\ f[k] # g[k]
  OBVIOUS
<1>4. k # 0
  BY <1>3 DEF RunTo
<1>5. k - 1 \in 0 .. n - 1 /\ (k - 1) + 1 = k /\ k - 1 \notin T
  BY <1>2, <1>3, <1>4
<1>6. f[k - 1] = g[k - 1]
  BY <1>5
<1>7. f[(k - 1) + 1] = g[(k - 1) + 1]
  BY <1>5, <1>6 DEF RunTo
<1>8. QED
  BY <1>3, <1>5, <1>7

LEMMA RunExists ==
  ASSUME NEW x, NEW go, NEW nxt
  PROVE  \E f : Runs(f, x, go, nxt) /\ f = [n \in Nat |-> f[n]]
<1>1. \A n \in Nat : \E f : RunTo(f, n, x, go, nxt)
  <2> DEFINE T == {n \in Nat : ~\E f : RunTo(f, n, x, go, nxt)}
  <2>1. SUFFICES ASSUME T # {} PROVE FALSE
    OBVIOUS
  <2>2. PICK n \in T : \A k \in T : n <= k
    <3>1. T \in SUBSET Nat
      OBVIOUS
    <3> HIDE DEF T
    <3>2. QED
      BY <2>1, <3>1, Least
  <2>3. n \in Nat /\ \A f : ~RunTo(f, n, x, go, nxt)
    OBVIOUS
  <2>4. n # 0
    <3>1. RunTo([k \in Nat |-> x], 0, x, go, nxt)
      BY DEF RunTo
    <3>2. QED
      BY <2>3, <3>1
  <2>5. n - 1 \in Nat /\ n - 1 \notin T
    BY <2>2, <2>3, <2>4
  <2>6. PICK f : RunTo(f, n - 1, x, go, nxt)
    BY <2>5
  <2> DEFINE g == [k \in Nat |-> IF k < n THEN f[k] ELSE OnceOf(go, nxt, f[n - 1])]
  <2>7. RunTo(g, n, x, go, nxt)
    <3>1. g[0] = x
      BY <2>3, <2>4, <2>6 DEF RunTo
    <3>2. ASSUME NEW k \in 0 .. n - 1 PROVE g[k + 1] = OnceOf(go, nxt, g[k])
      <4>1. k \in Nat /\ k + 1 \in Nat /\ g[k] = f[k]
        BY <2>3
      <4>2. CASE k = n - 1
        BY <2>3, <4>1, <4>2
      <4>3. CASE k # n - 1
        <5>1. k \in 0 .. (n - 1) - 1 /\ k + 1 < n
          BY <2>3, <4>3
        <5>2. f[k + 1] = OnceOf(go, nxt, f[k])
          BY <2>6, <5>1 DEF RunTo
        <5>3. QED
          BY <4>1, <5>1, <5>2
      <4>4. QED
        BY <4>2, <4>3
    <3>3. QED
      BY <3>1, <3>2 DEF RunTo
  <2>8. QED
    BY <2>3, <2>7
<1> DEFINE F(n) == CHOOSE f : RunTo(f, n, x, go, nxt)
           h == [n \in Nat |-> F(n)[n]]
<1>2. \A n \in Nat : RunTo(F(n), n, x, go, nxt)
  BY <1>1
<1> HIDE DEF F
<1>3. h[0] = x
  <2>1. RunTo(F(0), 0, x, go, nxt)
    BY <1>2
  <2>2. QED
    BY <2>1 DEF RunTo
<1>4. ASSUME NEW k \in Nat PROVE h[k + 1] = OnceOf(go, nxt, h[k])
  <2>1. k + 1 \in Nat /\ RunTo(F(k), k, x, go, nxt) /\ RunTo(F(k + 1), k + 1, x, go, nxt)
    BY <1>2
  <2>2. RunTo(F(k + 1), k, x, go, nxt)
    BY <2>1 DEF RunTo
  <2>3. F(k)[k] = F(k + 1)[k]
    BY <2>1, <2>2, RunAgree
  <2>4. F(k + 1)[k + 1] = OnceOf(go, nxt, F(k + 1)[k])
    BY <2>1 DEF RunTo
  <2>5. QED
    BY <2>1, <2>3, <2>4
<1>5. Runs(h, x, go, nxt) /\ h = [n \in Nat |-> h[n]]
  BY <1>3, <1>4 DEF Runs
<1>6. QED
  BY <1>5

(* What the loop keeps holds at every turn, and with a count that goes     *)
(* down the loop ends within that count.                                   *)
LEMMA RunKeeps ==
  ASSUME NEW S, NEW x \in S, NEW go, NEW nxt, Closed(S, S \cap go, nxt),
         NEW f, RunsIn(f, S, x, go, nxt)
  PROVE  \A n \in Nat : f[n] \in S
<1> DEFINE T == {n \in Nat : f[n] \notin S}
<1>1. SUFFICES ASSUME T # {} PROVE FALSE
  OBVIOUS
<1>2. PICK n \in T : \A k \in T : n <= k
  <2>1. T \in SUBSET Nat
    OBVIOUS
  <2> HIDE DEF T
  <2>2. QED
    BY <1>1, <2>1, Least
<1>3. n # 0
  BY DEF RunsIn
<1>4. n - 1 \in Nat /\ n - 1 \notin T /\ (n - 1) + 1 = n
  BY <1>2, <1>3
<1>5. f[n - 1] \in S
  BY <1>4
<1>6. f[(n - 1) + 1] = OnceOf(go, nxt, f[n - 1])
  BY <1>4, <1>5 DEF RunsIn
<1>7. f[n] \in S
  BY <1>4, <1>5, <1>6 DEF OnceOf, Closed
<1>8. QED
  BY <1>7

LEMMA RunIn ==
  ASSUME NEW S, NEW x \in S, NEW go, NEW nxt, Closed(S, S \cap go, nxt)
  PROVE  \E f \in [Nat -> S] : Runs(f, x, go, nxt)
<1>1. PICK f : Runs(f, x, go, nxt) /\ f = [n \in Nat |-> f[n]]
  BY RunExists
<1>2. RunsIn(f, S, x, go, nxt)
  BY <1>1 DEF Runs, RunsIn
<1>3. \A n \in Nat : f[n] \in S
  BY <1>2, RunKeeps
<1>4. QED
  BY <1>1, <1>3

LEMMA RunEnds ==
  ASSUME NEW S, NEW x \in S, NEW go, NEW nxt, Closed(S, S \cap go, nxt),
         NEW m \in [S -> Nat], \A y \in S \cap go : m[nxt[y]] < m[y],
         NEW most \in Nat, m[x] <= most,
         NEW f, RunsIn(f, S, x, go, nxt)
  PROVE  \E n \in 0 .. most : f[n] \notin go
<1>1. \A n \in Nat : f[n] \in S
  BY RunKeeps
<1>2. SUFFICES ASSUME \A n \in 0 .. most : f[n] \in go PROVE FALSE
  OBVIOUS
<1>3. \A n \in 0 .. most + 1 : m[f[n]] + n <= m[x]
  <2> DEFINE B == {n \in 0 .. most + 1 : ~(m[f[n]] + n <= m[x])}
  <2>1. SUFFICES ASSUME B # {} PROVE FALSE
    OBVIOUS
  <2>2. PICK n \in B : \A k \in B : n <= k
    <3>1. B \in SUBSET Nat
      OBVIOUS
    <3> HIDE DEF B
    <3>2. QED
      BY <2>1, <3>1, Least
  <2>3. n \in 0 .. most + 1 /\ ~(m[f[n]] + n <= m[x])
    OBVIOUS
  <2>4. m[x] \in Nat
    OBVIOUS
  <2>5. n # 0
    BY <2>3, <2>4 DEF RunsIn
  <2>6. n - 1 \in 0 .. most /\ n - 1 \notin B /\ (n - 1) + 1 = n
    BY <2>2, <2>3, <2>5
  <2>7. f[n - 1] \in S \cap go /\ f[(n - 1) + 1] = nxt[f[n - 1]]
    BY <1>1, <1>2, <2>6 DEF RunsIn, OnceOf
  <2>8. m[f[n]] < m[f[n - 1]] /\ m[f[n]] \in Nat /\ m[f[n - 1]] \in Nat
    BY <1>1, <2>3, <2>6, <2>7
  <2>9. m[f[n - 1]] + (n - 1) <= m[x]
    BY <2>6
  <2>10. QED
    BY <2>3, <2>4, <2>8, <2>9
<1>4. m[f[most + 1]] + (most + 1) <= m[x] /\ m[f[most + 1]] \in Nat /\ m[x] \in Nat
  BY <1>1, <1>3
<1>5. QED
  BY <1>4

-----------------------------------------------------------------------------
(* set_insert_raw.  The key to insert is carried on, or has been put down  *)
(* in place of another that is now carried, and was in no bucket.          *)

KeysAt(b, c) == {b[s].key : s \in Occ(b, c)}

InHand(y, c) ==
  /\ Ordered(y.b, c, NoHole) /\ DistinctIn(y.b, Occ(y.b, c))
  /\ Aligned(y.in, y.at, c) /\ Run(y.b, c, NoHole, y.in.psl, y.at)
FreshIn(y, b, m, c, k) ==
  y.b = b /\ y.max = m /\ y.in.key = k /\ Beyond(b, Occ(b, c), k, y.in.psl)
Displaced(y, b, c, k) ==
  /\ Absent(y.in.key, y.b, Occ(y.b, c)) /\ Absent(k, b, Occ(b, c))
  /\ Occ(y.b, c) = Occ(b, c)
  /\ KeysAt(y.b, c) \cup {y.in.key} = KeysAt(b, c) \cup {k}
Hands(c) == [b : [Slots(c) -> Cells], max : 0 .. c, in : Filled, at : Slots(c)]
Carrying(b, m, c, k, z) ==
  {y \in Hands(c) : /\ y.b[z].psl = 0 /\ InHand(y, c)
                    /\ FreshIn(y, b, m, c, k) \/ Displaced(y, b, c, k)}

LEMMA MaxPslIs ==
  ASSUME NEW c \in Nat, NEW m \in 0 .. c, NEW p \in 0 .. c
  PROVE  MaxPsl(m, p) \in 0 .. c
BY DEF MaxPsl

LEMMA CellIs ==
  ASSUME NEW c \in Nat, NEW b \in [Slots(c) -> Cells], NEW s \in Slots(c)
  PROVE  /\ b[s] \in Cells /\ b[s].psl \in Nat
         /\ b[s].psl # 0 <=> b[s] \in Filled
         /\ b[s].psl # 0 <=> s \in Occ(b, c)
         /\ b[s].psl = 0 <=> b[s] = Empty
BY DEF Cells, Filled, Empty, Occ

LEMMA OccIs ==
  ASSUME NEW c \in Nat, NEW b \in [Slots(c) -> Cells], NEW s \in Occ(b, c)
  PROVE  s \in Slots(c) /\ b[s] \in Filled /\ b[s].key \in Keys /\ b[s].psl \in Nat \ {0}
BY DEF Cells, Filled, Empty, Occ

(* The key in hand is in no bucket, when it is about to be put down.       *)
LEMMA HandAbsent ==
  ASSUME NEW c \in Nat \ {0}, NEW b, NEW m, NEW k \in Keys, NEW z,
         NEW y \in Carrying(b, m, c, k, z), y.b[y.at].psl < y.in.psl
  PROVE  Absent(y.in.key, y.b, Occ(y.b, c)) /\ Absent(k, b, Occ(b, c))
<1>1. CASE Displaced(y, b, c, k)
  BY <1>1 DEF Displaced
<1>2. CASE FreshIn(y, b, m, c, k)
  <2>1. /\ y.b \in [Slots(c) -> Cells] /\ y.at \in Slots(c) /\ y.in \in Filled
        /\ y.b = b /\ y.in.key = k /\ Beyond(b, Occ(b, c), k, y.in.psl)
        /\ Ordered(y.b, c, NoHole) /\ Aligned(y.in, y.at, c)
    BY <1>2 DEF Carrying, Hands, InHand, FreshIn
  <2>2. y.in.psl \in 1 .. c
    BY <2>1, PslBounded
  <2>3. y.in.psl - 1 = Dist(HomeOf(k, c), y.at, c)
    BY <2>1 DEF Aligned
  <2>4. Absent(k, y.b, Occ(y.b, c))
    BY <2>1, <2>2, <2>3, NoneAhead
  <2>5. QED
    BY <2>1, <2>4
<1>3. QED
  BY <1>1, <1>2 DEF Carrying

(* Put down where it belongs, the entry in hand leaves the table in order, *)
(* with one key more if the bucket was empty.                              *)
LEMMA PutIs ==
  ASSUME NEW c \in Nat \ {0}, NEW b, NEW m, NEW k \in Keys, NEW z,
         NEW y \in Carrying(b, m, c, k, z), y.b[y.at].psl < y.in.psl
  PROVE  /\ Put(y) \in [Slots(c) -> Cells] /\ PutMax(y) \in 0 .. c
         /\ Ordered(Put(y), c, NoHole) /\ DistinctIn(Put(y), Occ(Put(y), c))
         /\ Occ(Put(y), c) = Occ(y.b, c) \cup {y.at}
         /\ y.b[y.at].psl = 0 => KeysAt(Put(y), c) = KeysAt(y.b, c) \cup {y.in.key}
         /\ y.b[y.at].psl # 0 => KeysAt(Put(y), c) \cup {y.b[y.at].key}
                                 = KeysAt(y.b, c) \cup {y.in.key}
<1> PICK a, s, e : a = y.b /\ s = y.at /\ e = y.in
  OBVIOUS
<1> DEFINE a2 == [a EXCEPT ![s] = e]
<1>1. /\ a \in [Slots(c) -> Cells] /\ s \in Slots(c) /\ e \in Filled /\ y.max \in 0 .. c
      /\ Ordered(a, c, NoHole) /\ Aligned(e, s, c) /\ Run(a, c, NoHole, e.psl, s)
      /\ DistinctIn(a, Occ(a, c)) /\ a[s].psl < e.psl
  BY DEF Carrying, Hands, InHand
<1>2. e.psl \in 1 .. c /\ a2 = Put(y)
  BY <1>1, PslBounded DEF Put
<1>3. PutMax(y) \in 0 .. c
  <2>1. c \in Nat /\ y.max \in 0 .. c /\ y.in.psl \in 0 .. c
    BY <1>1, <1>2
  <2>2. QED
    BY ONLY <2>1, MaxPslIs DEF PutMax
<1>4. Ordered(a2, c, NoHole)
  BY <1>1, PlaceKeepsOrder
<1>5. a2 \in [Slots(c) -> Cells] /\ a2[s] = e /\ \A t \in Slots(c) \ {s} : a2[t] = a[t]
  BY <1>1 DEF Cells
<1>6. Occ(a2, c) = Occ(a, c) \cup {s}
  BY <1>1, <1>2, <1>5 DEF Occ
<1>7. Absent(e.key, a, Occ(a, c))
  BY HandAbsent
<1>8. DistinctIn(a2, Occ(a2, c))
  <2>1. ASSUME NEW t \in Occ(a2, c), NEW u \in Occ(a2, c), a2[t].key = a2[u].key PROVE t = u
    <3>1. t \in Slots(c) /\ u \in Slots(c)
      BY DEF Occ
    <3>2. CASE t # s /\ u # s
      BY <1>1, <1>5, <1>6, <2>1, <3>1, <3>2 DEF DistinctIn
    <3>3. CASE t = s /\ u # s
      BY <1>5, <1>6, <1>7, <2>1, <3>1, <3>3 DEF Absent
    <3>4. CASE t # s /\ u = s
      BY <1>5, <1>6, <1>7, <2>1, <3>1, <3>4 DEF Absent
    <3>5. QED
      BY <3>2, <3>3, <3>4
  <2>2. QED
    BY <2>1 DEF DistinctIn
<1>9. a[s].psl = 0 => KeysAt(a2, c) = KeysAt(a, c) \cup {e.key}
  <2>1. SUFFICES ASSUME a[s].psl = 0 PROVE KeysAt(a2, c) = KeysAt(a, c) \cup {e.key}
    OBVIOUS
  <2>2. s \notin Occ(a, c) /\ \A t \in Occ(a, c) : t \in Slots(c) \ {s}
    BY <2>1 DEF Occ
  <2>3. QED
    BY <1>5, <1>6, <2>2 DEF KeysAt
<1>10. a[s].psl # 0 => KeysAt(a2, c) \cup {a[s].key} = KeysAt(a, c) \cup {e.key}
  <2>1. SUFFICES ASSUME a[s].psl # 0
                 PROVE  KeysAt(a2, c) \cup {a[s].key} = KeysAt(a, c) \cup {e.key}
    OBVIOUS
  <2>2. s \in Occ(a, c) /\ \A t \in Occ(a, c) : t \in Slots(c)
    BY <1>1, <2>1 DEF Occ
  <2>3. QED
    BY <1>5, <1>6, <2>2 DEF KeysAt
<1>11. QED
  BY <1>2, <1>3, <1>4, <1>5, <1>6, <1>8, <1>9, <1>10

LEMMA SuccIs ==
  ASSUME NEW c \in Nat \ {0}, NEW s \in Slots(c)
  PROVE  Succ(s, c) \in Slots(c) /\ Succ(s, c) = IF s + 1 = c THEN 0 ELSE s + 1
  BY ModWrap DEF Succ, Slots

(* A run behind s is not disturbed by what is put down at s.               *)
LEMMA RunBehind ==
  ASSUME NEW c \in Nat \ {0}, NEW b \in [Slots(c) -> Cells], NEW s \in Slots(c),
         NEW p \in 1 .. c, Run(b, c, NoHole, p, s), NEW e
  PROVE  Run([b EXCEPT ![s] = e], c, NoHole, p, s)
<1>1. ASSUME NEW d \in 1 .. p - 1
      PROVE  [b EXCEPT ![s] = e][Back(s, d, c)].psl >= p - d
  <2>1. Back(s, d, c) \in Slots(c) /\ Back(s, d, c) # s /\ Back(s, d, c) # NoHole
    BY DEF Back, Slots, NoHole
  <2>2. b[Back(s, d, c)].psl >= p - d
    BY <2>1 DEF Run
  <2>3. QED
    BY <2>1, <2>2
<1>2. QED
  BY <1>1 DEF Run

(* The entry of a bucket can be carried on from it.                        *)
LEMMA CanCarry ==
  ASSUME NEW c \in Nat \ {0}, NEW b \in [Slots(c) -> Cells], NEW s \in Slots(c),
         NEW e \in Filled, Aligned(e, s, c), Run(b, c, NoHole, e.psl, s),
         b[s].psl >= e.psl, NEW z \in Slots(c), b[z].psl = 0
  PROVE  /\ Further(e) \in Filled /\ Further(e).key = e.key
         /\ Aligned(Further(e), Succ(s, c), c)
         /\ Run(b, c, NoHole, Further(e).psl, Succ(s, c))
<1>1. e.psl \in 1 .. c
  BY PslBounded
<1>2. b[s].psl # 0
  BY <1>1, CellIs
<1>3. e.psl < c
  BY <1>1, <1>2, CarriedNotRound
<1>4. /\ Further(e) \in Filled /\ Further(e).key = e.key /\ Further(e).psl = e.psl + 1
      /\ e.psl \in Nat \ {0}
  BY DEF Further, Entry, Filled
<1>5. Aligned(Further(e), Succ(s, c), c)
  BY <1>3, <1>4, SuccIs, CarryKeepsAligned
<1>6. Run(b, c, NoHole, e.psl + 1, Succ(s, c))
  BY <1>1, <1>3, SuccIs, CarryKeepsRun
<1>7. QED
  BY <1>4, <1>5, <1>6

(* One turn keeps the count of buckets to the empty one z going down.      *)
LEMMA Approach ==
  ASSUME NEW c \in Nat \ {0}, NEW s \in Slots(c), NEW z \in Slots(c), s # z
  PROVE  Dist(Succ(s, c), z, c) < Dist(s, z, c)
<1>1. PICK n \in Slots(c) : n = Succ(s, c) /\ n = IF s + 1 = c THEN 0 ELSE s + 1
  BY SuccIs
<1>2. Dist(n, z, c) < Dist(s, z, c)
  BY <1>1 DEF Dist, Slots
<1>3. QED
  BY <1>1, <1>2

LEMMA CarryOn ==
  ASSUME NEW c \in Nat \ {0}, NEW b, NEW m, NEW k \in Keys, NEW z \in Slots(c),
         NEW y \in Carrying(b, m, c, k, z), Carries(y)
  PROVE  /\ Carried(y, c) \in Carrying(b, m, c, k, z)
         /\ y.at \in Slots(c) /\ y.at # z /\ Carried(y, c).at = Succ(y.at, c)
<1> PICK a, s, e : a = y.b /\ s = y.at /\ e = y.in
  OBVIOUS
<1>1. /\ a \in [Slots(c) -> Cells] /\ s \in Slots(c) /\ e \in Filled /\ y.max \in 0 .. c
      /\ Ordered(a, c, NoHole) /\ Aligned(e, s, c) /\ Run(a, c, NoHole, e.psl, s)
      /\ DistinctIn(a, Occ(a, c)) /\ a[z].psl = 0
  BY DEF Carrying, Hands, InHand
<1>2. a[s].psl # 0 /\ a[s].key # e.key
  BY DEF Carries, Here
<1>3. a[s] \in Filled /\ s \in Occ(a, c) /\ s # z
  BY <1>1, <1>2, CellIs
<1>4. Succ(s, c) \in Slots(c)
  BY <1>1, SuccIs
<1>5. a[s].psl \in Nat /\ e.psl \in Nat
  BY <1>1, <1>3 DEF Filled
<1>6. CASE e.psl > a[s].psl
  <2>1. Carried(y, c) = Carry(Put(y), PutMax(y), Further(a[s]), Succ(s, c))
    BY <1>6 DEF Carried, Poorer, Here
  <2>2. y.b[y.at].psl < y.in.psl /\ y.b[y.at].psl # 0
    BY <1>2, <1>5, <1>6
  <2>3. /\ Put(y) \in [Slots(c) -> Cells] /\ PutMax(y) \in 0 .. c
        /\ Ordered(Put(y), c, NoHole) /\ DistinctIn(Put(y), Occ(Put(y), c))
        /\ Occ(Put(y), c) = Occ(a, c) \cup {s}
        /\ KeysAt(Put(y), c) \cup {a[s].key} = KeysAt(a, c) \cup {e.key}
    <3>1. /\ Put(y) \in [Slots(c) -> Cells] /\ PutMax(y) \in 0 .. c
          /\ Ordered(Put(y), c, NoHole) /\ DistinctIn(Put(y), Occ(Put(y), c))
          /\ Occ(Put(y), c) = Occ(y.b, c) \cup {y.at}
          /\ KeysAt(Put(y), c) \cup {y.b[y.at].key} = KeysAt(y.b, c) \cup {y.in.key}
      <4>1. /\ c \in Nat \ {0} /\ k \in Keys /\ y \in Carrying(b, m, c, k, z)
            /\ y.b[y.at].psl < y.in.psl /\ y.b[y.at].psl # 0
        BY <2>2
      <4>2. /\ Put(y) \in [Slots(c) -> Cells] /\ PutMax(y) \in 0 .. c
            /\ Ordered(Put(y), c, NoHole) /\ DistinctIn(Put(y), Occ(Put(y), c))
        BY ONLY <4>1, PutIs
      <4>3. Occ(Put(y), c) = Occ(y.b, c) \cup {y.at}
        BY ONLY <4>1, PutIs
      <4>4. KeysAt(Put(y), c) \cup {y.b[y.at].key} = KeysAt(y.b, c) \cup {y.in.key}
        BY ONLY <4>1, PutIs
      <4>5. QED
        BY <4>2, <4>3, <4>4
    <3>2. QED
      BY ONLY <3>1, a = y.b /\ s = y.at /\ e = y.in
  <2>4. /\ Put(y) = [a EXCEPT ![s] = e] /\ Put(y)[s] = e
        /\ \A t \in Slots(c) \ {s} : Put(y)[t] = a[t]
    BY <1>1 DEF Put
  <2>5. Aligned(a[s], s, c) /\ Run(a, c, NoHole, a[s].psl, s)
    BY <1>1, <1>3 DEF Ordered
  <2>6. Run(Put(y), c, NoHole, a[s].psl, s)
    <3>1. a[s].psl \in 1 .. c
      BY <1>1, <1>3, <2>5, PslBounded
    <3>2. Run([a EXCEPT ![s] = e], c, NoHole, a[s].psl, s)
      BY <1>1, <2>5, <3>1, RunBehind
    <3>3. QED
      BY <2>4, <3>2
  <2>7. Put(y)[s].psl >= a[s].psl /\ Put(y)[z].psl = 0
    BY <1>1, <1>3, <1>5, <1>6, <2>4
  <2>8. /\ Further(a[s]) \in Filled /\ Further(a[s]).key = a[s].key
        /\ Aligned(Further(a[s]), Succ(s, c), c)
        /\ Run(Put(y), c, NoHole, Further(a[s]).psl, Succ(s, c))
    BY <1>1, <1>3, <2>3, <2>5, <2>6, <2>7, CanCarry
  <2>9. Absent(a[s].key, Put(y), Occ(Put(y), c))
    <3>1. SUFFICES ASSUME NEW t \in Occ(Put(y), c), Put(y)[t].key = a[s].key PROVE FALSE
      BY DEF Absent
    <3>2. CASE t = s
      BY <1>2, <2>4, <3>1, <3>2
    <3>3. CASE t # s
      <4>1. t \in Occ(a, c) /\ t \in Slots(c)
        BY <2>3, <3>3 DEF Occ
      <4>2. a[t].key = a[s].key
        BY <2>4, <3>1, <3>3, <4>1
      <4>3. QED
        BY <1>1, <1>3, <3>3, <4>1, <4>2 DEF DistinctIn
    <3>4. QED
      BY <3>2, <3>3
  <2>10. Absent(k, b, Occ(b, c))
    BY <2>2, HandAbsent
  <2>11. Occ(Put(y), c) = Occ(b, c) /\ KeysAt(Put(y), c) \cup {a[s].key} = KeysAt(b, c) \cup {k}
    <3>1. CASE FreshIn(y, b, m, c, k)
      BY <1>3, <2>3, <3>1 DEF FreshIn
    <3>2. CASE Displaced(y, b, c, k)
      BY <1>3, <2>3, <3>2 DEF Displaced
    <3>3. QED
      BY <3>1, <3>2 DEF Carrying
  <2>12. PICK w : w = Carried(y, c)
    OBVIOUS
  <2>13. /\ w.b = Put(y) /\ w.max = PutMax(y) /\ w.in = Further(a[s]) /\ w.at = Succ(s, c)
         /\ w \in Hands(c)
    BY <1>4, <2>1, <2>3, <2>8, <2>12 DEF Carry, Hands
  <2>14. InHand(w, c) /\ Displaced(w, b, c, k)
    BY <2>3, <2>8, <2>9, <2>10, <2>11, <2>13 DEF InHand, Displaced
  <2>15. QED
    BY <1>1, <1>3, <2>7, <2>12, <2>13, <2>14 DEF Carrying
<1>7. CASE ~(e.psl > a[s].psl)
  <2>1. Carried(y, c) = Carry(a, y.max, Further(e), Succ(s, c))
    BY <1>7 DEF Carried, Poorer, Here
  <2>2. a[s].psl >= e.psl
    BY <1>5, <1>7
  <2>3. /\ Further(e) \in Filled /\ Further(e).key = e.key
        /\ Aligned(Further(e), Succ(s, c), c)
        /\ Run(a, c, NoHole, Further(e).psl, Succ(s, c))
    BY <1>1, <2>2, CanCarry
  <2>4. PICK w : w = Carried(y, c)
    OBVIOUS
  <2>5. /\ w.b = a /\ w.max = y.max /\ w.in = Further(e) /\ w.at = Succ(s, c)
        /\ w \in Hands(c)
    BY <1>1, <1>4, <2>1, <2>3, <2>4 DEF Carry, Hands
  <2>6. InHand(w, c)
    BY <1>1, <2>3, <2>5 DEF InHand
  <2>7. CASE FreshIn(y, b, m, c, k)
    <3>1. b = a /\ y.max = m /\ e.key = k /\ Beyond(a, Occ(a, c), k, e.psl)
      BY <2>7 DEF FreshIn
    <3>2. e.psl \in 1 .. c /\ e.psl - 1 = Dist(HomeOf(k, c), s, c)
      BY <1>1, <3>1, PslBounded DEF Aligned
    <3>3. Beyond(a, Occ(a, c), k, e.psl + 1)
      BY <1>1, <1>2, <3>1, <3>2, FurtherAhead
    <3>4. FreshIn(w, b, m, c, k)
      BY <2>3, <2>5, <3>1, <3>3 DEF FreshIn, Further, Entry
    <3>5. QED
      BY <1>1, <1>3, <2>4, <2>5, <2>6, <3>4 DEF Carrying
  <2>8. CASE Displaced(y, b, c, k)
    <3>1. Displaced(w, b, c, k)
      BY <2>3, <2>5, <2>8 DEF Displaced
    <3>2. QED
      BY <1>1, <1>3, <2>4, <2>5, <2>6, <3>1 DEF Carrying
  <2>9. QED
    BY <2>7, <2>8 DEF Carrying
<1>8. QED
  BY <1>6, <1>7

(* When the carrying ends, the key was found at its place and nothing was  *)
(* changed, or it is stored with the bucket in hand put down.              *)
LEMMA CarryFinds ==
  ASSUME NEW c \in Nat \ {0}, NEW b \in [Slots(c) -> Cells], NEW m, NEW k \in Keys,
         NEW z \in Slots(c), NEW y \in Carrying(b, m, c, k, z), ~Carries(y),
         Here(y).psl # 0
  PROVE  k \in KeysAt(b, c) /\ y.b = b /\ y.max = m
<1>1. /\ y.b \in [Slots(c) -> Cells] /\ y.at \in Slots(c) /\ y.in \in Filled
      /\ FreshIn(y, b, m, c, k) \/ Displaced(y, b, c, k)
  BY DEF Carrying, Hands
<1>2. y.b[y.at].key = y.in.key /\ y.at \in Occ(y.b, c)
  BY <1>1 DEF Carries, Here, Occ
<1>3. ~Displaced(y, b, c, k)
  BY <1>2 DEF Displaced, Absent
<1>4. QED
  BY <1>1, <1>2, <1>3 DEF FreshIn, KeysAt

LEMMA CarryPlaces ==
  ASSUME NEW c \in Nat \ {0}, NEW b \in [Slots(c) -> Cells], NEW m, NEW k \in Keys,
         NEW z \in Slots(c), NEW y \in Carrying(b, m, c, k, z), Here(y).psl = 0
  PROVE  /\ k \notin KeysAt(b, c)
         /\ Put(y) \in [Slots(c) -> Cells] /\ PutMax(y) \in 0 .. c
         /\ Ordered(Put(y), c, NoHole) /\ DistinctIn(Put(y), Occ(Put(y), c))
         /\ KeysAt(Put(y), c) = KeysAt(b, c) \cup {k}
         /\ Cardinality(Occ(Put(y), c)) = Cardinality(Occ(b, c)) + 1
<1>1. /\ y.b \in [Slots(c) -> Cells] /\ y.at \in Slots(c) /\ y.in \in Filled
      /\ FreshIn(y, b, m, c, k) \/ Displaced(y, b, c, k)
  BY DEF Carrying, Hands
<1>2. Here(y) = y.b[y.at] /\ y.in.psl \in Nat \ {0}
  BY <1>1 DEF Here, Filled
<1>3. /\ c \in Nat \ {0} /\ k \in Keys /\ y \in Carrying(b, m, c, k, z)
      /\ y.b[y.at].psl < y.in.psl /\ y.b[y.at].psl = 0
  BY <1>2
<1>4. /\ Put(y) \in [Slots(c) -> Cells] /\ PutMax(y) \in 0 .. c
      /\ Ordered(Put(y), c, NoHole) /\ DistinctIn(Put(y), Occ(Put(y), c))
  BY ONLY <1>3, PutIs
<1>5. KeysAt(Put(y), c) = KeysAt(y.b, c) \cup {y.in.key}
  BY ONLY <1>3, PutIs
<1>6. k \notin KeysAt(b, c)
  <2>1. Absent(k, b, Occ(b, c))
    BY ONLY <1>3, HandAbsent
  <2>2. QED
    BY <2>1 DEF Absent, KeysAt
<1>7. KeysAt(y.b, c) \cup {y.in.key} = KeysAt(b, c) \cup {k} /\ Occ(y.b, c) = Occ(b, c)
  BY <1>1 DEF FreshIn, Displaced
<1>8. Cardinality(Occ(Put(y), c)) = Cardinality(Occ(y.b, c)) + 1
  BY <1>1, <1>3, FillOne DEF Put
<1>9. QED
  BY <1>4, <1>5, <1>6, <1>7, <1>8

(* The loop of set_insert_raw, from the home of the key on.                *)
Start(b, m, k, c) == Carry(b, m, Entry(k, 1), HomeOf(k, c))
InsertTurns(x, c) ==
  CHOOSE g : g = [n \in Nat |-> IF n = 0 THEN x
                                ELSE IF Carries(g[n - 1]) THEN Carried(g[n - 1], c) ELSE g[n - 1]]
InsertStop(x, c) == InsertTurns(x, c)[CHOOSE n \in 0 .. c : ~Carries(InsertTurns(x, c)[n])]

LEMMA InsertRawIs ==
  ASSUME NEW b, NEW c, NEW n, NEW m, NEW k, NEW y, y = InsertStop(Start(b, m, k, c), c)
  PROVE  /\ Here(y).psl # 0 => InsertRaw(Table(b, c, n, m), k)
                               = [dup |-> TRUE, table |-> Table(y.b, c, n, y.max)]
         /\ Here(y).psl = 0 => InsertRaw(Table(b, c, n, m), k)
                               = [dup |-> FALSE, table |-> Table(Put(y), c, n, PutMax(y))]
<1>1. /\ Table(b, c, n, m).buckets = b /\ Table(b, c, n, m).cap = c
      /\ Table(b, c, n, m).len = n /\ Table(b, c, n, m).max_psl = m
  BY DEF Table
<1>2. InsertRaw(Table(b, c, n, m), k)
      = [dup   |-> Here(y).psl # 0,
         table |-> IF Here(y).psl # 0 THEN Table(y.b, c, n, y.max)
                   ELSE Table(Put(y), c, n, PutMax(y))]
  BY <1>1 DEF InsertRaw, While, InsertStop, InsertTurns, Start
<1>3. QED
  BY <1>2

LEMMA StartIs ==
  ASSUME NEW c \in Nat \ {0}, NEW b \in [Slots(c) -> Cells], NEW m \in 0 .. c, NEW k \in Keys,
         NEW z \in Slots(c), b[z].psl = 0, Ordered(b, c, NoHole), DistinctIn(b, Occ(b, c))
  PROVE  Start(b, m, k, c) \in Carrying(b, m, c, k, z)
<1>1. PICK y : y = Start(b, m, k, c)
  OBVIOUS
<1>2. HomeOf(k, c) \in Slots(c)
  BY HomeInRange
<1>3. y.b = b /\ y.max = m /\ y.in = Entry(k, 1) /\ y.at = HomeOf(k, c)
  BY <1>1 DEF Start, Carry
<1>4. y.in \in Filled /\ y.in.psl = 1 /\ y.in.key = k
  BY <1>3 DEF Entry, Filled
<1>5. y \in Hands(c)
  BY <1>1, <1>2, <1>3, <1>4 DEF Start, Carry, Hands
<1>6. Aligned(y.in, y.at, c) /\ Run(b, c, NoHole, y.in.psl, y.at)
  BY <1>2, <1>3, <1>4 DEF Aligned, Run, Dist, Slots
<1>7. Beyond(b, Occ(b, c), k, y.in.psl)
  BY <1>4, OccIs DEF Beyond
<1>8. QED
  BY <1>1, <1>3, <1>4, <1>5, <1>6, <1>7 DEF Carrying, InHand, FreshIn

LEMMA InsertEnds ==
  ASSUME NEW c \in Nat \ {0}, NEW b, NEW m, NEW k \in Keys, NEW z \in Slots(c),
         NEW x \in Carrying(b, m, c, k, z)
  PROVE  InsertStop(x, c) \in Carrying(b, m, c, k, z) /\ ~Carries(InsertStop(x, c))
<1> DEFINE go == {y \in Carrying(b, m, c, k, z) : Carries(y)}
           nxt == [y \in go |-> Carried(y, c)]
           dst == [y \in Carrying(b, m, c, k, z) |-> Dist(y.at, z, c)]
<1>1. PICK S : S = Carrying(b, m, c, k, z)
  OBVIOUS
<1>2. \A y \in S : y.at \in Slots(c)
  BY <1>1 DEF Carrying, Hands
<1>3. \A y \in go : y \in S /\ nxt[y] \in S /\ y.at # z /\ nxt[y].at = Succ(y.at, c)
  BY <1>1, CarryOn
<1>4. dst \in [S -> Nat] /\ \A y \in S \cap go : dst[nxt[y]] < dst[y]
  <2>1. \A y \in S : Dist(y.at, z, c) \in 0 .. c
    BY <1>2 DEF Dist, Slots
  <2>2. dst \in [S -> Nat]
    BY <1>1, <2>1
  <2>3. ASSUME NEW y \in S \cap go PROVE dst[nxt[y]] < dst[y]
    <3>1. y.at \in Slots(c) /\ y.at # z /\ nxt[y] \in S /\ nxt[y].at = Succ(y.at, c)
      BY <1>2, <1>3
    <3>2. dst[nxt[y]] = Dist(Succ(y.at, c), z, c) /\ dst[y] = Dist(y.at, z, c)
      BY <1>1, <3>1
    <3>3. QED
      BY <3>1, <3>2, Approach
  <2>4. QED
    BY <2>2, <2>3
<1>5. dst[x] <= c
  BY <1>2, <1>1 DEF Dist, Slots
<1>6. Closed(S, S \cap go, nxt)
  BY <1>3 DEF Closed
<1>7. \A y \in S : OnceOf(go, nxt, y) = IF Carries(y) THEN Carried(y, c) ELSE y
  BY <1>1 DEF OnceOf
<1> HIDE DEF go, nxt, dst
<1>8. PICK f \in [Nat -> S] : Runs(f, x, go, nxt)
  BY <1>1, <1>6, RunIn
<1>10. f = [n \in Nat |-> IF n = 0 THEN x
                          ELSE IF Carries(f[n - 1]) THEN Carried(f[n - 1], c) ELSE f[n - 1]]
  <2>1. ASSUME NEW n \in Nat
        PROVE  f[n] = IF n = 0 THEN x
                      ELSE IF Carries(f[n - 1]) THEN Carried(f[n - 1], c) ELSE f[n - 1]
    <3>1. CASE n = 0
      BY <1>8, <3>1 DEF Runs
    <3>2. CASE n # 0
      <4>1. n - 1 \in Nat /\ (n - 1) + 1 = n /\ f[n - 1] \in S
        BY <3>2
      <4>2. f[(n - 1) + 1] = OnceOf(go, nxt, f[n - 1])
        BY <1>8, <4>1 DEF Runs
      <4>3. QED
        BY <1>7, <3>2, <4>1, <4>2
    <3>3. QED
      BY <3>1, <3>2
  <2>2. QED
    BY <2>1
<1>11. PICK g : g = InsertTurns(x, c)
  OBVIOUS
<1>12. g = [n \in Nat |-> IF n = 0 THEN x
                          ELSE IF Carries(g[n - 1]) THEN Carried(g[n - 1], c) ELSE g[n - 1]]
  BY <1>10, <1>11 DEF InsertTurns
<1>13. RunsIn(g, S, x, go, nxt)
  <2>1. g[0] = x
    BY <1>12
  <2>2. ASSUME NEW n \in Nat, g[n] \in S PROVE g[n + 1] = OnceOf(go, nxt, g[n])
    <3>1. n + 1 \in Nat /\ n + 1 # 0 /\ (n + 1) - 1 = n
      OBVIOUS
    <3>2. g[n + 1] = IF Carries(g[n]) THEN Carried(g[n], c) ELSE g[n]
      BY <1>12, <3>1
    <3>3. QED
      BY <1>7, <2>2, <3>2
  <2>3. QED
    BY <2>1, <2>2 DEF RunsIn
<1>14. \A n \in Nat : g[n] \in S
  BY <1>1, <1>6, <1>13, RunKeeps
<1>15. \E n \in 0 .. c : g[n] \notin go
  BY <1>1, <1>4, <1>5, <1>6, <1>13, RunEnds
<1>16. \E n \in 0 .. c : ~Carries(g[n])
  BY <1>1, <1>14, <1>15 DEF go
<1>17. PICK n \in 0 .. c : n = (CHOOSE j \in 0 .. c : ~Carries(g[j])) /\ ~Carries(g[n])
  BY <1>16
<1>18. InsertStop(x, c) = g[n]
  BY <1>11, <1>17 DEF InsertStop
<1>19. QED
  BY <1>1, <1>14, <1>17, <1>18

(* A table in order, each key at most once.                                *)
Fit(b, c, m) == /\ c \in Nat /\ b \in [Slots(c) -> Cells] /\ m \in 0 .. c
                /\ Ordered(b, c, NoHole) /\ DistinctIn(b, Occ(b, c))
Room(b, c) == \E z \in Slots(c) : b[z].psl = 0
Count(b, c) == Cardinality(Occ(b, c))

(* Into a table with an empty bucket, a key not stored is put: the order   *)
(* stays, one bucket more is filled and no other key comes or goes.        *)
LEMMA InsertIs ==
  ASSUME NEW c, NEW b, NEW m, Fit(b, c, m), Room(b, c), NEW n, NEW k \in Keys
  PROVE  \/ /\ k \in KeysAt(b, c)
            /\ InsertRaw(Table(b, c, n, m), k) = [dup |-> TRUE, table |-> Table(b, c, n, m)]
         \/ /\ k \notin KeysAt(b, c)
            /\ \E b2, m2 :
                 /\ InsertRaw(Table(b, c, n, m), k) = [dup |-> FALSE, table |-> Table(b2, c, n, m2)]
                 /\ Fit(b2, c, m2) /\ KeysAt(b2, c) = KeysAt(b, c) \cup {k}
                 /\ Count(b2, c) = Count(b, c) + 1
<1>1. PICK z \in Slots(c) : b[z].psl = 0
  BY DEF Room
<1>2. /\ c \in Nat \ {0} /\ b \in [Slots(c) -> Cells] /\ m \in 0 .. c
      /\ Ordered(b, c, NoHole) /\ DistinctIn(b, Occ(b, c))
  BY <1>1 DEF Fit, Slots
<1>3. PICK x : x = Start(b, m, k, c) /\ x \in Carrying(b, m, c, k, z)
  BY <1>1, <1>2, StartIs
<1>4. PICK y : y = InsertStop(x, c) /\ y \in Carrying(b, m, c, k, z) /\ ~Carries(y)
  BY <1>1, <1>2, <1>3, InsertEnds
<1>5. y = InsertStop(Start(b, m, k, c), c)
  BY <1>3, <1>4
<1>8. /\ c \in Nat \ {0} /\ b \in [Slots(c) -> Cells] /\ k \in Keys /\ z \in Slots(c)
      /\ y \in Carrying(b, m, c, k, z) /\ ~Carries(y)
  BY <1>2, <1>4
<1>6. CASE Here(y).psl # 0
  <2>1. k \in KeysAt(b, c) /\ y.b = b /\ y.max = m
    BY ONLY <1>8, <1>6, CarryFinds
  <2>2. InsertRaw(Table(b, c, n, m), k) = [dup |-> TRUE, table |-> Table(y.b, c, n, y.max)]
    BY <1>5, <1>6, InsertRawIs
  <2>3. QED
    BY <2>1, <2>2
<1>7. CASE Here(y).psl = 0
  <2>1. /\ k \notin KeysAt(b, c)
        /\ Put(y) \in [Slots(c) -> Cells] /\ PutMax(y) \in 0 .. c
        /\ Ordered(Put(y), c, NoHole) /\ DistinctIn(Put(y), Occ(Put(y), c))
        /\ KeysAt(Put(y), c) = KeysAt(b, c) \cup {k}
        /\ Cardinality(Occ(Put(y), c)) = Cardinality(Occ(b, c)) + 1
    BY ONLY <1>8, <1>7, CarryPlaces
  <2>2. InsertRaw(Table(b, c, n, m), k) = [dup |-> FALSE, table |-> Table(Put(y), c, n, PutMax(y))]
    BY <1>5, <1>7, InsertRawIs
  <2>3. Fit(Put(y), c, PutMax(y))
    BY <1>2, <2>1 DEF Fit
  <2>4. QED
    BY <2>1, <2>2, <2>3 DEF Count
<1>9. QED
  BY <1>6, <1>7

-----------------------------------------------------------------------------
(* set_resize.  The keys of the slots gone through are in the new array,   *)
(* which always has an empty bucket left.                                  *)

RehashTo(t, y) ==
  [i |-> y.i + 1,
   table |-> IF t.buckets[y.i].psl = 0 THEN y.table
             ELSE InsertRaw(y.table, t.buckets[y.i].key).table]
RehashTurns(t) ==
  CHOOSE g : g = [n \in Nat |-> IF n = 0 THEN [i |-> 0, table |-> Blank(t.cap * 2)]
                                ELSE IF g[n - 1].i < t.cap THEN RehashTo(t, g[n - 1]) ELSE g[n - 1]]
RehashStop(t) == RehashTurns(t)[CHOOSE n \in 0 .. t.cap : ~(RehashTurns(t)[n].i < t.cap)]

LEMMA RehashedIs ==
  ASSUME NEW t
  PROVE  Rehashed(t) = RehashStop(t).table
BY DEF Rehashed, While, RehashStop, RehashTurns, RehashTo

Tables(c) == {Table(b, c, 0, m) : b \in [Slots(c) -> Cells], m \in 0 .. c}
Rehashing(b, c) ==
  {y \in [i : 0 .. c, table : Tables(c * 2)] :
     /\ Fit(y.table.buckets, c * 2, y.table.max_psl)
     /\ KeysAt(y.table.buckets, c * 2) = KeysAt(b, y.i)
     /\ Count(y.table.buckets, c * 2) = Count(b, y.i)}

(* The occupied among the first i slots, and among one more.               *)
LEMMA OneSlotMore ==
  ASSUME NEW c \in Nat, NEW b, NEW i \in 0 .. c - 1
  PROVE  /\ b[i].psl = 0 => KeysAt(b, i + 1) = KeysAt(b, i) /\ Count(b, i + 1) = Count(b, i)
         /\ b[i].psl # 0 => /\ KeysAt(b, i + 1) = KeysAt(b, i) \cup {b[i].key}
                            /\ Count(b, i + 1) = Count(b, i) + 1
<1>1. i \in Nat /\ Slots(i + 1) = Slots(i) \cup {i} /\ i \notin Slots(i)
  BY DEF Slots
<1>2. CASE b[i].psl = 0
  <2>1. Occ(b, i + 1) = Occ(b, i)
    BY <1>1, <1>2 DEF Occ
  <2>2. QED
    BY <1>2, <2>1 DEF KeysAt, Count
<1>3. CASE b[i].psl # 0
  <2>1. Occ(b, i + 1) = Occ(b, i) \cup {i} /\ i \notin Occ(b, i)
    BY <1>1, <1>3 DEF Occ
  <2>2. Count(b, i + 1) = Count(b, i) + 1
    BY <1>1, <2>1, OccupiedFinite, FS_AddElement DEF Count
  <2>3. QED
    BY <1>3, <2>1, <2>2 DEF KeysAt
<1>4. QED
  BY <1>2, <1>3

LEMMA CountIs ==
  ASSUME NEW c \in Nat, NEW b
  PROVE  Count(b, c) \in 0 .. c
<1>1. IsFiniteSet(0 .. c - 1) /\ Cardinality(0 .. c - 1) = c
  BY FS_Interval
<1>2. Occ(b, c) \subseteq 0 .. c - 1
  BY DEF Occ, Slots
<1>3. QED
  BY <1>1, <1>2, FS_Subset, OccupiedFinite DEF Count

LEMMA TableIs ==
  ASSUME NEW b, NEW c, NEW n, NEW m
  PROVE  /\ Table(b, c, n, m).buckets = b /\ Table(b, c, n, m).cap = c
         /\ Table(b, c, n, m).len = n /\ Table(b, c, n, m).max_psl = m
BY DEF Table

LEMMA RehashingIs ==
  ASSUME NEW b, NEW c \in Nat \ {0}, NEW i \in 0 .. c, NEW a, NEW p,
         Fit(a, c * 2, p), KeysAt(a, c * 2) = KeysAt(b, i), Count(a, c * 2) = Count(b, i)
  PROVE  [i |-> i, table |-> Table(a, c * 2, 0, p)] \in Rehashing(b, c)
<1>1. PICK d : d = c * 2
  OBVIOUS
<1>2. a \in [Slots(d) -> Cells] /\ p \in 0 .. d
  BY <1>1 DEF Fit
<1>3. Table(a, d, 0, p) \in Tables(d)
  BY <1>2 DEF Tables
<1>4. QED
  BY <1>1, <1>3, TableIs DEF Rehashing

LEMMA RehashOn ==
  ASSUME NEW b, NEW c \in Nat \ {0}, NEW m, Fit(b, c, m), NEW t, t.buckets = b,
         NEW y \in Rehashing(b, c), y.i < c
  PROVE  RehashTo(t, y) \in Rehashing(b, c) /\ RehashTo(t, y).i = y.i + 1
<1>1. PICK i, a, d, p : i = y.i /\ a = y.table.buckets /\ p = y.table.max_psl /\ d = c * 2
  OBVIOUS
<1>2. /\ y.table = Table(a, d, 0, p) /\ a \in [Slots(d) -> Cells] /\ p \in 0 .. d
      /\ i \in 0 .. c - 1 /\ Fit(a, d, p) /\ KeysAt(a, d) = KeysAt(b, i) /\ Count(a, d) = Count(b, i)
      /\ d \in Nat \ {0} /\ d > c
  BY <1>1, TableIs DEF Rehashing, Tables
<1>3. CASE b[i].psl = 0
  <2>1. RehashTo(t, y) = [i |-> i + 1, table |-> y.table]
    BY <1>1, <1>3 DEF RehashTo
  <2>2. KeysAt(b, i + 1) = KeysAt(b, i) /\ Count(b, i + 1) = Count(b, i)
    BY <1>2, <1>3, OneSlotMore
  <2>3. i + 1 \in 0 .. c /\ d = c * 2
    BY <1>1, <1>2
  <2>4. [i |-> i + 1, table |-> Table(a, d, 0, p)] \in Rehashing(b, c)
    BY <1>2, <2>2, <2>3, RehashingIs
  <2>5. QED
    BY <1>1, <1>2, <2>1, <2>4
<1>4. CASE b[i].psl # 0
  <2>1. PICK k : k = b[i].key
    OBVIOUS
  <2>2. k \in Keys /\ k \notin KeysAt(b, i)
    <3>1. i \in Occ(b, c) /\ b \in [Slots(c) -> Cells] /\ DistinctIn(b, Occ(b, c))
      BY <1>2, <1>4 DEF Fit, Occ, Slots
    <3>2. k \in Keys
      BY <2>1, <3>1, OccIs
    <3>3. \A s \in Occ(b, i) : s \in Occ(b, c) /\ s # i
      BY <1>2 DEF Occ, Slots
    <3>4. QED
      BY <2>1, <3>1, <3>2, <3>3 DEF KeysAt, DistinctIn
  <2>3. Room(a, d)
    <3>1. Count(b, i) \in 0 .. i
      BY <1>2, CountIs
    <3>2. d \in Nat /\ Cardinality(Occ(a, d)) < d
      BY <1>2, <3>1 DEF Count
    <3>3. QED
      BY <3>2, OneIsEmpty DEF Room
  <2>4. PICK a2, p2 :
          /\ InsertRaw(Table(a, d, 0, p), k) = [dup |-> FALSE, table |-> Table(a2, d, 0, p2)]
          /\ Fit(a2, d, p2) /\ KeysAt(a2, d) = KeysAt(a, d) \cup {k}
          /\ Count(a2, d) = Count(a, d) + 1
    BY <1>2, <2>2, <2>3, InsertIs
  <2>5. RehashTo(t, y) = [i |-> i + 1, table |-> Table(a2, d, 0, p2)]
    BY <1>1, <1>2, <1>4, <2>1, <2>4 DEF RehashTo
  <2>6. KeysAt(b, i + 1) = KeysAt(b, i) \cup {k} /\ Count(b, i + 1) = Count(b, i) + 1
    BY <1>2, <1>4, <2>1, OneSlotMore
  <2>7. i + 1 \in 0 .. c /\ d = c * 2
    BY <1>1, <1>2
  <2>8. /\ Fit(a2, d, p2) /\ KeysAt(a2, d) = KeysAt(b, i + 1) /\ Count(a2, d) = Count(b, i + 1)
    BY <1>2, <2>4, <2>6
  <2>9. [i |-> i + 1, table |-> Table(a2, d, 0, p2)] \in Rehashing(b, c)
    BY <2>7, <2>8, RehashingIs
  <2>10. QED
    BY <1>1, <2>5, <2>9
<1>5. QED
  BY <1>3, <1>4

LEMMA RehashEnds ==
  ASSUME NEW b, NEW c \in Nat \ {0}, NEW m, Fit(b, c, m), NEW t, t.buckets = b, t.cap = c
  PROVE  RehashStop(t) \in Rehashing(b, c) /\ RehashStop(t).i = c
<1> DEFINE x == [i |-> 0, table |-> Blank(t.cap * 2)]
           go == {y \in Rehashing(b, c) : y.i < t.cap}
           nxt == [y \in go |-> RehashTo(t, y)]
           left == [y \in Rehashing(b, c) |-> c - y.i]
<1>1. PICK S : S = Rehashing(b, c)
  OBVIOUS
<1>2. \A y \in S : y.i \in 0 .. c
  BY <1>1 DEF Rehashing
<1>3. \A y \in go : y \in S /\ nxt[y] \in S /\ y.i < c /\ nxt[y].i = y.i + 1
  BY <1>1, RehashOn
<1>4. x \in S
  <2>1. Blank(c * 2) = Table(Blanks(c * 2), c * 2, 0, 0)
    BY DEF Blank, Blanks
  <2>2. PICK d : d = c * 2 /\ d \in Nat \ {0}
    OBVIOUS
  <2>3. Blanks(d) \in [Slots(d) -> Cells] /\ Occ(Blanks(d), d) = {} /\ Count(Blanks(d), d) = 0
    BY <2>2, NoneOccupied DEF Count
  <2>4. Fit(Blanks(d), d, 0) /\ KeysAt(Blanks(d), d) = {}
    BY <2>2, <2>3 DEF Fit, KeysAt, Ordered, DistinctIn
  <2>5. Occ(b, 0) = {}
    BY DEF Occ, Slots
  <2>6. KeysAt(b, 0) = {} /\ Count(b, 0) = 0
    BY <2>5, FS_EmptySet DEF KeysAt, Count
  <2>7. 0 \in 0 .. c
    OBVIOUS
  <2>8. [i |-> 0, table |-> Table(Blanks(c * 2), c * 2, 0, 0)] \in Rehashing(b, c)
    BY <2>2, <2>3, <2>4, <2>6, <2>7, RehashingIs
  <2>9. QED
    BY <1>1, <2>1, <2>8
<1>5. left \in [S -> Nat] /\ \A y \in S \cap go : left[nxt[y]] < left[y]
  <2>1. left \in [S -> Nat]
    BY <1>1, <1>2
  <2>2. ASSUME NEW y \in S \cap go PROVE left[nxt[y]] < left[y]
    <3>1. nxt[y] \in S /\ y.i \in 0 .. c /\ nxt[y].i = y.i + 1
      BY <1>2, <1>3
    <3>2. left[nxt[y]] = c - nxt[y].i /\ left[y] = c - y.i
      BY <1>1, <3>1
    <3>3. QED
      BY <3>1, <3>2
  <2>3. QED
    BY <2>1, <2>2
<1>6. left[x] <= t.cap /\ t.cap \in Nat
  BY <1>1, <1>4
<1>7. Closed(S, S \cap go, nxt)
  BY <1>3 DEF Closed
<1>8. \A y \in S : OnceOf(go, nxt, y) = IF y.i < t.cap THEN RehashTo(t, y) ELSE y
  BY <1>1 DEF OnceOf
<1>9. \A y \in S : y \notin go => y.i = c
  BY <1>1, <1>2
<1>10. \A y \in S : y \notin go <=> ~(y.i < t.cap)
  BY <1>1
<1> HIDE DEF go, nxt, left
<1>11. PICK f \in [Nat -> S] : Runs(f, x, go, nxt)
  BY <1>4, <1>7, RunIn
<1>12. f = [n \in Nat |-> IF n = 0 THEN x
                          ELSE IF f[n - 1].i < t.cap THEN RehashTo(t, f[n - 1]) ELSE f[n - 1]]
  <2>1. ASSUME NEW n \in Nat
        PROVE  f[n] = IF n = 0 THEN x
                      ELSE IF f[n - 1].i < t.cap THEN RehashTo(t, f[n - 1]) ELSE f[n - 1]
    <3> HIDE DEF x
    <3>1. CASE n = 0
      BY <1>11, <3>1 DEF Runs
    <3>2. CASE n # 0
      <4>1. n - 1 \in Nat /\ (n - 1) + 1 = n /\ f[n - 1] \in S
        BY <3>2
      <4>2. f[(n - 1) + 1] = OnceOf(go, nxt, f[n - 1])
        BY <1>11, <4>1 DEF Runs
      <4>3. QED
        BY <1>8, <3>2, <4>1, <4>2
    <3>3. QED
      BY <3>1, <3>2
  <2>2. QED
    BY <2>1
<1>13. PICK g : g = RehashTurns(t)
  OBVIOUS
<1>14. g = [n \in Nat |-> IF n = 0 THEN x
                          ELSE IF g[n - 1].i < t.cap THEN RehashTo(t, g[n - 1]) ELSE g[n - 1]]
  BY <1>12, <1>13 DEF RehashTurns
<1> HIDE DEF x
<1>15. RunsIn(g, S, x, go, nxt)
  <2>1. g[0] = x
    BY <1>14
  <2>2. ASSUME NEW n \in Nat, g[n] \in S PROVE g[n + 1] = OnceOf(go, nxt, g[n])
    <3>1. n + 1 \in Nat /\ n + 1 # 0 /\ (n + 1) - 1 = n
      OBVIOUS
    <3>2. g[n + 1] = IF g[n].i < t.cap THEN RehashTo(t, g[n]) ELSE g[n]
      BY <1>14, <3>1
    <3>3. QED
      BY <1>8, <2>2, <3>2
  <2>3. QED
    BY <2>1, <2>2 DEF RunsIn
<1>16. \A n \in Nat : g[n] \in S
  BY <1>4, <1>7, <1>15, RunKeeps
<1>17. \E n \in 0 .. t.cap : g[n] \notin go
  BY <1>4, <1>5, <1>6, <1>7, <1>15, RunEnds
<1>18. \E n \in 0 .. t.cap : ~(g[n].i < t.cap)
  BY <1>6, <1>10, <1>16, <1>17
<1>19. PICK n \in 0 .. t.cap : n = (CHOOSE j \in 0 .. t.cap : ~(g[j].i < t.cap)) /\ ~(g[n].i < t.cap)
  BY <1>18
<1>20. RehashStop(t) = g[n] /\ g[n] \in S
  BY <1>6, <1>13, <1>16, <1>19 DEF RehashStop
<1>21. QED
  BY <1>1, <1>9, <1>10, <1>19, <1>20

(* The doubled array holds the same keys, still in order.                  *)
LEMMA ResizedIs ==
  ASSUME NEW b, NEW c \in Nat \ {0}, NEW m, Fit(b, c, m), NEW n
  PROVE  \E b2, m2 :
           /\ Resized(Table(b, c, n, m)) = Table(b2, c * 2, n, m2)
           /\ Fit(b2, c * 2, m2) /\ KeysAt(b2, c * 2) = KeysAt(b, c) /\ Count(b2, c * 2) = Count(b, c)
<1>1. PICK t : t = Table(b, c, n, m) /\ t.buckets = b /\ t.cap = c /\ t.len = n
  BY TableIs
<1>2. PICK y : y = RehashStop(t) /\ y \in Rehashing(b, c) /\ y.i = c
  BY <1>1, RehashEnds
<1>3. Rehashed(t) = y.table
  BY <1>2, RehashedIs
<1>4. PICK d : d = c * 2
  OBVIOUS
<1>5. y.table \in Tables(d) /\ Fit(y.table.buckets, d, y.table.max_psl)
      /\ KeysAt(y.table.buckets, d) = KeysAt(b, c) /\ Count(y.table.buckets, d) = Count(b, c)
  BY <1>2, <1>4 DEF Rehashing
<1>6. y.table.cap = d
  BY <1>5, TableIs DEF Tables
<1>7. Resized(t) = Table(y.table.buckets, d, n, y.table.max_psl)
  BY <1>1, <1>3, <1>6 DEF Resized
<1>8. QED
  BY <1>1, <1>4, <1>5, <1>7

-----------------------------------------------------------------------------
(* set_contains and set_remove: what a probe comes to.  As long as it goes *)
(* on, the entry of the key, if there is one, is not behind it.            *)

Seeking(b, c, k) ==
  {y \in [at : Slots(c), probe : 1 .. c] :
     y.probe - 1 = Dist(HomeOf(k, c), y.at, c) /\ Beyond(b, Occ(b, c), k, y.probe)}

Seeks(t, k, y) == InRun(t, y) /\ t.buckets[y.at].key # k
SeekTo(t, y) == [at |-> Succ(y.at, t.cap), probe |-> y.probe + 1]
SeekFrom(t, k) == [at |-> HomeOf(k, t.cap), probe |-> 1]
SeekTurns(t, k) ==
  CHOOSE g : g = [n \in Nat |-> IF n = 0 THEN SeekFrom(t, k)
                                ELSE IF Seeks(t, k, g[n - 1]) THEN SeekTo(t, g[n - 1]) ELSE g[n - 1]]
SeekStop(t, k) == SeekTurns(t, k)[CHOOSE n \in 0 .. t.cap : ~Seeks(t, k, SeekTurns(t, k)[n])]

LEMMA FindSteps ==
  ASSUME NEW t, NEW k
  PROVE  Find(t, k) = IF t.len # 0 /\ InRun(t, SeekStop(t, k)) THEN SeekStop(t, k).at ELSE NoSlot
BY DEF Find, While, SeekStop, SeekTurns, Seeks, SeekTo, SeekFrom

LEMMA SeekOn ==
  ASSUME NEW b, NEW c, NEW m, Fit(b, c, m), Room(b, c), NEW t, t.buckets = b, t.cap = c,
         NEW k \in Keys, NEW y \in Seeking(b, c, k), Seeks(t, k, y)
  PROVE  SeekTo(t, y) \in Seeking(b, c, k) /\ SeekTo(t, y).probe = y.probe + 1
<1>1. PICK z \in Slots(c) : b[z].psl = 0
  BY DEF Room
<1>2. c \in Nat \ {0} /\ b \in [Slots(c) -> Cells] /\ Ordered(b, c, NoHole)
  BY <1>1 DEF Fit, Slots
<1>3. PICK s, p : s = y.at /\ p = y.probe
  OBVIOUS
<1>4. /\ s \in Slots(c) /\ p \in 1 .. c /\ p - 1 = Dist(HomeOf(k, c), s, c)
      /\ Beyond(b, Occ(b, c), k, p) /\ b[s].psl # 0 /\ b[s].psl >= p /\ b[s].key # k
  BY <1>3 DEF Seeking, Seeks, InRun
<1>5. p < c
  <2>1. s \in Occ(b, c) /\ b[s] \in Filled
    BY <1>2, <1>4, CellIs
  <2>2. Aligned(b[s], s, c) /\ Run(b, c, NoHole, b[s].psl, s)
    BY <1>2, <2>1 DEF Ordered
  <2>3. b[s].psl \in 1 .. c
    BY <1>2, <1>4, <2>1, <2>2, PslBounded
  <2>4. b[s].psl < c
    BY <1>1, <1>2, <1>4, <2>2, <2>3, CarriedNotRound
  <2>5. QED
    BY <1>2, <1>4, <2>3, <2>4
<1>6. Beyond(b, Occ(b, c), k, p + 1)
  BY <1>2, <1>4, FurtherAhead
<1>7. HomeOf(k, c) \in Slots(c)
  BY <1>2, HomeInRange
<1>8. PICK n \in Slots(c) : n = Succ(s, c) /\ n = IF s + 1 = c THEN 0 ELSE s + 1
  BY <1>2, <1>4, SuccIs
<1>9. (p + 1) - 1 = Dist(HomeOf(k, c), n, c)
  BY <1>2, <1>4, <1>5, <1>7, <1>8 DEF Dist, Slots
<1>10. SeekTo(t, y) = [at |-> n, probe |-> p + 1]
  BY <1>3, <1>8 DEF SeekTo
<1>11. QED
  BY <1>2, <1>3, <1>4, <1>5, <1>6, <1>9, <1>10 DEF Seeking

LEMMA SeekEnds ==
  ASSUME NEW b, NEW c, NEW m, Fit(b, c, m), Room(b, c), NEW t, t.buckets = b, t.cap = c,
         NEW k \in Keys
  PROVE  SeekStop(t, k) \in Seeking(b, c, k) /\ ~Seeks(t, k, SeekStop(t, k))
<1> DEFINE x == SeekFrom(t, k)
           go == {y \in Seeking(b, c, k) : Seeks(t, k, y)}
           nxt == [y \in go |-> SeekTo(t, y)]
           left == [y \in Seeking(b, c, k) |-> c - y.probe]
<1>1. PICK S : S = Seeking(b, c, k)
  OBVIOUS
<1>2. c \in Nat \ {0} /\ b \in [Slots(c) -> Cells]
  BY DEF Fit, Room, Slots
<1>3. \A y \in S : y.probe \in 1 .. c
  BY <1>1 DEF Seeking
<1>4. \A y \in go : y \in S /\ nxt[y] \in S /\ nxt[y].probe = y.probe + 1
  BY <1>1, SeekOn
<1>5. x \in S
  <2>1. HomeOf(k, c) \in Slots(c)
    BY <1>2, HomeInRange
  <2>2. Dist(HomeOf(k, c), HomeOf(k, c), c) = 0
    BY <2>1 DEF Dist, Slots
  <2>3. Beyond(b, Occ(b, c), k, 1)
    BY <1>2, OccIs DEF Beyond
  <2>4. QED
    BY <1>1, <1>2, <2>1, <2>2, <2>3 DEF Seeking, SeekFrom
<1>6. left \in [S -> Nat] /\ \A y \in S \cap go : left[nxt[y]] < left[y]
  <2>1. left \in [S -> Nat]
    BY <1>1, <1>2, <1>3
  <2>2. ASSUME NEW y \in S \cap go PROVE left[nxt[y]] < left[y]
    <3>1. nxt[y] \in S /\ y.probe \in 1 .. c /\ nxt[y].probe = y.probe + 1
      BY <1>3, <1>4
    <3>2. left[nxt[y]] = c - nxt[y].probe /\ left[y] = c - y.probe
      BY <1>1, <3>1
    <3>3. QED
      BY <1>2, <3>1, <3>2
  <2>3. QED
    BY <2>1, <2>2
<1>7. left[x] <= t.cap /\ t.cap \in Nat
  BY <1>1, <1>2, <1>3, <1>5
<1>8. Closed(S, S \cap go, nxt)
  BY <1>4 DEF Closed
<1>9. \A y \in S : OnceOf(go, nxt, y) = IF Seeks(t, k, y) THEN SeekTo(t, y) ELSE y
  BY <1>1 DEF OnceOf
<1>10. \A y \in S : y \notin go => ~Seeks(t, k, y)
  BY <1>1
<1> HIDE DEF x, go, nxt, left
<1>11. PICK f \in [Nat -> S] : Runs(f, x, go, nxt)
  BY <1>5, <1>8, RunIn
<1>12. f = [n \in Nat |-> IF n = 0 THEN x
                          ELSE IF Seeks(t, k, f[n - 1]) THEN SeekTo(t, f[n - 1]) ELSE f[n - 1]]
  <2>1. ASSUME NEW n \in Nat
        PROVE  f[n] = IF n = 0 THEN x
                      ELSE IF Seeks(t, k, f[n - 1]) THEN SeekTo(t, f[n - 1]) ELSE f[n - 1]
    <3>1. CASE n = 0
      BY <1>11, <3>1 DEF Runs
    <3>2. CASE n # 0
      <4>1. n - 1 \in Nat /\ (n - 1) + 1 = n /\ f[n - 1] \in S
        BY <3>2
      <4>2. f[(n - 1) + 1] = OnceOf(go, nxt, f[n - 1])
        BY <1>11, <4>1 DEF Runs
      <4>3. QED
        BY <1>9, <3>2, <4>1, <4>2
    <3>3. QED
      BY <3>1, <3>2
  <2>2. QED
    BY <2>1
<1>13. PICK g : g = SeekTurns(t, k)
  OBVIOUS
<1>14. g = [n \in Nat |-> IF n = 0 THEN x
                          ELSE IF Seeks(t, k, g[n - 1]) THEN SeekTo(t, g[n - 1]) ELSE g[n - 1]]
  BY <1>12, <1>13 DEF SeekTurns, x
<1>15. RunsIn(g, S, x, go, nxt)
  <2>1. g[0] = x
    BY <1>14
  <2>2. ASSUME NEW n \in Nat, g[n] \in S PROVE g[n + 1] = OnceOf(go, nxt, g[n])
    <3>1. n + 1 \in Nat /\ n + 1 # 0 /\ (n + 1) - 1 = n
      OBVIOUS
    <3>2. g[n + 1] = IF Seeks(t, k, g[n]) THEN SeekTo(t, g[n]) ELSE g[n]
      BY <1>14, <3>1
    <3>3. QED
      BY <1>9, <2>2, <3>2
  <2>3. QED
    BY <2>1, <2>2 DEF RunsIn
<1>16. \A n \in Nat : g[n] \in S
  BY <1>5, <1>8, <1>15, RunKeeps
<1>17. \E n \in 0 .. t.cap : g[n] \notin go
  BY <1>5, <1>6, <1>7, <1>8, <1>15, RunEnds
<1>18. \E n \in 0 .. t.cap : ~Seeks(t, k, g[n])
  BY <1>7, <1>10, <1>16, <1>17
<1>19. PICK n \in 0 .. t.cap : n = (CHOOSE j \in 0 .. t.cap : ~Seeks(t, k, g[j])) /\ ~Seeks(t, k, g[n])
  BY <1>18
<1>20. SeekStop(t, k) = g[n] /\ g[n] \in S
  BY <1>7, <1>13, <1>16, <1>19 DEF SeekStop
<1>21. QED
  BY <1>1, <1>19, <1>20

(* A probe comes to the slot of the key, or tells that the key is not      *)
(* stored.                                                                 *)
LEMMA FindIs ==
  ASSUME NEW b, NEW c, NEW m, Fit(b, c, m), Count(b, c) < c \/ c = 0,
         NEW t, t.buckets = b, t.cap = c, t.len = Count(b, c), NEW k \in Keys
  PROVE  \/ k \in KeysAt(b, c) /\ Find(t, k) \in Occ(b, c) /\ b[Find(t, k)].key = k
         \/ k \notin KeysAt(b, c) /\ Find(t, k) = NoSlot
<1>1. c \in Nat /\ b \in [Slots(c) -> Cells] /\ Ordered(b, c, NoHole)
  BY DEF Fit
<1>2. CASE Count(b, c) = 0
  <2>1. Occ(b, c) = {}
    BY <1>1, <1>2, OccupiedFinite, FS_EmptySet DEF Count
  <2>2. k \notin KeysAt(b, c)
    BY <2>1 DEF KeysAt
  <2>3. Find(t, k) = NoSlot
    BY <1>2, FindSteps
  <2>4. QED
    BY <2>2, <2>3
<1>3. CASE Count(b, c) # 0
  <2>1. c \in Nat \ {0} /\ Room(b, c)
    <3>1. c # 0
      BY <1>1, <1>3, CountIs
    <3>2. Cardinality(Occ(b, c)) < c
      BY <3>1 DEF Count
    <3>3. QED
      BY <1>1, <3>1, <3>2, OneIsEmpty DEF Room
  <2>2. PICK y : y = SeekStop(t, k) /\ y \in Seeking(b, c, k) /\ ~Seeks(t, k, y)
    BY <2>1, SeekEnds
  <2>3. /\ y.at \in Slots(c) /\ y.probe \in 1 .. c
        /\ y.probe - 1 = Dist(HomeOf(k, c), y.at, c) /\ Beyond(b, Occ(b, c), k, y.probe)
    BY <2>2 DEF Seeking
  <2>4. CASE InRun(t, y)
    <3>1. b[y.at].key = k /\ b[y.at].psl # 0
      BY <2>2, <2>4 DEF Seeks, InRun
    <3>2. y.at \in Occ(b, c)
      BY <2>3, <3>1 DEF Occ
    <3>3. Find(t, k) = y.at
      BY <1>3, <2>2, <2>4, FindSteps
    <3>4. QED
      BY <3>1, <3>2, <3>3 DEF KeysAt
  <2>5. CASE ~InRun(t, y)
    <3>1. b[y.at].psl \in Nat
      BY <1>1, <2>3, CellIs
    <3>2. b[y.at].psl < y.probe
      BY <2>3, <2>5, <3>1 DEF InRun
    <3>3. Absent(k, b, Occ(b, c))
      BY <1>1, <2>1, <2>3, <3>2, NoneAhead
    <3>4. Find(t, k) = NoSlot
      BY <2>2, <2>5, FindSteps
    <3>5. QED
      BY <3>3, <3>4 DEF Absent, KeysAt
  <2>6. QED
    BY <2>4, <2>5
<1>4. QED
  BY <1>2, <1>3

-----------------------------------------------------------------------------
(* set_remove: the backward shift.  With its hole emptied the array is in  *)
(* order but for the hole, and holds all keys but the one removed.         *)

Filling(y) == [y.b EXCEPT ![y.at] = Empty]
Shifting(K, q, c, z) ==
  {y \in [b : [Slots(c) -> Cells], at : Slots(c)] :
     /\ y.at # z /\ y.b[z].psl = 0
     /\ Ordered(Filling(y), c, y.at) /\ DistinctIn(Filling(y), Occ(Filling(y), c))
     /\ KeysAt(Filling(y), c) = K /\ Count(Filling(y), c) = q}

ShiftNext(y, c) == Succ(y.at, c)
Shifts(y, c) == y.b[ShiftNext(y, c)].psl > 1
ShiftTo(y, c) == [b |-> [y.b EXCEPT ![y.at] = Nearer(y.b[ShiftNext(y, c)])], at |-> ShiftNext(y, c)]
ShiftTurns(b, s, c) ==
  CHOOSE g : g = [n \in Nat |-> IF n = 0 THEN [b |-> b, at |-> s]
                                ELSE IF Shifts(g[n - 1], c) THEN ShiftTo(g[n - 1], c) ELSE g[n - 1]]
ShiftStop(b, s, c) ==
  ShiftTurns(b, s, c)[CHOOSE n \in 0 .. c : ~Shifts(ShiftTurns(b, s, c)[n], c)]

LEMMA CloseSteps ==
  ASSUME NEW t, NEW s
  PROVE  CloseHole(t, s) = Filling(ShiftStop(t.buckets, s, t.cap))
BY DEF CloseHole, While, ShiftStop, ShiftTurns, Shifts, ShiftTo, ShiftNext, Filling

(* A key moved to an empty bucket is still the only one of its value.      *)
LEMMA MoveOne ==
  ASSUME NEW c \in Nat \ {0}, NEW a, NEW h \in Slots(c), NEW n \in Slots(c),
         n # h, a[h].psl = 0, a[n].psl # 0, NEW a2,
         a2[h].psl # 0, a2[h].key = a[n].key, a2[n].psl = 0,
         \A t \in Slots(c) \ {h, n} : a2[t] = a[t]
  PROVE  /\ KeysAt(a2, c) = KeysAt(a, c) /\ Count(a2, c) = Count(a, c)
         /\ DistinctIn(a, Occ(a, c)) => DistinctIn(a2, Occ(a2, c))
<1>1. /\ Occ(a2, c) = (Occ(a, c) \ {n}) \cup {h} /\ n \in Occ(a, c) /\ h \notin Occ(a, c)
      /\ Occ(a, c) \subseteq Slots(c)
  BY DEF Occ
<1>2. \A t \in Occ(a, c) \ {n} : a2[t] = a[t] /\ t \in Occ(a2, c) /\ t # h
  BY <1>1
<1>3. Count(a2, c) = Count(a, c)
  <2>1. PICK S, T : S = Occ(a, c) /\ T = S \ {n} /\ Occ(a2, c) = T \cup {h} /\ n \in S /\ h \notin T
    BY <1>1
  <2>2. IsFiniteSet(S) /\ Cardinality(S) \in Nat
    BY <2>1, OccupiedFinite
  <2>3. IsFiniteSet(T) /\ Cardinality(T) = Cardinality(S) - 1
    BY <2>1, <2>2, FS_RemoveElement
  <2>4. Cardinality(T \cup {h}) = Cardinality(T) + 1
    BY <2>1, <2>3, FS_AddElement
  <2>5. QED
    BY <2>1, <2>2, <2>3, <2>4 DEF Count
<1>4. ASSUME NEW x \in KeysAt(a2, c) PROVE x \in KeysAt(a, c)
  <2>1. PICK t \in Occ(a2, c) : x = a2[t].key
    BY <1>4 DEF KeysAt
  <2>2. CASE t = h
    BY <1>1, <2>1, <2>2 DEF KeysAt
  <2>3. CASE t # h
    BY <1>1, <1>2, <2>1, <2>3 DEF KeysAt
  <2>4. QED
    BY <2>2, <2>3
<1>5. ASSUME NEW x \in KeysAt(a, c) PROVE x \in KeysAt(a2, c)
  <2>1. PICK t \in Occ(a, c) : x = a[t].key
    BY <1>5 DEF KeysAt
  <2>2. CASE t = n
    BY <1>1, <2>1, <2>2 DEF KeysAt
  <2>3. CASE t # n
    BY <1>2, <2>1, <2>3 DEF KeysAt
  <2>4. QED
    BY <2>2, <2>3
<1>6. ASSUME DistinctIn(a, Occ(a, c)), NEW t \in Occ(a2, c), NEW u \in Occ(a2, c),
             a2[t].key = a2[u].key
      PROVE  t = u
  <2>1. CASE t # h /\ u # h
    BY <1>1, <1>2, <1>6, <2>1 DEF DistinctIn
  <2>2. CASE t = h /\ u # h
    BY <1>1, <1>2, <1>6, <2>2 DEF DistinctIn
  <2>3. CASE t # h /\ u = h
    BY <1>1, <1>2, <1>6, <2>3 DEF DistinctIn
  <2>4. QED
    BY <2>1, <2>2, <2>3
<1>7. DistinctIn(a, Occ(a, c)) => DistinctIn(a2, Occ(a2, c))
  BY <1>6 DEF DistinctIn
<1>8. KeysAt(a2, c) = KeysAt(a, c)
  BY <1>4, <1>5
<1>9. QED
  BY <1>3, <1>7, <1>8

LEMMA ShiftOn ==
  ASSUME NEW c \in Nat \ {0}, NEW K, NEW q, NEW z \in Slots(c),
         NEW y \in Shifting(K, q, c, z), Shifts(y, c)
  PROVE  /\ ShiftTo(y, c) \in Shifting(K, q, c, z)
         /\ y.at \in Slots(c) /\ y.at # z /\ ShiftTo(y, c).at = Succ(y.at, c)
<1>1. PICK a, h, d : a = y.b /\ h = y.at /\ d = [a EXCEPT ![h] = Empty]
  OBVIOUS
<1>2. /\ a \in [Slots(c) -> Cells] /\ h \in Slots(c) /\ h # z /\ a[z].psl = 0 /\ d = Filling(y)
      /\ Ordered(d, c, h) /\ DistinctIn(d, Occ(d, c)) /\ KeysAt(d, c) = K /\ Count(d, c) = q
  BY <1>1 DEF Shifting, Filling
<1>3. PICK n \in Slots(c) : n = Succ(h, c) /\ n = IF h + 1 = c THEN 0 ELSE h + 1
  BY <1>2, SuccIs
<1>4. n # h
  BY <1>2, <1>3 DEF Slots
<1>5. d \in [Slots(c) -> Cells] /\ d[h].psl = 0 /\ d[n] = a[n] /\ a[n].psl > 1
  BY <1>1, <1>2, <1>3, <1>4 DEF Shifts, ShiftNext, Cells, Empty
<1>6. PICK e : e = Nearer(a[n])
  OBVIOUS
<1>7. a[n] \in Filled /\ e \in Filled /\ e.key = a[n].key
  <2>1. a[n].psl \in Nat /\ a[n].psl # 0
    BY <1>2, <1>5, CellIs
  <2>2. a[n] \in Filled
    BY <1>2, <2>1, CellIs
  <2>3. QED
    BY <1>5, <1>6, <2>1, <2>2 DEF Nearer, Entry, Filled
<1>8. PICK w : w = ShiftTo(y, c) /\ w.b = [a EXCEPT ![h] = e] /\ w.at = n
               /\ w = [b |-> [a EXCEPT ![h] = e], at |-> n]
  BY <1>1, <1>3, <1>6 DEF ShiftTo, ShiftNext
<1>9. PICK d2 : d2 = [d EXCEPT ![h] = e, ![n] = Empty]
  OBVIOUS
<1>10. Filling(w) = d2
  <2>1. Filling(w) = [[a EXCEPT ![h] = e] EXCEPT ![n] = Empty]
    BY <1>8 DEF Filling
  <2>2. QED
    BY <1>1, <1>2, <1>3, <1>4, <1>9, <2>1
<1>11. Ordered(d2, c, n)
  BY <1>2, <1>3, <1>5, <1>6, <1>9, ShiftKeepsOrder
<1>12. /\ d2 \in [Slots(c) -> Cells] /\ KeysAt(d2, c) = K /\ Count(d2, c) = q
       /\ DistinctIn(d2, Occ(d2, c))
  <2>1. d2 \in [Slots(c) -> Cells]
    BY <1>5, <1>7, <1>9 DEF Cells
  <2>2. /\ c \in Nat \ {0} /\ h \in Slots(c) /\ n \in Slots(c)
        /\ n # h /\ d[h].psl = 0 /\ d[n].psl # 0
        /\ d2[h].psl # 0 /\ d2[h].key = d[n].key /\ d2[n].psl = 0
        /\ \A u \in Slots(c) \ {h, n} : d2[u] = d[u]
    BY <1>2, <1>3, <1>4, <1>5, <1>7, <1>9 DEF Empty, Filled
  <2>3. KeysAt(d2, c) = KeysAt(d, c) /\ Count(d2, c) = Count(d, c)
    BY ONLY <2>2, MoveOne
  <2>4. DistinctIn(d, Occ(d, c)) => DistinctIn(d2, Occ(d2, c))
    BY ONLY <2>2, MoveOne
  <2>5. QED
    BY <1>2, <2>1, <2>3, <2>4
<1>13. n # z /\ w.b[z].psl = 0 /\ w.b \in [Slots(c) -> Cells]
  BY <1>2, <1>5, <1>7, <1>8 DEF Cells
<1>14. w \in Shifting(K, q, c, z)
  BY <1>3, <1>8, <1>10, <1>11, <1>12, <1>13 DEF Shifting
<1>15. QED
  BY <1>1, <1>2, <1>3, <1>8, <1>14

LEMMA ShiftEnds ==
  ASSUME NEW c \in Nat \ {0}, NEW K, NEW q, NEW z \in Slots(c), NEW b, NEW s,
         [b |-> b, at |-> s] \in Shifting(K, q, c, z)
  PROVE  ShiftStop(b, s, c) \in Shifting(K, q, c, z) /\ ~Shifts(ShiftStop(b, s, c), c)
<1> DEFINE x == [b |-> b, at |-> s]
           go == {y \in Shifting(K, q, c, z) : Shifts(y, c)}
           nxt == [y \in go |-> ShiftTo(y, c)]
           dst == [y \in Shifting(K, q, c, z) |-> Dist(y.at, z, c)]
<1>1. PICK S : S = Shifting(K, q, c, z)
  OBVIOUS
<1>2. \A y \in S : y.at \in Slots(c)
  BY <1>1 DEF Shifting
<1>3. \A y \in go : y \in S /\ nxt[y] \in S /\ y.at # z /\ nxt[y].at = Succ(y.at, c)
  BY <1>1, ShiftOn
<1>4. dst \in [S -> Nat] /\ \A y \in S \cap go : dst[nxt[y]] < dst[y]
  <2>1. \A y \in S : Dist(y.at, z, c) \in 0 .. c
    BY <1>2 DEF Dist, Slots
  <2>2. dst \in [S -> Nat]
    BY <1>1, <2>1
  <2>3. ASSUME NEW y \in S \cap go PROVE dst[nxt[y]] < dst[y]
    <3>1. y.at \in Slots(c) /\ y.at # z /\ nxt[y] \in S /\ nxt[y].at = Succ(y.at, c)
      BY <1>2, <1>3
    <3>2. dst[nxt[y]] = Dist(Succ(y.at, c), z, c) /\ dst[y] = Dist(y.at, z, c)
      BY <1>1, <3>1
    <3>3. QED
      BY <3>1, <3>2, Approach
  <2>4. QED
    BY <2>2, <2>3
<1>5. dst[x] <= c /\ x \in S
  <2>1. x \in S /\ x.at \in Slots(c)
    BY <1>1, <1>2
  <2>2. dst[x] = Dist(x.at, z, c) /\ Dist(x.at, z, c) <= c
    BY <1>1, <2>1 DEF Dist, Slots
  <2>3. QED
    BY <2>1, <2>2
<1>6. Closed(S, S \cap go, nxt)
  BY <1>3 DEF Closed
<1>7. \A y \in S : OnceOf(go, nxt, y) = IF Shifts(y, c) THEN ShiftTo(y, c) ELSE y
  BY <1>1 DEF OnceOf
<1>8. \A y \in S : y \notin go => ~Shifts(y, c)
  BY <1>1
<1> HIDE DEF go, nxt, dst
<1>9. PICK f \in [Nat -> S] : Runs(f, x, go, nxt)
  BY <1>5, <1>6, RunIn
<1>10. f = [n \in Nat |-> IF n = 0 THEN x
                          ELSE IF Shifts(f[n - 1], c) THEN ShiftTo(f[n - 1], c) ELSE f[n - 1]]
  <2>1. ASSUME NEW n \in Nat
        PROVE  f[n] = IF n = 0 THEN x
                      ELSE IF Shifts(f[n - 1], c) THEN ShiftTo(f[n - 1], c) ELSE f[n - 1]
    <3> HIDE DEF x
    <3>1. CASE n = 0
      BY <1>9, <3>1 DEF Runs
    <3>2. CASE n # 0
      <4>1. n - 1 \in Nat /\ (n - 1) + 1 = n /\ f[n - 1] \in S
        BY <3>2
      <4>2. f[(n - 1) + 1] = OnceOf(go, nxt, f[n - 1])
        BY <1>9, <4>1 DEF Runs
      <4>3. QED
        BY <1>7, <3>2, <4>1, <4>2
    <3>3. QED
      BY <3>1, <3>2
  <2>2. QED
    BY <2>1
<1>11. PICK g : g = ShiftTurns(b, s, c)
  OBVIOUS
<1>12. g = [n \in Nat |-> IF n = 0 THEN x
                          ELSE IF Shifts(g[n - 1], c) THEN ShiftTo(g[n - 1], c) ELSE g[n - 1]]
  BY <1>10, <1>11 DEF ShiftTurns
<1> HIDE DEF x
<1>13. RunsIn(g, S, x, go, nxt)
  <2>1. g[0] = x
    BY <1>12
  <2>2. ASSUME NEW n \in Nat, g[n] \in S PROVE g[n + 1] = OnceOf(go, nxt, g[n])
    <3>1. n + 1 \in Nat /\ n + 1 # 0 /\ (n + 1) - 1 = n
      OBVIOUS
    <3>2. g[n + 1] = IF Shifts(g[n], c) THEN ShiftTo(g[n], c) ELSE g[n]
      BY <1>12, <3>1
    <3>3. QED
      BY <1>7, <2>2, <3>2
  <2>3. QED
    BY <2>1, <2>2 DEF RunsIn
<1>14. \A n \in Nat : g[n] \in S
  BY <1>5, <1>6, <1>13, RunKeeps
<1>15. \E n \in 0 .. c : g[n] \notin go
  BY <1>4, <1>5, <1>6, <1>13, RunEnds
<1>16. \E n \in 0 .. c : ~Shifts(g[n], c)
  BY <1>8, <1>14, <1>15
<1>17. PICK n \in 0 .. c : n = (CHOOSE j \in 0 .. c : ~Shifts(g[j], c)) /\ ~Shifts(g[n], c)
  BY <1>16
<1>18. ShiftStop(b, s, c) = g[n] /\ g[n] \in S
  BY <1>11, <1>14, <1>17 DEF ShiftStop
<1>19. QED
  BY <1>1, <1>17, <1>18

(* The key of slot s is removed and the order is restored.                 *)
LEMMA CloseHoleIs ==
  ASSUME NEW b, NEW c, NEW m, Fit(b, c, m), Room(b, c), NEW s \in Occ(b, c),
         NEW t, t.buckets = b, t.cap = c
  PROVE  /\ Fit(CloseHole(t, s), c, m) /\ KeysAt(CloseHole(t, s), c) = KeysAt(b, c) \ {b[s].key}
         /\ Count(CloseHole(t, s), c) = Count(b, c) - 1
<1>1. PICK z \in Slots(c) : b[z].psl = 0
  BY DEF Room
<1>2. /\ c \in Nat \ {0} /\ b \in [Slots(c) -> Cells] /\ Ordered(b, c, NoHole)
      /\ DistinctIn(b, Occ(b, c)) /\ s \in Slots(c) /\ b[s].psl # 0 /\ m \in 0 .. c
  BY <1>1 DEF Fit, Slots, Occ
<1>3. PICK a : a = [b EXCEPT ![s] = Empty]
  OBVIOUS
<1>4. Ordered(a, c, s)
  BY <1>2, <1>3, RemoveKeepsOrder
<1>5. /\ a \in [Slots(c) -> Cells] /\ a[s] = Empty /\ \A u \in Slots(c) \ {s} : a[u] = b[u]
      /\ Occ(a, c) = Occ(b, c) \ {s}
  BY <1>2, <1>3 DEF Cells, Occ, Empty
<1>6. DistinctIn(a, Occ(a, c)) /\ KeysAt(a, c) = KeysAt(b, c) \ {b[s].key}
  <2>1. \A u \in Occ(a, c) : u \in Occ(b, c) /\ u # s /\ a[u] = b[u]
    BY <1>5 DEF Occ
  <2>2. DistinctIn(a, Occ(a, c))
    BY <1>2, <2>1 DEF DistinctIn
  <2>3. ASSUME NEW x \in KeysAt(a, c) PROVE x \in KeysAt(b, c) \ {b[s].key}
    BY <1>2, <2>1, <2>3 DEF KeysAt, DistinctIn
  <2>4. ASSUME NEW x \in KeysAt(b, c) \ {b[s].key} PROVE x \in KeysAt(a, c)
    <3>1. PICK u \in Occ(b, c) : x = b[u].key /\ u # s
      BY <2>4 DEF KeysAt
    <3>2. u \in Occ(a, c)
      BY <1>5, <3>1
    <3>3. QED
      BY <2>1, <3>1, <3>2 DEF KeysAt
  <2>5. KeysAt(a, c) = KeysAt(b, c) \ {b[s].key}
    BY <2>3, <2>4
  <2>6. QED
    BY <2>2, <2>5
<1>7. Count(a, c) = Count(b, c) - 1
  <2>1. IsFiniteSet(Occ(b, c)) /\ s \in Occ(b, c)
    BY <1>2, OccupiedFinite
  <2>2. Cardinality(Occ(b, c) \ {s}) = Cardinality(Occ(b, c)) - 1
    BY ONLY <2>1, FS_RemoveElement
  <2>3. QED
    BY <1>5, <2>2 DEF Count
<1>8. PICK K, q : K = KeysAt(a, c) /\ q = Count(a, c)
  OBVIOUS
<1>9. [b |-> b, at |-> s] \in Shifting(K, q, c, z)
  <2>1. Filling([b |-> b, at |-> s]) = a
    BY <1>3 DEF Filling
  <2>2. s # z
    BY <1>1, <1>2
  <2>3. QED
    BY <1>1, <1>2, <1>4, <1>6, <1>8, <2>1, <2>2 DEF Shifting
<1>10. PICK y : y = ShiftStop(b, s, c) /\ y \in Shifting(K, q, c, z) /\ ~Shifts(y, c)
  BY <1>2, <1>9, ShiftEnds
<1>11. PICK d, h : d = Filling(y) /\ h = y.at
  OBVIOUS
<1>12. /\ y.b \in [Slots(c) -> Cells] /\ h \in Slots(c) /\ h # z /\ y.b[z].psl = 0
       /\ Ordered(d, c, h) /\ DistinctIn(d, Occ(d, c)) /\ KeysAt(d, c) = K /\ Count(d, c) = q
  BY <1>10, <1>11 DEF Shifting
<1>13. PICK n \in Slots(c) : n = Succ(h, c) /\ n = IF h + 1 = c THEN 0 ELSE h + 1
  BY <1>2, <1>12, SuccIs
<1>14. n # h
  BY <1>12, <1>13 DEF Slots
<1>15. d \in [Slots(c) -> Cells] /\ d[h].psl = 0 /\ ~(d[n].psl > 1)
  BY <1>10, <1>11, <1>12, <1>13, <1>14 DEF Shifts, ShiftNext, Filling, Cells, Empty
<1>16. Ordered(d, c, NoHole)
  BY <1>2, <1>12, <1>13, <1>15, ShiftEndKeepsOrder
<1>17. CloseHole(t, s) = d
  BY <1>10, <1>11, CloseSteps
<1>18. QED
  BY <1>2, <1>6, <1>7, <1>8, <1>12, <1>15, <1>16, <1>17 DEF Fit

-----------------------------------------------------------------------------
(* set_iter and set_iter_rev.  The keys yielded are those of the slots     *)
(* gone through, from the one end or the other.                            *)

SlotOf(fwd, i, c) == IF fwd THEN i ELSE c - 1 - i
Gone(b, c, fwd, i) == {b[SlotOf(fwd, j, c)].key : j \in {u \in 0 .. i - 1 : b[SlotOf(fwd, u, c)].psl # 0}}
Yielding(b, c, fwd) == {y \in [i : 0 .. c, out : Seq(Keys)] : Range(y.out) = Gone(b, c, fwd, y.i)}

YieldTo(t, fwd, y) ==
  [i |-> y.i + 1,
   out |-> IF t.buckets[SlotOf(fwd, y.i, t.cap)].psl = 0 THEN y.out
           ELSE Append(y.out, t.buckets[SlotOf(fwd, y.i, t.cap)].key)]
YieldTurns(t, fwd) ==
  CHOOSE g : g = [n \in Nat |-> IF n = 0 THEN [i |-> 0, out |-> <<>>]
                                ELSE IF g[n - 1].i < t.cap THEN YieldTo(t, fwd, g[n - 1]) ELSE g[n - 1]]
YieldStop(t, fwd) == YieldTurns(t, fwd)[CHOOSE n \in 0 .. t.cap : ~(YieldTurns(t, fwd)[n].i < t.cap)]

LEMMA YieldSteps ==
  ASSUME NEW t, NEW fwd
  PROVE  IterYields(t, fwd) = YieldStop(t, fwd).out
BY DEF IterYields, While, YieldStop, YieldTurns, YieldTo, SlotOf

LEMMA RangeOfAppend ==
  ASSUME NEW S, NEW q \in Seq(S), NEW k \in S
  PROVE  Append(q, k) \in Seq(S) /\ Range(Append(q, k)) = Range(q) \cup {k}
<1>1. Append(q, k) \in Seq(S) /\ Len(Append(q, k)) = Len(q) + 1 /\ Len(q) \in Nat
      /\ \A i \in 1 .. Len(q) : Append(q, k)[i] = q[i]
  BY AppendProperties
<1>2. Append(q, k)[Len(q) + 1] = k
  BY AppendProperties
<1>3. DOMAIN q = 1 .. Len(q) /\ DOMAIN Append(q, k) = 1 .. Len(q) + 1
  BY <1>1, LenProperties
<1>4. ASSUME NEW x \in Range(Append(q, k)) PROVE x \in Range(q) \cup {k}
  <2>1. PICK i \in 1 .. Len(q) + 1 : x = Append(q, k)[i]
    BY <1>3, <1>4 DEF Range
  <2>2. i \in 1 .. Len(q) \/ i = Len(q) + 1
    BY <1>1
  <2>3. QED
    BY <1>1, <1>2, <1>3, <2>1, <2>2 DEF Range
<1>5. ASSUME NEW x \in Range(q) PROVE x \in Range(Append(q, k))
  <2>1. PICK i \in 1 .. Len(q) : x = q[i]
    BY <1>3, <1>5 DEF Range
  <2>2. i \in 1 .. Len(q) + 1
    BY <1>1
  <2>3. QED
    BY <1>1, <1>3, <2>1, <2>2 DEF Range
<1>6. k \in Range(Append(q, k))
  BY <1>1, <1>2, <1>3 DEF Range
<1>7. QED
  BY <1>1, <1>4, <1>5, <1>6

LEMMA YieldOn ==
  ASSUME NEW b, NEW c \in Nat, b \in [Slots(c) -> Cells], NEW t, t.buckets = b, t.cap = c,
         NEW fwd \in BOOLEAN, NEW y \in Yielding(b, c, fwd), y.i < c
  PROVE  YieldTo(t, fwd, y) \in Yielding(b, c, fwd) /\ YieldTo(t, fwd, y).i = y.i + 1
<1>1. PICK i, q, s : i = y.i /\ q = y.out /\ s = SlotOf(fwd, i, c)
  OBVIOUS
<1>2. /\ i \in 0 .. c - 1 /\ q \in Seq(Keys) /\ Range(q) = Gone(b, c, fwd, i)
      /\ s \in Slots(c) /\ i + 1 \in 0 .. c
  BY <1>1 DEF Yielding, Slots, SlotOf
<1>3. 0 .. (i + 1) - 1 = (0 .. i - 1) \cup {i}
  BY <1>2
<1>4. CASE b[s].psl = 0
  <2>1. {u \in 0 .. (i + 1) - 1 : b[SlotOf(fwd, u, c)].psl # 0}
        = {u \in 0 .. i - 1 : b[SlotOf(fwd, u, c)].psl # 0}
    BY <1>1, <1>3, <1>4
  <2>2. Gone(b, c, fwd, i + 1) = Gone(b, c, fwd, i)
    BY ONLY <2>1 DEF Gone
  <2>3. YieldTo(t, fwd, y) = [i |-> i + 1, out |-> q]
    BY <1>1, <1>4 DEF YieldTo
  <2>4. QED
    BY <1>1, <1>2, <2>2, <2>3 DEF Yielding
<1>5. CASE b[s].psl # 0
  <2>1. b[s].key \in Keys
    BY <1>2, <1>5, CellIs DEF Filled
  <2>2. PICK J, J2 : J = {u \in 0 .. i - 1 : b[SlotOf(fwd, u, c)].psl # 0}
                     /\ J2 = {u \in 0 .. (i + 1) - 1 : b[SlotOf(fwd, u, c)].psl # 0}
    OBVIOUS
  <2>3. J2 = J \cup {i}
    BY <1>1, <1>3, <1>5, <2>2
  <2>4. /\ Gone(b, c, fwd, i) = {b[SlotOf(fwd, j, c)].key : j \in J}
        /\ Gone(b, c, fwd, i + 1) = {b[SlotOf(fwd, j, c)].key : j \in J2}
    BY <2>2 DEF Gone
  <2>5. Gone(b, c, fwd, i + 1) = Gone(b, c, fwd, i) \cup {b[s].key}
    BY ONLY <1>1, <2>3, <2>4
  <2>6. Append(q, b[s].key) \in Seq(Keys) /\ Range(Append(q, b[s].key)) = Range(q) \cup {b[s].key}
    BY <1>2, <2>1, RangeOfAppend
  <2>7. YieldTo(t, fwd, y) = [i |-> i + 1, out |-> Append(q, b[s].key)]
    BY <1>1, <1>5 DEF YieldTo
  <2>8. Range(Append(q, b[s].key)) = Gone(b, c, fwd, i + 1)
    BY <1>2, <2>5, <2>6
  <2>9. PICK w : w = [i |-> i + 1, out |-> Append(q, b[s].key)]
    OBVIOUS
  <2>10. w \in [i : 0 .. c, out : Seq(Keys)] /\ w.i = i + 1 /\ Range(w.out) = Gone(b, c, fwd, w.i)
    BY <1>2, <2>6, <2>8, <2>9
  <2>11. QED
    BY <1>1, <2>7, <2>9, <2>10 DEF Yielding
<1>6. QED
  BY <1>4, <1>5

LEMMA YieldEnds ==
  ASSUME NEW b, NEW c \in Nat, b \in [Slots(c) -> Cells], NEW t, t.buckets = b, t.cap = c,
         NEW fwd \in BOOLEAN
  PROVE  YieldStop(t, fwd) \in Yielding(b, c, fwd) /\ YieldStop(t, fwd).i = c
<1> DEFINE x == [i |-> 0, out |-> <<>>]
           go == {y \in Yielding(b, c, fwd) : y.i < t.cap}
           nxt == [y \in go |-> YieldTo(t, fwd, y)]
           left == [y \in Yielding(b, c, fwd) |-> c - y.i]
<1>1. PICK S : S = Yielding(b, c, fwd)
  OBVIOUS
<1>2. \A y \in S : y.i \in 0 .. c
  BY <1>1 DEF Yielding
<1>3. \A y \in go : y \in S /\ nxt[y] \in S /\ y.i < c /\ nxt[y].i = y.i + 1
  BY <1>1, YieldOn
<1>4. x \in S
  <2>1. Gone(b, c, fwd, 0) = {}
    BY DEF Gone
  <2>2. <<>> \in Seq(Keys) /\ DOMAIN <<>> = {}
    BY EmptySeq
  <2>3. QED
    BY <1>1, <2>1, <2>2 DEF Yielding, Range
<1>5. left \in [S -> Nat] /\ \A y \in S \cap go : left[nxt[y]] < left[y]
  <2>1. left \in [S -> Nat]
    BY <1>1, <1>2
  <2>2. ASSUME NEW y \in S \cap go PROVE left[nxt[y]] < left[y]
    <3>1. nxt[y] \in S /\ y.i \in 0 .. c /\ nxt[y].i = y.i + 1
      BY <1>2, <1>3
    <3>2. left[nxt[y]] = c - nxt[y].i /\ left[y] = c - y.i
      BY <1>1, <3>1
    <3>3. QED
      BY <3>1, <3>2
  <2>3. QED
    BY <2>1, <2>2
<1>6. left[x] <= t.cap /\ t.cap \in Nat
  BY <1>1, <1>4
<1>7. Closed(S, S \cap go, nxt)
  BY <1>3 DEF Closed
<1>8. \A y \in S : OnceOf(go, nxt, y) = IF y.i < t.cap THEN YieldTo(t, fwd, y) ELSE y
  BY <1>1 DEF OnceOf
<1>9. \A y \in S : y \notin go => y.i = c
  BY <1>1, <1>2
<1>10. \A y \in S : y \notin go <=> ~(y.i < t.cap)
  BY <1>1
<1> HIDE DEF go, nxt, left
<1>11. PICK f \in [Nat -> S] : Runs(f, x, go, nxt)
  BY <1>4, <1>7, RunIn
<1>12. f = [n \in Nat |-> IF n = 0 THEN x
                          ELSE IF f[n - 1].i < t.cap THEN YieldTo(t, fwd, f[n - 1]) ELSE f[n - 1]]
  <2>1. ASSUME NEW n \in Nat
        PROVE  f[n] = IF n = 0 THEN x
                      ELSE IF f[n - 1].i < t.cap THEN YieldTo(t, fwd, f[n - 1]) ELSE f[n - 1]
    <3> HIDE DEF x
    <3>1. CASE n = 0
      BY <1>11, <3>1 DEF Runs
    <3>2. CASE n # 0
      <4>1. n - 1 \in Nat /\ (n - 1) + 1 = n /\ f[n - 1] \in S
        BY <3>2
      <4>2. f[(n - 1) + 1] = OnceOf(go, nxt, f[n - 1])
        BY <1>11, <4>1 DEF Runs
      <4>3. QED
        BY <1>8, <3>2, <4>1, <4>2
    <3>3. QED
      BY <3>1, <3>2
  <2>2. QED
    BY <2>1
<1>13. PICK g : g = YieldTurns(t, fwd)
  OBVIOUS
<1>14. g = [n \in Nat |-> IF n = 0 THEN x
                          ELSE IF g[n - 1].i < t.cap THEN YieldTo(t, fwd, g[n - 1]) ELSE g[n - 1]]
  BY <1>12, <1>13 DEF YieldTurns
<1> HIDE DEF x
<1>15. RunsIn(g, S, x, go, nxt)
  <2>1. g[0] = x
    BY <1>14
  <2>2. ASSUME NEW n \in Nat, g[n] \in S PROVE g[n + 1] = OnceOf(go, nxt, g[n])
    <3>1. n + 1 \in Nat /\ n + 1 # 0 /\ (n + 1) - 1 = n
      OBVIOUS
    <3>2. g[n + 1] = IF g[n].i < t.cap THEN YieldTo(t, fwd, g[n]) ELSE g[n]
      BY <1>14, <3>1
    <3>3. QED
      BY <1>8, <2>2, <3>2
  <2>3. QED
    BY <2>1, <2>2 DEF RunsIn
<1>16. \A n \in Nat : g[n] \in S
  BY <1>4, <1>7, <1>15, RunKeeps
<1>17. \E n \in 0 .. t.cap : g[n] \notin go
  BY <1>4, <1>5, <1>6, <1>7, <1>15, RunEnds
<1>18. \E n \in 0 .. t.cap : ~(g[n].i < t.cap)
  BY <1>6, <1>10, <1>16, <1>17
<1>19. PICK n \in 0 .. t.cap : n = (CHOOSE j \in 0 .. t.cap : ~(g[j].i < t.cap)) /\ ~(g[n].i < t.cap)
  BY <1>18
<1>20. YieldStop(t, fwd) = g[n] /\ g[n] \in S
  BY <1>6, <1>13, <1>16, <1>19 DEF YieldStop
<1>21. QED
  BY <1>1, <1>9, <1>10, <1>19, <1>20

(* Either iterator yields every key stored and no other.                   *)
LEMMA IterYieldsIs ==
  ASSUME NEW b, NEW c \in Nat, b \in [Slots(c) -> Cells], NEW t, t.buckets = b, t.cap = c,
         NEW fwd \in BOOLEAN
  PROVE  IterYields(t, fwd) \in Seq(Keys) /\ Range(IterYields(t, fwd)) = KeysAt(b, c)
<1>1. PICK y : y = YieldStop(t, fwd) /\ y \in Yielding(b, c, fwd) /\ y.i = c
  BY YieldEnds
<1>2. IterYields(t, fwd) = y.out /\ y.out \in Seq(Keys) /\ Range(y.out) = Gone(b, c, fwd, c)
  BY <1>1, YieldSteps DEF Yielding
<1>3. ASSUME NEW x \in Gone(b, c, fwd, c) PROVE x \in KeysAt(b, c)
  <2>1. PICK u \in 0 .. c - 1 : b[SlotOf(fwd, u, c)].psl # 0 /\ x = b[SlotOf(fwd, u, c)].key
    BY <1>3 DEF Gone
  <2>2. SlotOf(fwd, u, c) \in Occ(b, c)
    BY <2>1 DEF SlotOf, Occ, Slots
  <2>3. QED
    BY <2>1, <2>2 DEF KeysAt
<1>4. ASSUME NEW x \in KeysAt(b, c) PROVE x \in Gone(b, c, fwd, c)
  <2>1. PICK s \in Occ(b, c) : x = b[s].key
    BY <1>4 DEF KeysAt
  <2>2. PICK u : u \in 0 .. c - 1 /\ SlotOf(fwd, u, c) = s
    <3>1. s \in 0 .. c - 1 /\ c - 1 - s \in 0 .. c - 1 /\ c - 1 - (c - 1 - s) = s
      BY <2>1 DEF Occ, Slots
    <3>2. CASE fwd = TRUE
      BY <3>1, <3>2 DEF SlotOf
    <3>3. CASE fwd = FALSE
      BY <3>1, <3>3 DEF SlotOf
    <3>4. QED
      BY <3>2, <3>3
  <2>3. b[s].psl # 0
    BY <2>1 DEF Occ
  <2>4. QED
    BY <2>1, <2>2, <2>3 DEF Gone
<1>5. QED
  BY <1>2, <1>3, <1>4

-----------------------------------------------------------------------------
(* set_add.  A sound set is in order, counts its keys right and has an     *)
(* empty bucket whenever it has an array.                                  *)

Sound(t) ==
  /\ t = Table(t.buckets, t.cap, t.len, t.max_psl)
  /\ Fit(t.buckets, t.cap, t.max_psl) /\ t.len = Count(t.buckets, t.cap)
  /\ t.cap = 0 \/ (t.cap >= 4 /\ t.len < t.cap)
BlocksOf(t) == (IF t.cap = 0 THEN 0 ELSE 1) + t.len

LEMMA KeysInIs ==
  ASSUME NEW t
  PROVE  Occupied(t) = Occ(t.buckets, t.cap) /\ KeysIn(t) = KeysAt(t.buckets, t.cap)
BY DEF Occupied, KeysIn, Occ, KeysAt

LEMMA SoundIs ==
  ASSUME NEW t, Sound(t)
  PROVE  t.cap \in Nat /\ t.len \in 0 .. t.cap /\ t.max_psl \in 0 .. t.cap /\ BlocksOf(t) \in Nat
BY CountIs DEF Sound, Fit, BlocksOf

LEMMA BlankIs ==
  ASSUME NEW c \in Nat, c = 0 \/ c >= 4
  PROVE  /\ Sound(Blank(c)) /\ KeysIn(Blank(c)) = {} /\ Occupied(Blank(c)) = {}
         /\ Blank(c).cap = c /\ Blank(c).len = 0
<1>1. Blank(c) = Table(Blanks(c), c, 0, 0)
  BY DEF Blank, Blanks
<1>2. PICK t : t = Blank(c) /\ t.buckets = Blanks(c) /\ t.cap = c /\ t.len = 0 /\ t.max_psl = 0
               /\ t = Table(Blanks(c), c, 0, 0)
  BY <1>1, TableIs
<1>3. Blanks(c) \in [Slots(c) -> Cells] /\ Occ(Blanks(c), c) = {} /\ Count(Blanks(c), c) = 0
  BY NoneOccupied DEF Count
<1>4. Fit(Blanks(c), c, 0) /\ KeysAt(Blanks(c), c) = {}
  BY <1>3 DEF Fit, KeysAt, Ordered, DistinctIn
<1>5. Sound(t)
  BY <1>2, <1>3, <1>4 DEF Sound
<1>6. KeysIn(t) = {} /\ Occupied(t) = {}
  BY <1>2, <1>3, <1>4, KeysInIs
<1>7. QED
  BY <1>2, <1>5, <1>6

LEMMA WithArrayIs ==
  ASSUME NEW t, Sound(t)
  PROVE  /\ Sound(WithArray(t)) /\ WithArray(t).cap # 0 /\ KeysIn(WithArray(t)) = KeysIn(t)
         /\ BlocksOf(WithArray(t)) = BlocksOf(t) + ArrayGain(t)
<1>1. CASE t.cap = 0
  <2>1. /\ Sound(Blank(InitCap)) /\ KeysIn(Blank(InitCap)) = {}
        /\ Blank(InitCap).cap = InitCap /\ Blank(InitCap).len = 0 /\ InitCap >= 4 /\ InitCap \in Nat
    BY BlankIs, HashSetAssumption
  <2>2. WithArray(t) = Blank(InitCap) /\ ArrayGain(t) = 1
    BY <1>1 DEF WithArray, ArrayGain
  <2>3. t.len = 0 /\ Occ(t.buckets, t.cap) = {}
    BY <1>1, SoundIs DEF Occ, Slots
  <2>4. KeysIn(t) = {}
    BY <2>3, KeysInIs DEF KeysAt
  <2>5. BlocksOf(t) = 0 /\ BlocksOf(Blank(InitCap)) = 1
    BY <1>1, <2>1, <2>3 DEF BlocksOf
  <2>6. QED
    BY <2>1, <2>2, <2>4, <2>5
<1>2. CASE t.cap # 0
  BY <1>2, SoundIs DEF WithArray, ArrayGain
<1>3. QED
  BY <1>1, <1>2

(* What set_add inserts into has two empty buckets.                        *)
LEMMA RoomyIs ==
  ASSUME NEW t, Sound(t), t.cap # 0
  PROVE  /\ Sound(Roomy(t)) /\ Roomy(t).cap # 0 /\ Roomy(t).len + 1 < Roomy(t).cap
         /\ KeysIn(Roomy(t)) = KeysIn(t) /\ BlocksOf(Roomy(t)) = BlocksOf(t)
<1>1. PICK b, c, n, m : b = t.buckets /\ c = t.cap /\ n = t.len /\ m = t.max_psl
  OBVIOUS
<1>2. /\ t = Table(b, c, n, m) /\ Fit(b, c, m) /\ n = Count(b, c) /\ c >= 4 /\ n < c
      /\ c \in Nat \ {0} /\ n \in 0 .. c
  BY <1>1, SoundIs DEF Sound
<1>3. CASE Crowded(t)
  <2>1. PICK b2, m2 : /\ Resized(t) = Table(b2, c * 2, n, m2) /\ Fit(b2, c * 2, m2)
                      /\ KeysAt(b2, c * 2) = KeysAt(b, c) /\ Count(b2, c * 2) = Count(b, c)
    BY <1>2, ResizedIs
  <2>2. PICK u, d : u = Table(b2, d, n, m2) /\ d = c * 2
    OBVIOUS
  <2>3. u.buckets = b2 /\ u.cap = d /\ u.len = n /\ u.max_psl = m2
    BY <2>2, TableIs
  <2>4. d >= 4 /\ d # 0 /\ n < d /\ n + 1 < d
    BY <1>2, <2>2
  <2>5. Sound(u)
    BY <1>2, <2>1, <2>2, <2>3, <2>4 DEF Sound
  <2>6. KeysIn(u) = KeysIn(t)
    BY <1>1, <2>1, <2>2, <2>3, KeysInIs
  <2>7. BlocksOf(u) = BlocksOf(t)
    BY <1>1, <1>2, <2>3, <2>4 DEF BlocksOf
  <2>8. Roomy(t) = u
    BY <1>3, <2>1, <2>2 DEF Roomy
  <2>9. QED
    BY <2>3, <2>4, <2>5, <2>6, <2>7, <2>8
<1>4. CASE ~Crowded(t)
  <2>1. Roomy(t) = t
    BY <1>4 DEF Roomy
  <2>2. ~(n * 4 >= c * 3)
    BY <1>1, <1>4 DEF Crowded
  <2>3. n + 1 < c
    BY <1>2, <2>2
  <2>4. QED
    BY <1>1, <2>1, <2>3
<1>5. QED
  BY <1>3, <1>4

(* What an add comes to.                                                   *)
AddIs(t, k, o) ==
  /\ Sound(o.table) /\ o.gain \in Nat /\ BlocksOf(o.table) = BlocksOf(t) + o.gain
  /\ \/ o.ret = "OOM" /\ KeysIn(o.table) = KeysIn(t)
     \/ o.ret = "DUPLICATE" /\ k \in KeysIn(t) /\ KeysIn(o.table) = KeysIn(t)
     \/ o.ret = "OK" /\ k \notin KeysIn(t) /\ KeysIn(o.table) = KeysIn(t) \cup {k}

LEMMA OutcomeIs ==
  ASSUME NEW t, NEW r, NEW g
  PROVE  Outcome(t, r, g).table = t /\ Outcome(t, r, g).ret = r /\ Outcome(t, r, g).gain = g
BY DEF Outcome

LEMMA InsertedIs ==
  ASSUME NEW t, Sound(t), t.cap # 0, t.len + 1 < t.cap, NEW k \in Keys, NEW g \in Nat,
         NEW t0, BlocksOf(t) = BlocksOf(t0) + g, KeysIn(t) = KeysIn(t0), BlocksOf(t0) \in Nat
  PROVE  AddIs(t0, k, Inserted(t, k, g))
<1>1. PICK b, c, n, m : b = t.buckets /\ c = t.cap /\ n = t.len /\ m = t.max_psl
  OBVIOUS
<1>2. /\ t = Table(b, c, n, m) /\ Fit(b, c, m) /\ n = Count(b, c) /\ c >= 4 /\ n + 1 < c
      /\ c \in Nat \ {0} /\ n \in 0 .. c
  BY <1>1, SoundIs DEF Sound
<1>3. Room(b, c)
  <2>1. Cardinality(Occ(b, c)) < c
    BY <1>2 DEF Count
  <2>2. QED
    BY <1>2, <2>1, OneIsEmpty DEF Room
<1>4. KeysAt(b, c) = KeysIn(t)
  BY <1>1, KeysInIs
<1>5. CASE /\ k \in KeysAt(b, c)
           /\ InsertRaw(Table(b, c, n, m), k) = [dup |-> TRUE, table |-> Table(b, c, n, m)]
  <2>1. Inserted(t, k, g) = Outcome(t, "DUPLICATE", g)
    BY <1>2, <1>5 DEF Inserted, DupFreed
  <2>2. QED
    BY <1>4, <1>5, <2>1, OutcomeIs DEF AddIs
<1>6. CASE /\ k \notin KeysAt(b, c)
           /\ \E b2, m2 :
                /\ InsertRaw(Table(b, c, n, m), k) = [dup |-> FALSE, table |-> Table(b2, c, n, m2)]
                /\ Fit(b2, c, m2) /\ KeysAt(b2, c) = KeysAt(b, c) \cup {k}
                /\ Count(b2, c) = Count(b, c) + 1
  <2>1. PICK b2, m2 :
          /\ InsertRaw(Table(b, c, n, m), k) = [dup |-> FALSE, table |-> Table(b2, c, n, m2)]
          /\ Fit(b2, c, m2) /\ KeysAt(b2, c) = KeysAt(b, c) \cup {k}
          /\ Count(b2, c) = Count(b, c) + 1
    BY <1>6
  <2>2. PICK u : u = Table(b2, c, n, m2)
    OBVIOUS
  <2>3. PICK v : v = Table(b2, c, n + 1, m2)
    OBVIOUS
  <2>4. InsertRaw(t, k) = [dup |-> FALSE, table |-> u]
    BY <1>2, <2>1, <2>2
  <2>5. u.buckets = b2 /\ u.cap = c /\ u.len = n /\ u.max_psl = m2
    BY <2>2, TableIs
  <2>6. Inserted(t, k, g) = Outcome(v, "OK", g + 1)
    BY <2>3, <2>4, <2>5 DEF Inserted
  <2>7. v.buckets = b2 /\ v.cap = c /\ v.len = n + 1 /\ v.max_psl = m2
    BY <2>3, TableIs
  <2>8. Sound(v)
    BY <1>2, <2>1, <2>3, <2>7 DEF Sound
  <2>9. KeysIn(v) = KeysIn(t0) \cup {k}
    BY <1>4, <2>1, <2>7, KeysInIs
  <2>10. BlocksOf(v) = BlocksOf(t0) + (g + 1)
    <3>1. BlocksOf(t) = 1 + n /\ BlocksOf(v) = 1 + (n + 1)
      BY <1>1, <1>2, <2>7 DEF BlocksOf
    <3>2. n \in Nat /\ BlocksOf(t0) \in Nat /\ g \in Nat /\ BlocksOf(t) = BlocksOf(t0) + g
      BY <1>2
    <3>3. QED
      BY ONLY <3>1, <3>2
  <2>11. QED
    BY <1>4, <1>6, <2>6, <2>8, <2>9, <2>10, OutcomeIs DEF AddIs
<1>7. QED
  BY <1>2, <1>3, <1>5, <1>6, InsertIs

LEMMA AddOutcomesIs ==
  ASSUME NEW t, Sound(t), NEW k \in Keys, NEW o \in AddOutcomes(t, k)
  PROVE  AddIs(t, k, o)
<1>1. BlocksOf(t) \in Nat /\ ArrayGain(t) \in Nat
  BY SoundIs DEF ArrayGain
<1>2. CASE o = Outcome(t, "OOM", 0)
  BY <1>1, <1>2, OutcomeIs DEF AddIs
<1>3. CASE o = Outcome(WithArray(t), "OOM", ArrayGain(t))
  BY <1>1, <1>3, WithArrayIs, OutcomeIs DEF AddIs
<1>4. /\ Sound(Roomy(WithArray(t))) /\ Roomy(WithArray(t)).cap # 0
      /\ Roomy(WithArray(t)).len + 1 < Roomy(WithArray(t)).cap
      /\ KeysIn(Roomy(WithArray(t))) = KeysIn(t)
      /\ BlocksOf(Roomy(WithArray(t))) = BlocksOf(t) + ArrayGain(t)
  BY WithArrayIs, RoomyIs
<1>5. CASE o = Outcome(Roomy(WithArray(t)), "OOM", ArrayGain(t))
  BY <1>1, <1>4, <1>5, OutcomeIs DEF AddIs
<1>6. CASE o = Inserted(Roomy(WithArray(t)), k, ArrayGain(t))
  BY <1>1, <1>4, <1>6, InsertedIs
<1>7. QED
  BY <1>2, <1>3, <1>5, <1>6 DEF AddOutcomes

-----------------------------------------------------------------------------
(* The inductive invariant.                                                *)

(* Every set is sound, and one that does not live is empty.                *)
AllSound ==
  /\ sets = [n \in Names |-> sets[n]] /\ alive \subseteq Names
  /\ \A n \in Names : Sound(sets[n]) /\ (n \notin alive => sets[n] = Blank(0))

(* In the algebra: what is wanted of a key that the other operand has or   *)
(* has not, whether it is in a bucket the walk has yet to come to, and so  *)
(* what is to be added.                                                    *)
Ops == {"union", "intersection", "difference"}
Picks(S, c, k) == \/ c.op = "union"
                  \/ c.op = "intersection" /\ k \in KeysIn(S[c.other])
                  \/ c.op = "difference" /\ k \notin KeysIn(S[c.other])
AheadIn(S, srcs, i, k) ==
  \E j \in 1 .. Len(srcs) : \E s \in Occupied(S[srcs[j]]) :
     (j = 1 => s >= i) /\ S[srcs[j]].buckets[s].key = k
Due(S, c, k) ==
  \/ k \in KeysIn(S[c.dest])
  \/ AheadIn(S, c.srcs, c.i, k) /\ Picks(S, c, k)
Calls(A) == [op : Ops, dest : A, srcs : Seq(A), other : A \cup {Nil}, i : Nat,
             keys : SUBSET Keys, want : SUBSET Keys]

AlgebraOK ==
  /\ call \in Calls(alive) /\ (call.op # "union" => call.other \in alive) /\ feed = <<>>
  /\ \A k \in Keys : k \in call.want <=> Due(sets, call, k)

(* In an extend: the destination and what is left to yield are what is     *)
(* wanted, and at first what is to be yielded are the keys asked for.      *)
ExtendOK ==
  /\ feed \in Seq(Keys) /\ call.dest \in alive
  /\ pc = "extend" => call.keys = Range(feed)
  /\ call.want = Stored(call.dest) \cup Range(feed)

CallOK ==
  \/ pc = "idle" /\ call = NoCall /\ feed = <<>>
  \/ pc = "algebra" /\ AlgebraOK
  \/ pc \in {"extend", "feeding"} /\ ExtendOK

Statuses == {"none", "OK", "OOM", "INVALID", "DUPLICATE", "NOT_FOUND", "yes", "no", Nil}

(* The blocks of the sets that live.                                       *)
Owned(t, n) ==
  {<<"struct", n, 0>>} \cup (IF t.cap = 0 THEN {} ELSE {<<"array", n, 0>>})
                       \cup {<<"key", n, s>> : s \in Occupied(t)}
AllOwned(S, A) == UNION {IF n \notin A THEN {} ELSE Owned(S[n], n) : n \in Names}
BlocksOK ==
  /\ IsFiniteSet(AllOwned(sets, alive))
  /\ blocks = Cardinality(AllOwned(sets, alive)) + ExtendBlocks

Inv == AllSound /\ CallOK /\ ret \in Statuses /\ BlocksOK

-----------------------------------------------------------------------------
(* Counting the blocks of the sets.                                        *)

(* As many things as slots, if each slot has its own.                      *)
LEMMA AsMany ==
  ASSUME NEW S, IsFiniteSet(S), NEW T, NEW f \in [S -> T],
         \A x, y \in S : f[x] = f[y] => x = y, \A z \in T : \E x \in S : f[x] = z
  PROVE  IsFiniteSet(T) /\ Cardinality(T) = Cardinality(S)
<1>1. f \in Bijection(S, T)
  BY DEF Bijection, Injection, Surjection, IsInjective
<1>2. ExistsBijection(S, T)
  BY <1>1 DEF ExistsBijection
<1>3. QED
  BY <1>2, FS_Bijection

LEMMA OwnedIs ==
  ASSUME NEW t, Sound(t), NEW n
  PROVE  /\ IsFiniteSet(Owned(t, n)) /\ Cardinality(Owned(t, n)) = 1 + BlocksOf(t)
         /\ \A x \in Owned(t, n) : x[2] = n
<1> DEFINE K == {<<"key", n, s>> : s \in Occupied(t)}
           f == [s \in Occupied(t) |-> <<"key", n, s>>]
           A == <<"array", n, 0>>
           B == <<"struct", n, 0>>
<1>1. IsFiniteSet(Occupied(t)) /\ Cardinality(Occupied(t)) = t.len /\ t.len \in Nat
  BY KeysInIs, OccupiedFinite, SoundIs DEF Sound, Count
<1>2. /\ f \in [Occupied(t) -> K] /\ \A x, y \in Occupied(t) : f[x] = f[y] => x = y
      /\ \A z \in K : \E x \in Occupied(t) : f[x] = z
  OBVIOUS
<1>3. A \notin K /\ B \notin K /\ B # A
  OBVIOUS
<1>4. \A x \in K \cup {A, B} : x[2] = n
  OBVIOUS
<1> HIDE DEF K, f, A, B
<1>5. IsFiniteSet(K) /\ Cardinality(K) = t.len
  BY <1>1, <1>2, AsMany
<1>6. CASE t.cap = 0
  <2>1. Owned(t, n) = K \cup {B}
    BY <1>6 DEF Owned, K, B
  <2>2. IsFiniteSet(K \cup {B}) /\ Cardinality(K \cup {B}) = t.len + 1
    BY <1>3, <1>5, FS_AddElement
  <2>3. QED
    BY <1>1, <1>4, <1>6, <2>1, <2>2 DEF BlocksOf
<1>7. CASE t.cap # 0
  <2>1. Owned(t, n) = (K \cup {A}) \cup {B}
    BY <1>7 DEF Owned, K, A, B
  <2>2. IsFiniteSet(K \cup {A}) /\ Cardinality(K \cup {A}) = t.len + 1 /\ B \notin K \cup {A}
    BY <1>3, <1>5, FS_AddElement
  <2>3. IsFiniteSet((K \cup {A}) \cup {B}) /\ Cardinality((K \cup {A}) \cup {B}) = (t.len + 1) + 1
    BY <2>2, FS_AddElement
  <2>4. QED
    BY <1>1, <1>4, <1>7, <2>1, <2>3 DEF BlocksOf
<1>8. QED
  BY <1>6, <1>7

(* What set n owns is owned by no other: a change of n alone changes the   *)
(* count by the difference.                                                *)
OwnedBy(S, A, n) == IF n \notin A THEN {} ELSE Owned(S[n], n)

LEMMA OwnedByIs ==
  ASSUME NEW S, NEW A, NEW n, Sound(S[n])
  PROVE  /\ IsFiniteSet(OwnedBy(S, A, n))
         /\ Cardinality(OwnedBy(S, A, n)) = IF n \in A THEN 1 + BlocksOf(S[n]) ELSE 0
         /\ \A x \in OwnedBy(S, A, n) : x[2] = n
BY OwnedIs, FS_EmptySet DEF OwnedBy

OneDiffers(S, A, S2, A2, n) ==
  /\ \A m \in Names : Sound(S[m]) /\ Sound(S2[m])
  /\ \A m \in Names \ {n} : S2[m] = S[m] /\ (m \in A2 <=> m \in A)

LEMMA OneChanges ==
  ASSUME NEW S, NEW A, NEW S2, NEW A2, NEW n \in Names, OneDiffers(S, A, S2, A2, n),
         IsFiniteSet(AllOwned(S, A))
  PROVE  /\ IsFiniteSet(AllOwned(S2, A2))
         /\ Cardinality(AllOwned(S, A)) \in Nat
         /\ Cardinality(AllOwned(S2, A2))
            = Cardinality(AllOwned(S, A)) - Cardinality(OwnedBy(S, A, n)) + Cardinality(OwnedBy(S2, A2, n))
<1> DEFINE P == OwnedBy(S, A, n)
           Q == OwnedBy(S2, A2, n)
           all == AllOwned(S, A)
           rest == all \ P
<1>1. all = UNION {OwnedBy(S, A, m) : m \in Names} /\ AllOwned(S2, A2) = UNION {OwnedBy(S2, A2, m) : m \in Names}
  BY DEF AllOwned, OwnedBy
<1>2. \A m \in Names \ {n} : OwnedBy(S2, A2, m) = OwnedBy(S, A, m)
  BY DEF OwnedBy, OneDiffers
<1>3. \A m \in Names : \A x \in OwnedBy(S, A, m) : x[2] = m
  BY OwnedByIs DEF OneDiffers
<1>4. (\A x \in P : x[2] = n) /\ (\A x \in Q : x[2] = n) /\ IsFiniteSet(Q) /\ P \subseteq all
  BY <1>1, OwnedByIs DEF OneDiffers
<1>5. \A x \in rest : x[2] # n
  <2>1. SUFFICES ASSUME NEW x \in rest PROVE x[2] # n
    OBVIOUS
  <2>2. PICK m \in Names : x \in OwnedBy(S, A, m)
    BY <1>1
  <2>3. m # n
    BY <2>2
  <2>4. QED
    BY <1>3, <2>2, <2>3
<1>6. AllOwned(S2, A2) = rest \cup Q
  <2>1. ASSUME NEW x \in AllOwned(S2, A2) PROVE x \in rest \cup Q
    <3>1. PICK m \in Names : x \in OwnedBy(S2, A2, m)
      BY <1>1
    <3>2. CASE m = n
      BY <3>1, <3>2
    <3>3. CASE m # n
      <4>1. x \in OwnedBy(S, A, m)
        BY <1>2, <3>1, <3>3
      <4>2. x \in all /\ x[2] = m
        BY <1>1, <1>3, <4>1
      <4>3. QED
        BY <1>4, <3>3, <4>2
    <3>4. QED
      BY <3>2, <3>3
  <2>2. ASSUME NEW x \in rest PROVE x \in AllOwned(S2, A2)
    <3>1. PICK m \in Names : x \in OwnedBy(S, A, m)
      BY <1>1
    <3>2. m # n
      BY <3>1
    <3>3. QED
      BY <1>1, <1>2, <3>1, <3>2
  <2>3. Q \subseteq AllOwned(S2, A2)
    BY <1>1
  <2>4. QED
    BY <2>1, <2>2, <2>3
<1> HIDE DEF P, Q, all
<1>7. rest \cap Q = {} /\ all \cap P = P
  BY <1>4, <1>5
<1>8. IsFiniteSet(all) /\ IsFiniteSet(P)
  BY <1>4, FS_Subset DEF all
<1>9. IsFiniteSet(rest) /\ Cardinality(rest) = Cardinality(all) - Cardinality(P)
  BY <1>7, <1>8, FS_Difference
<1>10. IsFiniteSet(rest \cup Q) /\ Cardinality(rest \cup Q) = Cardinality(rest) + Cardinality(Q) - Cardinality({})
  BY <1>4, <1>7, <1>9, FS_Union
<1>11. Cardinality({}) = 0 /\ Cardinality(all) \in Nat /\ Cardinality(P) \in Nat /\ Cardinality(Q) \in Nat
  BY <1>4, <1>8, FS_EmptySet, FS_CardinalityType
<1>12. QED
  BY <1>6, <1>9, <1>10, <1>11 DEF P, Q, all

-----------------------------------------------------------------------------
(* The steps that change the sets.                                         *)

Owns == Cardinality(AllOwned(sets, alive))
Owning == IsFiniteSet(AllOwned(sets, alive))

(* One set is given another sound table.                                   *)
LEMMA SetChanged ==
  ASSUME AllSound, Owning, NEW n \in alive, NEW t, Sound(t),
         sets' = [sets EXCEPT ![n] = t], alive' = alive
  PROVE  /\ AllSound' /\ Owning' /\ Owns' = Owns + BlocksOf(t) - BlocksOf(sets[n]) /\ Owns \in Nat
         /\ n \in Names /\ sets'[n] = t /\ \A m \in Names \ {n} : sets'[m] = sets[m]
         /\ Sound(sets[n]) /\ BlocksOf(t) \in Nat /\ BlocksOf(sets[n]) \in Nat
<1>1. /\ n \in Names /\ sets = [m \in Names |-> sets[m]] /\ alive \subseteq Names
      /\ \A m \in Names : Sound(sets[m]) /\ (m \notin alive => sets[m] = Blank(0))
  BY DEF AllSound
<1>2. sets'[n] = t /\ (\A m \in Names \ {n} : sets'[m] = sets[m]) /\ sets' = [m \in Names |-> sets'[m]]
  BY <1>1
<1>3. \A m \in Names : Sound(sets[m]) /\ Sound(sets'[m])
  BY <1>1, <1>2
<1>4. AllSound'
  BY <1>1, <1>2, <1>3 DEF AllSound
<1>5. PICK S, A, S2 : S = sets /\ A = alive /\ S2 = sets'
  OBVIOUS
<1>6. n \in Names /\ OneDiffers(S, A, S2, A, n) /\ IsFiniteSet(AllOwned(S, A))
      /\ Sound(S[n]) /\ Sound(S2[n]) /\ n \in A
  BY <1>1, <1>2, <1>3, <1>5 DEF Owning, OneDiffers
<1>7. /\ IsFiniteSet(AllOwned(S2, A))
      /\ Cardinality(AllOwned(S, A)) \in Nat
      /\ Cardinality(AllOwned(S2, A))
         = Cardinality(AllOwned(S, A)) - Cardinality(OwnedBy(S, A, n)) + Cardinality(OwnedBy(S2, A, n))
  BY ONLY <1>6, OneChanges
<1>8. /\ Cardinality(OwnedBy(S, A, n)) = 1 + BlocksOf(S[n])
      /\ Cardinality(OwnedBy(S2, A, n)) = 1 + BlocksOf(S2[n])
  BY ONLY <1>6, OwnedByIs
<1>9. BlocksOf(S[n]) \in Nat /\ BlocksOf(S2[n]) \in Nat
  BY <1>6, SoundIs
<1>10. Owning' /\ Owns' = Cardinality(AllOwned(S2, A)) /\ Owns = Cardinality(AllOwned(S, A))
  BY <1>5, <1>7 DEF Owning, Owns
<1>11. QED
  BY <1>1, <1>2, <1>3, <1>4, <1>5, <1>7, <1>8, <1>9, <1>10

LEMMA SetsKept ==
  ASSUME AllSound, Owning, sets' = sets, alive' = alive
  PROVE  AllSound' /\ Owning' /\ Owns' = Owns
BY DEF AllSound, Owning, Owns

LEMMA SetCreated ==
  ASSUME AllSound, Owning, NEW n \in Names, n \notin alive, sets' = sets, alive' = alive \cup {n}
  PROVE  AllSound' /\ Owning' /\ Owns' = Owns + 1 /\ Owns \in Nat
<1>1. /\ sets = [m \in Names |-> sets[m]] /\ alive \subseteq Names /\ sets[n] = Blank(0)
      /\ \A m \in Names : Sound(sets[m]) /\ (m \notin alive => sets[m] = Blank(0))
  BY DEF AllSound
<1>2. AllSound'
  BY <1>1 DEF AllSound
<1>3. PICK S, A, A2 : S = sets /\ A = alive /\ A2 = alive'
  OBVIOUS
<1>4. n \in Names /\ OneDiffers(S, A, S, A2, n) /\ IsFiniteSet(AllOwned(S, A))
      /\ Sound(S[n]) /\ n \notin A /\ n \in A2
  BY <1>1, <1>3 DEF Owning, OneDiffers
<1>5. /\ IsFiniteSet(AllOwned(S, A2))
      /\ Cardinality(AllOwned(S, A)) \in Nat
      /\ Cardinality(AllOwned(S, A2))
         = Cardinality(AllOwned(S, A)) - Cardinality(OwnedBy(S, A, n)) + Cardinality(OwnedBy(S, A2, n))
  BY ONLY <1>4, OneChanges
<1>6. Cardinality(OwnedBy(S, A, n)) = 0 /\ Cardinality(OwnedBy(S, A2, n)) = 1 + BlocksOf(S[n])
  BY ONLY <1>4, OwnedByIs
<1>7. BlocksOf(S[n]) = 0
  BY <1>1, <1>3, BlankIs DEF BlocksOf
<1>8. Owning' /\ Owns' = Cardinality(AllOwned(S, A2)) /\ Owns = Cardinality(AllOwned(S, A))
  BY <1>3, <1>5 DEF Owning, Owns
<1>9. QED
  BY <1>2, <1>5, <1>6, <1>7, <1>8

LEMMA SetDestroyed ==
  ASSUME AllSound, Owning, NEW n \in alive, alive' = alive \ {n},
         sets' = [sets EXCEPT ![n] = Blank(0)]
  PROVE  /\ AllSound' /\ Owning' /\ Owns' = Owns - 1 - BlocksOf(sets[n]) /\ Owns \in Nat
         /\ BlocksOf(sets[n]) \in Nat
<1>1. /\ n \in Names /\ sets = [m \in Names |-> sets[m]] /\ alive \subseteq Names
      /\ \A m \in Names : Sound(sets[m]) /\ (m \notin alive => sets[m] = Blank(0))
  BY DEF AllSound
<1>2. /\ sets'[n] = Blank(0) /\ (\A m \in Names \ {n} : sets'[m] = sets[m])
      /\ sets' = [m \in Names |-> sets'[m]] /\ Sound(Blank(0))
  BY <1>1, BlankIs
<1>3. \A m \in Names : Sound(sets[m]) /\ Sound(sets'[m]) /\ (m \notin alive' => sets'[m] = Blank(0))
  BY <1>1, <1>2
<1>4. AllSound'
  BY <1>1, <1>2, <1>3 DEF AllSound
<1>5. PICK S, A, S2, A2 : S = sets /\ A = alive /\ S2 = sets' /\ A2 = alive'
  OBVIOUS
<1>6. n \in Names /\ OneDiffers(S, A, S2, A2, n) /\ IsFiniteSet(AllOwned(S, A))
      /\ Sound(S[n]) /\ Sound(S2[n]) /\ n \in A /\ n \notin A2
  BY <1>1, <1>2, <1>3, <1>5 DEF Owning, OneDiffers
<1>7. /\ IsFiniteSet(AllOwned(S2, A2))
      /\ Cardinality(AllOwned(S, A)) \in Nat
      /\ Cardinality(AllOwned(S2, A2))
         = Cardinality(AllOwned(S, A)) - Cardinality(OwnedBy(S, A, n)) + Cardinality(OwnedBy(S2, A2, n))
  BY ONLY <1>6, OneChanges
<1>8. Cardinality(OwnedBy(S, A, n)) = 1 + BlocksOf(S[n]) /\ Cardinality(OwnedBy(S2, A2, n)) = 0
  BY ONLY <1>6, OwnedByIs
<1>9. BlocksOf(S[n]) \in Nat
  BY <1>6, SoundIs
<1>10. Owning' /\ Owns' = Cardinality(AllOwned(S2, A2)) /\ Owns = Cardinality(AllOwned(S, A))
  BY <1>5, <1>7 DEF Owning, Owns
<1>11. QED
  BY <1>4, <1>5, <1>7, <1>8, <1>9, <1>10

-----------------------------------------------------------------------------
(* The walk of the algebra: what is due stays due, bucket by bucket.       *)

AheadAt(S, c, j, s, k) ==
  /\ j \in 1 .. Len(c.srcs) /\ s \in Occupied(S[c.srcs[j]])
  /\ (j = 1 => s >= c.i) /\ S[c.srcs[j]].buckets[s].key = k

LEMMA AheadIs ==
  ASSUME NEW S, NEW c, NEW k
  PROVE  AheadIn(S, c.srcs, c.i, k) <=> \E j, s : AheadAt(S, c, j, s, k)
BY DEF AheadIn, AheadAt

LEMMA CallIs ==
  ASSUME NEW c \in Calls(alive), alive \subseteq Names
  PROVE  /\ c \in Calls(Names) /\ c.op \in Ops /\ c.dest \in Names /\ c.i \in Nat
         /\ c.srcs \in Seq(Names) /\ Len(c.srcs) \in Nat /\ c.want \subseteq Keys
         /\ \A j \in 1 .. Len(c.srcs) : c.srcs[j] \in alive
         /\ c.srcs # <<>> => Len(c.srcs) >= 1 /\ Head(c.srcs) = c.srcs[1] /\ Tail(c.srcs) \in Seq(alive)
                             /\ Len(Tail(c.srcs)) = Len(c.srcs) - 1
                             /\ \A j \in 1 .. Len(c.srcs) - 1 : Tail(c.srcs)[j] = c.srcs[j + 1]
         /\ c.srcs = <<>> => Len(c.srcs) = 0
<1>1. c.op \in Ops /\ c.dest \in Names /\ c.i \in Nat /\ c.srcs \in Seq(alive) /\ c.want \subseteq Keys
  BY DEF Calls
<1>2. PICK q : q = c.srcs /\ q \in Seq(alive)
  BY <1>1
<1>3. q \in Seq(Names) /\ Len(q) \in Nat /\ \A j \in 1 .. Len(q) : q[j] \in alive
  BY <1>2
<1>4. q # <<>> => Len(q) >= 1 /\ Head(q) = q[1] /\ Tail(q) \in Seq(alive) /\ Len(Tail(q)) = Len(q) - 1
                  /\ \A j \in 1 .. Len(q) - 1 : Tail(q)[j] = q[j + 1]
  BY <1>2
<1>5. q = <<>> => Len(q) = 0
  BY <1>2
<1>6. c \in Calls(Names)
  BY <1>2, <1>3 DEF Calls
<1>7. QED
  BY <1>1, <1>2, <1>3, <1>4, <1>5, <1>6

(* A key picked at bucket i is added to dest.                              *)
PicksUp(S, S2, c, c2, k) ==
  /\ c2.op = c.op /\ c2.dest = c.dest /\ c2.srcs = c.srcs /\ c2.other = c.other /\ c2.i = c.i + 1
  /\ c.i \in Nat /\ Len(c.srcs) \in Nat /\ Len(c.srcs) >= 1 /\ c.dest \in Names
  /\ \A j \in 1 .. Len(c.srcs) : c.srcs[j] \in Names
  /\ c.op # "union" => c.other \in Names
  /\ c.i \in Occupied(S[c.srcs[1]]) /\ S[c.srcs[1]].buckets[c.i].key = k /\ Picks(S, c, k)
  /\ \A m \in Names \ {c.dest} : S2[m] = S[m]
  /\ KeysIn(S2[c.dest]) = KeysIn(S[c.dest]) \cup {k}

LEMMA DueAdded ==
  ASSUME NEW S, NEW S2, NEW c, NEW c2, NEW k, NEW x, PicksUp(S, S2, c, c2, k)
  PROVE  (Due(S2, c2, x) <=> Due(S, c, x)) /\ Due(S, c, k)
<1> /\ c2.op = c.op /\ c2.dest = c.dest /\ c2.srcs = c.srcs /\ c2.other = c.other /\ c2.i = c.i + 1
    /\ c.i \in Nat /\ Len(c.srcs) \in Nat /\ Len(c.srcs) >= 1 /\ c.dest \in Names
    /\ \A j \in 1 .. Len(c.srcs) : c.srcs[j] \in Names
    /\ c.op # "union" => c.other \in Names
    /\ c.i \in Occupied(S[c.srcs[1]]) /\ S[c.srcs[1]].buckets[c.i].key = k /\ Picks(S, c, k)
    /\ \A m \in Names \ {c.dest} : S2[m] = S[m]
    /\ KeysIn(S2[c.dest]) = KeysIn(S[c.dest]) \cup {k}
  BY DEF PicksUp
<1>1. AheadAt(S, c, 1, c.i, k)
  BY DEF AheadAt
<1>2. Due(S, c, k)
  BY <1>1, AheadIs DEF Due
<1>3. ASSUME x \notin KeysIn(S2[c.dest]) PROVE Picks(S2, c2, x) <=> Picks(S, c, x)
  <2>1. CASE c.other = c.dest
    BY <1>3, <2>1 DEF Picks
  <2>2. CASE c.other # c.dest
    BY <2>2 DEF Picks
  <2>3. QED
    BY <2>1, <2>2
<1>4. ASSUME x \notin KeysIn(S2[c.dest]), NEW j, NEW s, AheadAt(S2, c2, j, s, x)
      PROVE  AheadAt(S, c, j, s, x)
  <2>1. /\ j \in 1 .. Len(c.srcs) /\ s \in Occupied(S2[c.srcs[j]])
        /\ (j = 1 => s >= c.i + 1) /\ S2[c.srcs[j]].buckets[s].key = x
    BY <1>4 DEF AheadAt
  <2>2. c.srcs[j] # c.dest
    BY <1>4, <2>1 DEF KeysIn
  <2>3. S2[c.srcs[j]] = S[c.srcs[j]]
    BY <2>1, <2>2
  <2>4. s \in Int
    BY <2>1 DEF Occupied, Slots
  <2>5. QED
    BY <2>1, <2>3, <2>4 DEF AheadAt
<1>5. ASSUME x \notin KeysIn(S2[c.dest]), NEW j, NEW s, AheadAt(S, c, j, s, x)
      PROVE  AheadAt(S2, c2, j, s, x)
  <2>1. /\ j \in 1 .. Len(c.srcs) /\ s \in Occupied(S[c.srcs[j]])
        /\ (j = 1 => s >= c.i) /\ S[c.srcs[j]].buckets[s].key = x
    BY <1>5 DEF AheadAt
  <2>2. c.srcs[j] # c.dest /\ x # k
    BY <1>5, <2>1 DEF KeysIn
  <2>3. S2[c.srcs[j]] = S[c.srcs[j]]
    BY <2>1, <2>2
  <2>4. s \in Int /\ (j = 1 => s # c.i)
    BY <2>1, <2>2 DEF Occupied, Slots
  <2>5. j = 1 => s >= c.i + 1
    BY <2>1, <2>4
  <2>6. QED
    BY <2>1, <2>3, <2>5 DEF AheadAt
<1>6. CASE x \in KeysIn(S2[c.dest])
  <2>1. Due(S2, c2, x)
    BY <1>6 DEF Due
  <2>2. Due(S, c, x)
    BY <1>2, <1>6 DEF Due
  <2>3. QED
    BY <1>2, <2>1, <2>2
<1>7. CASE x \notin KeysIn(S2[c.dest])
  <2>1. AheadIn(S2, c2.srcs, c2.i, x) <=> AheadIn(S, c.srcs, c.i, x)
    BY <1>4, <1>5, <1>7, AheadIs
  <2>2. x \notin KeysIn(S[c.dest])
    BY <1>7
  <2>3. QED
    BY <1>2, <1>3, <1>7, <2>1, <2>2 DEF Due
<1>8. QED
  BY <1>6, <1>7

(* Bucket i is empty, or its key is not picked.                            *)
LEMMA DueSkipped ==
  ASSUME NEW S, NEW c, NEW c2, NEW x,
         c2.op = c.op, c2.dest = c.dest, c2.srcs = c.srcs, c2.other = c.other, c2.i = c.i + 1,
         c.i \in Nat, Len(c.srcs) \in Nat, Len(c.srcs) >= 1,
         \/ S[c.srcs[1]].buckets[c.i].psl = 0
         \/ ~Picks(S, c, S[c.srcs[1]].buckets[c.i].key)
  PROVE  Due(S, c2, x) <=> Due(S, c, x)
<1>1. Picks(S, c2, x) <=> Picks(S, c, x)
  BY DEF Picks
<1>2. ASSUME NEW j, NEW s, AheadAt(S, c2, j, s, x) PROVE AheadAt(S, c, j, s, x)
  <2>1. s \in Int
    BY <1>2 DEF AheadAt, Occupied, Slots
  <2>2. QED
    BY <1>2, <2>1 DEF AheadAt
<1>3. ASSUME Picks(S, c, x), NEW j, NEW s, AheadAt(S, c, j, s, x) PROVE AheadAt(S, c2, j, s, x)
  <2>1. s \in Int /\ S[c.srcs[j]].buckets[s].psl # 0 /\ S[c.srcs[j]].buckets[s].key = x
    BY <1>3 DEF AheadAt, Occupied, Slots
  <2>2. j = 1 => s # c.i
    BY <1>3, <2>1
  <2>3. QED
    BY <1>3, <2>1, <2>2 DEF AheadAt
<1>4. QED
  BY <1>1, <1>2, <1>3, AheadIs DEF Due

(* The walk goes on to the next operand.                                   *)
LEMMA DueNext ==
  ASSUME NEW S, NEW c, NEW c2, NEW x,
         c2.op = c.op, c2.dest = c.dest, c2.other = c.other, c2.i = 0,
         c.i \in Nat, Len(c.srcs) \in Nat, Len(c.srcs) >= 1,
         Len(c2.srcs) = Len(c.srcs) - 1, \A j \in 1 .. Len(c.srcs) - 1 : c2.srcs[j] = c.srcs[j + 1],
         S[c.srcs[1]].cap \in Nat, c.i >= S[c.srcs[1]].cap
  PROVE  Due(S, c2, x) <=> Due(S, c, x)
<1>1. Picks(S, c2, x) <=> Picks(S, c, x)
  BY DEF Picks
<1>2. ASSUME NEW j, NEW s, AheadAt(S, c2, j, s, x) PROVE AheadAt(S, c, j + 1, s, x)
  <2>1. /\ j \in 1 .. Len(c.srcs) - 1 /\ s \in Occupied(S[c2.srcs[j]])
        /\ S[c2.srcs[j]].buckets[s].key = x
    BY <1>2 DEF AheadAt
  <2>2. j + 1 \in 1 .. Len(c.srcs) /\ j + 1 # 1 /\ c2.srcs[j] = c.srcs[j + 1]
    BY <2>1
  <2>3. QED
    BY <2>1, <2>2 DEF AheadAt
<1>3. ASSUME NEW j, NEW s, AheadAt(S, c, j, s, x) PROVE AheadAt(S, c2, j - 1, s, x)
  <2>1. /\ j \in 1 .. Len(c.srcs) /\ s \in Occupied(S[c.srcs[j]]) /\ (j = 1 => s >= c.i)
        /\ S[c.srcs[j]].buckets[s].key = x
    BY <1>3 DEF AheadAt
  <2>2. j # 1
    <3>1. SUFFICES ASSUME j = 1 PROVE FALSE
      OBVIOUS
    <3>2. s \in 0 .. S[c.srcs[1]].cap - 1 /\ s >= c.i
      BY <2>1, <3>1 DEF Occupied, Slots
    <3>3. QED
      BY <3>2
  <2>3. j - 1 \in 1 .. Len(c.srcs) - 1 /\ c2.srcs[j - 1] = c.srcs[(j - 1) + 1] /\ (j - 1) + 1 = j
    BY <2>1, <2>2
  <2>4. s \in Int /\ s >= 0
    BY <2>1 DEF Occupied, Slots
  <2>5. QED
    BY <2>1, <2>3, <2>4 DEF AheadAt
<1>4. QED
  BY <1>1, <1>2, <1>3, AheadIs DEF Due

-----------------------------------------------------------------------------
(* Lookups and removals of a sound set.                                    *)

LEMMA SoundFind ==
  ASSUME NEW t, Sound(t), NEW k \in Keys
  PROVE  \/ /\ k \in KeysIn(t) /\ Find(t, k) # NoSlot
            /\ Find(t, k) \in Occupied(t) /\ t.buckets[Find(t, k)].key = k
         \/ k \notin KeysIn(t) /\ Find(t, k) = NoSlot
<1>1. PICK b, c, m : b = t.buckets /\ c = t.cap /\ m = t.max_psl
  OBVIOUS
<1>2. Fit(b, c, m) /\ t.len = Count(b, c) /\ (Count(b, c) < c \/ c = 0)
  BY <1>1 DEF Sound
<1>3. Occupied(t) = Occ(b, c) /\ KeysIn(t) = KeysAt(b, c)
  BY <1>1, KeysInIs
<1>4. NoSlot \notin Occ(b, c)
  BY DEF NoSlot, Occ, Slots
<1>5. CASE k \in KeysAt(b, c) /\ Find(t, k) \in Occ(b, c) /\ b[Find(t, k)].key = k
  BY <1>1, <1>3, <1>4, <1>5
<1>6. CASE k \notin KeysAt(b, c) /\ Find(t, k) = NoSlot
  BY <1>3, <1>6
<1>7. QED
  BY <1>1, <1>2, <1>5, <1>6, FindIs

LEMMA HasIs ==
  ASSUME NEW t, Sound(t), NEW k \in Keys
  PROVE  Has(t, k) <=> k \in KeysIn(t)
BY SoundFind DEF Has

LEMMA RemovedIs ==
  ASSUME NEW t, Sound(t), NEW k \in Keys, NEW s, s = Find(t, k), s # NoSlot,
         NEW t2, t2 = Table(CloseHole(t, s), t.cap, t.len - 1, t.max_psl)
  PROVE  /\ Sound(t2) /\ k \in KeysIn(t) /\ KeysIn(t2) = KeysIn(t) \ {k}
         /\ BlocksOf(t2) = BlocksOf(t) - 1 /\ BlocksOf(t) \in Nat
<1>1. PICK b, c, m, n : b = t.buckets /\ c = t.cap /\ m = t.max_psl /\ n = t.len
  OBVIOUS
<1>2. k \in KeysIn(t) /\ s \in Occupied(t) /\ b[s].key = k
  BY <1>1, SoundFind
<1>3. /\ Fit(b, c, m) /\ n = Count(b, c) /\ (c = 0 \/ (c >= 4 /\ n < c)) /\ s \in Occ(b, c)
      /\ KeysIn(t) = KeysAt(b, c)
  BY <1>1, <1>2, KeysInIs DEF Sound
<1>4. c # 0 /\ c \in Nat
  BY <1>3 DEF Occ, Slots, Fit
<1>5. Room(b, c)
  <2>1. Cardinality(Occ(b, c)) < c
    BY <1>3, <1>4 DEF Count
  <2>2. QED
    BY <1>4, <2>1, OneIsEmpty DEF Room
<1>6. PICK b2 : b2 = CloseHole(t, s) /\ Fit(b2, c, m) /\ KeysAt(b2, c) = KeysAt(b, c) \ {b[s].key}
                /\ Count(b2, c) = Count(b, c) - 1
  BY <1>1, <1>3, <1>5, CloseHoleIs
<1>7. /\ t2.buckets = b2 /\ t2.cap = c /\ t2.len = n - 1 /\ t2.max_psl = m
      /\ t2 = Table(b2, c, n - 1, m)
  BY <1>1, <1>6, TableIs
<1>8. n \in 0 .. c
  BY <1>1, SoundIs
<1>9. Sound(t2)
  BY <1>3, <1>4, <1>6, <1>7, <1>8 DEF Sound
<1>10. KeysIn(t2) = KeysIn(t) \ {k}
  BY <1>2, <1>3, <1>6, <1>7, KeysInIs
<1>11. BlocksOf(t2) = BlocksOf(t) - 1 /\ BlocksOf(t) \in Nat
  BY <1>1, <1>4, <1>7, <1>8 DEF BlocksOf
<1>12. QED
  BY <1>2, <1>9, <1>10, <1>11

LEMMA ClearedIs ==
  ASSUME NEW t, Sound(t)
  PROVE  /\ Sound(Blank(t.cap)) /\ KeysIn(Blank(t.cap)) = {}
         /\ BlocksOf(Blank(t.cap)) = BlocksOf(t) - KeyBlocks(t) /\ BlocksOf(t) \in Nat
         /\ KeyBlocks(t) = t.len /\ t.len \in Nat
<1>1. t.cap \in Nat /\ (t.cap = 0 \/ t.cap >= 4) /\ t.len \in Nat /\ BlocksOf(t) \in Nat
  BY SoundIs DEF Sound
<1>2. /\ Sound(Blank(t.cap)) /\ KeysIn(Blank(t.cap)) = {} /\ Blank(t.cap).cap = t.cap
      /\ Blank(t.cap).len = 0
  BY <1>1, BlankIs
<1>3. KeyBlocks(t) = t.len
  BY KeysInIs DEF KeyBlocks, Sound, Count
<1>4. QED
  BY <1>1, <1>2, <1>3 DEF BlocksOf

LEMMA WantedIs ==
  ASSUME NEW k \in Keys, call.op \in Ops, call.op # "union" => Sound(sets[call.other])
  PROVE  Wanted(k) <=> Picks(sets, call, k)
<1>1. CASE call.op = "union"
  BY <1>1 DEF Wanted, Picks
<1>2. CASE call.op = "intersection"
  BY <1>2, HasIs DEF Wanted, Picks
<1>3. CASE call.op = "difference"
  BY <1>3, HasIs DEF Wanted, Picks
<1>4. QED
  BY <1>1, <1>2, <1>3 DEF Ops

-----------------------------------------------------------------------------
(* The invariant holds at first and every step keeps it.                   *)

LEMMA InvInit ==
  ASSUME Init
  PROVE  Inv
<1>1. Sound(Blank(0))
  BY BlankIs
<1>2. AllSound
  BY <1>1 DEF Init, AllSound
<1>3. AllOwned(sets, alive) = {}
  BY DEF Init, AllOwned
<1>4. BlocksOK
  BY <1>3, FS_EmptySet DEF BlocksOK, Init, ExtendBlocks
<1>5. QED
  BY <1>2, <1>4 DEF Init, Inv, CallOK, Statuses

(* The blocks, as counted by a step.                                       *)
LEMMA BlocksIs ==
  ASSUME Inv
  PROVE  /\ AllSound /\ CallOK /\ ret \in Statuses
         /\ Owning /\ blocks = Owns + ExtendBlocks
         /\ Owns \in Nat /\ ExtendBlocks \in {0, 1, 2}
<1>1. Owning /\ blocks = Owns + ExtendBlocks
  BY DEF Inv, BlocksOK, Owning, Owns
<1>2. Owns \in Nat
  BY <1>1, FS_CardinalityType DEF Owning, Owns
<1>3. pc \in {"idle", "algebra", "extend", "feeding"}
  BY DEF Inv, CallOK
<1>4. ExtendBlocks \in {0, 1, 2}
  BY <1>3 DEF ExtendBlocks
<1>5. QED
  BY <1>1, <1>2, <1>4 DEF Inv

LEMMA InvNow ==
  ASSUME AllSound', CallOK', ret' \in Statuses, Owning', blocks' = Owns' + ExtendBlocks'
  PROVE  Inv'
BY DEF Inv, BlocksOK, Owning, Owns

LEMMA Quiescent ==
  ASSUME Inv, pc = "idle"
  PROVE  call = NoCall /\ feed = <<>> /\ ExtendBlocks = 0
BY DEF Inv, CallOK, ExtendBlocks

LEMMA QuietNext ==
  ASSUME pc' = "idle", call' = NoCall, feed' = <<>>
  PROVE  CallOK' /\ ExtendBlocks' = 0
BY DEF CallOK, ExtendBlocks

LEMMA CreateKeeps ==
  ASSUME Inv, NEW n \in Names, Create(n)
  PROVE  Inv'
<1>1. /\ AllSound /\ Owning /\ blocks = Owns /\ Owns \in Nat /\ ret \in Statuses
      /\ call = NoCall /\ feed = <<>> /\ pc = "idle"
  BY BlocksIs, Quiescent DEF Create, Quiet
<1>2. CallOK' /\ ExtendBlocks' = 0
  BY <1>1, QuietNext DEF Create
<1>3. CASE alive' = alive \cup {n} /\ ret' = "OK" /\ blocks' = blocks + 1
  <2>1. AllSound' /\ Owning' /\ Owns' = Owns + 1
    BY <1>1, <1>3, SetCreated DEF Create
  <2>2. blocks' = Owns' + ExtendBlocks' /\ ret' \in Statuses
    BY <1>1, <1>2, <1>3, <2>1 DEF Statuses
  <2>3. QED
    BY <1>2, <2>1, <2>2, InvNow
<1>4. CASE ret' = "OOM" /\ alive' = alive /\ blocks' = blocks
  <2>1. AllSound' /\ Owning' /\ Owns' = Owns
    BY <1>1, <1>4, SetsKept DEF Create
  <2>2. blocks' = Owns' + ExtendBlocks' /\ ret' \in Statuses
    BY <1>1, <1>2, <1>4, <2>1 DEF Statuses
  <2>3. QED
    BY <1>2, <2>1, <2>2, InvNow
<1>5. QED
  BY <1>3, <1>4 DEF Create

LEMMA DestroyKeeps ==
  ASSUME Inv, NEW n \in Names, Destroy(n)
  PROVE  Inv'
<1>1. /\ AllSound /\ Owning /\ blocks = Owns /\ Owns \in Nat
      /\ call = NoCall /\ feed = <<>> /\ pc = "idle" /\ n \in alive
  BY BlocksIs, Quiescent DEF Destroy, Ready, Quiet
<1>2. CallOK' /\ ExtendBlocks' = 0
  BY <1>1, QuietNext DEF Destroy
<1>3. /\ AllSound' /\ Owning' /\ Owns' = Owns - 1 - BlocksOf(sets[n])
      /\ BlocksOf(sets[n]) \in Nat
  BY <1>1, SetDestroyed DEF Destroy
<1>4. KeyBlocks(sets[n]) = sets[n].len /\ sets[n].len \in Nat
  BY <1>1, ClearedIs DEF AllSound
<1>5. blocks' = Owns' + ExtendBlocks'
  <2>1. PICK a, l : a = (IF sets[n].cap = 0 THEN 0 ELSE 1) /\ l = sets[n].len
    OBVIOUS
  <2>2. a \in Nat /\ l \in Nat /\ BlocksOf(sets[n]) = a + l
    BY <1>4, <2>1 DEF BlocksOf
  <2>3. blocks' = blocks - l - 1 - a
    BY <1>4, <2>1 DEF Destroy
  <2>4. QED
    BY <1>1, <1>2, <1>3, <2>2, <2>3
<1>6. ret' \in Statuses
  BY DEF Destroy, Statuses
<1>7. QED
  BY <1>2, <1>3, <1>5, <1>6, InvNow

(* An idle step that gives one set another table, and counts its blocks.   *)
LEMMA ChangeKeeps ==
  ASSUME Inv, pc = "idle", NEW n \in alive, NEW t, Sound(t), NEW g \in Int,
         sets' = [sets EXCEPT ![n] = t], alive' = alive,
         pc' = pc, call' = call, feed' = feed, ret' \in Statuses,
         blocks' = blocks + g, BlocksOf(t) = BlocksOf(sets[n]) + g
  PROVE  Inv'
<1>1. /\ AllSound /\ Owning /\ blocks = Owns + 0 /\ Owns \in Nat
      /\ call = NoCall /\ feed = <<>>
  BY BlocksIs, Quiescent
<1>2. CallOK' /\ ExtendBlocks' = 0
  BY <1>1, QuietNext
<1>3. /\ AllSound' /\ Owning' /\ Owns' = Owns + BlocksOf(t) - BlocksOf(sets[n])
      /\ BlocksOf(t) \in Nat /\ BlocksOf(sets[n]) \in Nat
  BY <1>1, SetChanged
<1>4. blocks' = Owns' + ExtendBlocks'
  BY <1>1, <1>2, <1>3
<1>5. QED
  BY <1>2, <1>3, <1>4, InvNow

LEMMA AliveSound ==
  ASSUME Inv, NEW n \in alive
  PROVE  n \in Names /\ Sound(sets[n]) /\ BlocksOf(sets[n]) \in Nat
BY SoundIs DEF Inv, AllSound

LEMMA ClearKeeps ==
  ASSUME Inv, NEW n \in Names, Clear(n)
  PROVE  Inv'
<1>1. pc = "idle" /\ n \in alive /\ Sound(sets[n])
  BY AliveSound DEF Clear, Ready, Quiet
<1>2. PICK t, g : t = Blank(sets[n].cap) /\ g = 0 - KeyBlocks(sets[n])
  OBVIOUS
<1>3. Sound(t) /\ g \in Int /\ BlocksOf(t) = BlocksOf(sets[n]) + g
  BY <1>1, <1>2, ClearedIs
<1>4. blocks' = blocks + g
  <2>1. KeyBlocks(sets[n]) \in Nat /\ blocks \in Int
    BY <1>1, ClearedIs, BlocksIs
  <2>2. QED
    BY <1>2, <2>1 DEF Clear
<1>5. ret' \in Statuses
  BY DEF Clear, Statuses
<1>6. sets' = [sets EXCEPT ![n] = t] /\ alive' = alive /\ pc' = pc /\ call' = call /\ feed' = feed
  BY <1>2 DEF Clear
<1>7. QED
  BY <1>1, <1>3, <1>4, <1>5, <1>6, ChangeKeeps

LEMMA AddKeeps ==
  ASSUME Inv, NEW n \in Names, NEW k \in Keys, Add(n, k)
  PROVE  Inv'
<1>1. pc = "idle" /\ n \in alive /\ Sound(sets[n])
  BY AliveSound DEF Add, Ready, Quiet
<1>2. PICK o \in AddOutcomes(sets[n], k) : Applied(n, o) /\ ret' = o.ret
  BY DEF Add
<1>3. AddIs(sets[n], k, o)
  BY <1>1, <1>2, AddOutcomesIs
<1>4. PICK t, g : t = o.table /\ g = o.gain
  OBVIOUS
<1>5. Sound(t) /\ g \in Int /\ BlocksOf(t) = BlocksOf(sets[n]) + g /\ ret' \in Statuses
  BY <1>2, <1>3, <1>4 DEF AddIs, Statuses
<1>6. /\ sets' = [sets EXCEPT ![n] = t] /\ alive' = alive /\ pc' = pc /\ call' = call /\ feed' = feed
      /\ blocks' = blocks + g
  BY <1>2, <1>4 DEF Add, Applied
<1>7. QED
  BY <1>1, <1>5, <1>6, ChangeKeeps

LEMMA SameKeeps ==
  ASSUME Inv, sets' = sets, alive' = alive, pc' = pc, call' = call, feed' = feed,
         blocks' = blocks, ret' \in Statuses
  PROVE  Inv'
<1>1. AllSound /\ Owning /\ blocks = Owns + ExtendBlocks /\ CallOK
  BY BlocksIs
<1>2. AllSound' /\ Owning' /\ Owns' = Owns
  BY <1>1, SetsKept
<1>3. CallOK' /\ ExtendBlocks' = ExtendBlocks
  BY <1>1 DEF CallOK, AlgebraOK, ExtendOK, ExtendBlocks, Stored
<1>4. QED
  BY <1>1, <1>2, <1>3, InvNow

LEMMA RemoveKeeps ==
  ASSUME Inv, NEW n \in Names, NEW k \in Keys, Remove(n, k)
  PROVE  Inv'
<1>1. pc = "idle" /\ n \in alive /\ Sound(sets[n])
  BY AliveSound DEF Remove, Ready, Quiet
<1>2. PICK s : s = Find(sets[n], k)
  OBVIOUS
<1>3. CASE s = NoSlot
  BY <1>2, <1>3, SameKeeps DEF Remove, Statuses
<1>4. CASE s # NoSlot
  <2>1. PICK t : t = Table(CloseHole(sets[n], s), sets[n].cap, sets[n].len - 1, sets[n].max_psl)
    OBVIOUS
  <2>2. Sound(t) /\ BlocksOf(t) = BlocksOf(sets[n]) - 1 /\ BlocksOf(sets[n]) \in Nat
    BY <1>1, <1>2, <1>4, <2>1, RemovedIs
  <2>3. PICK g : g = -1
    OBVIOUS
  <2>4. /\ sets' = [sets EXCEPT ![n] = t] /\ alive' = alive /\ pc' = pc /\ call' = call /\ feed' = feed
        /\ ret' = "OK" /\ blocks' = blocks - 1
    BY <1>2, <1>4, <2>1 DEF Remove
  <2>5. blocks \in Int
    BY BlocksIs
  <2>6. /\ g \in Int /\ blocks' = blocks + g /\ BlocksOf(t) = BlocksOf(sets[n]) + g
        /\ ret' \in Statuses
    BY <2>2, <2>3, <2>4, <2>5 DEF Statuses
  <2>7. QED
    BY <1>1, <2>2, <2>4, <2>6, ChangeKeeps
<1>5. QED
  BY <1>3, <1>4

LEMMA ContainsKeeps ==
  ASSUME Inv, NEW n \in Names, NEW k \in Keys, Contains(n, k)
  PROVE  Inv'
BY SameKeeps DEF Contains, Statuses

LEMMA KeysInKeys ==
  ASSUME NEW t, Sound(t)
  PROVE  KeysIn(t) \subseteq Keys
<1>1. \A s \in Occ(t.buckets, t.cap) : t.buckets[s].key \in Keys
  BY OccIs DEF Sound, Fit
<1>2. QED
  BY <1>1, KeysInIs DEF KeysAt

LEMMA AheadOfOne ==
  ASSUME NEW S, NEW a, NEW k
  PROVE  AheadIn(S, <<a>>, 0, k) <=> k \in KeysIn(S[a])
<1>1. Len(<<a>>) = 1 /\ <<a>>[1] = a
  OBVIOUS
<1>2. \A s \in Occupied(S[a]) : s >= 0
  BY DEF Occupied, Slots
<1>3. QED
  BY <1>1, <1>2 DEF AheadIn, KeysIn

LEMMA AheadOfTwo ==
  ASSUME NEW S, NEW a, NEW b, NEW k
  PROVE  AheadIn(S, <<a, b>>, 0, k) <=> k \in KeysIn(S[a]) \/ k \in KeysIn(S[b])
<1>1. Len(<<a, b>>) = 2 /\ <<a, b>>[1] = a /\ <<a, b>>[2] = b
  OBVIOUS
<1>2. \A s \in Occupied(S[a]) : s >= 0
  BY DEF Occupied, Slots
<1>3. ASSUME AheadIn(S, <<a, b>>, 0, k) PROVE k \in KeysIn(S[a]) \/ k \in KeysIn(S[b])
  BY <1>1, <1>3 DEF AheadIn, KeysIn
<1>4. ASSUME k \in KeysIn(S[a]) PROVE AheadIn(S, <<a, b>>, 0, k)
  <2>1. PICK s \in Occupied(S[a]) : S[a].buckets[s].key = k
    BY <1>4 DEF KeysIn
  <2>2. QED
    BY <1>1, <1>2, <2>1 DEF AheadIn
<1>5. ASSUME k \in KeysIn(S[b]) PROVE AheadIn(S, <<a, b>>, 0, k)
  <2>1. PICK s \in Occupied(S[b]) : S[b].buckets[s].key = k
    BY <1>5 DEF KeysIn
  <2>2. QED
    BY <1>1, <2>1 DEF AheadIn
<1>6. QED
  BY <1>3, <1>4, <1>5

(* What a call of the algebra is to bring about.                           *)
Called(c, op, d, srcs, other, want) ==
  c = [op |-> op, dest |-> d, srcs |-> srcs, other |-> other, i |-> 0,
       keys |-> {}, want |-> want]

LEMMA CalledIs ==
  ASSUME NEW c, NEW op \in Ops, NEW d \in alive, NEW srcs \in Seq(alive), NEW other,
         other = Nil \/ other \in alive, op # "union" => other \in alive,
         NEW want \in SUBSET Keys, Called(c, op, d, srcs, other, want)
  PROVE  /\ c \in Calls(alive) /\ (c.op # "union" => c.other \in alive)
         /\ c.op = op /\ c.dest = d /\ c.srcs = srcs /\ c.other = other /\ c.i = 0 /\ c.want = want
BY DEF Called, Calls

LEMMA UnionIs ==
  ASSUME AllSound, NEW d \in alive, NEW a \in alive, NEW b \in alive, NEW c,
         Called(c, "union", d, <<a, b>>, Nil, Stored(d) \cup Stored(a) \cup Stored(b))
  PROVE  /\ c \in Calls(alive) /\ (c.op # "union" => c.other \in alive)
         /\ \A k \in Keys : k \in c.want <=> Due(sets, c, k)
<1>1. Stored(d) \cup Stored(a) \cup Stored(b) \in SUBSET Keys
  BY KeysInKeys DEF AllSound, Stored
<1>2. <<a, b>> \in Seq(alive)
  OBVIOUS
<1>3. /\ c \in Calls(alive) /\ (c.op # "union" => c.other \in alive)
      /\ c.op = "union" /\ c.dest = d /\ c.srcs = <<a, b>> /\ c.i = 0
      /\ c.want = Stored(d) \cup Stored(a) \cup Stored(b)
  <2>1. PICK op, q, W, e : op = "union" /\ q = <<a, b>> /\ e = Nil /\ W = Stored(d) \cup Stored(a) \cup Stored(b)
    OBVIOUS
  <2>2. /\ op \in Ops /\ d \in alive /\ q \in Seq(alive) /\ (e = Nil \/ e \in alive)
        /\ (op # "union" => e \in alive) /\ W \in SUBSET Keys /\ Called(c, op, d, q, e, W)
    BY <1>1, <1>2, <2>1 DEF Ops
  <2>3. /\ c \in Calls(alive) /\ (c.op # "union" => c.other \in alive)
        /\ c.op = op /\ c.dest = d /\ c.srcs = q /\ c.other = e /\ c.i = 0 /\ c.want = W
    BY ONLY <2>2, CalledIs
  <2>4. QED
    BY <2>1, <2>3
<1>4. ASSUME NEW k \in Keys PROVE k \in c.want <=> Due(sets, c, k)
  <2>1. AheadIn(sets, c.srcs, c.i, k) <=> k \in Stored(a) \/ k \in Stored(b)
    BY <1>3, AheadOfTwo DEF Stored
  <2>2. Due(sets, c, k) <=> k \in Stored(d) \/ AheadIn(sets, c.srcs, c.i, k)
    BY <1>3 DEF Due, Picks, Stored
  <2>3. QED
    BY <1>3, <2>1, <2>2
<1>5. QED
  BY <1>3, <1>4

LEMMA IntersectionIs ==
  ASSUME AllSound, NEW d \in alive, NEW a \in alive, NEW b \in alive, NEW w \in alive, NEW o \in alive,
         (w = a /\ o = b) \/ (w = b /\ o = a), NEW c,
         Called(c, "intersection", d, <<w>>, o, Stored(d) \cup (Stored(a) \cap Stored(b)))
  PROVE  /\ c \in Calls(alive) /\ (c.op # "union" => c.other \in alive)
         /\ \A k \in Keys : k \in c.want <=> Due(sets, c, k)
<1>1. Stored(d) \cup (Stored(a) \cap Stored(b)) \in SUBSET Keys
  BY KeysInKeys DEF AllSound, Stored
<1>2. <<w>> \in Seq(alive)
  OBVIOUS
<1>3. /\ c \in Calls(alive) /\ (c.op # "union" => c.other \in alive)
      /\ c.op = "intersection" /\ c.dest = d /\ c.srcs = <<w>> /\ c.i = 0 /\ c.other = o
      /\ c.want = Stored(d) \cup (Stored(a) \cap Stored(b))
  <2>1. PICK op, q, W, e : op = "intersection" /\ q = <<w>> /\ e = o /\ W = Stored(d) \cup (Stored(a) \cap Stored(b))
    OBVIOUS
  <2>2. /\ op \in Ops /\ d \in alive /\ q \in Seq(alive) /\ (e = Nil \/ e \in alive)
        /\ (op # "union" => e \in alive) /\ W \in SUBSET Keys /\ Called(c, op, d, q, e, W)
    BY <1>1, <1>2, <2>1 DEF Ops
  <2>3. /\ c \in Calls(alive) /\ (c.op # "union" => c.other \in alive)
        /\ c.op = op /\ c.dest = d /\ c.srcs = q /\ c.other = e /\ c.i = 0 /\ c.want = W
    BY ONLY <2>2, CalledIs
  <2>4. QED
    BY <2>1, <2>3
<1>4. ASSUME NEW k \in Keys PROVE k \in c.want <=> Due(sets, c, k)
  <2>1. AheadIn(sets, c.srcs, c.i, k) <=> k \in Stored(w)
    BY <1>3, AheadOfOne DEF Stored
  <2>2. Due(sets, c, k) <=> k \in Stored(d) \/ (AheadIn(sets, c.srcs, c.i, k) /\ k \in Stored(o))
    BY <1>3 DEF Due, Picks, Stored
  <2>3. QED
    BY <1>3, <2>1, <2>2
<1>5. QED
  BY <1>3, <1>4

LEMMA DifferenceIs ==
  ASSUME AllSound, NEW d \in alive, NEW a \in alive, NEW b \in alive, NEW c,
         Called(c, "difference", d, <<a>>, b, Stored(d) \cup (Stored(a) \ Stored(b)))
  PROVE  /\ c \in Calls(alive) /\ (c.op # "union" => c.other \in alive)
         /\ \A k \in Keys : k \in c.want <=> Due(sets, c, k)
<1>1. Stored(d) \cup (Stored(a) \ Stored(b)) \in SUBSET Keys
  BY KeysInKeys DEF AllSound, Stored
<1>2. <<a>> \in Seq(alive)
  OBVIOUS
<1>3. /\ c \in Calls(alive) /\ (c.op # "union" => c.other \in alive)
      /\ c.op = "difference" /\ c.dest = d /\ c.srcs = <<a>> /\ c.i = 0 /\ c.other = b
      /\ c.want = Stored(d) \cup (Stored(a) \ Stored(b))
  <2>1. PICK op, q, W, e : op = "difference" /\ q = <<a>> /\ e = b /\ W = Stored(d) \cup (Stored(a) \ Stored(b))
    OBVIOUS
  <2>2. /\ op \in Ops /\ d \in alive /\ q \in Seq(alive) /\ (e = Nil \/ e \in alive)
        /\ (op # "union" => e \in alive) /\ W \in SUBSET Keys /\ Called(c, op, d, q, e, W)
    BY <1>1, <1>2, <2>1 DEF Ops
  <2>3. /\ c \in Calls(alive) /\ (c.op # "union" => c.other \in alive)
        /\ c.op = op /\ c.dest = d /\ c.srcs = q /\ c.other = e /\ c.i = 0 /\ c.want = W
    BY ONLY <2>2, CalledIs
  <2>4. QED
    BY <2>1, <2>3
<1>4. ASSUME NEW k \in Keys PROVE k \in c.want <=> Due(sets, c, k)
  <2>1. AheadIn(sets, c.srcs, c.i, k) <=> k \in Stored(a)
    BY <1>3, AheadOfOne DEF Stored
  <2>2. Due(sets, c, k) <=> k \in Stored(d) \/ (AheadIn(sets, c.srcs, c.i, k) /\ k \notin Stored(b))
    BY <1>3 DEF Due, Picks, Stored
  <2>3. QED
    BY <1>3, <2>1, <2>2
<1>5. QED
  BY <1>3, <1>4

(* What the operation makes of the two operands.                           *)
Made(op, a, b) == CASE op = "union"        -> Stored(a) \cup Stored(b)
                    [] op = "intersection" -> Stored(a) \cap Stored(b)
                    [] op = "difference"   -> Stored(a) \ Stored(b)

LEMMA AlgebraCallIs ==
  ASSUME Inv, NEW op \in Ops, NEW d \in Names, NEW a \in Names, NEW b \in Names,
         AlgebraCall(op, d, a, b)
  PROVE  /\ call' \in Calls(alive) /\ (call'.op # "union" => call'.other \in alive)
         /\ \A k \in Keys : k \in call'.want <=> Due(sets, call', k)
         /\ d \in alive /\ a \in alive /\ b \in alive
         /\ call'.want = Stored(d) \cup Made(op, a, b) /\ call'.dest = d
<1>1. AllSound /\ d \in alive /\ a \in alive /\ b \in alive
  BY DEF Inv, AlgebraCall, Ready
<1>2. PICK c : c = call'
  OBVIOUS
<1>3. CASE op = "union"
  <2>1. Called(c, "union", d, <<a, b>>, Nil, Stored(d) \cup Stored(a) \cup Stored(b))
    BY <1>2, <1>3 DEF AlgebraCall, Called
  <2>2. c.want = Stored(d) \cup Made(op, a, b) /\ c.dest = d
    BY <1>3, <2>1 DEF Called, Made
  <2>3. QED
    BY <1>1, <1>2, <2>1, <2>2, UnionIs
<1>4. CASE op = "intersection"
  <2>1. PICK w, o : /\ w = (IF sets[a].len <= sets[b].len THEN a ELSE b)
                    /\ o = (IF sets[a].len <= sets[b].len THEN b ELSE a)
    OBVIOUS
  <2>2. w \in alive /\ o \in alive /\ ((w = a /\ o = b) \/ (w = b /\ o = a))
    BY <1>1, <2>1
  <2>3. Called(c, "intersection", d, <<w>>, o, Stored(d) \cup (Stored(a) \cap Stored(b)))
    BY <1>2, <1>4, <2>1 DEF AlgebraCall, Called
  <2>4. c.want = Stored(d) \cup Made(op, a, b) /\ c.dest = d
    BY <1>4, <2>3 DEF Called, Made
  <2>5. QED
    BY <1>1, <1>2, <2>2, <2>3, <2>4, IntersectionIs
<1>5. CASE op = "difference"
  <2>1. Called(c, "difference", d, <<a>>, b, Stored(d) \cup (Stored(a) \ Stored(b)))
    BY <1>2, <1>5 DEF AlgebraCall, Called
  <2>2. c.want = Stored(d) \cup Made(op, a, b) /\ c.dest = d
    BY <1>5, <2>1 DEF Called, Made
  <2>3. QED
    BY <1>1, <1>2, <2>1, <2>2, DifferenceIs
<1>6. QED
  BY <1>3, <1>4, <1>5 DEF Ops

LEMMA AlgebraCallKeeps ==
  ASSUME Inv, NEW op \in Ops, NEW d \in Names, NEW a \in Names, NEW b \in Names,
         AlgebraCall(op, d, a, b)
  PROVE  Inv'
<1>1. /\ sets' = sets /\ alive' = alive /\ feed' = feed /\ blocks' = blocks
      /\ pc = "idle" /\ pc' = "algebra" /\ ret' = "none"
  BY DEF AlgebraCall, Ready, Quiet
<1>2. AllSound /\ Owning /\ blocks = Owns + 0 /\ feed = <<>> /\ Owns \in Nat
  BY <1>1, BlocksIs, Quiescent
<1>3. AllSound' /\ Owning' /\ Owns' = Owns
  BY <1>1, <1>2, SetsKept
<1>4. CallOK'
  BY <1>1, <1>2, AlgebraCallIs DEF CallOK, AlgebraOK
<1>5. ExtendBlocks' = 0 /\ ret' \in Statuses
  BY <1>1 DEF ExtendBlocks, Statuses
<1>6. QED
  BY <1>1, <1>2, <1>3, <1>4, <1>5, InvNow

(* The walk, at a bucket.                                                  *)
LEMMA WalkIs ==
  ASSUME Inv, pc = "algebra", call.srcs # <<>>
  PROVE  /\ AllSound /\ feed = <<>> /\ call \in Calls(alive) /\ call.op \in Ops /\ call.dest \in alive
         /\ call.i \in Nat /\ Len(call.srcs) \in Nat /\ Len(call.srcs) >= 1
         /\ Head(call.srcs) = call.srcs[1] /\ call.srcs[1] \in alive
         /\ (\A j \in 1 .. Len(call.srcs) : call.srcs[j] \in Names)
         /\ (call.op # "union" => call.other \in alive) /\ alive \subseteq Names
         /\ (\A k \in Keys : k \in call.want <=> Due(sets, call, k))
         /\ (\A k \in Keys : Wanted(k) <=> Picks(sets, call, k))
<1>1. /\ AllSound /\ feed = <<>> /\ call \in Calls(alive) /\ alive \subseteq Names
      /\ (call.op # "union" => call.other \in alive)
      /\ (\A k \in Keys : k \in call.want <=> Due(sets, call, k))
  BY DEF Inv, CallOK, AlgebraOK, AllSound
<1>2. /\ call.op \in Ops /\ call.dest \in alive /\ call.i \in Nat
      /\ Len(call.srcs) \in Nat /\ Len(call.srcs) >= 1 /\ Head(call.srcs) = call.srcs[1]
      /\ \A j \in 1 .. Len(call.srcs) : call.srcs[j] \in alive
  <2>1. call.op \in Ops /\ call.dest \in alive
    BY <1>1 DEF Calls
  <2>2. QED
    BY <1>1, <2>1, CallIs
<1>3. \A k \in Keys : Wanted(k) <=> Picks(sets, call, k)
  <2>1. call.op # "union" => Sound(sets[call.other])
    BY <1>1 DEF AllSound
  <2>2. QED
    BY <1>2, <2>1, WantedIs
<1>4. QED
  BY <1>1, <1>2, <1>3

(* The call with its walk one bucket on.                                   *)
LEMMA CallOn ==
  ASSUME NEW A, NEW c \in Calls(A), NEW c2, c2 = [c EXCEPT !.i = @ + 1]
  PROVE  /\ c2 \in Calls(A) /\ c2.op = c.op /\ c2.dest = c.dest /\ c2.srcs = c.srcs
         /\ c2.other = c.other /\ c2.i = c.i + 1 /\ c2.want = c.want
BY DEF Calls

LEMMA SkipKeeps ==
  ASSUME Inv, AlgebraSkip
  PROVE  Inv'
<1>1. /\ pc = "algebra" /\ call.srcs # <<>> /\ call.i < Walking.cap
      /\ sets' = sets /\ alive' = alive /\ feed' = feed /\ blocks' = blocks /\ pc' = pc /\ ret' = ret
      /\ call' = [call EXCEPT !.i = @ + 1]
  BY DEF AlgebraSkip, AtBucket
<1>2. PICK c, c2 : c = call /\ c2 = call'
  OBVIOUS
<1>3. /\ c2 \in Calls(alive) /\ c2.op = c.op /\ c2.dest = c.dest /\ c2.srcs = c.srcs
      /\ c2.other = c.other /\ c2.i = c.i + 1 /\ c2.want = c.want
  BY <1>1, <1>2, WalkIs, CallOn
<1>4. /\ c.i \in Nat /\ Len(c.srcs) \in Nat /\ Len(c.srcs) >= 1
      /\ \/ sets[c.srcs[1]].buckets[c.i].psl = 0
         \/ ~Picks(sets, c, sets[c.srcs[1]].buckets[c.i].key)
  <2>1. c.i \in Nat /\ Len(c.srcs) \in Nat /\ Len(c.srcs) >= 1
        /\ Walking = sets[c.srcs[1]] /\ Sound(sets[c.srcs[1]])
    BY <1>1, <1>2, WalkIs DEF Walking, AllSound
  <2>2. CASE Walking.buckets[c.i].psl = 0
    BY <2>1, <2>2
  <2>3. CASE Walking.buckets[c.i].psl # 0 /\ ~Wanted(Walking.buckets[c.i].key)
    <3>1. c.i \in Occupied(Walking)
      BY <1>1, <1>2, <2>1, <2>3, SoundIs DEF Occupied, Slots
    <3>2. Walking.buckets[c.i].key \in KeysIn(Walking)
      BY <3>1 DEF KeysIn
    <3>3. Walking.buckets[c.i].key \in Keys
      BY <2>1, <3>2, KeysInKeys
    <3>4. QED
      BY <1>1, <1>2, <2>1, <2>3, <3>3, WalkIs
  <2>4. QED
    BY <1>2, <2>2, <2>3 DEF AlgebraSkip
<1>5. \A k : Due(sets, c2, k) <=> Due(sets, c, k)
  BY <1>3, <1>4, DueSkipped
<1>6. CallOK'
  <2>1. /\ c2 \in Calls(alive) /\ (c2.op # "union" => c2.other \in alive) /\ feed = <<>>
        /\ \A k \in Keys : k \in c2.want <=> Due(sets, c2, k)
    BY <1>1, <1>2, <1>3, <1>5, WalkIs
  <2>2. QED
    BY <1>1, <1>2, <2>1 DEF CallOK, AlgebraOK
<1>7. AllSound /\ Owning /\ blocks = Owns + ExtendBlocks /\ ret \in Statuses
  BY BlocksIs
<1>8. AllSound' /\ Owning' /\ Owns' = Owns /\ ExtendBlocks' = ExtendBlocks
  BY <1>1, <1>7, SetsKept DEF ExtendBlocks
<1>9. QED
  BY <1>1, <1>6, <1>7, <1>8, InvNow

(* A key is added to dest, or refused.                                     *)
LEMMA AddTurnIs ==
  ASSUME Inv, AlgebraAdd
  PROVE  \E o, k :
           /\ pc = "algebra" /\ feed = <<>> /\ feed' = feed /\ alive' = alive
           /\ k \in Keys /\ AddIs(sets[call.dest], k, o) /\ call.dest \in alive
           /\ sets' = [sets EXCEPT ![call.dest] = o.table] /\ blocks' = blocks + o.gain
           /\ call.i \in Occupied(sets[call.srcs[1]]) /\ sets[call.srcs[1]].buckets[call.i].key = k
           /\ Picks(sets, call, k)
           /\ \/ /\ o.ret \in Tolerated /\ call' = [call EXCEPT !.i = @ + 1]
                 /\ pc' = pc /\ ret' = ret
              \/ o.ret = "OOM" /\ ret' = "OOM" /\ pc' = "idle" /\ call' = NoCall
<1>1. /\ pc = "algebra" /\ call.srcs # <<>> /\ call.i < Walking.cap
      /\ Walking.buckets[call.i].psl # 0 /\ Wanted(Walking.buckets[call.i].key)
      /\ alive' = alive /\ feed' = feed
  BY DEF AlgebraAdd, AtBucket
<1>2. PICK c, k : c = call /\ k = Walking.buckets[call.i].key
  OBVIOUS
<1>3. /\ c.i \in Nat /\ Walking = sets[c.srcs[1]] /\ Sound(sets[c.srcs[1]]) /\ feed = <<>>
      /\ c.dest \in alive /\ Sound(sets[c.dest])
  BY <1>1, <1>2, WalkIs DEF Walking, AllSound
<1>4. c.i \in Occupied(Walking)
  <2>1. PICK w, i : w = Walking /\ i = c.i
    OBVIOUS
  <2>2. w.cap \in Nat /\ i \in Nat /\ i < w.cap /\ w.buckets[i].psl # 0
    BY <1>1, <1>2, <1>3, <2>1, SoundIs
  <2>3. i \in Occupied(w)
    BY ONLY <2>2 DEF Occupied, Slots
  <2>4. QED
    BY <2>1, <2>3
<1>5. k \in KeysIn(Walking)
  BY <1>2, <1>4 DEF KeysIn
<1>6. k \in Keys
  BY <1>3, <1>5, KeysInKeys
<1>7. Picks(sets, c, k)
  BY <1>1, <1>2, <1>6, WalkIs
<1>8. PICK o \in AddOutcomes(sets[call.dest], k) :
        /\ Applied(call.dest, o)
        /\ IF o.ret \in Tolerated
           THEN call' = [call EXCEPT !.i = @ + 1] /\ UNCHANGED <<pc, ret>>
           ELSE End(o.ret)
  BY <1>2 DEF AlgebraAdd
<1>9. AddIs(sets[c.dest], k, o)
  BY <1>2, <1>3, <1>6, <1>8, AddOutcomesIs
<1>10. \/ /\ o.ret \in Tolerated /\ call' = [call EXCEPT !.i = @ + 1]
          /\ pc' = pc /\ ret' = ret
       \/ o.ret = "OOM" /\ ret' = "OOM" /\ pc' = "idle" /\ call' = NoCall
  BY <1>8, <1>9 DEF AddIs, Tolerated, End
<1>11. QED
  BY <1>1, <1>2, <1>3, <1>4, <1>6, <1>7, <1>8, <1>9, <1>10 DEF Applied

LEMMA AddedKeys ==
  ASSUME NEW t, NEW k, NEW o, AddIs(t, k, o)
  PROVE  /\ o.ret \in Tolerated => KeysIn(o.table) = KeysIn(t) \cup {k}
         /\ o.ret \notin Tolerated => o.ret = "OOM" /\ KeysIn(o.table) = KeysIn(t)
         /\ Sound(o.table) /\ o.gain \in Nat /\ BlocksOf(o.table) = BlocksOf(t) + o.gain
BY DEF AddIs, Tolerated

(* Of an add in the walk: whatever was due still is, and nothing else.     *)
LEMMA AddTurnDue ==
  ASSUME Inv, pc = "algebra", call.srcs # <<>>, NEW k, NEW o, AddIs(sets[call.dest], k, o),
         o.ret \in Tolerated, call.dest \in alive,
         sets' = [sets EXCEPT ![call.dest] = o.table], call' = [call EXCEPT !.i = @ + 1],
         call.i \in Occupied(sets[call.srcs[1]]), sets[call.srcs[1]].buckets[call.i].key = k,
         Picks(sets, call, k)
  PROVE  /\ call' \in Calls(alive) /\ (call'.op # "union" => call'.other \in alive)
         /\ call'.want = call.want /\ call'.dest = call.dest
         /\ Due(sets, call, k) /\ \A x : Due(sets', call', x) <=> Due(sets, call, x)
<1>1. PICK c, c2, S, S2 : c = call /\ c2 = call' /\ S = sets /\ S2 = sets'
  OBVIOUS
<1>2. /\ c2 \in Calls(alive) /\ c2.op = c.op /\ c2.dest = c.dest /\ c2.srcs = c.srcs
      /\ c2.other = c.other /\ c2.i = c.i + 1 /\ c2.want = c.want
  BY <1>1, WalkIs, CallOn
<1>3. /\ c.i \in Nat /\ Len(c.srcs) \in Nat /\ Len(c.srcs) >= 1 /\ c.dest \in Names
      /\ (\A j \in 1 .. Len(c.srcs) : c.srcs[j] \in Names)
      /\ (c.op # "union" => c.other \in alive /\ c.other \in Names)
      /\ sets = [n \in Names |-> sets[n]]
  BY <1>1, WalkIs DEF AllSound
<1>4. /\ \A m \in Names \ {c.dest} : S2[m] = S[m]
      /\ S2[c.dest] = o.table
  BY <1>1, <1>3
<1>5. KeysIn(S2[c.dest]) = KeysIn(S[c.dest]) \cup {k}
  BY <1>1, <1>4, AddedKeys
<1>6. c.i \in Occupied(S[c.srcs[1]]) /\ S[c.srcs[1]].buckets[c.i].key = k /\ Picks(S, c, k)
  BY <1>1
<1>7. ASSUME NEW x PROVE (Due(S2, c2, x) <=> Due(S, c, x)) /\ Due(S, c, k)
  <2>1. PicksUp(S, S2, c, c2, k)
    BY <1>2, <1>3, <1>4, <1>5, <1>6 DEF PicksUp
  <2>2. QED
    BY ONLY <2>1, DueAdded
<1>8. QED
  BY <1>1, <1>2, <1>3, <1>7

LEMMA AddTurnKeeps ==
  ASSUME Inv, AlgebraAdd
  PROVE  Inv'
<1>1. PICK o, k :
        /\ pc = "algebra" /\ feed = <<>> /\ feed' = feed /\ alive' = alive
        /\ k \in Keys /\ AddIs(sets[call.dest], k, o) /\ call.dest \in alive
        /\ sets' = [sets EXCEPT ![call.dest] = o.table] /\ blocks' = blocks + o.gain
        /\ call.i \in Occupied(sets[call.srcs[1]]) /\ sets[call.srcs[1]].buckets[call.i].key = k
        /\ Picks(sets, call, k)
        /\ \/ /\ o.ret \in Tolerated /\ call' = [call EXCEPT !.i = @ + 1]
              /\ pc' = pc /\ ret' = ret
           \/ o.ret = "OOM" /\ ret' = "OOM" /\ pc' = "idle" /\ call' = NoCall
  BY AddTurnIs
<1>2. call.srcs # <<>>
  BY DEF AlgebraAdd, AtBucket
<1>3. AllSound /\ Owning /\ blocks = Owns + 0 /\ ret \in Statuses /\ Owns \in Nat
  BY <1>1, BlocksIs DEF ExtendBlocks
<1>4. PICK n, t, g : n = call.dest /\ t = o.table /\ g = o.gain
  OBVIOUS
<1>5. n \in alive /\ Sound(t) /\ g \in Nat /\ BlocksOf(t) = BlocksOf(sets[n]) + g
      /\ sets' = [sets EXCEPT ![n] = t]
  BY <1>1, <1>4, AddedKeys
<1>6. /\ AllSound' /\ Owning' /\ Owns' = Owns + BlocksOf(t) - BlocksOf(sets[n])
      /\ BlocksOf(t) \in Nat /\ BlocksOf(sets[n]) \in Nat
  BY <1>1, <1>3, <1>5, SetChanged
<1>7. Owns' = Owns + g /\ blocks' = Owns'
  BY <1>1, <1>3, <1>4, <1>5, <1>6
<1>8. CASE o.ret \in Tolerated /\ call' = [call EXCEPT !.i = @ + 1] /\ pc' = pc /\ ret' = ret
  <2>1. /\ call' \in Calls(alive) /\ (call'.op # "union" => call'.other \in alive)
        /\ call'.want = call.want /\ \A x : Due(sets', call', x) <=> Due(sets, call, x)
    BY <1>1, <1>2, <1>8, AddTurnDue
  <2>2. \A x \in Keys : x \in call'.want <=> Due(sets', call', x)
    BY <1>1, <1>2, <2>1, WalkIs
  <2>3. CallOK' /\ ExtendBlocks' = 0
    BY <1>1, <1>8, <2>1, <2>2 DEF CallOK, AlgebraOK, ExtendBlocks
  <2>4. QED
    BY <1>3, <1>6, <1>7, <1>8, <2>3, InvNow
<1>9. CASE o.ret = "OOM" /\ ret' = "OOM" /\ pc' = "idle" /\ call' = NoCall
  <2>1. CallOK' /\ ExtendBlocks' = 0 /\ ret' \in Statuses
    BY <1>1, <1>9, QuietNext DEF Statuses
  <2>2. QED
    BY <1>3, <1>6, <1>7, <2>1, InvNow
<1>10. QED
  BY <1>1, <1>8, <1>9

LEMMA NextSourceIs ==
  ASSUME Inv, AlgebraNextSource
  PROVE  /\ pc = "algebra" /\ feed = <<>> /\ call' \in Calls(alive)
         /\ (call'.op # "union" => call'.other \in alive)
         /\ call'.want = call.want /\ call'.dest = call.dest
         /\ \A x \in Keys : x \in call'.want <=> Due(sets, call', x)
<1>1. /\ pc = "algebra" /\ call.srcs # <<>> /\ call.i >= Walking.cap
      /\ call' = [call EXCEPT !.srcs = Tail(@), !.i = 0]
  BY DEF AlgebraNextSource
<1>2. PICK c, c2 : c = call /\ c2 = call'
  OBVIOUS
<1>3. /\ c \in Calls(alive) /\ alive \subseteq Names /\ Walking = sets[c.srcs[1]]
      /\ Sound(sets[c.srcs[1]]) /\ feed = <<>> /\ (c.op # "union" => c.other \in alive)
      /\ \A k \in Keys : k \in c.want <=> Due(sets, c, k)
  BY <1>1, <1>2, WalkIs DEF Walking, AllSound
<1>4. /\ c.i \in Nat /\ Len(c.srcs) \in Nat /\ Len(c.srcs) >= 1
      /\ Tail(c.srcs) \in Seq(alive) /\ Len(Tail(c.srcs)) = Len(c.srcs) - 1
      /\ \A j \in 1 .. Len(c.srcs) - 1 : Tail(c.srcs)[j] = c.srcs[j + 1]
  BY <1>1, <1>2, <1>3, CallIs
<1>5. /\ c2 \in Calls(alive) /\ c2.op = c.op /\ c2.dest = c.dest /\ c2.srcs = Tail(c.srcs)
      /\ c2.other = c.other /\ c2.i = 0 /\ c2.want = c.want
  BY <1>1, <1>2, <1>3, <1>4 DEF Calls
<1>6. sets[c.srcs[1]].cap \in Nat /\ c.i >= sets[c.srcs[1]].cap
  BY <1>1, <1>2, <1>3, SoundIs
<1>7. \A x : Due(sets, c2, x) <=> Due(sets, c, x)
  BY <1>4, <1>5, <1>6, DueNext
<1>8. QED
  BY <1>1, <1>2, <1>3, <1>5, <1>7

LEMMA NextSourceKeeps ==
  ASSUME Inv, AlgebraNextSource
  PROVE  Inv'
<1>1. /\ sets' = sets /\ alive' = alive /\ feed' = feed /\ blocks' = blocks /\ pc' = pc /\ ret' = ret
  BY DEF AlgebraNextSource
<1>2. AllSound /\ Owning /\ blocks = Owns + ExtendBlocks /\ ret \in Statuses
  BY BlocksIs
<1>3. AllSound' /\ Owning' /\ Owns' = Owns /\ ExtendBlocks' = ExtendBlocks
  BY <1>1, <1>2, SetsKept DEF ExtendBlocks
<1>4. CallOK'
  BY <1>1, NextSourceIs DEF CallOK, AlgebraOK
<1>5. QED
  BY <1>1, <1>2, <1>3, <1>4, InvNow

LEMMA DoneKeeps ==
  ASSUME Inv, AlgebraDone
  PROVE  Inv'
<1>1. /\ sets' = sets /\ alive' = alive /\ feed' = feed /\ blocks' = blocks
      /\ pc = "algebra" /\ pc' = "idle" /\ ret' = "OK" /\ call' = NoCall
  BY DEF AlgebraDone, End
<1>2. /\ AllSound /\ Owning /\ blocks = Owns + 0 /\ Owns \in Nat /\ feed = <<>>
  BY <1>1, BlocksIs DEF ExtendBlocks, CallOK, AlgebraOK
<1>3. AllSound' /\ Owning' /\ Owns' = Owns
  BY <1>1, <1>2, SetsKept
<1>4. CallOK' /\ ExtendBlocks' = 0 /\ ret' \in Statuses
  BY <1>1, <1>2, QuietNext DEF Statuses
<1>5. QED
  BY <1>1, <1>2, <1>3, <1>4, InvNow

-----------------------------------------------------------------------------
(* set_extend.                                                             *)

(* The iterator yields keys, and of another set exactly its keys.          *)
LEMMA ExtendStartIs ==
  ASSUME Inv, NEW n \in Names, ExtendStart(n)
  PROVE  \E s, ks : /\ ExtendFrom(n, s, ks) /\ n \in alive
                    /\ s \in Seq(Keys) /\ Range(s) = ks /\ ks \subseteq Keys
<1>1. n \in alive /\ AllSound
  BY DEF ExtendStart, Inv
<1>2. CASE \E s \in Sources : ExtendFrom(n, s, Range(s))
  <2>1. PICK s \in Sources : ExtendFrom(n, s, Range(s))
    BY <1>2
  <2>2. s \in Seq(Keys)
    BY HashSetAssumption
  <2>3. Range(s) \subseteq Keys
    BY <2>2 DEF Range
  <2>4. QED
    BY <1>1, <2>1, <2>2, <2>3
<1>3. CASE \E m \in alive \ {n}, fwd \in BOOLEAN : ExtendFrom(n, IterYields(sets[m], fwd), Stored(m))
  <2>1. PICK m \in alive \ {n}, fwd \in BOOLEAN : ExtendFrom(n, IterYields(sets[m], fwd), Stored(m))
    BY <1>3
  <2>2. PICK t, b, c : t = sets[m] /\ b = t.buckets /\ c = t.cap
    OBVIOUS
  <2>3. Sound(t)
    BY <2>2, AliveSound
  <2>4. c \in Nat /\ b \in [Slots(c) -> Cells]
    BY <2>2, <2>3 DEF Sound, Fit
  <2>5. IterYields(t, fwd) \in Seq(Keys) /\ Range(IterYields(t, fwd)) = KeysAt(b, c)
    BY ONLY <2>2, <2>4, IterYieldsIs
  <2>6. KeysAt(b, c) = Stored(m) /\ Stored(m) \subseteq Keys
    BY <2>2, <2>3, KeysInIs, KeysInKeys DEF Stored
  <2>7. QED
    BY <1>1, <2>1, <2>2, <2>5, <2>6
<1>4. QED
  BY <1>2, <1>3 DEF ExtendStart

LEMMA ExtendStartKeeps ==
  ASSUME Inv, NEW n \in Names, ExtendStart(n)
  PROVE  Inv'
<1>1. PICK s, ks : /\ ExtendFrom(n, s, ks) /\ n \in alive
                   /\ s \in Seq(Keys) /\ Range(s) = ks /\ ks \subseteq Keys
  BY ExtendStartIs
<1>2. /\ pc = "idle" /\ pc' = "extend" /\ feed' = s /\ blocks' = blocks + 1 /\ ret' = ret
      /\ call' = [NoCall EXCEPT !.op = "extend", !.dest = n, !.keys = ks, !.want = Stored(n) \cup ks]
      /\ sets' = sets /\ alive' = alive
  BY <1>1 DEF ExtendStart, ExtendFrom, ExtendCall
<1>3. AllSound /\ Owning /\ blocks = Owns + 0 /\ Owns \in Nat /\ ret \in Statuses
  BY <1>2, BlocksIs DEF ExtendBlocks
<1>4. AllSound' /\ Owning' /\ Owns' = Owns /\ ExtendBlocks' = 1
  BY <1>2, <1>3, SetsKept DEF ExtendBlocks
<1>5. call'.dest = n /\ call'.keys = ks /\ call'.want = Stored(n) \cup ks
  <2>1. PICK c, W : c = call' /\ W = Stored(n) \cup ks
    OBVIOUS
  <2>2. c = [NoCall EXCEPT !.op = "extend", !.dest = n, !.keys = ks, !.want = W]
    BY <1>2, <2>1
  <2>3. c.dest = n /\ c.keys = ks /\ c.want = W
    BY <2>2 DEF NoCall
  <2>4. QED
    BY <2>1, <2>3
<1>6. CallOK'
  BY <1>1, <1>2, <1>5 DEF CallOK, ExtendOK, Stored
<1>7. QED
  BY <1>2, <1>3, <1>4, <1>6, InvNow

(* An extend in progress, and what ends one.                               *)
LEMMA ExtendingIs ==
  ASSUME Inv, pc \in {"extend", "feeding"}
  PROVE  /\ AllSound /\ Owning /\ ret \in Statuses /\ ExtendOK /\ Owns \in Nat
         /\ pc = "extend" => blocks = Owns + 1
         /\ pc = "feeding" => blocks = Owns + 2
BY BlocksIs DEF CallOK, ExtendBlocks

LEMMA ExtendEnds ==
  ASSUME AllSound', Owning', pc' = "idle", feed' = <<>>, ExtendEnd, ret' \in Statuses,
         blocks' = Owns' + 0
  PROVE  Inv'
<1>1. CallOK' /\ ExtendBlocks' = 0
  BY QuietNext DEF ExtendEnd
<1>2. QED
  BY <1>1, InvNow

LEMMA RefusedKeeps ==
  ASSUME Inv, ExtendRefused, ExtendEnd, sets' = sets
  PROVE  Inv'
<1>1. /\ pc = "extend" /\ ret' \in Statuses /\ blocks' = blocks - 1 /\ pc' = "idle" /\ feed' = <<>>
      /\ alive' = alive
  BY DEF ExtendRefused, IterDestroy, Statuses, ExtendEnd
<1>2. AllSound /\ Owning /\ blocks = Owns + 1 /\ Owns \in Nat
  BY <1>1, ExtendingIs
<1>3. AllSound' /\ Owning' /\ Owns' = Owns
  BY <1>1, <1>2, SetsKept
<1>4. QED
  BY <1>1, <1>2, <1>3, ExtendEnds

LEMMA ScratchKeeps ==
  ASSUME Inv, ExtendScratch, sets' = sets, alive' = alive, call' = call
  PROVE  Inv'
<1>1. pc = "extend" /\ blocks' = blocks + 1 /\ pc' = "feeding" /\ ret' = Nil /\ feed' = feed
  BY DEF ExtendScratch
<1>2. AllSound /\ Owning /\ blocks = Owns + 1 /\ Owns \in Nat /\ ExtendOK
  BY <1>1, ExtendingIs
<1>3. AllSound' /\ Owning' /\ Owns' = Owns /\ ExtendBlocks' = 2
  BY <1>1, <1>2, SetsKept DEF ExtendBlocks
<1>4. CallOK'
  BY <1>1, <1>2 DEF CallOK, ExtendOK, Stored
<1>5. blocks' = Owns' + ExtendBlocks' /\ ret' \in Statuses
  BY <1>1, <1>2, <1>3 DEF Statuses
<1>6. QED
  BY <1>3, <1>4, <1>5, InvNow

LEMMA FeedDoneKeeps ==
  ASSUME Inv, FeedDone, ExtendEnd, sets' = sets
  PROVE  Inv'
<1>1. /\ pc = "feeding" /\ ret' \in Statuses /\ blocks' = blocks - 1 - 1 /\ pc' = "idle" /\ feed' = <<>>
      /\ alive' = alive
  BY DEF FeedDone, FeedEnd, ScratchFree, IterDestroy, Statuses, ExtendEnd
<1>2. AllSound /\ Owning /\ blocks = Owns + 2 /\ Owns \in Nat
  BY <1>1, ExtendingIs
<1>3. AllSound' /\ Owning' /\ Owns' = Owns
  BY <1>1, <1>2, SetsKept
<1>4. QED
  BY <1>1, <1>2, <1>3, ExtendEnds

LEMMA HeadAndTail ==
  ASSUME NEW q \in Seq(Keys), q # <<>>
  PROVE  /\ Head(q) \in Keys /\ Tail(q) \in Seq(Keys) /\ Range(q) = {Head(q)} \cup Range(Tail(q))
<1>1. /\ Len(q) \in Nat /\ Len(q) >= 1 /\ Head(q) = q[1] /\ Tail(q) \in Seq(Keys)
      /\ Len(Tail(q)) = Len(q) - 1 /\ (\A i \in 1 .. Len(q) - 1 : Tail(q)[i] = q[i + 1])
      /\ DOMAIN q = 1 .. Len(q) /\ DOMAIN Tail(q) = 1 .. Len(q) - 1
      /\ \A i \in 1 .. Len(q) : q[i] \in Keys
  OBVIOUS
<1>2. ASSUME NEW x \in Range(q) PROVE x = Head(q) \/ x \in Range(Tail(q))
  <2>1. PICK i \in 1 .. Len(q) : x = q[i]
    BY <1>1, <1>2 DEF Range
  <2>2. CASE i = 1
    BY <1>1, <2>1, <2>2
  <2>3. CASE i # 1
    <3>1. i - 1 \in 1 .. Len(q) - 1 /\ Tail(q)[i - 1] = q[(i - 1) + 1] /\ (i - 1) + 1 = i
      BY <1>1, <2>1, <2>3
    <3>2. QED
      BY <1>1, <2>1, <3>1 DEF Range
  <2>4. QED
    BY <2>2, <2>3
<1>3. ASSUME NEW x \in Range(Tail(q)) PROVE x \in Range(q)
  <2>1. PICK i \in 1 .. Len(q) - 1 : x = q[i + 1]
    BY <1>1, <1>3 DEF Range
  <2>2. i + 1 \in 1 .. Len(q)
    BY <1>1, <2>1
  <2>3. QED
    BY <1>1, <2>1, <2>2 DEF Range
<1>4. Head(q) \in Range(q)
  BY <1>1 DEF Range
<1>5. QED
  BY <1>1, <1>2, <1>3, <1>4

(* One key fed, or refused for want of memory.                             *)
FedOne == /\ pc = "feeding" /\ feed # <<>>
          /\ \E o \in FeedOutcomes : o.ret \in Tolerated /\ Applied(call.dest, o)
          /\ feed' = Tail(feed) /\ pc' = pc /\ ret' = ret
          /\ alive' = alive /\ call' = call
FeedRefusal == /\ pc = "feeding" /\ feed # <<>>
               /\ \E o \in FeedOutcomes :
                    /\ o.ret \notin Tolerated
                    /\ sets' = [sets EXCEPT ![call.dest] = o.table]
                    /\ blocks' = ScratchFree(IterDestroy(blocks + o.gain))
                    /\ ret' = o.ret
               /\ pc' = "idle" /\ feed' = <<>>
               /\ ExtendEnd

LEMMA FeedTurnIs ==
  ASSUME Inv, pc = "feeding", feed # <<>>, NEW o \in FeedOutcomes,
         sets' = [sets EXCEPT ![call.dest] = o.table], alive' = alive
  PROVE  /\ AllSound' /\ Owning' /\ Owns' = Owns + o.gain /\ o.gain \in Nat
         /\ call.dest \in Names /\ call.dest \in alive
         /\ AddIs(sets[call.dest], Head(feed), o) /\ Sound(sets[call.dest])
         /\ sets'[call.dest] = o.table /\ \A m \in Names \ {call.dest} : sets'[m] = sets[m]
<1>1. AllSound /\ Owning /\ ExtendOK /\ Owns \in Nat
  BY ExtendingIs
<1>2. call.dest \in alive /\ feed \in Seq(Keys) /\ Head(feed) \in Keys /\ Sound(sets[call.dest])
  BY <1>1, HeadAndTail, AliveSound DEF ExtendOK
<1>3. AddIs(sets[call.dest], Head(feed), o)
  BY <1>2, AddOutcomesIs DEF FeedOutcomes
<1>4. PICK n, t, g : n = call.dest /\ t = o.table /\ g = o.gain
  OBVIOUS
<1>5. n \in alive /\ Sound(t) /\ g \in Nat /\ BlocksOf(t) = BlocksOf(sets[n]) + g
      /\ sets' = [sets EXCEPT ![n] = t]
  BY <1>2, <1>3, <1>4, AddedKeys
<1>6. /\ AllSound' /\ Owning' /\ Owns' = Owns + BlocksOf(t) - BlocksOf(sets[n])
      /\ BlocksOf(t) \in Nat /\ BlocksOf(sets[n]) \in Nat
      /\ n \in Names /\ sets'[n] = t /\ \A m \in Names \ {n} : sets'[m] = sets[m]
  BY <1>1, <1>5, SetChanged
<1>7. Owns' = Owns + g
  BY <1>1, <1>5, <1>6
<1>8. QED
  BY <1>2, <1>3, <1>4, <1>5, <1>6, <1>7

LEMMA FedOneKeeps ==
  ASSUME Inv, FedOne
  PROVE  Inv'
<1>1. /\ pc = "feeding" /\ feed # <<>> /\ feed' = Tail(feed) /\ pc' = pc /\ ret' = ret
      /\ alive' = alive /\ call' = call
  BY DEF FedOne
<1>2. PICK o \in FeedOutcomes : o.ret \in Tolerated /\ sets' = [sets EXCEPT ![call.dest] = o.table]
                                /\ blocks' = blocks + o.gain
  BY DEF FedOne, Applied
<1>3. /\ AllSound' /\ Owning' /\ Owns' = Owns + o.gain /\ o.gain \in Nat
      /\ AddIs(sets[call.dest], Head(feed), o) /\ sets'[call.dest] = o.table
  BY <1>1, <1>2, FeedTurnIs
<1>4. ExtendOK /\ blocks = Owns + 2 /\ Owns \in Nat /\ ret \in Statuses
  BY <1>1, ExtendingIs
<1>5. KeysIn(sets'[call.dest]) = KeysIn(sets[call.dest]) \cup {Head(feed)}
  BY <1>2, <1>3, AddedKeys
<1>6. feed' \in Seq(Keys) /\ Range(feed) = {Head(feed)} \cup Range(feed')
  BY <1>1, <1>4, HeadAndTail DEF ExtendOK
<1>7. ExtendOK'
  BY <1>1, <1>4, <1>5, <1>6 DEF ExtendOK, Stored
<1>8. CallOK' /\ ExtendBlocks' = 2
  BY <1>1, <1>7 DEF CallOK, ExtendBlocks
<1>9. blocks' = Owns' + ExtendBlocks'
  BY <1>2, <1>3, <1>4, <1>8
<1>10. QED
  BY <1>1, <1>3, <1>4, <1>8, <1>9, InvNow

LEMMA RefusalKeeps ==
  ASSUME Inv, FeedRefusal
  PROVE  Inv'
<1>1. pc = "feeding" /\ feed # <<>> /\ pc' = "idle" /\ feed' = <<>> /\ ExtendEnd /\ alive' = alive
  BY DEF FeedRefusal, ExtendEnd
<1>2. PICK o \in FeedOutcomes : /\ o.ret \notin Tolerated /\ sets' = [sets EXCEPT ![call.dest] = o.table]
                                /\ blocks' = ScratchFree(IterDestroy(blocks + o.gain)) /\ ret' = o.ret
  BY DEF FeedRefusal
<1>3. /\ AllSound' /\ Owning' /\ Owns' = Owns + o.gain /\ o.gain \in Nat
      /\ AddIs(sets[call.dest], Head(feed), o)
  BY <1>1, <1>2, FeedTurnIs
<1>4. blocks = Owns + 2 /\ Owns \in Nat
  BY <1>1, ExtendingIs
<1>5. blocks' = Owns' /\ Owns' \in Nat
  BY <1>2, <1>3, <1>4 DEF ScratchFree, IterDestroy
<1>6. ret' \in Statuses
  BY <1>2, <1>3 DEF AddIs, Statuses
<1>7. QED
  BY <1>1, <1>3, <1>5, <1>6, ExtendEnds

ExtendTurn ==
  \/ ExtendRefused /\ ExtendEnd /\ sets' = sets
  \/ ExtendScratch /\ sets' = sets /\ alive' = alive /\ call' = call
  \/ FedOne
  \/ FeedDone /\ ExtendEnd /\ sets' = sets
  \/ FeedRefusal

LEMMA ExtendTurns ==
  ASSUME ExtendStep
  PROVE  ExtendTurn
BY DEF ExtendStep, ExtendTurn, FeedOne, FedOne, FeedRefusal

LEMMA ExtendKeeps ==
  ASSUME Inv, ExtendStep
  PROVE  Inv'
BY ExtendTurns, RefusedKeeps, ScratchKeeps, FedOneKeeps, FeedDoneKeeps, RefusalKeeps DEF ExtendTurn

LEMMA InvNext ==
  ASSUME Inv, [Next]_vars
  PROVE  Inv'
<1>1. CASE \E n \in Names : \/ Create(n) \/ Destroy(n) \/ Clear(n) \/ ExtendStart(n)
                            \/ \E k \in Keys : Add(n, k) \/ Remove(n, k) \/ Contains(n, k)
  BY <1>1, CreateKeeps, DestroyKeeps, ClearKeeps, ExtendStartKeeps, AddKeeps, RemoveKeeps, ContainsKeeps
<1>2. CASE \E op \in Ops, d, a, b \in Names : AlgebraCall(op, d, a, b)
  BY <1>2, AlgebraCallKeeps
<1>3. CASE AlgebraStep
  BY <1>3, SkipKeeps, AddTurnKeeps, NextSourceKeeps, DoneKeeps DEF AlgebraStep
<1>4. CASE ExtendStep
  BY <1>4, ExtendKeeps
<1>5. CASE vars' = vars
  BY <1>5, SameKeeps DEF vars, Inv
<1>6. QED
  BY <1>1, <1>2, <1>3, <1>4, <1>5 DEF Next, Call, Ops

THEOREM SetInv == Spec => []Inv
<1>1. Init => Inv
  BY InvInit
<1>2. Inv /\ [Next]_vars => Inv'
  BY InvNext
<1>3. QED
  BY <1>1, <1>2, PTL DEF Spec

-----------------------------------------------------------------------------
(* What the invariant says of the properties.                              *)

LEMMA BucketIs ==
  ASSUME NEW b, NEW c, NEW m, Fit(b, c, m), NEW s \in Slots(c)
  PROVE  b[s] \in Bucket(c)
<1>1. c \in Nat \ {0} /\ b \in [Slots(c) -> Cells] /\ Ordered(b, c, NoHole)
  BY DEF Fit, Slots
<1>2. CASE b[s].psl = 0
  BY <1>1, <1>2, CellIs DEF Bucket
<1>3. CASE b[s].psl # 0
  <2>1. s \in Occ(b, c) /\ b[s] \in Filled
    BY <1>1, <1>3, CellIs
  <2>2. Aligned(b[s], s, c)
    BY <1>1, <2>1 DEF Ordered
  <2>3. b[s].psl \in 1 .. c
    BY <1>1, <2>1, <2>2, PslBounded
  <2>4. QED
    BY <2>1, <2>3 DEF Bucket, Filled
<1>4. QED
  BY <1>2, <1>3

LEMMA TypesNow ==
  ASSUME Inv
  PROVE  TypeOK
<1>1. AllSound /\ CallOK /\ ret \in Statuses /\ blocks \in Nat
  <2>1. /\ AllSound /\ CallOK /\ ret \in Statuses /\ Owns \in Nat /\ ExtendBlocks \in {0, 1, 2}
        /\ blocks = Owns + ExtendBlocks
    BY BlocksIs
  <2>2. QED
    BY <2>1
<1>2. ASSUME NEW n \in Names
      PROVE  /\ sets[n].cap \in Nat /\ sets[n].len \in 0 .. sets[n].cap
             /\ sets[n].max_psl \in 0 .. sets[n].cap
             /\ sets[n].buckets \in [Slots(sets[n].cap) -> Bucket(sets[n].cap)]
  <2>1. Sound(sets[n])
    BY <1>1 DEF AllSound
  <2>2. PICK b, c, m : b = sets[n].buckets /\ c = sets[n].cap /\ m = sets[n].max_psl
    OBVIOUS
  <2>3. Fit(b, c, m)
    BY <2>1, <2>2 DEF Sound
  <2>4. b \in [Slots(c) -> Bucket(c)]
    <3>1. b \in [Slots(c) -> Cells]
      BY <2>3 DEF Fit
    <3>2. \A s \in Slots(c) : b[s] \in Bucket(c)
      BY <2>3, BucketIs
    <3>3. QED
      BY <3>1, <3>2
  <2>5. QED
    BY <2>1, <2>2, <2>4, SoundIs
<1>3. alive \subseteq Names
  BY <1>1 DEF AllSound
<1>4. /\ pc \in {"idle", "algebra", "extend", "feeding"}
      /\ pc # "idle" => call.dest \in alive
  BY <1>1 DEF CallOK, AlgebraOK, ExtendOK, Calls
<1>5. pc = "algebra" => \A i \in 1 .. Len(call.srcs) : call.srcs[i] \in alive
  <2>1. pc = "algebra" => call \in Calls(alive)
    BY <1>1 DEF CallOK, AlgebraOK
  <2>2. QED
    BY <1>3, <2>1, CallIs
<1>6. QED
  BY <1>1, <1>2, <1>3, <1>4, <1>5 DEF TypeOK, Statuses

(* As many keys as buckets filled.                                         *)
LEMMA KeysCounted ==
  ASSUME NEW t, Sound(t)
  PROVE  t.len = KeyBlocks(t) /\ t.len = Cardinality(KeysIn(t))
<1>1. PICK b, c : b = t.buckets /\ c = t.cap
  OBVIOUS
<1>2. /\ c \in Nat /\ b \in [Slots(c) -> Cells] /\ DistinctIn(b, Occ(b, c))
      /\ t.len = Cardinality(Occ(b, c)) /\ IsFiniteSet(Occ(b, c))
  BY <1>1, OccupiedFinite DEF Sound, Fit, Count
<1>3. PICK f : f = [s \in Occ(b, c) |-> b[s].key]
  OBVIOUS
<1>4. PICK S, K : S = Occ(b, c) /\ K = KeysAt(b, c)
  OBVIOUS
<1>5. f \in [S -> K] /\ (\A x, y \in S : f[x] = f[y] => x = y) /\ (\A z \in K : \E x \in S : f[x] = z)
  BY <1>2, <1>3, <1>4 DEF KeysAt, DistinctIn
<1>6. Cardinality(K) = Cardinality(S)
  BY <1>2, <1>4, <1>5, AsMany
<1>7. QED
  BY <1>1, <1>2, <1>4, <1>6, KeysInIs DEF KeyBlocks

LEMMA LookupsNow ==
  ASSUME Inv
  PROVE  LookupAgrees
<1>1. \A n \in Names : Sound(sets[n])
  BY DEF Inv, AllSound
<1>2. QED
  BY <1>1, HasIs, KeysCounted DEF LookupAgrees, Stored

LEMMA BlocksNow ==
  ASSUME Inv
  PROVE  NothingLeaks
<1>1. \A n : (IF n \notin alive THEN {} ELSE Owned(sets[n], n)) = Held(n)
  BY DEF Held, Owned
<1>2. AllOwned(sets, alive) = UNION {Held(n) : n \in Names}
  BY <1>1 DEF AllOwned
<1>3. QED
  BY <1>2 DEF Inv, BlocksOK, NothingLeaks

(* Every index the code uses is in bounds, no probe length and no max_psl  *)
(* exceeds the array, and a call of the algebra or an extend works on sets *)
(* that live, whatever else is called before and after.                    *)
THEOREM SetTypes == Spec => []TypeOK
BY SetInv, TypesNow, PTL

(* set_contains finds every stored key and no other, no key is stored      *)
(* twice and len is their number, in the middle of a union, intersection,  *)
(* difference or extend too, for every hash function, also one that sends  *)
(* all keys home to one bucket.                                            *)
THEOREM LookupsCorrect == Spec => []LookupAgrees
BY SetInv, LookupsNow, PTL

(* set_add, set_remove, set_clear, set_destroy and the ends of an extend   *)
(* free each block once and lose none, refused allocations included.       *)
THEOREM BlocksCorrect == Spec => []NothingLeaks
BY SetInv, BlocksNow, PTL

-----------------------------------------------------------------------------
(* Set_t implements SetSpec.                                               *)

(* What SetSpec sees.                                                      *)
Contents == [n \in Names |-> Stored(n)]
Busy     == IF Merging THEN call.dest ELSE "nobody"
Wants    == IF Merging THEN call.want ELSE {}
Result   == IF ret = Nil THEN "none" ELSE ret

LEMMA NothingSeen ==
  ASSUME Contents' = Contents, alive' = alive, Busy' = Busy, Wants' = Wants, Result' = Result,
         asked' = asked
  PROVE  UNCHANGED Abstract!vars
BY DEF Contents, Busy, Wants, Result, Abstract!vars

LEMMA NotMerging ==
  ASSUME pc \in {"idle", "extend"}
  PROVE  Busy = "nobody" /\ Wants = {}
BY DEF Busy, Wants, Merging

LEMMA NotMergingNext ==
  ASSUME pc' \in {"idle", "extend"}
  PROVE  Busy' = "nobody" /\ Wants' = {}
BY DEF Busy, Wants, Merging

LEMMA MergingIs ==
  ASSUME Inv, pc \in {"algebra", "feeding"}
  PROVE  /\ Busy = call.dest /\ Wants = call.want /\ Busy # "nobody"
         /\ call.dest \in alive /\ call.dest \in Names
<1>1. call.dest \in alive /\ alive \subseteq Names
  BY DEF Inv, AllSound, CallOK, AlgebraOK, ExtendOK, Calls
<1>2. call.dest # "nobody"
  BY <1>1, HashSetAssumption
<1>3. QED
  BY <1>1, <1>2 DEF Busy, Wants, Merging

LEMMA MergingNext ==
  ASSUME pc' \in {"algebra", "feeding"}
  PROVE  Busy' = call'.dest /\ Wants' = call'.want
BY DEF Busy, Wants, Merging

LEMMA ResultNext ==
  ASSUME ret' \in {"OK", "OOM", "INVALID", "DUPLICATE", "NOT_FOUND", "yes", "no"}
  PROVE  Result' = ret'
BY HashSetAssumption DEF Result

LEMMA NoneNext ==
  ASSUME ret' = "none" \/ ret' = Nil
  PROVE  Result' = "none"
BY DEF Result

LEMMA SameContents ==
  ASSUME sets' = sets
  PROVE  Contents' = Contents
BY DEF Contents, Stored

LEMMA NewContents ==
  ASSUME NEW n \in Names, sets = [m \in Names |-> sets[m]], NEW t, sets' = [sets EXCEPT ![n] = t]
  PROVE  Contents' = [Contents EXCEPT ![n] = KeysIn(t)] /\ Contents[n] = Stored(n)
<1>1. sets'[n] = t /\ \A m \in Names \ {n} : sets'[m] = sets[m]
  OBVIOUS
<1>2. /\ \A m \in Names : Contents'[m] = KeysIn(sets'[m]) /\ Contents[m] = KeysIn(sets[m])
      /\ Contents = [m \in Names |-> Contents[m]] /\ Contents' = [m \in Names |-> Contents'[m]]
  BY DEF Contents, Stored
<1>3. \A m \in Names : Contents'[m] = IF m = n THEN KeysIn(t) ELSE Contents[m]
  BY <1>1, <1>2
<1>4. [Contents EXCEPT ![n] = KeysIn(t)] = [m \in Names |-> IF m = n THEN KeysIn(t) ELSE Contents[m]]
  BY <1>2
<1>5. Contents' = [m \in Names |-> IF m = n THEN KeysIn(t) ELSE Contents[m]]
  BY <1>2, <1>3
<1>6. QED
  BY <1>4, <1>5 DEF Contents

(* A table with the same keys: nothing is seen of it.                      *)
LEMMA NothingNew ==
  ASSUME NEW n \in Names, sets = [m \in Names |-> sets[m]], NEW t, sets' = [sets EXCEPT ![n] = t],
         KeysIn(t) = Stored(n)
  PROVE  Contents' = Contents
<1>1. Contents' = [Contents EXCEPT ![n] = Contents[n]]
  BY NewContents
<1>2. Contents = [m \in Names |-> Contents[m]]
  BY DEF Contents
<1>3. QED
  BY <1>1, <1>2

-----------------------------------------------------------------------------
(* The steps of SetSpec, in these terms.                                   *)

LEMMA AbsLeaves ==
  ASSUME NEW r, Contents' = Contents, alive' = alive, Busy' = Busy, Wants' = Wants, Result' = r
  PROVE  Abstract!Leave(r)
BY DEF Contents, Busy, Wants, Result, Abstract!Leave, Abstract!Says, Abstract!Same, Abstract!NoKey

LEMMA AbsChanges ==
  ASSUME NEW n, NEW ks, NEW r, Contents' = [Contents EXCEPT ![n] = ks],
         alive' = alive, Busy' = Busy, Wants' = Wants, Result' = r
  PROVE  Abstract!Change(n, ks, r)
BY DEF Contents, Busy, Wants, Result, Abstract!Change, Abstract!Says, Abstract!NoKey

LEMMA AbsReady ==
  ASSUME NEW n \in alive, Busy = "nobody"
  PROVE  Abstract!Ready(n)
BY DEF Busy, Abstract!Ready, Abstract!Nobody

LEMMA AbsMergeCall ==
  ASSUME NEW d \in Names, d \in alive, Busy = "nobody", NEW ks,
         Busy' = d, Wants' = Stored(d) \cup ks, Result' = "none", Contents' = Contents, alive' = alive
  PROVE  Abstract!MergeCall(d, ks)
<1>1. Abstract!Ready(d)
  BY AbsReady
<1>2. Contents[d] = Stored(d)
  BY DEF Contents
<1>3. QED
  BY <1>1, <1>2 DEF Contents, Busy, Wants, Result, Abstract!MergeCall, Abstract!Says, Abstract!NoKey

LEMMA AbsMergeAdd ==
  ASSUME Busy # "nobody", NEW k \in Wants, Contents' = [Contents EXCEPT ![Busy] = Contents[Busy] \cup {k}],
         alive' = alive, Busy' = Busy, Wants' = Wants, Result' = Result, asked' = asked
  PROVE  Abstract!Next
<1>1. Abstract!MergeAdd
  BY DEF Contents, Busy, Wants, Result, Abstract!MergeAdd, Abstract!Nobody
<1>2. QED
  BY <1>1 DEF Abstract!Next, Abstract!Merges

LEMMA AbsMergeEnd ==
  ASSUME Busy # "nobody", (Contents[Busy] = Wants /\ Result' = "OK") \/ Result' = "OOM",
         Busy' = "nobody", Wants' = {}, Contents' = Contents, alive' = alive, asked' = asked
  PROVE  Abstract!Next
<1>1. Abstract!MergeEnd
  BY DEF Contents, Busy, Wants, Result, Abstract!MergeEnd, Abstract!Nobody, Abstract!Says, Abstract!NoKey
<1>2. QED
  BY <1>1 DEF Abstract!Next, Abstract!Merges

LEMMA AbsMergeRefused ==
  ASSUME NEW d \in alive, Busy = "nobody", NEW r \in {"OOM", "INVALID"}, Result' = r,
         Busy' = Busy, Wants' = Wants, Contents' = Contents, alive' = alive
  PROVE  Abstract!MergeRefused(d)
<1>1. Abstract!Leave(r)
  BY AbsLeaves
<1>2. Abstract!Ready(d)
  BY AbsReady
<1>3. QED
  BY <1>1, <1>2 DEF Abstract!MergeRefused

-----------------------------------------------------------------------------
(* Every step of the set is one of SetSpec, or is not seen.                *)

LEMMA CreateRefines ==
  ASSUME Inv, NEW n \in Names, Create(n)
  PROVE  Abstract!Create(n)
<1>1. /\ n \notin alive /\ pc = "idle" /\ pc' = "idle" /\ sets' = sets
      /\ \/ alive' = alive \cup {n} /\ ret' = "OK"
         \/ alive' = alive /\ ret' = "OOM"
  BY DEF Create, Quiet
<1>2. Busy = "nobody" /\ Wants = {} /\ Busy' = Busy /\ Wants' = Wants /\ Contents' = Contents
  BY <1>1, NotMerging, NotMergingNext, SameContents
<1>3. CASE alive' = alive \cup {n} /\ ret' = "OK"
  <2>1. Result' = "OK"
    BY <1>3, ResultNext
  <2>2. QED
    BY <1>1, <1>2, <1>3, <2>1
    DEF Contents, Busy, Wants, Result, Abstract!Create, Abstract!Nobody, Abstract!Says, Abstract!NoKey
<1>4. CASE alive' = alive /\ ret' = "OOM"
  <2>1. Result' = "OOM"
    BY <1>4, ResultNext
  <2>2. Abstract!Leave("OOM")
    BY <1>2, <1>4, <2>1, AbsLeaves
  <2>3. QED
    BY <1>1, <1>2, <2>2 DEF Busy, Abstract!Create, Abstract!Nobody
<1>5. QED
  BY <1>1, <1>3, <1>4

(* An idle call on a set that lives.                                       *)
LEMMA IdleIs ==
  ASSUME Inv, NEW n, Ready(n), pc' = pc
  PROVE  /\ n \in alive /\ n \in Names /\ sets = [m \in Names |-> sets[m]] /\ Sound(sets[n])
         /\ Busy = "nobody" /\ Wants = {} /\ Busy' = Busy /\ Wants' = Wants
         /\ Abstract!Ready(n)
<1>1. n \in alive /\ pc = "idle" /\ n \in Names /\ Sound(sets[n]) /\ sets = [m \in Names |-> sets[m]]
  BY DEF Ready, Quiet, Inv, AllSound
<1>2. Busy = "nobody" /\ Wants = {} /\ Busy' = Busy /\ Wants' = Wants
  BY <1>1, NotMerging, NotMergingNext
<1>3. QED
  BY <1>1, <1>2, AbsReady

LEMMA DestroyRefines ==
  ASSUME Inv, NEW n \in Names, Destroy(n)
  PROVE  Abstract!Destroy(n)
<1>1. /\ Ready(n) /\ pc' = pc /\ sets' = [sets EXCEPT ![n] = Blank(0)] /\ alive' = alive \ {n} /\ ret' = "OK"
  BY DEF Destroy
<1>2. Contents' = [Contents EXCEPT ![n] = {}]
  <2>1. KeysIn(Blank(0)) = {}
    BY BlankIs
  <2>2. QED
    BY <1>1, <2>1, IdleIs, NewContents
<1>3. Result' = "OK"
  BY <1>1, ResultNext
<1>4. Abstract!Ready(n) /\ Busy' = Busy /\ Wants' = Wants
  BY <1>1, IdleIs
<1>5. QED
  BY <1>1, <1>2, <1>3, <1>4
  DEF Contents, Busy, Wants, Result, Abstract!Destroy, Abstract!Says, Abstract!NoKey

LEMMA ClearRefines ==
  ASSUME Inv, NEW n \in Names, Clear(n)
  PROVE  Abstract!Clear(n)
<1>1. /\ Ready(n) /\ pc' = pc /\ sets' = [sets EXCEPT ![n] = Blank(sets[n].cap)] /\ alive' = alive /\ ret' = "OK"
  BY DEF Clear
<1>2. PICK t : t = Blank(sets[n].cap)
  OBVIOUS
<1>3. KeysIn(t) = {}
  BY <1>1, <1>2, IdleIs, ClearedIs
<1>4. Contents' = [Contents EXCEPT ![n] = {}]
  BY <1>1, <1>2, <1>3, IdleIs, NewContents
<1>5. Result' = "OK"
  BY <1>1, ResultNext
<1>6. Abstract!Ready(n) /\ Busy' = Busy /\ Wants' = Wants
  BY <1>1, IdleIs
<1>7. Abstract!Change(n, {}, "OK")
  BY <1>1, <1>4, <1>5, <1>6, AbsChanges
<1>8. QED
  BY <1>6, <1>7 DEF Abstract!Clear

LEMMA AddRefines ==
  ASSUME Inv, NEW n \in Names, NEW k \in Keys, Add(n, k)
  PROVE  Abstract!Add(n, k)
<1>1. Ready(n) /\ pc' = pc /\ alive' = alive
  BY DEF Add
<1>2. PICK o \in AddOutcomes(sets[n], k) : sets' = [sets EXCEPT ![n] = o.table] /\ ret' = o.ret
  BY DEF Add, Applied
<1>3. AddIs(sets[n], k, o)
  BY <1>1, <1>2, IdleIs, AddOutcomesIs
<1>4. PICK t : t = o.table
  OBVIOUS
<1>5. /\ n \in Names /\ sets = [m \in Names |-> sets[m]] /\ sets' = [sets EXCEPT ![n] = t]
      /\ Abstract!Ready(n) /\ Busy' = Busy /\ Wants' = Wants
  BY <1>1, <1>2, <1>4, IdleIs
<1>6. Contents' = [Contents EXCEPT ![n] = KeysIn(t)] /\ Contents[n] = Stored(n)
  BY <1>5, NewContents
<1>7. CASE o.ret = "OOM" /\ KeysIn(o.table) = KeysIn(sets[n])
  <2>1. KeysIn(t) = Stored(n) /\ Result' = "OOM"
    BY <1>2, <1>4, <1>7, ResultNext DEF Stored
  <2>2. Contents' = Contents
    BY <1>5, <2>1, NothingNew
  <2>3. Abstract!Leave("OOM")
    BY <1>1, <1>5, <2>1, <2>2, AbsLeaves
  <2>4. QED
    BY <1>5, <2>3 DEF Abstract!Add
<1>8. CASE o.ret # "OOM"
  <2>1. PICK ks, r : ks = Contents[n] \cup {k} /\ r = IF k \in Contents[n] THEN "DUPLICATE" ELSE "OK"
    OBVIOUS
  <2>2. ks = KeysIn(t) /\ r = o.ret
    BY <1>3, <1>4, <1>6, <1>8, <2>1 DEF AddIs, Stored
  <2>3. Result' = r
    BY <1>2, <1>3, <1>8, <2>2, ResultNext DEF AddIs
  <2>4. Abstract!Change(n, ks, r)
    BY <1>1, <1>5, <1>6, <2>2, <2>3, AbsChanges
  <2>5. QED
    BY <1>5, <2>1, <2>4 DEF Abstract!Add, Contents
<1>9. QED
  BY <1>3, <1>7, <1>8 DEF AddIs

LEMMA RemoveRefines ==
  ASSUME Inv, NEW n \in Names, NEW k \in Keys, Remove(n, k)
  PROVE  Abstract!Remove(n, k)
<1>1. Ready(n) /\ pc' = pc /\ alive' = alive
  BY DEF Remove
<1>2. /\ n \in Names /\ sets = [m \in Names |-> sets[m]] /\ Sound(sets[n])
      /\ Abstract!Ready(n) /\ Busy' = Busy /\ Wants' = Wants
  BY <1>1, IdleIs
<1>3. PICK s : s = Find(sets[n], k)
  OBVIOUS
<1>4. Contents[n] = Stored(n) /\ Contents = [m \in Names |-> Contents[m]]
  BY DEF Contents
<1>5. PICK ks, r : ks = Contents[n] \ {k} /\ r = IF k \in Contents[n] THEN "OK" ELSE "NOT_FOUND"
  OBVIOUS
<1>6. CASE s = NoSlot
  <2>1. sets' = sets /\ ret' = "NOT_FOUND"
    BY <1>3, <1>6 DEF Remove
  <2>2. k \notin Stored(n)
    BY <1>2, <1>3, <1>6, SoundFind DEF Stored
  <2>3. Contents' = [Contents EXCEPT ![n] = ks]
    BY <1>4, <1>5, <2>1, <2>2, SameContents
  <2>4. Result' = r
    BY <1>4, <1>5, <2>1, <2>2, ResultNext
  <2>5. Abstract!Change(n, ks, r)
    BY <1>1, <1>2, <2>3, <2>4, AbsChanges
  <2>6. QED
    BY <1>2, <1>5, <2>5 DEF Abstract!Remove, Contents
<1>7. CASE s # NoSlot
  <2>1. PICK t : t = Table(CloseHole(sets[n], s), sets[n].cap, sets[n].len - 1, sets[n].max_psl)
    OBVIOUS
  <2>2. sets' = [sets EXCEPT ![n] = t] /\ ret' = "OK"
    BY <1>3, <1>7, <2>1 DEF Remove
  <2>3. k \in KeysIn(sets[n]) /\ KeysIn(t) = KeysIn(sets[n]) \ {k}
    BY <1>2, <1>3, <1>7, <2>1, RemovedIs
  <2>4. KeysIn(t) = ks /\ r = "OK"
    BY <1>4, <1>5, <2>3 DEF Stored
  <2>5. Contents' = [Contents EXCEPT ![n] = ks]
    BY <1>2, <2>2, <2>4, NewContents
  <2>6. Result' = r
    BY <2>2, <2>4, ResultNext
  <2>7. Abstract!Change(n, ks, r)
    BY <1>1, <1>2, <2>5, <2>6, AbsChanges
  <2>8. QED
    BY <1>2, <1>5, <2>7 DEF Abstract!Remove, Contents
<1>8. QED
  BY <1>6, <1>7

LEMMA ContainsRefines ==
  ASSUME Inv, NEW n \in Names, NEW k \in Keys, Contains(n, k)
  PROVE  Abstract!Contains(n, k)
<1>1. Ready(n) /\ pc' = pc /\ alive' = alive /\ sets' = sets /\ ret' = IF Has(sets[n], k) THEN "yes" ELSE "no"
  BY DEF Contains
<1>2. n \in Names /\ Sound(sets[n]) /\ Abstract!Ready(n) /\ Busy' = Busy /\ Wants' = Wants
  BY <1>1, IdleIs
<1>3. PICK r : r = IF k \in Contents[n] THEN "yes" ELSE "no"
  OBVIOUS
<1>4. Has(sets[n], k) <=> k \in Contents[n]
  BY <1>2, HasIs DEF Contents, Stored
<1>5. Result' = r
  BY <1>1, <1>3, <1>4, ResultNext
<1>6. Contents' = Contents
  BY <1>1, SameContents
<1>7. Abstract!Leave(r)
  BY <1>1, <1>2, <1>5, <1>6, AbsLeaves
<1>8. QED
  BY <1>2, <1>3, <1>7 DEF Abstract!Contains, Contents

LEMMA AlgebraCallRefines ==
  ASSUME Inv, NEW op \in Ops, NEW d \in Names, NEW a \in Names, NEW b \in Names,
         AlgebraCall(op, d, a, b), asked' = <<op, d, a, b>>
  PROVE  Abstract!Next
<1>1. pc = "idle" /\ pc' = "algebra" /\ ret' = "none" /\ sets' = sets /\ alive' = alive
  BY DEF AlgebraCall, Ready, Quiet
<1>2. call'.want = Stored(d) \cup Made(op, a, b) /\ call'.dest = d
  BY AlgebraCallIs
<1>3. d \in alive /\ a \in alive /\ b \in alive
  BY AlgebraCallIs
<1>4. PICK ks : ks = Made(op, a, b)
  OBVIOUS
<1>5. ks = Abstract!Combined(op, a, b)
  <2>1. Contents[a] = Stored(a) /\ Contents[b] = Stored(b)
    BY DEF Contents
  <2>2. QED
    BY <1>4, <2>1 DEF Made, Abstract!Combined, Contents
<1>6. Busy = "nobody" /\ Contents' = Contents /\ Result' = "none"
  BY <1>1, NotMerging, SameContents, NoneNext
<1>7. Busy' = d /\ Wants' = Stored(d) \cup ks
  BY <1>1, <1>2, <1>4, MergingNext
<1>8. Abstract!MergeCall(d, ks)
  BY <1>1, <1>3, <1>6, <1>7, AbsMergeCall
<1>9. QED
  BY <1>3, <1>5, <1>8 DEF Ops, Abstract!Next, Abstract!Merges, Abstract!Algebra

LEMMA SkipRefines ==
  ASSUME Inv, AlgebraSkip, asked' = asked
  PROVE  UNCHANGED Abstract!vars
<1>1. /\ pc = "algebra" /\ pc' = "algebra" /\ call.srcs # <<>> /\ sets' = sets /\ alive' = alive /\ ret' = ret
      /\ call' = [call EXCEPT !.i = @ + 1]
  BY DEF AlgebraSkip, AtBucket
<1>2. call'.dest = call.dest /\ call'.want = call.want
  BY <1>1, WalkIs, CallOn
<1>3. Busy' = Busy /\ Wants' = Wants
  BY <1>1, <1>2, MergingIs, MergingNext
<1>4. Result' = Result /\ Contents' = Contents
  BY <1>1, SameContents DEF Result
<1>5. QED
  BY <1>1, <1>3, <1>4, NothingSeen

LEMMA NextSourceRefines ==
  ASSUME Inv, AlgebraNextSource, asked' = asked
  PROVE  UNCHANGED Abstract!vars
<1>1. pc = "algebra" /\ pc' = "algebra" /\ sets' = sets /\ alive' = alive /\ ret' = ret
  BY DEF AlgebraNextSource
<1>2. call'.dest = call.dest /\ call'.want = call.want
  BY NextSourceIs
<1>3. Busy' = Busy /\ Wants' = Wants
  BY <1>1, <1>2, MergingIs, MergingNext
<1>4. Result' = Result /\ Contents' = Contents
  BY <1>1, SameContents DEF Result
<1>5. QED
  BY <1>1, <1>3, <1>4, NothingSeen

(* A key put in a set that was wanted there.                               *)
LEMMA WantedAdded ==
  ASSUME Inv, pc \in {"algebra", "feeding"}, pc' = pc, alive' = alive, ret' = ret,
         call'.dest = call.dest, call'.want = call.want,
         NEW k \in call.want, NEW t, sets' = [sets EXCEPT ![call.dest] = t],
         KeysIn(t) = KeysIn(sets[call.dest]) \cup {k}, asked' = asked
  PROVE  Abstract!Next
<1>1. PICK d : d = call.dest
  OBVIOUS
<1>2. Busy = d /\ Wants = call.want /\ Busy # "nobody" /\ d \in Names
  BY <1>1, MergingIs
<1>3. Busy' = Busy /\ Wants' = Wants /\ Result' = Result
  BY <1>1, <1>2, MergingNext DEF Result
<1>4. sets = [m \in Names |-> sets[m]] /\ sets' = [sets EXCEPT ![d] = t]
  BY <1>1 DEF Inv, AllSound
<1>5. Contents' = [Contents EXCEPT ![d] = KeysIn(t)] /\ Contents[d] = Stored(d)
  BY <1>2, <1>4, NewContents
<1>6. Contents' = [Contents EXCEPT ![Busy] = Contents[Busy] \cup {k}]
  BY <1>1, <1>2, <1>5 DEF Stored
<1>7. k \in Wants
  BY <1>2
<1>8. QED
  BY <1>2, <1>3, <1>6, <1>7, AbsMergeAdd

(* The end of a merge, which changes no set but may give one a larger      *)
(* array.                                                                  *)
LEMMA MergeOver ==
  ASSUME Inv, pc \in {"algebra", "feeding"}, pc' = "idle", alive' = alive, Contents' = Contents,
         \/ Stored(call.dest) = call.want /\ ret' = "OK"
         \/ ret' = "OOM",
         asked' = asked
  PROVE  Abstract!Next
<1>1. Busy = call.dest /\ Wants = call.want /\ Busy # "nobody" /\ call.dest \in Names
  BY MergingIs
<1>2. Busy' = "nobody" /\ Wants' = {}
  BY NotMergingNext
<1>3. Contents[call.dest] = Stored(call.dest)
  BY <1>1 DEF Contents
<1>4. (Contents[Busy] = Wants /\ Result' = "OK") \/ Result' = "OOM"
  BY <1>1, <1>3, ResultNext
<1>5. QED
  BY <1>1, <1>2, <1>4, AbsMergeEnd

LEMMA AddTurnRefines ==
  ASSUME Inv, AlgebraAdd, asked' = asked
  PROVE  Abstract!Next
<1>1. PICK o, k :
        /\ pc = "algebra" /\ feed = <<>> /\ feed' = feed /\ alive' = alive
        /\ k \in Keys /\ AddIs(sets[call.dest], k, o) /\ call.dest \in alive
        /\ sets' = [sets EXCEPT ![call.dest] = o.table] /\ blocks' = blocks + o.gain
        /\ call.i \in Occupied(sets[call.srcs[1]]) /\ sets[call.srcs[1]].buckets[call.i].key = k
        /\ Picks(sets, call, k)
        /\ \/ /\ o.ret \in Tolerated /\ call' = [call EXCEPT !.i = @ + 1]
              /\ pc' = pc /\ ret' = ret
           \/ o.ret = "OOM" /\ ret' = "OOM" /\ pc' = "idle" /\ call' = NoCall
  BY AddTurnIs
<1>2. call.srcs # <<>>
  BY DEF AlgebraAdd, AtBucket
<1>3. PICK d, t : d = call.dest /\ t = o.table
  OBVIOUS
<1>4. d \in Names /\ sets = [m \in Names |-> sets[m]] /\ sets' = [sets EXCEPT ![d] = t]
  BY <1>1, <1>3, MergingIs DEF Inv, AllSound
<1>5. CASE o.ret \in Tolerated /\ call' = [call EXCEPT !.i = @ + 1] /\ pc' = pc /\ ret' = ret
  <2>1. call'.want = call.want /\ call'.dest = call.dest /\ Due(sets, call, k)
    BY <1>1, <1>2, <1>5, AddTurnDue
  <2>2. k \in call.want
    BY <1>1, <1>2, <2>1, WalkIs
  <2>3. KeysIn(t) = KeysIn(sets[call.dest]) \cup {k}
    BY <1>1, <1>3, <1>5, AddedKeys
  <2>4. QED
    BY <1>1, <1>3, <1>4, <1>5, <2>1, <2>2, <2>3, WantedAdded
<1>6. CASE o.ret = "OOM" /\ ret' = "OOM" /\ pc' = "idle" /\ call' = NoCall
  <2>1. KeysIn(t) = Stored(d)
    BY <1>1, <1>3, <1>6 DEF AddIs, Stored
  <2>2. Contents' = Contents
    BY <1>4, <2>1, NothingNew
  <2>3. QED
    BY <1>1, <1>6, <2>2, MergeOver
<1>7. QED
  BY <1>1, <1>5, <1>6

LEMMA DoneRefines ==
  ASSUME Inv, AlgebraDone, asked' = asked
  PROVE  Abstract!Next
<1>1. /\ pc = "algebra" /\ call.srcs = <<>> /\ pc' = "idle" /\ ret' = "OK"
      /\ sets' = sets /\ alive' = alive
  BY DEF AlgebraDone, End
<1>2. /\ call \in Calls(alive) /\ AllSound /\ \A k \in Keys : k \in call.want <=> Due(sets, call, k)
  BY <1>1 DEF Inv, CallOK, AlgebraOK
<1>3. \A k : Due(sets, call, k) <=> k \in Stored(call.dest)
  BY <1>1 DEF Due, AheadIn, Stored
<1>4. call.want \subseteq Keys /\ Stored(call.dest) \subseteq Keys
  <2>1. call.want \subseteq Keys /\ call.dest \in Names
    BY <1>1, <1>2, MergingIs DEF Calls
  <2>2. QED
    BY <1>2, <2>1, KeysInKeys DEF AllSound, Stored
<1>5. Stored(call.dest) = call.want
  BY <1>2, <1>3, <1>4
<1>6. QED
  BY <1>1, <1>5, SameContents, MergeOver

LEMMA ExtendStartRefines ==
  ASSUME Inv, NEW n \in Names, ExtendStart(n), asked' = asked
  PROVE  UNCHANGED Abstract!vars
<1>1. pc = "idle" /\ pc' = "extend" /\ ret' = ret /\ sets' = sets /\ alive' = alive
  BY DEF ExtendStart, ExtendFrom, ExtendCall
<1>2. Busy' = Busy /\ Wants' = Wants /\ Result' = Result /\ Contents' = Contents
  BY <1>1, NotMerging, NotMergingNext, SameContents DEF Result
<1>3. QED
  BY <1>1, <1>2, NothingSeen

(* The keys an extend was asked for, at its first step of its own.         *)
LEMMA AskedKeys ==
  ASSUME Inv, pc = "extend"
  PROVE  /\ call.dest \in alive /\ call.dest \in Names /\ call.keys \in SUBSET Keys
         /\ call.want = Stored(call.dest) \cup call.keys
<1>1. ExtendOK /\ AllSound
  BY ExtendingIs
<1>2. Range(feed) \subseteq Keys
  BY <1>1 DEF ExtendOK, Range
<1>3. QED
  BY <1>1, <1>2 DEF ExtendOK, AllSound

LEMMA RefusedRefines ==
  ASSUME Inv, ExtendRefused, ExtendEnd, sets' = sets, asked' = <<"extend", call.dest, call.keys>>
  PROVE  Abstract!Next
<1>1. pc = "extend" /\ pc' = "idle" /\ ret' \in {"INVALID", "OOM"} /\ alive' = alive
  BY DEF ExtendRefused, ExtendEnd
<1>2. Busy = "nobody" /\ Busy' = Busy /\ Wants' = Wants /\ Contents' = Contents /\ Result' = ret'
  BY <1>1, NotMerging, NotMergingNext, SameContents, ResultNext
<1>3. PICK r, d, ks : r = ret' /\ d = call.dest /\ ks = call.keys
  OBVIOUS
<1>4. r \in {"OOM", "INVALID"} /\ Result' = r
  BY <1>1, <1>2, <1>3
<1>5. d \in alive /\ d \in Names /\ ks \in SUBSET Keys /\ asked' = <<"extend", d, ks>>
  BY <1>1, <1>3, AskedKeys
<1>6. Abstract!MergeRefused(d)
  BY <1>1, <1>2, <1>4, <1>5, AbsMergeRefused
<1>7. QED
  BY <1>5, <1>6 DEF Abstract!Next, Abstract!Merges

LEMMA ScratchRefines ==
  ASSUME Inv, ExtendScratch, sets' = sets, alive' = alive, call' = call,
         asked' = <<"extend", call.dest, call.keys>>
  PROVE  Abstract!Next
<1>1. pc = "extend" /\ pc' = "feeding" /\ ret' = Nil
  BY DEF ExtendScratch
<1>2. PICK d, ks : d = call.dest /\ ks = call.keys
  OBVIOUS
<1>3. /\ d \in alive /\ d \in Names /\ ks \in SUBSET Keys /\ asked' = <<"extend", d, ks>>
      /\ call.want = Stored(d) \cup ks
  BY <1>1, <1>2, AskedKeys
<1>4. Busy = "nobody" /\ Contents' = Contents /\ Result' = "none"
  BY <1>1, NotMerging, SameContents, NoneNext
<1>5. Busy' = d /\ Wants' = Stored(d) \cup ks
  BY <1>1, <1>2, <1>3, MergingNext
<1>6. Abstract!MergeCall(d, ks)
  BY <1>3, <1>4, <1>5, AbsMergeCall
<1>7. QED
  BY <1>3, <1>6 DEF Abstract!Next, Abstract!Merges

LEMMA FedOneRefines ==
  ASSUME Inv, FedOne, asked' = asked
  PROVE  Abstract!Next
<1>1. /\ pc = "feeding" /\ feed # <<>> /\ pc' = pc /\ ret' = ret /\ alive' = alive /\ call' = call
  BY DEF FedOne
<1>2. PICK o \in FeedOutcomes : o.ret \in Tolerated /\ sets' = [sets EXCEPT ![call.dest] = o.table]
  BY DEF FedOne, Applied
<1>3. AddIs(sets[call.dest], Head(feed), o)
  BY <1>1, <1>2, FeedTurnIs
<1>4. PICK k, t : k = Head(feed) /\ t = o.table
  OBVIOUS
<1>5. KeysIn(t) = KeysIn(sets[call.dest]) \cup {k}
  BY <1>2, <1>3, <1>4, AddedKeys
<1>6. k \in call.want
  <2>1. ExtendOK
    BY <1>1, ExtendingIs
  <2>2. Range(feed) = {Head(feed)} \cup Range(Tail(feed))
    BY <1>1, <2>1, HeadAndTail DEF ExtendOK
  <2>3. QED
    BY <1>4, <2>1, <2>2 DEF ExtendOK
<1>7. QED
  BY <1>1, <1>2, <1>4, <1>5, <1>6, WantedAdded

LEMMA FeedDoneRefines ==
  ASSUME Inv, FeedDone, ExtendEnd, sets' = sets, asked' = asked
  PROVE  Abstract!Next
<1>1. pc = "feeding" /\ feed = <<>> /\ pc' = "idle" /\ ret' = "OK" /\ alive' = alive
  BY DEF FeedDone, FeedEnd, ExtendEnd
<1>2. call.want = Stored(call.dest) \cup Range(feed)
  BY <1>1, ExtendingIs DEF ExtendOK
<1>3. Range(feed) = {}
  BY <1>1 DEF Range
<1>4. QED
  BY <1>1, <1>2, <1>3, SameContents, MergeOver

LEMMA RefusalRefines ==
  ASSUME Inv, FeedRefusal, asked' = asked
  PROVE  Abstract!Next
<1>1. pc = "feeding" /\ feed # <<>> /\ pc' = "idle" /\ alive' = alive
  BY DEF FeedRefusal, ExtendEnd
<1>2. PICK o \in FeedOutcomes : /\ o.ret \notin Tolerated /\ sets' = [sets EXCEPT ![call.dest] = o.table]
                                /\ ret' = o.ret
  BY DEF FeedRefusal
<1>3. AddIs(sets[call.dest], Head(feed), o)
  BY <1>1, <1>2, FeedTurnIs
<1>4. PICK d, t : d = call.dest /\ t = o.table
  OBVIOUS
<1>5. d \in Names /\ sets = [m \in Names |-> sets[m]] /\ sets' = [sets EXCEPT ![d] = t]
  BY <1>1, <1>2, <1>4, MergingIs DEF Inv, AllSound
<1>6. KeysIn(t) = Stored(d) /\ ret' = "OOM"
  BY <1>2, <1>3, <1>4, AddedKeys DEF Stored
<1>7. Contents' = Contents
  BY <1>5, <1>6, NothingNew
<1>8. QED
  BY <1>1, <1>6, <1>7, MergeOver

LEMMA CallRefines ==
  ASSUME Inv, NEW n \in Names, Call(n)
  PROVE  Abstract!Next
<1>1. CASE \/ asked' = <<"create", n>> /\ Create(n)
           \/ asked' = <<"destroy", n>> /\ Destroy(n)
           \/ asked' = <<"clear", n>> /\ Clear(n)
  <2>1. Abstract!Calls(n)
    BY <1>1, CreateRefines, DestroyRefines, ClearRefines DEF Abstract!Calls
  <2>2. QED
    BY <2>1 DEF Abstract!Next
<1>2. ASSUME NEW k \in Keys,
             \/ asked' = <<"add", n, k>> /\ Add(n, k)
             \/ asked' = <<"remove", n, k>> /\ Remove(n, k)
             \/ asked' = <<"contains", n, k>> /\ Contains(n, k)
      PROVE  Abstract!Next
  <2>1. Abstract!Calls(n)
    BY <1>2, AddRefines, RemoveRefines, ContainsRefines DEF Abstract!Calls
  <2>2. QED
    BY <2>1 DEF Abstract!Next
<1>3. ASSUME NEW op \in Ops, NEW a \in Names, NEW b \in Names,
             asked' = <<op, n, a, b>>, AlgebraCall(op, n, a, b)
      PROVE  Abstract!Next
  BY <1>3, AlgebraCallRefines
<1>4. QED
  BY <1>1, <1>2, <1>3 DEF Call, Ops

LEMMA ExtendRefines ==
  ASSUME Inv, ExtendStep,
         asked' = IF pc = "extend" THEN <<"extend", call.dest, call.keys>> ELSE asked
  PROVE  Abstract!Next
<1>1. /\ pc = "extend" => asked' = <<"extend", call.dest, call.keys>>
      /\ pc # "extend" => asked' = asked
  OBVIOUS
<1>2. CASE ExtendRefused /\ ExtendEnd /\ sets' = sets
  <2>1. pc = "extend"
    BY <1>2 DEF ExtendRefused
  <2>2. QED
    BY <1>1, <1>2, <2>1, RefusedRefines
<1>3. CASE ExtendScratch /\ sets' = sets /\ alive' = alive /\ call' = call
  <2>1. pc = "extend"
    BY <1>3 DEF ExtendScratch
  <2>2. QED
    BY <1>1, <1>3, <2>1, ScratchRefines
<1>4. CASE FedOne \/ FeedRefusal \/ (FeedDone /\ ExtendEnd /\ sets' = sets)
  <2>1. pc = "feeding"
    BY <1>4 DEF FedOne, FeedRefusal, FeedDone, FeedEnd
  <2>2. asked' = asked
    BY <1>1, <2>1
  <2>3. QED
    BY <1>4, <2>2, FedOneRefines, RefusalRefines, FeedDoneRefines
<1>5. QED
  BY <1>2, <1>3, <1>4, ExtendTurns DEF ExtendTurn

LEMMA StepRefines ==
  ASSUME Inv, [Next]_vars
  PROVE  [Abstract!Next]_(Abstract!vars)
<1>1. CASE AlgebraStep /\ UNCHANGED asked
  BY <1>1, SkipRefines, AddTurnRefines, NextSourceRefines, DoneRefines DEF AlgebraStep
<1>2. CASE vars' = vars
  BY <1>2, NothingSeen DEF vars, Contents, Busy, Wants, Result, Stored, Merging
<1>3. ASSUME NEW n \in Names, Call(n) \/ (ExtendStart(n) /\ UNCHANGED asked)
      PROVE  Abstract!Next \/ UNCHANGED Abstract!vars
  BY <1>3, CallRefines, ExtendStartRefines
<1>4. QED
  BY <1>1, <1>2, <1>3, ExtendRefines DEF Next

LEMMA InitRefines ==
  ASSUME Init
  PROVE  Abstract!Init
<1>1. \A n \in Names : Stored(n) = {}
  BY BlankIs DEF Init, Stored
<1>2. [n \in Names |-> Stored(n)] = [n \in Names |-> {}]
  BY <1>1
<1>3. ~Merging /\ ret = "none" /\ alive = {} /\ asked = <<"nothing">>
  BY DEF Init, Merging
<1>4. QED
  BY <1>2, <1>3 DEF Abstract!Init, Abstract!Nobody, Abstract!NoKey

(* Whatever the hash function, the array sizes and the refusals, set_t     *)
(* promises what SetSpec says: each set_add, set_remove and set_contains   *)
(* is that call, on the set and with the key it was made with, a refused   *)
(* one changes nothing, and set_union, set_intersection, set_difference    *)
(* and set_extend, with sets that may be one and the same, end with        *)
(* exactly the mathematical result of their own operands or, out of        *)
(* memory, with a part of it.                                              *)
THEOREM SetRefines == Spec => ImplementsSet
<1>1. Init => Abstract!Init
  BY InitRefines
<1>2. Inv /\ [Next]_vars => [Abstract!Next]_(Abstract!vars)
  BY StepRefines
<1>3. QED
  BY <1>1, <1>2, SetInv, PTL DEF Spec, Abstract!Spec, ImplementsSet
=============================================================================
