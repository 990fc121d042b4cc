--------------------------- MODULE HashMapProofs ---------------------------
(***************************************************************************)
(* Theorems of HashMap for every set of keys and values, every hash        *)
(* function, capacity, threshold and width of the psl.  First its types    *)
(* and the Robin Hood order that every probe relies on; on these rest the  *)
(* theorems about its entries: no key ever has two, a lookup that stops    *)
(* has missed nothing, max_psl covers every bucket, no path loses a block  *)
(* or frees one twice, an iterator yields every entry exactly once, and    *)
(* the uint8_t psl never wraps.                                            *)
(***************************************************************************)
EXTENDS MapExtend, FiniteSetTheorems, TLAPS

-----------------------------------------------------------------------------
(* Arithmetic of the slots and of the psl.  *)

(* The successor of a slot is the next one, or the first.  *)
LEMMA ModWrap ==
  ASSUME NEW c \in Nat \ {0}, NEW s \in Slots(c)
  PROVE  (s + 1) % c = IF s + 1 = c THEN 0 ELSE s + 1
  BY SMT DEF Slots

LEMMA SuccIs ==
  ASSUME cap \in Nat \ {0}, NEW s \in Slots(cap)
  PROVE  /\ Succ(s) = IF s + 1 = cap THEN 0 ELSE s + 1
         /\ Succ(s) \in Slots(cap)
  BY ModWrap DEF Succ, Slots

LEMMA ModRange ==
  ASSUME NEW c \in Nat \ {0}, NEW x \in Nat
  PROVE  x % c \in 0 .. c - 1
  BY SMT

(* A key's home is a slot.  *)
LEMMA HomeInRange ==
  ASSUME NEW c \in Nat \ {0}, NEW k \in Keys
  PROVE  HomeOf(k, c) \in Slots(c)
<1>1. Hash[k] \in Nat
  BY HashMapAssumption
<1>2. QED
  BY <1>1, ModRange DEF HomeOf, Slots

(* A psl that has not wrapped to 0 has grown by one.  *)
LEMMA IncPslIs ==
  ASSUME NEW p \in 0 .. PslWidth - 1
  PROVE  /\ IncPsl(p) \in 0 .. PslWidth - 1
         /\ IncPsl(p) # 0 => IncPsl(p) = p + 1
<1>1. PslWidth \in Nat \ {0} /\ p \in Slots(PslWidth)
  BY HashMapAssumption DEF Slots
<1>2. IncPsl(p) = IF p + 1 = PslWidth THEN 0 ELSE p + 1
  BY <1>1, ModWrap DEF IncPsl
<1>3. QED
  BY <1>1, <1>2 DEF Slots

-----------------------------------------------------------------------------
(* The order of a table of c buckets under each change the code makes.  *)

(* An aligned bucket's psl is at most the number of buckets.  *)
LEMMA PslBounded ==
  ASSUME NEW c \in Nat \ {0}, NEW s \in Slots(c), NEW e \in Entry,
         Aligned(e, s, c)
  PROVE  e.psl \in 1 .. c
<1>1. HomeOf(e.key, c) \in Slots(c) /\ e.psl \in Nat \ {0}
  BY HomeInRange, HashMapAssumption DEF Entry
<1>2. QED
  BY <1>1 DEF Aligned, Dist, Slots

(* Putting an entry in the place of an emptier or poorer bucket keeps the  *)
(* order.                                                                  *)
LEMMA PlaceKeepsOrder ==
  ASSUME NEW c \in Nat \ {0}, NEW b \in [Slots(c) -> Bucket],
         NEW s \in Slots(c), NEW e \in Entry,
         Ordered(b, c, NoHole), Aligned(e, s, c), Run(b, c, NoHole, e.psl, s),
         b[s].psl < e.psl
  PROVE  Ordered([b EXCEPT ![s] = e], c, NoHole)
<1> DEFINE b2 == [b EXCEPT ![s] = e]
<1>1. e.psl \in 1 .. c
  BY PslBounded
<1>2. ASSUME NEW t \in Occupied(b2, c)
      PROVE  Aligned(b2[t], t, c) /\ Run(b2, c, NoHole, b2[t].psl, t)
  <2>0. t \in Slots(c) /\ b2[t].psl # 0
    BY DEF Occupied
  <2>1. CASE t = s
    <3>1. ASSUME NEW d \in 1 .. e.psl - 1
          PROVE  b2[Back(s, d, c)].psl >= e.psl - d
      <4>1. Back(s, d, c) \in Slots(c) /\ Back(s, d, c) # s /\ Back(s, d, c) # NoHole
        BY <1>1 DEF Back, Slots, NoHole
      <4>2. b[Back(s, d, c)].psl >= e.psl - d
        BY <4>1 DEF Run
      <4>3. QED
        BY <4>1, <4>2
    <3>2. QED
      BY <2>1, <3>1 DEF Run
  <2>2. CASE t # s
    <3>1. b2[t] = b[t] /\ t \in Occupied(b, c)
      BY <2>0, <2>2 DEF Occupied
    <3>2. Aligned(b[t], t, c) /\ Run(b, c, NoHole, b[t].psl, t)
      BY <3>1 DEF Ordered
    <3>3. b[t] \in Entry
      BY <2>0, <3>1 DEF Bucket, Empty
    <3>4. b[t].psl \in 1 .. c
      BY <2>0, <3>2, <3>3, PslBounded
    <3>5. ASSUME NEW d \in 1 .. b[t].psl - 1
          PROVE  b2[Back(t, d, c)].psl >= b[t].psl - d
      <4>1. Back(t, d, c) \in Slots(c) /\ Back(t, d, c) # NoHole
        BY <2>0, <3>4 DEF Back, Slots, NoHole
      <4>2. b[Back(t, d, c)].psl >= b[t].psl - d
        BY <3>2, <4>1 DEF Run
      <4>3. b[s].psl \in Int /\ e.psl \in Int
        BY <1>1, HashMapAssumption DEF Bucket, Entry, Empty
      <4>4. CASE Back(t, d, c) = s
        BY <4>2, <4>3, <4>4, <3>4
      <4>5. CASE Back(t, d, c) # s
        BY <4>1, <4>2, <4>5
      <4>6. QED
        BY <4>4, <4>5
    <3>6. QED
      BY <3>1, <3>2, <3>5 DEF Run
  <2>3. QED
    BY <2>1, <2>2
<1>3. QED
  BY <1>2 DEF Ordered

(* Something carried past an occupied bucket has not been round the whole  *)
(* array, as long as one bucket is empty.                                  *)
LEMMA CarriedNotRound ==
  ASSUME NEW c \in Nat \ {0}, NEW b \in [Slots(c) -> Bucket],
         NEW s \in Slots(c), NEW p \in 1 .. c, Run(b, c, NoHole, p, s),
         b[s].psl # 0,
         NEW e \in Slots(c), b[e].psl = 0
  PROVE  p < c
<1>1. SUFFICES ASSUME p = c PROVE FALSE
  OBVIOUS
<1> DEFINE d == Dist(e, s, c)
<1>2. e # s
  OBVIOUS
<1>3. d \in 1 .. p - 1 /\ Back(s, d, c) = e /\ e # NoHole
  BY <1>1, <1>2 DEF Dist, Back, Slots, NoHole
<1>4. b[e].psl >= p - d
  BY <1>3 DEF Run
<1>5. QED
  BY <1>3, <1>4

(* What is carried to the next bucket stays aligned and its run unbroken,  *)
(* when the bucket it leaves behind is at least as far from home.          *)
LEMMA CarryKeepsRun ==
  ASSUME NEW c \in Nat \ {0}, NEW b \in [Slots(c) -> Bucket],
         NEW s \in Slots(c), NEW p \in 1 .. c,
         Run(b, c, NoHole, p, s), p < c, b[s].psl >= p,
         NEW n \in Slots(c), n = IF s + 1 = c THEN 0 ELSE s + 1
  PROVE  Run(b, c, NoHole, p + 1, n)
<1>1. ASSUME NEW d \in 1 .. p
      PROVE  b[Back(n, d, c)].psl >= p + 1 - d
  <2>1. CASE d = 1
    <3>1. Back(n, d, c) = s
      BY <2>1 DEF Back, Slots
    <3>2. b[s].psl \in Int
      BY HashMapAssumption DEF Bucket, Entry, Empty
    <3>3. QED
      BY <2>1, <3>1, <3>2
  <2>2. CASE d # 1
    <3>1. /\ d - 1 \in 1 .. p - 1
          /\ Back(n, d, c) = Back(s, d - 1, c)
          /\ Back(s, d - 1, c) \in Slots(c)
          /\ Back(s, d - 1, c) # NoHole
      BY <2>2 DEF Back, Slots, NoHole
    <3>2. b[Back(s, d - 1, c)].psl >= p - (d - 1)
      BY <3>1 DEF Run
    <3>3. QED
      BY <3>1, <3>2
  <2>3. QED
    BY <2>1, <2>2
<1>2. (p + 1) - 1 = p
  OBVIOUS
<1>3. QED
  BY <1>1, <1>2 DEF Run

LEMMA CarryKeepsAligned ==
  ASSUME NEW c \in Nat \ {0}, NEW s \in Slots(c),
         NEW e \in Entry, Aligned(e, s, c), e.psl < c,
         NEW n \in Slots(c), n = IF s + 1 = c THEN 0 ELSE s + 1,
         NEW f \in Entry, f.key = e.key, f.psl = e.psl + 1
  PROVE  Aligned(f, n, c)
<1>1. HomeOf(e.key, c) \in Slots(c) /\ e.psl \in Nat
  BY HomeInRange, HashMapAssumption DEF Entry
<1>2. QED
  BY <1>1 DEF Aligned, Dist, Slots

(* Emptying a bucket leaves an order with a hole.  *)
LEMMA RemoveKeepsOrder ==
  ASSUME NEW c \in Nat \ {0}, NEW b \in [Slots(c) -> Bucket],
         NEW s \in Slots(c), Ordered(b, c, NoHole)
  PROVE  Ordered([b EXCEPT ![s] = Empty], c, s)
<1> DEFINE b2 == [b EXCEPT ![s] = Empty]
<1>1. ASSUME NEW t \in Occupied(b2, c)
      PROVE  Aligned(b2[t], t, c) /\ Run(b2, c, s, b2[t].psl, t)
  <2>1. t \in Slots(c) /\ t # s /\ b2[t] = b[t] /\ t \in Occupied(b, c)
    BY DEF Occupied, Empty
  <2>2. Aligned(b[t], t, c) /\ Run(b, c, NoHole, b[t].psl, t) /\ b[t] \in Entry
    BY <2>1 DEF Ordered, Occupied, Bucket, Empty
  <2>3. b[t].psl \in 1 .. c
    BY <2>1, <2>2, PslBounded
  <2>4. ASSUME NEW d \in 1 .. b[t].psl - 1
        PROVE  b2[Back(t, d, c)].psl >= b[t].psl - d \/ Back(t, d, c) = s
    <3>1. Back(t, d, c) \in Slots(c) /\ Back(t, d, c) # NoHole
      BY <2>1, <2>3 DEF Back, Slots, NoHole
    <3>2. QED
      BY <2>2, <3>1 DEF Run
  <2>5. QED
    BY <2>1, <2>2, <2>4 DEF Run
<1>2. QED
  BY <1>1 DEF Ordered

(* Moving the bucket after the hole into it, one step nearer its home,     *)
(* moves the hole on and keeps the order.                                  *)
LEMMA ShiftKeepsOrder ==
  ASSUME NEW c \in Nat \ {0}, NEW b \in [Slots(c) -> Bucket],
         NEW h \in Slots(c), b[h].psl = 0, Ordered(b, c, h),
         NEW n \in Slots(c), n = IF h + 1 = c THEN 0 ELSE h + 1,
         b[n].psl > 1,
         NEW e, e = WithPsl(b[n], b[n].psl - 1)
  PROVE  Ordered([b EXCEPT ![h] = e, ![n] = Empty], c, n)
<1> DEFINE b2 == [b EXCEPT ![h] = e, ![n] = Empty]
<1>1. n # h /\ b[n] \in Entry /\ n \in Occupied(b, c)
  BY DEF Bucket, Empty, Occupied
<1>2. Aligned(b[n], n, c) /\ Run(b, c, h, b[n].psl, n) /\ b[n].psl \in 2 .. c
  BY <1>1, PslBounded DEF Ordered
<1>3. e \in Entry /\ e.psl = b[n].psl - 1 /\ e.key = b[n].key
  BY <1>1, <1>2, HashMapAssumption DEF Entry, WithPsl
<1>4. b2[h] = e /\ b2[n] = Empty
  BY <1>1
<1> PICK q \in 2 .. c : q = b[n].psl
  BY <1>2
<1>5. Aligned(e, h, c)
  <2>1. PICK home \in Slots(c) : home = HomeOf(e.key, c)
    BY <1>3, HomeInRange DEF Entry
  <2>2. q - 1 = Dist(home, n, c)
    BY <1>2, <1>3, <2>1 DEF Aligned
  <2>3. q - 2 = Dist(home, h, c)
    BY ONLY <2>2, h \in Slots(c), n = (IF h + 1 = c THEN 0 ELSE h + 1),
            c \in Nat \ {0}, home \in Slots(c), q \in 2 .. c DEF Dist, Slots
  <2>4. QED
    BY <1>3, <2>1, <2>3 DEF Aligned
<1>6. Run(b2, c, n, e.psl, h)
  <2>1. ASSUME NEW d \in 1 .. e.psl - 1
        PROVE  b2[Back(h, d, c)].psl >= e.psl - d
    <3>0. d \in 1 .. q - 2
      BY <1>3
    <3>1. /\ d + 1 \in 1 .. q - 1
          /\ Back(h, d, c) = Back(n, d + 1, c)
          /\ Back(h, d, c) \in Slots(c) /\ Back(h, d, c) # h /\ Back(h, d, c) # n
      BY ONLY <3>0, h \in Slots(c), n = (IF h + 1 = c THEN 0 ELSE h + 1),
              c \in Nat \ {0}, q \in 2 .. c DEF Back, Slots
    <3>2. b[Back(n, d + 1, c)].psl >= q - (d + 1)
      BY <1>2, <3>1 DEF Run
    <3>3. b2[Back(h, d, c)] = b[Back(h, d, c)]
      BY <3>1
    <3>4. QED
      BY <1>3, <3>0, <3>1, <3>2, <3>3
  <2>2. QED
    BY <2>1 DEF Run
<1>7. ASSUME NEW t \in Slots(c) \ {h, n}, b[t].psl # 0
      PROVE  Aligned(b[t], t, c) /\ Run(b2, c, n, b[t].psl, t)
  <2>1. Aligned(b[t], t, c) /\ Run(b, c, h, b[t].psl, t) /\ b[t] \in Entry
    BY <1>7 DEF Ordered, Occupied, Bucket, Empty
  <2>2. b[t].psl \in 1 .. c
    BY <2>1, PslBounded
  <2>3. ASSUME NEW d \in 1 .. b[t].psl - 1, Back(t, d, c) # n
        PROVE  b2[Back(t, d, c)].psl >= b[t].psl - d
    <3>1. Back(t, d, c) \in Slots(c)
      BY <2>2 DEF Back, Slots
    <3>2. CASE Back(t, d, c) = h
      <4>1. d - 1 \in 1 .. b[t].psl - 1 /\ Back(t, d - 1, c) = n
        BY <2>2, <3>2, <1>7 DEF Back, Slots
      <4>2. b[n].psl >= b[t].psl - (d - 1)
        BY <1>1, <2>1, <4>1 DEF Run
      <4>3. QED
        BY <1>2, <1>3, <1>4, <2>2, <3>2, <4>2
    <3>3. CASE Back(t, d, c) # h
      BY <2>1, <2>3, <3>1, <3>3 DEF Run
    <3>4. QED
      BY <3>2, <3>3
  <2>4. QED
    BY <2>1, <2>3 DEF Run
<1>8. ASSUME NEW t \in Occupied(b2, c)
      PROVE  Aligned(b2[t], t, c) /\ Run(b2, c, n, b2[t].psl, t)
  <2>1. t \in Slots(c) /\ t # n
    BY <1>4 DEF Occupied, Empty
  <2>2. CASE t = h
    BY <1>4, <1>5, <1>6, <2>2
  <2>3. CASE t # h
    BY <1>7, <2>1, <2>3 DEF Occupied
  <2>4. QED
    BY <2>2, <2>3
<1>9. QED
  BY <1>8 DEF Ordered

(* A hole before an empty bucket, or before one at home, breaks no run.  *)
LEMMA ShiftEndKeepsOrder ==
  ASSUME NEW c \in Nat \ {0}, NEW b \in [Slots(c) -> Bucket],
         NEW h \in Slots(c), Ordered(b, c, h), b[h].psl = 0,
         NEW n \in Slots(c), n = IF h + 1 = c THEN 0 ELSE h + 1,
         ~(b[n].psl > 1)
  PROVE  Ordered(b, c, NoHole)
<1>1. ASSUME NEW t \in Occupied(b, c)
      PROVE  Run(b, c, NoHole, b[t].psl, t)
  <2>1. /\ Aligned(b[t], t, c) /\ Run(b, c, h, b[t].psl, t)
        /\ b[t] \in Entry /\ t \in Slots(c) /\ t # h
    BY <1>1 DEF Ordered, Occupied, Bucket, Empty
  <2>2. b[t].psl \in 1 .. c
    BY <2>1, PslBounded
  <2>3. ASSUME NEW d \in 1 .. b[t].psl - 1
        PROVE  b[Back(t, d, c)].psl >= b[t].psl - d
    <3>1. CASE Back(t, d, c) = h
      <4>1. b[n].psl \in Int /\ d \in Int
        BY HashMapAssumption DEF Bucket, Entry, Empty
      <4>2. CASE t = n
        BY <2>2, <4>1, <4>2
      <4>3. CASE t # n
        <5>1. d - 1 \in 1 .. b[t].psl - 1 /\ Back(t, d - 1, c) = n /\ n # h
          BY <2>1, <2>2, <3>1, <4>3 DEF Back, Slots
        <5>2. b[n].psl >= b[t].psl - (d - 1)
          BY <2>1, <5>1 DEF Run
        <5>3. QED
          BY <2>2, <4>1, <5>2
      <4>4. QED
        BY <4>2, <4>3
    <3>2. CASE Back(t, d, c) # h
      BY <2>1, <3>2 DEF Run
    <3>3. QED
      BY <3>1, <3>2
  <2>4. QED
    BY <2>3 DEF Run
<1>2. QED
  BY <1>1 DEF Ordered

-----------------------------------------------------------------------------
(* The occupied buckets under each change.  *)

LEMMA OccupiedFinite ==
  ASSUME NEW c \in Nat, NEW b
  PROVE  /\ IsFiniteSet(Occupied(b, c))
         /\ Cardinality(Occupied(b, c)) \in Nat
<1>1. IsFiniteSet(Slots(c))
  BY FS_Interval DEF Slots
<1>2. Occupied(b, c) \subseteq Slots(c)
  BY DEF Occupied
<1>3. QED
  BY <1>1, <1>2, FS_Subset, FS_CardinalityType

LEMMA NoneOccupied ==
  ASSUME NEW c \in Nat
  PROVE  /\ NoBuckets(c) \in [Slots(c) -> Bucket]
         /\ Occupied(NoBuckets(c), c) = {}
         /\ Cardinality(Occupied(NoBuckets(c), c)) = 0
<1>1. NoBuckets(c) \in [Slots(c) -> Bucket]
  BY DEF NoBuckets, Bucket
<1>2. Occupied(NoBuckets(c), c) = {}
  BY DEF NoBuckets, Occupied, Empty
<1>3. QED
  BY <1>1, <1>2, FS_EmptySet

LEMMA FillOne ==
  ASSUME NEW c \in Nat, NEW b \in [Slots(c) -> Bucket], NEW s \in Slots(c),
         NEW e \in Entry, b[s].psl = 0
  PROVE  Cardinality(Occupied([b EXCEPT ![s] = e], c)) = Cardinality(Occupied(b, c)) + 1
<1>1. e.psl # 0
  BY HashMapAssumption DEF Entry
<1>2. Occupied([b EXCEPT ![s] = e], c) = Occupied(b, c) \cup {s} /\ s \notin Occupied(b, c)
  BY <1>1 DEF Occupied
<1>3. QED
  BY <1>2, OccupiedFinite, FS_AddElement

LEMMA SwapOne ==
  ASSUME NEW c \in Nat, NEW b \in [Slots(c) -> Bucket], NEW s \in Slots(c),
         NEW e \in Entry, b[s].psl # 0
  PROVE  Occupied([b EXCEPT ![s] = e], c) = Occupied(b, c)
<1>1. e.psl # 0
  BY HashMapAssumption DEF Entry
<1>2. QED
  BY <1>1 DEF Occupied

LEMMA EmptyOne ==
  ASSUME NEW c \in Nat, NEW b \in [Slots(c) -> Bucket], NEW s \in Slots(c),
         b[s].psl # 0
  PROVE  Cardinality(Occupied([b EXCEPT ![s] = Empty], c)) = Cardinality(Occupied(b, c)) - 1
<1>1. Occupied([b EXCEPT ![s] = Empty], c) = Occupied(b, c) \ {s} /\ s \in Occupied(b, c)
  BY DEF Occupied, Empty
<1>2. QED
  BY <1>1, OccupiedFinite, FS_RemoveElement

(* With fewer entries than buckets, a bucket is empty.  *)
LEMMA OneIsEmpty ==
  ASSUME NEW c \in Nat, NEW b, Cardinality(Occupied(b, c)) < c
  PROVE  \E e \in Slots(c) : b[e].psl = 0
<1>1. SUFFICES ASSUME \A e \in Slots(c) : b[e].psl # 0 PROVE FALSE
  OBVIOUS
<1>2. Occupied(b, c) = 0 .. c - 1
  BY <1>1 DEF Occupied, Slots
<1>3. Cardinality(0 .. c - 1) = c
  BY FS_Interval
<1>4. QED
  BY <1>2, <1>3

-----------------------------------------------------------------------------
(* The inductive invariant.  Room is what makes LenAndLoad inductive, and  *)
(* LenAndLoad what makes ProbeOrder so: a carried entry that had gone      *)
(* round a full array would no longer be aligned.                          *)

IInv == TypeOK /\ LenAndLoad /\ Room /\ ProbeOrder

LEMMA InitIInv == Init => IInv
<1> SUFFICES ASSUME Init PROVE IInv
  OBVIOUS
<1> USE HashMapAssumption DEF Init
<1>1. TypeOK
  BY NoneOccupied DEF TypeOK, InLoop, Inserting, Empty, NoIter, NoArg
<1>2. LenAndLoad /\ Room
  BY NoneOccupied DEF LenAndLoad, Room
<1>3. ProbeOrder
  BY NoneOccupied DEF ProbeOrder, Ordered, Inserting
<1>4. QED
  BY <1>1, <1>2, <1>3 DEF IInv

(* What a call in progress knows of the array.  *)
LEMMA Facts ==
  ASSUME TypeOK, LenAndLoad, Room, pc # "none"
  PROVE  /\ cap \in Nat \ {0}
         /\ Cardinality(Occupied(buckets, cap)) = len
         /\ \E e \in Slots(cap) : buckets[e].psl = 0
         /\ InLoop => slot \in Slots(cap) /\ Succ(slot) \in Slots(cap)
<1>1. cap \in Nat \ {0} /\ Cardinality(Occupied(buckets, cap)) = len /\ len < cap
  BY DEF TypeOK, LenAndLoad, Room
<1>2. InLoop => slot \in Slots(cap)
  BY DEF TypeOK
<1>3. QED
  BY <1>1, <1>2, OneIsEmpty, SuccIs

(* Types are kept.  *)

LEMMA TypeStepLife ==
  ASSUME IInv, Create \/ Clear \/ Destroy
  PROVE  TypeOK'
<1> USE HashMapAssumption DEF IInv, table, rehash
<1>1. CASE Create
  BY <1>1, NoneOccupied DEF Create, TypeOK, InLoop, Inserting, Room
<1>2. CASE Clear
  BY <1>2, NoneOccupied, OccupiedFinite
     DEF Clear, Quiet, EntryBlocks, TypeOK, InLoop, Inserting
<1>3. CASE Destroy
  BY <1>3, NoneOccupied, OccupiedFinite
     DEF Destroy, Quiet, EntryBlocks, TypeOK, InLoop, Inserting
<1>4. QED
  BY <1>1, <1>2, <1>3

LEMMA TypeStepFind ==
  ASSUME IInv,
         \/ \E op \in {"get", "remove"}, k \in Keys : Find(op, k)
         \/ FindStep \/ RemoveStep
  PROVE  TypeOK'
<1> USE HashMapAssumption DEF IInv, table, rehash
<1>0. pc # "none"
  BY DEF Find, FindStep, FindMiss, FindNext, GetHit, Found, RemoveStep, RemoveHit,
         ShiftMove, ShiftDone
<1>f. /\ cap \in Nat \ {0}
      /\ InLoop => slot \in Slots(cap) /\ Succ(slot) \in Slots(cap)
  BY <1>0, Facts
<1>1. ASSUME NEW op \in {"get", "remove"}, NEW k \in Keys, Find(op, k)
      PROVE  TypeOK'
  <2>1. HomeOf(k, cap) \in Slots(cap) /\ HomeOf(k, cap) \in Nat
    BY <1>f, HomeInRange DEF Slots
  <2>2. QED
    BY <1>1, <2>1 DEF Find, KeyArg, TypeOK, InLoop, Inserting
<1>2. CASE FindMiss
  BY <1>2 DEF FindMiss, Return, TypeOK, InLoop, Inserting, NoArg
<1>3. CASE FindNext
  <2>1. IncPsl(probe) \in Nat
    BY ModRange DEF IncPsl, TypeOK
  <2>2. Succ(slot) \in Slots(cap) /\ Succ(slot) \in Nat
    BY <1>3, <1>f DEF FindNext, InLoop, Slots
  <2>3. QED
    BY <1>3, <2>1, <2>2 DEF FindNext, TypeOK, InLoop, Inserting
<1>4. CASE GetHit
  <2>1. buckets[slot].value \in Vals
    BY <1>4, <1>f DEF GetHit, Found, TypeOK, InLoop, Bucket, Entry, Empty
  <2>2. QED
    BY <1>4, <2>1 DEF GetHit, Found, Return, TypeOK, InLoop, Inserting, NoArg
<1>5. CASE RemoveHit
  <2>1. len - 1 \in Nat
    <3>1. slot \in Slots(cap) /\ buckets[slot].psl # 0
      BY <1>5, <1>f DEF RemoveHit, Found, InLoop
    <3>2. Cardinality(Occupied([buckets EXCEPT ![slot] = Empty], cap))
            = Cardinality(Occupied(buckets, cap)) - 1
      BY <3>1, EmptyOne DEF TypeOK
    <3>3. QED
      BY <3>2, OccupiedFinite DEF TypeOK, LenAndLoad
  <2>2. QED
    BY <1>5, <1>f, <2>1 DEF RemoveHit, Found, TypeOK, InLoop, Inserting, Bucket
<1>6. CASE ShiftMove
  <2> DEFINE n == Succ(slot)
             e == WithPsl(buckets[n], buckets[n].psl - 1)
  <2>1. n \in Slots(cap) /\ slot \in Slots(cap) /\ buckets[n] \in Entry
    BY <1>6, <1>f DEF ShiftMove, Shiftable, TypeOK, InLoop, Bucket, Empty
  <2>2. e \in Bucket
    BY <1>6, <2>1 DEF ShiftMove, Shiftable, WithPsl, Bucket, Entry
  <2>3. buckets' = [buckets EXCEPT ![slot] = e, ![n] = Empty] /\ slot' = n
    BY <1>6 DEF ShiftMove
  <2>4. buckets' \in [Slots(cap) -> Bucket]
    BY <2>1, <2>2, <2>3 DEF TypeOK, Bucket
  <2>5. n \in Nat
    BY <2>1, <1>f DEF Slots
  <2> HIDE DEF n, e
  <2>6. /\ slot' \in Nat /\ slot' \in Slots(cap')
        /\ buckets' \in [Slots(cap') -> Bucket]
    BY <1>6, <2>1, <2>3, <2>4, <2>5 DEF ShiftMove
  <2>7. /\ pc' = pc /\ pc = "shift" /\ UNCHANGED <<cap, len, max_psl, old_buckets, old_cap, i>>
        /\ UNCHANGED <<incoming, probe, it, arg, ret, blocks>>
    BY <1>6 DEF ShiftMove
  <2>8. QED
    BY <2>6, <2>7 DEF TypeOK, InLoop, Inserting
<1>7. CASE ShiftDone
  BY <1>7 DEF ShiftDone, Return, TypeOK, InLoop, Inserting, NoArg
<1>8. QED
  BY <1>1, <1>2, <1>3, <1>4, <1>5, <1>6, <1>7 DEF FindStep, RemoveStep

LEMMA TypeStepSet ==
  ASSUME IInv, SetStep \/ \E e \in Offered : SetCall(e[1], e[2])
  PROVE  TypeOK'
<1> USE HashMapAssumption DEF IInv, table, rehash
<1>0. pc # "none"
  BY DEF SetCall, Quiet, SetStep, NoGrow, Refused, Grow, RehashSkip, RehashOne, RehashDone,
         AllocKey, ValRefused, AllocVal
<1>f. cap \in Nat \ {0}
  BY <1>0, Facts
<1>1. ASSUME NEW e \in Offered, SetCall(e[1], e[2])
      PROVE  TypeOK'
  <2>1. e[1] \in Keys /\ e[2] \in Vals
    OBVIOUS
  <2>2. QED
    BY <1>1, <2>1 DEF SetCall, Quiet, SetArg, TypeOK, InLoop, Inserting
<1>2. CASE NoGrow
  BY <1>2 DEF NoGrow, TypeOK, InLoop, Inserting
<1>3. CASE Refused
  BY <1>3 DEF Refused, Return, TypeOK, InLoop, Inserting, NoArg
<1>4. CASE Grow
  BY <1>4, NoneOccupied DEF Grow, TypeOK, InLoop, Inserting
<1>5. CASE RehashSkip
  BY <1>5 DEF RehashSkip, TypeOK, InLoop, Inserting
<1>6. CASE RehashOne
  <2> DEFINE e == WithPsl(old_buckets[i], 1)
             h == HomeOf(old_buckets[i].key, cap)
  <2>1. old_buckets[i] \in Entry
    BY <1>6 DEF RehashOne, TypeOK, Bucket, Empty, Slots
  <2>2. e \in Entry /\ e \in [key : Keys \cup {Nil}, value : Vals \cup {Nil}, psl : 0 .. PslWidth - 1]
    BY <2>1 DEF Entry, WithPsl
  <2>3. h \in Slots(cap) /\ h \in Nat
    BY <2>1, <1>f, HomeInRange DEF Entry, Slots
  <2> HIDE DEF e, h
  <2>4. incoming' = e /\ slot' = h
    BY <1>6 DEF RehashOne, e, h
  <2>5. i' \in 0 .. old_cap
    BY <1>6 DEF RehashOne, TypeOK
  <2>6. QED
    BY <1>6, <2>2, <2>3, <2>4, <2>5 DEF RehashOne, TypeOK, InLoop, Inserting
<1>7. CASE RehashDone
  BY <1>7, NoneOccupied DEF RehashDone, TypeOK, InLoop, Inserting
<1>8. CASE AllocKey
  BY <1>8 DEF AllocKey, TypeOK, InLoop, Inserting
<1>9. CASE ValRefused
  BY <1>9 DEF ValRefused, FreeKeyCopy, Return, TypeOK, InLoop, Inserting, NoArg
<1>10. CASE AllocVal
  <2>1. arg.key \in Keys /\ arg.value \in Vals
    BY <1>10 DEF AllocVal, TypeOK, NoArg
  <2>2. HomeOf(arg.key, cap) \in Slots(cap) /\ HomeOf(arg.key, cap) \in Nat
    BY <2>1, <1>f, HomeInRange DEF Slots
  <2>3. QED
    BY <1>10, <2>1, <2>2 DEF AllocVal, Entry, TypeOK, InLoop, Inserting
<1>11. QED
  BY <1>1, <1>2, <1>3, <1>4, <1>5, <1>6, <1>7, <1>8, <1>9, <1>10 DEF SetStep

LEMMA TypeStepInsert ==
  ASSUME IInv, InsertStep
  PROVE  TypeOK'
<1> USE HashMapAssumption DEF IInv, table, rehash
<1>0. Inserting
  BY DEF InsertStep, InsertEmpty, InsertReplace, InsertSwap, InsertAdvance
<1>f. /\ cap \in Nat \ {0} /\ slot \in Slots(cap)
      /\ Succ(slot) \in Slots(cap) /\ Succ(slot) \in Nat
      /\ incoming \in Entry
  <2>1. pc # "none" /\ InLoop
    BY <1>0 DEF Inserting, InLoop
  <2>2. QED
    BY <1>0, <2>1, Facts DEF Slots, TypeOK
<1>r. incoming.psl \in 0 .. PslWidth - 1 /\ Raise(incoming.psl) \in Nat
  BY <1>f DEF Entry, Raise, TypeOK
<1>1. ASSUME Carry(incoming) \/ (Carry(buckets[slot]) /\ buckets[slot].psl # 0),
             UNCHANGED <<cap, len, rehash, probe, it, arg, ret, blocks>>,
             buckets' \in [Slots(cap) -> Bucket], max_psl' \in Nat
      PROVE  TypeOK'
  <2>1. PICK b \in Entry : Carry(b)
    BY <1>1, <1>f DEF TypeOK, Bucket, Empty
  <2> DEFINE p == IncPsl(b.psl)
  <2>2. p \in 0 .. PslWidth - 1
    BY IncPslIs DEF Entry
  <2>3. /\ WithPsl(b, p) \in [key : Keys \cup {Nil}, value : Vals \cup {Nil}, psl : 0 .. PslWidth - 1]
        /\ p # 0 => WithPsl(b, p) \in Entry
    BY <2>2 DEF WithPsl, Entry
  <2> HIDE DEF p
  <2>4. /\ incoming' = WithPsl(b, p) /\ slot' = Succ(slot)
        /\ pc' = IF p = 0 THEN "abort" ELSE pc
    BY <2>1 DEF Carry, p
  <2>5. QED
    BY <1>0, <1>1, <1>f, <2>3, <2>4 DEF TypeOK, InLoop, Inserting
<1>2. ASSUME InsertReturn, incoming' = Empty,
             UNCHANGED <<cap, rehash, it>>, blocks' \in Int, len' \in Nat,
             buckets' \in [Slots(cap) -> Bucket], max_psl' \in Nat
      PROVE  TypeOK'
  <2>1. CASE pc = "reinsert"
    BY <1>2, <2>1 DEF InsertReturn, TypeOK, InLoop, Inserting, Empty
  <2>2. CASE pc # "reinsert"
    BY <1>2, <2>2 DEF InsertReturn, Return, TypeOK, InLoop, Inserting, Empty, NoArg
  <2>3. QED
    BY <2>1, <2>2
<1>3. CASE InsertEmpty
  <2>1. buckets' \in [Slots(cap) -> Bucket]
    BY <1>3, <1>f DEF InsertEmpty, TypeOK, Bucket
  <2>2. QED
    BY <1>2, <1>3, <1>r, <2>1 DEF InsertEmpty, TypeOK
<1>4. CASE InsertReplace
  <2>1. buckets[slot] \in Entry
    BY <1>4, <1>f DEF InsertReplace, TypeOK, Bucket, Empty
  <2>2. WithValue(buckets[slot], incoming.value) \in Entry
    BY <1>f, <2>1 DEF Entry, WithValue
  <2>3. buckets' = [buckets EXCEPT ![slot] = WithValue(buckets[slot], incoming.value)]
    BY <1>4 DEF InsertReplace
  <2>4. buckets' \in [Slots(cap) -> Bucket]
    BY <1>f, <2>2, <2>3 DEF TypeOK, Bucket
  <2>5. QED
    BY <1>2, <1>4, <2>4 DEF InsertReplace, TypeOK
<1>5. CASE InsertSwap
  <2>1. buckets' \in [Slots(cap) -> Bucket]
    BY <1>5, <1>f DEF InsertSwap, TypeOK, Bucket
  <2>2. QED
    BY <1>1, <1>5, <1>r, <2>1 DEF InsertSwap
<1>6. CASE InsertAdvance
  BY <1>1, <1>6 DEF InsertAdvance, TypeOK
<1>7. QED
  BY <1>3, <1>4, <1>5, <1>6 DEF InsertStep

LEMMA TypeStepIter ==
  ASSUME IInv, (\E fwd \in BOOLEAN : IterOpen(fwd)) \/ IterNext \/ IterDrop
  PROVE  TypeOK'
<1> USE HashMapAssumption DEF IInv, table, rehash
<1> DEFINE Iters == [on : BOOLEAN, fwd : BOOLEAN, slot : Nat,
                     seen : SUBSET (Keys \X Vals), yields : Nat]
<1>1. ASSUME it' \in Iters, blocks' \in Int,
             UNCHANGED <<table, rehash, incoming, slot, probe, pc, arg, ret>>
      PROVE  TypeOK'
  BY <1>1 DEF TypeOK, InLoop, Inserting
<1>2. ASSUME NEW fwd \in BOOLEAN, IterOpen(fwd) PROVE TypeOK'
  <2>1. it' \in Iters
    BY <1>2 DEF IterOpen, NoIter, TypeOK
  <2>2. QED
    BY <1>1, <1>2, <2>1 DEF IterOpen, TypeOK
<1>3. CASE IterNext
  <2>1. PICK s \in Ahead :
          it' = [on |-> TRUE, fwd |-> it.fwd, slot |-> Past(s),
                 seen |-> it.seen \cup {<<buckets[s].key, buckets[s].value>>},
                 yields |-> it.yields + 1]
    BY <1>3 DEF IterNext
  <2>2. s \in Nat /\ buckets[s] \in Entry
    BY DEF Ahead, Occupied, Slots, TypeOK, Bucket, Empty
  <2>3. Past(s) \in Nat /\ <<buckets[s].key, buckets[s].value>> \in Keys \X Vals
    BY <2>2 DEF Past, Entry
  <2>4. it' \in Iters
    BY <2>1, <2>3 DEF TypeOK
  <2>5. QED
    BY <1>1, <1>3, <2>4 DEF IterNext, TypeOK
<1>4. CASE IterDrop
  BY <1>1, <1>4 DEF IterDrop, NoIter, TypeOK
<1>5. QED
  BY <1>2, <1>3, <1>4

-----------------------------------------------------------------------------
(* The count and the load are kept.  *)

(* A step that leaves the array and its count as they are.  *)
LEMMA LoadKept ==
  ASSUME IInv, UNCHANGED table, pc # "none",
         \/ pc' = pc /\ pc # "shift"
         \/ pc' \in {"idle", "find", "set"},
         \/ UNCHANGED rehash
         \/ pc = "rehash" /\ i' = i + 1 /\ i \in Int /\ len \in Int /\ UNCHANGED old_cap
  PROVE  (LenAndLoad /\ Room)'
<1> USE DEF IInv, table, rehash
<1>1. LenAndLoad'
  <2>1. pc' # "none"
    OBVIOUS
  <2>2. QED
    BY <2>1 DEF LenAndLoad
<1>2. Room'
  BY DEF Room
<1>3. QED
  BY <1>1, <1>2

LEMMA LoadStepFind ==
  ASSUME IInv,
         \/ \E op \in {"get", "remove"}, k \in Keys : Find(op, k)
         \/ FindStep \/ RemoveStep
  PROVE  (LenAndLoad /\ Room)'
<1> USE HashMapAssumption DEF IInv
<1>1. ASSUME NEW op \in {"get", "remove"}, NEW k \in Keys, Find(op, k)
      PROVE  (LenAndLoad /\ Room)'
  BY <1>1, LoadKept DEF Find
<1>2. CASE FindMiss \/ FindNext \/ GetHit \/ ShiftDone
  BY <1>2, LoadKept DEF FindMiss, FindNext, GetHit, Found, ShiftDone, Return
<1>3. CASE RemoveHit
  <2>1. /\ slot \in Slots(cap) /\ buckets[slot].psl # 0 /\ pc = "find"
        /\ cap \in Nat /\ len \in Nat
    BY <1>3 DEF RemoveHit, Found, TypeOK, InLoop
  <2>2. Cardinality(Occupied([buckets EXCEPT ![slot] = Empty], cap))
          = Cardinality(Occupied(buckets, cap)) - 1
    BY <2>1, EmptyOne DEF TypeOK
  <2>3. buckets'[slot].psl = 0
    BY <1>3, <2>1 DEF RemoveHit, Empty, TypeOK
  <2>4. /\ buckets' = [buckets EXCEPT ![slot] = Empty] /\ len' = len - 1
        /\ UNCHANGED <<cap, slot, old_cap, i>> /\ pc' = "shift"
    BY <1>3 DEF RemoveHit, rehash
  <2>5. LenAndLoad'
    BY <2>1, <2>2, <2>4 DEF LenAndLoad
  <2>6. Room'
    BY <2>1, <2>3, <2>4 DEF Room
  <2>7. QED
    BY <2>5, <2>6
<1>4. CASE ShiftMove
  <2> DEFINE n == Succ(slot)
             e == WithPsl(buckets[n], buckets[n].psl - 1)
  <2>1. pc = "shift" /\ InLoop /\ cap \in Nat \ {0}
    BY <1>4, Facts DEF ShiftMove, InLoop
  <2>2. slot \in Slots(cap) /\ n \in Slots(cap) /\ buckets[n] \in Entry
    BY <1>4, <2>1, Facts DEF ShiftMove, Shiftable, TypeOK, Bucket, Empty
  <2>3. e \in Entry /\ buckets[n].psl # 0
    BY <1>4, <2>2 DEF ShiftMove, Shiftable, Entry, WithPsl
  <2>4. /\ buckets' = [buckets EXCEPT ![slot] = e, ![n] = Empty] /\ slot' = n
        /\ UNCHANGED <<cap, len, pc, old_cap, i>>
    BY <1>4 DEF ShiftMove, rehash
  <2> HIDE DEF n, e
  <2>5. buckets[slot].psl = 0 /\ e.psl # 0
    BY <2>1, <2>3 DEF Room, Entry
  <2>6. Cardinality(Occupied(buckets', cap)) = Cardinality(Occupied(buckets, cap))
    <3> DEFINE b1 == [buckets EXCEPT ![slot] = e]
    <3>1. cap \in Nat /\ buckets \in [Slots(cap) -> Bucket] /\ slot # n
      BY <2>3, <2>5 DEF TypeOK
    <3>2. b1 \in [Slots(cap) -> Bucket] /\ b1[n].psl # 0
      BY <2>2, <2>3, <3>1 DEF Bucket
    <3>3. Cardinality(Occupied(b1, cap)) = Cardinality(Occupied(buckets, cap)) + 1
      BY <2>2, <2>3, <2>5, <3>1, FillOne
    <3>4. Cardinality(Occupied([b1 EXCEPT ![n] = Empty], cap)) = Cardinality(Occupied(b1, cap)) - 1
      <4> HIDE DEF b1
      <4> QED
        BY <2>2, <3>1, <3>2, EmptyOne
    <3>5. buckets' = [b1 EXCEPT ![n] = Empty]
      BY <2>4
    <3> HIDE DEF b1
    <3>6. Cardinality(Occupied(buckets, cap)) \in Nat
      BY <3>1, OccupiedFinite
    <3>7. QED
      BY ONLY <3>3, <3>4, <3>5, <3>6
  <2>7. buckets'[n].psl = 0
    BY <2>2, <2>4 DEF TypeOK, Empty
  <2>8. LenAndLoad'
    BY <2>1, <2>4, <2>6 DEF LenAndLoad
  <2>9. Room'
    BY <2>1, <2>4, <2>7 DEF Room
  <2>10. QED
    BY <2>8, <2>9
<1>5. QED
  BY <1>1, <1>2, <1>3, <1>4 DEF FindStep, RemoveStep

LEMMA LoadStepLife ==
  ASSUME IInv, Create \/ Clear \/ Destroy
  PROVE  (LenAndLoad /\ Room)'
<1> USE HashMapAssumption DEF IInv, rehash
<1>1. CASE Create
  <2>1. \/ buckets' = buckets /\ cap' = cap /\ pc' = pc
        \/ buckets' = NoBuckets(InitCap) /\ cap' = InitCap /\ pc' = "idle"
    BY <1>1 DEF Create
  <2>2. pc = "none" /\ len' = len /\ len = 0 /\ cap = 0
    BY <1>1 DEF Create, Room
  <2>3. Cardinality(Occupied(buckets', cap')) = 0
    BY <2>1, <2>2, NoneOccupied DEF LenAndLoad
  <2>4. pc' # "none" => cap' \in Nat /\ cap' >= 2
    BY <2>1, <2>2
  <2>5. pc' = "none" => cap' = 0
    BY <2>1, <2>2
  <2>6. pc' \in {"none", "idle"}
    BY <2>1, <2>2
  <2>7. QED
    BY <2>2, <2>3, <2>4, <2>5, <2>6 DEF LenAndLoad, Room
<1>2. CASE Clear
  BY <1>2, NoneOccupied DEF Clear, Quiet, LenAndLoad, Room, TypeOK
<1>3. CASE Destroy
  BY <1>3, NoneOccupied DEF Destroy, Quiet, LenAndLoad, Room, TypeOK
<1>4. QED
  BY <1>1, <1>2, <1>3

LEMMA LoadStepSet ==
  ASSUME IInv, SetStep \/ \E e \in Offered : SetCall(e[1], e[2])
  PROVE  (LenAndLoad /\ Room)'
<1> USE HashMapAssumption DEF IInv
<1>0. cap \in Nat /\ len \in Nat /\ old_cap \in Nat /\ i \in 0 .. old_cap
  BY DEF TypeOK
<1>1. ASSUME NEW e \in Offered, SetCall(e[1], e[2]) PROVE (LenAndLoad /\ Room)'
  BY <1>1, LoadKept DEF SetCall, Quiet
<1>2. CASE Refused \/ ValRefused
  BY <1>2, LoadKept DEF Refused, ValRefused, Return
<1>3. CASE RehashSkip
  BY <1>0, <1>3, LoadKept DEF RehashSkip
<1>4. CASE NoGrow
  <2>1. (len + 1) * 4 <= cap * 3
    BY <1>0, <1>4 DEF NoGrow, NeedsGrow, TooFull
  <2>2. QED
    BY <1>4, <2>1 DEF NoGrow, table, rehash, LenAndLoad, Room
<1>5. CASE Grow
  <2>1. pc = "set" /\ cap >= 2 /\ cap * 2 \in Nat
    BY <1>0, <1>5 DEF Grow, Room
  <2>2. QED
    BY <1>0, <1>5, <2>1, NoneOccupied DEF Grow, LenAndLoad, Room
<1>6. CASE RehashOne
  <2>1. pc = "rehash" /\ len <= i
    BY <1>6 DEF RehashOne, Room
  <2>2. QED
    BY <1>0, <1>6, <2>1 DEF RehashOne, table, LenAndLoad, Room
<1>7. CASE RehashDone
  <2>1. pc = "rehash" /\ len <= old_cap /\ cap = 2 * old_cap /\ old_cap >= 2
    BY <1>7 DEF RehashDone, Room
  <2>2. (len + 1) * 4 <= cap * 3
    BY ONLY <1>0, <2>1
  <2>3. QED
    BY <1>7, <2>1, <2>2 DEF RehashDone, table, LenAndLoad, Room
<1>8. CASE AllocKey \/ AllocVal
  BY <1>8 DEF AllocKey, AllocVal, table, rehash, LenAndLoad, Room
<1>9. QED
  BY <1>1, <1>2, <1>3, <1>4, <1>5, <1>6, <1>7, <1>8 DEF SetStep

LEMMA LoadStepInsert ==
  ASSUME IInv, InsertStep
  PROVE  (LenAndLoad /\ Room)'
<1> USE HashMapAssumption DEF IInv, rehash
<1>0. /\ cap \in Nat /\ len \in Nat /\ old_cap \in Nat /\ i \in 0 .. old_cap
      /\ buckets \in [Slots(cap) -> Bucket] /\ slot \in Slots(cap)
      /\ pc \in {"insert", "reinsert"} /\ incoming \in Entry
  BY DEF InsertStep, InsertEmpty, InsertReplace, InsertSwap, InsertAdvance, Inserting,
         TypeOK, InLoop
<1>f. /\ len = Cardinality(Occupied(buckets, cap)) /\ len * 4 <= cap * 3 /\ len < cap
      /\ cap >= 2
      /\ pc = "insert" => (len + 1) * 4 <= cap * 3
      /\ pc = "reinsert" => old_cap >= 2 /\ cap = 2 * old_cap /\ len < i
  BY <1>0 DEF LenAndLoad, Room
<1>1. ASSUME Cardinality(Occupied(buckets', cap)) = Cardinality(Occupied(buckets, cap)),
             UNCHANGED <<cap, len, rehash>>,
             pc' \in {pc, "abort"} \/ InsertReturn
      PROVE  (LenAndLoad /\ Room)'
  <2>1. \/ pc' \in {pc, "abort", "idle"}
        \/ pc = "reinsert" /\ pc' = "rehash"
    BY <1>1 DEF InsertReturn, Return
  <2>2. LenAndLoad'
    BY <1>0, <1>1, <1>f, <2>1 DEF LenAndLoad
  <2>3. Room'
    BY <1>0, <1>1, <1>f, <2>1 DEF Room
  <2>4. QED
    BY <2>2, <2>3
<1>2. CASE InsertEmpty
  <2>1. Cardinality(Occupied(buckets', cap)) = len + 1
    <3>1. buckets' = [buckets EXCEPT ![slot] = incoming] /\ buckets[slot].psl = 0
      BY <1>2 DEF InsertEmpty
    <3>2. Cardinality(Occupied(buckets', cap)) = Cardinality(Occupied(buckets, cap)) + 1
      BY ONLY <1>0, <3>1, FillOne
    <3>3. QED
      BY <1>f, <3>2
  <2>2. \/ pc = "insert" /\ pc' = "idle"
        \/ pc = "reinsert" /\ pc' = "rehash"
    BY <1>0, <1>2 DEF InsertEmpty, InsertReturn, Return
  <2>3. UNCHANGED <<cap, old_cap, i>> /\ len' = len + 1
    BY <1>2 DEF InsertEmpty
  <2>4. (len + 1) * 4 <= cap * 3 /\ len + 1 < cap
    BY <1>0, <1>f
  <2>5. LenAndLoad' /\ Room'
    BY <1>0, <1>f, <2>1, <2>2, <2>3, <2>4 DEF LenAndLoad, Room
  <2>6. QED
    BY <2>5
<1>3. CASE InsertReplace
  <2>1. buckets[slot] \in Entry /\ buckets[slot].psl # 0
    BY <1>0, <1>3 DEF InsertReplace, Bucket, Empty
  <2> DEFINE e == WithValue(buckets[slot], incoming.value)
  <2>2. e \in Entry
    BY <1>0, <2>1 DEF Entry, WithValue
  <2>3. buckets' = [buckets EXCEPT ![slot] = e]
    BY <1>3 DEF InsertReplace
  <2> HIDE DEF e
  <2>4. Occupied(buckets', cap) = Occupied(buckets, cap)
    BY <1>0, <2>1, <2>2, <2>3, SwapOne
  <2>5. QED
    BY <1>1, <1>3, <2>4 DEF InsertReplace
<1>4. CASE InsertSwap
  <2>1. Occupied(buckets', cap) = Occupied(buckets, cap)
    BY <1>0, <1>4, SwapOne DEF InsertSwap
  <2>2. QED
    BY <1>1, <1>4, <2>1 DEF InsertSwap, Carry
<1>5. CASE InsertAdvance
  BY <1>1, <1>5 DEF InsertAdvance, Carry, table
<1>6. QED
  BY <1>2, <1>3, <1>4, <1>5 DEF InsertStep

LEMMA LoadStepIter ==
  ASSUME IInv, (\E fwd \in BOOLEAN : IterOpen(fwd)) \/ IterNext \/ IterDrop
  PROVE  (LenAndLoad /\ Room)'
<1>1. pc = "idle" /\ pc' = "idle" /\ UNCHANGED table /\ UNCHANGED rehash
  BY DEF IterOpen, Quiet, IterNext, IterDrop
<1>2. QED
  BY <1>1, LoadKept

-----------------------------------------------------------------------------
(* The order is kept.  *)

(* A step that leaves the array alone, outside insert_raw and the shift.   *)
LEMMA OrderKept ==
  ASSUME IInv, UNCHANGED <<buckets, cap>>, pc # "shift",
         pc' \notin {"shift", "insert", "reinsert"}
  PROVE  ProbeOrder'
BY DEF IInv, ProbeOrder, Hole, Inserting

(* A step that leaves no entry in the array.  *)
LEMMA OrderOfNone ==
  ASSUME buckets' = NoBuckets(cap'), cap' \in Nat,
         pc' \notin {"shift", "insert", "reinsert"}
  PROVE  ProbeOrder'
<1>1. Occupied(buckets', cap') = {}
  BY NoneOccupied
<1>2. QED
  BY <1>1 DEF ProbeOrder, Ordered, Hole, Inserting

(* insert_raw is called with an entry of psl 1 at its key's home.  *)
LEMMA OrderStart ==
  ASSUME IInv, cap \in Nat \ {0}, UNCHANGED <<buckets, cap>>, pc # "shift", pc' # "shift",
         NEW k \in Keys, incoming'.key = k, incoming'.psl = 1, slot' = HomeOf(k, cap)
  PROVE  ProbeOrder'
<1>1. HomeOf(k, cap) \in Int
  BY HomeInRange DEF Slots
<1>2. Aligned(incoming, slot, cap)'
  BY <1>1 DEF Aligned, Dist
<1>3. Run(buckets, cap, NoHole, incoming.psl, slot)'
  BY DEF Run
<1>4. Ordered(buckets, cap, Hole)'
  BY DEF IInv, ProbeOrder, Hole
<1>5. QED
  BY <1>2, <1>3, <1>4 DEF ProbeOrder

LEMMA OrderStepLife ==
  ASSUME IInv, Create \/ Clear \/ Destroy
  PROVE  ProbeOrder'
<1> USE HashMapAssumption DEF IInv
<1>1. CASE Create
  <2>1. CASE buckets' = NoBuckets(InitCap) /\ cap' = InitCap /\ pc' = "idle"
    BY <2>1, OrderOfNone
  <2>2. CASE UNCHANGED <<buckets, cap, pc>>
    BY <1>1, <2>2, OrderKept DEF Create
  <2>3. QED
    BY <1>1, <2>1, <2>2 DEF Create
<1>2. CASE Clear \/ Destroy
  BY <1>2, OrderOfNone DEF Clear, Destroy, Quiet, TypeOK
<1>3. QED
  BY <1>1, <1>2

LEMMA OrderStepFind ==
  ASSUME IInv,
         \/ \E op \in {"get", "remove"}, k \in Keys : Find(op, k)
         \/ FindStep \/ RemoveStep
  PROVE  ProbeOrder'
<1> USE HashMapAssumption DEF IInv
<1>1. ASSUME NEW op \in {"get", "remove"}, NEW k \in Keys, Find(op, k)
      PROVE  ProbeOrder'
  BY <1>1, OrderKept DEF Find, table
<1>2. CASE FindMiss \/ FindNext \/ GetHit
  BY <1>2, OrderKept DEF FindMiss, FindNext, GetHit, Found, Return, table
<1>f. ASSUME pc \in {"find", "shift"}
      PROVE  /\ cap \in Nat \ {0} /\ buckets \in [Slots(cap) -> Bucket]
             /\ slot \in Slots(cap) /\ Succ(slot) \in Slots(cap)
             /\ Succ(slot) = IF slot + 1 = cap THEN 0 ELSE slot + 1
  BY <1>f, Facts, SuccIs DEF InLoop, TypeOK
<1>3. CASE RemoveHit
  <2>1. pc = "find" /\ pc' = "shift" /\ UNCHANGED <<cap, slot>>
        /\ buckets' = [buckets EXCEPT ![slot] = Empty]
    BY <1>3 DEF RemoveHit, Found
  <2>2. Ordered(buckets, cap, NoHole)
    BY <2>1 DEF ProbeOrder, Hole
  <2>3. Ordered([buckets EXCEPT ![slot] = Empty], cap, slot)
    BY <1>f, <2>1, <2>2, RemoveKeepsOrder
  <2>4. QED
    BY <2>1, <2>3 DEF ProbeOrder, Hole, Inserting
<1>4. CASE ShiftMove
  <2> DEFINE n == Succ(slot)
             e == WithPsl(buckets[n], buckets[n].psl - 1)
  <2>1. /\ pc = "shift" /\ pc' = "shift" /\ cap' = cap /\ slot' = n
        /\ buckets' = [buckets EXCEPT ![slot] = e, ![n] = Empty] /\ buckets[n].psl > 1
    BY <1>4 DEF ShiftMove, Shiftable
  <2>2. Ordered(buckets, cap, slot) /\ buckets[slot].psl = 0
    BY <2>1 DEF ProbeOrder, Hole, Room
  <2> HIDE DEF n
  <2>3. n \in Slots(cap) /\ n = IF slot + 1 = cap THEN 0 ELSE slot + 1
    BY <1>f, <2>1 DEF n
  <2>4. Ordered([buckets EXCEPT ![slot] = e, ![n] = Empty], cap, n)
    BY <1>f, <2>1, <2>2, <2>3, ShiftKeepsOrder
  <2>5. QED
    BY <2>1, <2>4 DEF ProbeOrder, Hole, Inserting
<1>5. CASE ShiftDone
  <2>1. pc = "shift" /\ pc' = "idle" /\ UNCHANGED <<buckets, cap>>
        /\ ~(buckets[Succ(slot)].psl > 1)
    BY <1>5 DEF ShiftDone, Shiftable, Return, table
  <2>2. Ordered(buckets, cap, slot) /\ buckets[slot].psl = 0
    BY <2>1 DEF ProbeOrder, Hole, Room
  <2>3. Ordered(buckets, cap, NoHole)
    BY <1>f, <2>1, <2>2, ShiftEndKeepsOrder
  <2>4. QED
    BY <2>1, <2>3 DEF ProbeOrder, Hole, Inserting
<1>6. QED
  BY <1>1, <1>2, <1>3, <1>4, <1>5 DEF FindStep, RemoveStep

LEMMA OrderStepSet ==
  ASSUME IInv, SetStep \/ \E e \in Offered : SetCall(e[1], e[2])
  PROVE  ProbeOrder'
<1> USE HashMapAssumption DEF IInv
<1>1. ASSUME NEW e \in Offered, SetCall(e[1], e[2]) PROVE ProbeOrder'
  BY <1>1, OrderKept DEF SetCall, Quiet, table
<1>2. CASE NoGrow \/ Refused \/ RehashSkip \/ RehashDone \/ AllocKey \/ ValRefused
  BY <1>2, OrderKept DEF NoGrow, Refused, RehashSkip, RehashDone, AllocKey, ValRefused,
                         Return, table
<1>3. CASE Grow
  BY <1>3, OrderOfNone DEF Grow, TypeOK
<1>4. CASE RehashOne
  <2>1. old_buckets[i] \in Entry
    BY <1>4 DEF RehashOne, TypeOK, Bucket, Empty, Slots
  <2>2. old_buckets[i].key \in Keys /\ cap \in Nat \ {0}
    BY <1>4, <2>1, Facts DEF Entry, RehashOne
  <2>3. incoming'.key = old_buckets[i].key /\ incoming'.psl = 1
    BY <1>4 DEF RehashOne, WithPsl
  <2>4. QED
    BY <1>4, <2>2, <2>3, OrderStart DEF RehashOne, table
<1>5. CASE AllocVal
  <2>1. arg.key \in Keys /\ cap \in Nat \ {0}
    BY <1>5, Facts DEF AllocVal, TypeOK, NoArg
  <2>2. QED
    BY <1>5, <2>1, OrderStart DEF AllocVal, table
<1>6. QED
  BY <1>1, <1>2, <1>3, <1>4, <1>5 DEF SetStep

(* Replacing the value of a bucket keeps the order.  *)
LEMMA ReplaceKeepsOrder ==
  ASSUME NEW c \in Nat \ {0}, NEW b \in [Slots(c) -> Bucket], NEW s \in Slots(c),
         NEW e \in Bucket, e.key = b[s].key, e.psl = b[s].psl, Ordered(b, c, NoHole)
  PROVE  Ordered([b EXCEPT ![s] = e], c, NoHole)
<1> DEFINE b2 == [b EXCEPT ![s] = e]
<1>1. \A x : b2[x].psl = b[x].psl
  BY DEF Bucket
<1>2. \A x \in Slots(c) : b2[x].key = b[x].key
  OBVIOUS
<1>3. Occupied(b2, c) = Occupied(b, c)
  BY <1>1 DEF Occupied
<1> HIDE DEF b2
<1>4. ASSUME NEW t \in Occupied(b2, c) PROVE Aligned(b2[t], t, c)
  BY <1>1, <1>2, <1>3, <1>4 DEF Ordered, Aligned, HomeOf, Occupied
<1>5. ASSUME NEW t \in Occupied(b2, c) PROVE Run(b2, c, NoHole, b2[t].psl, t)
  BY <1>1, <1>3, <1>5 DEF Ordered, Run
<1>6. QED
  BY <1>4, <1>5 DEF Ordered, b2

LEMMA OrderStepInsert ==
  ASSUME IInv, InsertStep
  PROVE  ProbeOrder'
<1> USE HashMapAssumption DEF IInv
<1>1. pc \in {"insert", "reinsert"} /\ Inserting /\ InLoop
  BY DEF InsertStep, InsertEmpty, InsertReplace, InsertSwap, InsertAdvance, Inserting, InLoop
<1> DEFINE n == Succ(slot)
<1>2. /\ cap \in Nat \ {0} /\ buckets \in [Slots(cap) -> Bucket]
      /\ slot \in Slots(cap) /\ n \in Slots(cap)
      /\ n = IF slot + 1 = cap THEN 0 ELSE slot + 1
      /\ incoming \in Entry
  BY <1>1, Facts, SuccIs DEF TypeOK
<1> HIDE DEF n
<1>3. /\ Ordered(buckets, cap, NoHole) /\ Aligned(incoming, slot, cap)
      /\ Run(buckets, cap, NoHole, incoming.psl, slot)
  BY <1>1 DEF ProbeOrder, Hole
<1>4. PICK z \in Slots(cap) : buckets[z].psl = 0
  BY <1>1, Facts
<1>5. ASSUME Ordered(buckets', cap, NoHole), cap' = cap, InsertReturn
      PROVE  ProbeOrder'
  BY <1>1, <1>5 DEF InsertReturn, Return, ProbeOrder, Hole, Inserting
(* Carrying on with an entry e that could have been put at slot.  *)
<1>6. ASSUME NEW e \in Entry, Carry(e), cap' = cap,
             Ordered(buckets', cap, NoHole), buckets' \in [Slots(cap) -> Bucket],
             Aligned(e, slot, cap), Run(buckets', cap, NoHole, e.psl, slot),
             buckets'[slot].psl >= e.psl, e.psl < cap
      PROVE  ProbeOrder'
  <2>1. CASE IncPsl(e.psl) = 0
    BY <1>6, <2>1 DEF Carry, ProbeOrder, Hole, Inserting
  <2>2. CASE IncPsl(e.psl) # 0
    <3>1. e.psl \in 1 .. PslWidth - 1 /\ e.psl \in 1 .. cap
      BY <1>2, <1>6, PslBounded DEF Entry
    <3>2. IncPsl(e.psl) = e.psl + 1 /\ IncPsl(e.psl) \in 1 .. PslWidth - 1
      BY <2>2, <3>1, IncPslIs
    <3> DEFINE f == WithPsl(e, IncPsl(e.psl))
    <3>3. f \in Entry /\ f.key = e.key /\ f.psl = e.psl + 1
      BY <3>2 DEF WithPsl, Entry
    <3>4. incoming' = f /\ slot' = n /\ pc' = pc
      BY <1>6, <2>2 DEF Carry, n
    <3> HIDE DEF f
    <3>5. Aligned(f, n, cap)
      BY <1>2, <1>6, <3>3, CarryKeepsAligned
    <3>6. Run(buckets', cap, NoHole, e.psl + 1, n)
      BY <1>2, <1>6, <3>1, CarryKeepsRun
    <3>7. QED
      BY <1>1, <1>6, <3>3, <3>4, <3>5, <3>6 DEF ProbeOrder, Hole
  <2>3. QED
    BY <2>1, <2>2
<1>7. CASE InsertEmpty
  <2>1. buckets[slot].psl < incoming.psl
    BY <1>2, <1>7 DEF InsertEmpty, Entry
  <2>2. Ordered([buckets EXCEPT ![slot] = incoming], cap, NoHole)
    BY <1>2, <1>3, <2>1, PlaceKeepsOrder
  <2>3. QED
    BY <1>5, <1>7, <2>2 DEF InsertEmpty
<1>8. CASE InsertReplace
  <2> DEFINE e == WithValue(buckets[slot], incoming.value)
  <2>1. buckets[slot] \in Entry
    BY <1>2, <1>8 DEF InsertReplace, Bucket, Empty
  <2>2. e \in Bucket /\ e.key = buckets[slot].key /\ e.psl = buckets[slot].psl
    BY <1>2, <2>1 DEF Bucket, Entry, WithValue
  <2>3. buckets' = [buckets EXCEPT ![slot] = e]
    BY <1>8 DEF InsertReplace
  <2> HIDE DEF e
  <2>4. Ordered([buckets EXCEPT ![slot] = e], cap, NoHole)
    BY <1>2, <1>3, <2>2, ReplaceKeepsOrder
  <2>5. QED
    BY <1>5, <1>8, <2>3, <2>4 DEF InsertReplace
<1>9. CASE InsertSwap
  <2> DEFINE o == buckets[slot]
  <2>1. o \in Entry /\ o.psl < incoming.psl /\ o.psl # 0
    BY <1>2, <1>9 DEF InsertSwap, Richer, Bucket, Empty
  <2>2. buckets' = [buckets EXCEPT ![slot] = incoming] /\ cap' = cap /\ Carry(o)
    BY <1>9 DEF InsertSwap
  <2>3. Ordered([buckets EXCEPT ![slot] = incoming], cap, NoHole)
    BY <1>2, <1>3, <2>1, PlaceKeepsOrder
  <2>4. Aligned(o, slot, cap) /\ Run(buckets, cap, NoHole, o.psl, slot)
    BY <1>2, <1>3, <2>1 DEF Ordered, Occupied
  <2>5. o.psl \in 1 .. cap
    BY <1>2, <2>1, <2>4, PslBounded
  <2>6. o.psl < cap
    BY <1>2, <1>4, <2>4, <2>1, <2>5, CarriedNotRound
  <2> HIDE DEF o
  <2>7. buckets'[slot].psl >= o.psl /\ buckets' \in [Slots(cap) -> Bucket]
    BY <1>2, <2>1, <2>2 DEF Bucket, Entry
  <2>8. Run(buckets', cap, NoHole, o.psl, slot)
    <3>1. ASSUME NEW d \in 1 .. o.psl - 1
          PROVE  buckets'[Back(slot, d, cap)].psl >= o.psl - d \/ Back(slot, d, cap) = NoHole
      <4>1. d \in Int /\ o.psl \in Int /\ d < cap /\ d >= 1
        BY <1>2, <2>5
      <4>2. Back(slot, d, cap) # slot /\ Back(slot, d, cap) \in Slots(cap)
        BY <1>2, <4>1 DEF Back, Slots
      <4>3. buckets'[Back(slot, d, cap)] = buckets[Back(slot, d, cap)]
        BY <1>2, <2>2, <4>2
      <4>4. QED
        BY <2>4, <3>1, <4>3 DEF Run
    <3>2. QED
      BY <3>1 DEF Run
  <2>9. QED
    BY <1>6, <2>1, <2>2, <2>3, <2>4, <2>6, <2>7, <2>8
<1>10. CASE InsertAdvance
  <2>1. Carry(incoming) /\ UNCHANGED <<buckets, cap>>
    BY <1>10 DEF InsertAdvance, table
  <2>2. buckets[slot].psl >= incoming.psl /\ buckets[slot].psl # 0
    BY <1>2, <1>10 DEF InsertAdvance, Richer, Bucket, Entry, Empty
  <2>3. incoming.psl \in 1 .. cap
    BY <1>2, <1>3, PslBounded
  <2>4. incoming.psl < cap
    BY <1>2, <1>3, <1>4, <2>2, <2>3, CarriedNotRound
  <2>5. QED
    BY <1>2, <1>3, <1>6, <2>1, <2>2, <2>4
<1>11. QED
  BY <1>7, <1>8, <1>9, <1>10 DEF InsertStep

LEMMA OrderStepIter ==
  ASSUME IInv, (\E fwd \in BOOLEAN : IterOpen(fwd)) \/ IterNext \/ IterDrop
  PROVE  ProbeOrder'
<1>1. pc = "idle" /\ pc' = "idle" /\ UNCHANGED <<buckets, cap>>
  BY DEF IterOpen, Quiet, IterNext, IterDrop, table
<1>2. QED
  BY <1>1, OrderKept

-----------------------------------------------------------------------------
(* The theorems.  *)

LEMMA NextIInv == IInv /\ [Next]_vars => IInv'
<1> SUFFICES ASSUME IInv, [Next]_vars PROVE IInv'
  OBVIOUS
<1>1. CASE UNCHANGED vars
  BY <1>1 DEF vars, table, rehash, IInv, TypeOK, InLoop, Inserting, LenAndLoad, Room,
              ProbeOrder, Hole
<1>2. CASE Create \/ Clear \/ Destroy
  BY <1>2, TypeStepLife, LoadStepLife, OrderStepLife DEF IInv
<1>3. CASE \/ \E op \in {"get", "remove"}, k \in Keys : Find(op, k)
           \/ FindStep \/ RemoveStep
  BY <1>3, TypeStepFind, LoadStepFind, OrderStepFind DEF IInv
<1>4. CASE SetStep \/ \E e \in Offered : SetCall(e[1], e[2])
  BY <1>4, TypeStepSet, LoadStepSet, OrderStepSet DEF IInv
<1>5. CASE InsertStep
  BY <1>5, TypeStepInsert, LoadStepInsert, OrderStepInsert DEF IInv
<1>6. CASE (\E fwd \in BOOLEAN : IterOpen(fwd)) \/ IterNext \/ IterDrop
  BY <1>6, TypeStepIter, LoadStepIter, OrderStepIter DEF IInv
<1>7. QED
  BY <1>1, <1>2, <1>3, <1>4, <1>5, <1>6 DEF Next, Step

LEMMA Inductive == Spec => []IInv
<1>1. Init => IInv
  BY InitIInv
<1>2. IInv /\ [Next]_vars => IInv'
  BY NextIInv
<1>3. QED
  BY <1>1, <1>2, PTL DEF Spec

(* Every array index the code computes is in bounds, in every call and for *)
(* every capacity, hash function and width of the psl.                     *)
THEOREM TypeCorrect == Spec => []TypeOK
<1>1. IInv => TypeOK
  BY DEF IInv
<1>2. QED
  BY <1>1, Inductive, PTL

(* len counts the occupied buckets, and at least a quarter of the buckets  *)
(* is empty whatever calls are made and whichever allocations fail: the    *)
(* probe loops, which have no other bound, always meet an empty bucket.    *)
THEOREM LoadCorrect == Spec => []LenAndLoad
<1>1. IInv => LenAndLoad
  BY DEF IInv
<1>2. QED
  BY <1>1, Inductive, PTL

(* The Robin Hood order holds in every state, inside the loops of          *)
(* insert_raw, of the rehash and of the backward shift included: a probe   *)
(* that stops at the first poorer bucket has missed nothing.               *)
THEOREM ProbeOrderCorrect == Spec => []ProbeOrder
<1>1. IInv => ProbeOrder
  BY DEF IInv
<1>2. QED
  BY <1>1, Inductive, PTL

-----------------------------------------------------------------------------
(* The entries.                                                            *)

(* The occupied buckets, and those of the old array not yet rehashed.      *)
Occ  == Occupied(buckets, cap)
Left == {t \in Occupied(old_buckets, old_cap) : t >= i}

DistinctIn(b, S)    == \A s, t \in S : b[s].key = b[t].key => s = t
Absent(k, b, S)     == \A s \in S : b[s].key # k
Beyond(b, S, k, p)  == \A s \in S : b[s].key = k => b[s].psl >= p

-----------------------------------------------------------------------------
(* Where the entry of a key can be, seen from slot s at which a probe for  *)
(* it stands with the psl p.                                               *)

(* An entry no nearer its home than the probe is at s, or ahead of it with *)
(* nothing poorer than the probe at s.                                     *)
LEMMA KeyAhead ==
  ASSUME NEW c \in Nat \ {0}, NEW b \in [Slots(c) -> Bucket], NEW s \in Slots(c),
         NEW k \in Keys, NEW p \in 1 .. c,
         Ordered(b, c, NoHole), p - 1 = Dist(HomeOf(k, c), s, c),
         NEW t \in Occupied(b, c), b[t].key = k, b[t].psl >= p
  PROVE  t = s \/ (b[t].psl >= p + 1 /\ b[s].psl >= p)
<1> PICK h \in Slots(c) : h = HomeOf(k, c)
  BY HomeInRange
<1>1. t \in Slots(c) /\ b[t] \in Entry
  BY DEF Occupied, Bucket, Empty
<1>2. Aligned(b[t], t, c) /\ Run(b, c, NoHole, b[t].psl, t)
  BY DEF Ordered
<1>3. PICK q \in 1 .. c : q = b[t].psl
  BY <1>1, <1>2, PslBounded
<1>4. q - 1 = Dist(h, t, c) /\ p - 1 = Dist(h, s, c)
  BY <1>2, <1>3 DEF Aligned
<1>5. CASE q = p
  BY <1>1, <1>4, <1>5 DEF Dist, Slots
<1>6. CASE q # p
  <2>1. q >= p + 1
    BY <1>3, <1>6
  <2>2. q - p \in 1 .. q - 1 /\ Back(t, q - p, c) = s /\ s # NoHole
    BY <1>1, <1>4, <2>1 DEF Dist, Back, Slots, NoHole
  <2>3. b[s].psl >= q - (q - p)
    BY <1>2, <1>3, <2>2 DEF Run
  <2>4. QED
    BY <1>3, <2>1, <2>3
<1>7. QED
  BY <1>5, <1>6

(* A poorer bucket, or an empty one, tells that the key is not there.      *)
LEMMA NoneAhead ==
  ASSUME NEW c \in Nat \ {0}, NEW b \in [Slots(c) -> Bucket], NEW s \in Slots(c),
         NEW k \in Keys, NEW p \in 1 .. c,
         Ordered(b, c, NoHole), p - 1 = Dist(HomeOf(k, c), s, c),
         Beyond(b, Occupied(b, c), k, p), b[s].psl < p
  PROVE  Absent(k, b, Occupied(b, c))
<1>1. SUFFICES ASSUME NEW t \in Occupied(b, c), b[t].key = k PROVE FALSE
  BY DEF Absent
<1>2. b[t].psl >= p
  BY <1>1 DEF Beyond
<1>3. b[s].psl \in Int
  BY HashMapAssumption DEF Bucket, Entry, Empty
<1>4. QED
  BY <1>1, <1>2, <1>3, KeyAhead

(* Another key in the bucket: the key, if present, is further on.          *)
LEMMA FurtherAhead ==
  ASSUME NEW c \in Nat \ {0}, NEW b \in [Slots(c) -> Bucket], NEW s \in Slots(c),
         NEW k \in Keys, NEW p \in 1 .. c,
         Ordered(b, c, NoHole), p - 1 = Dist(HomeOf(k, c), s, c),
         Beyond(b, Occupied(b, c), k, p), b[s].key # k
  PROVE  Beyond(b, Occupied(b, c), k, p + 1)
<1>1. SUFFICES ASSUME NEW t \in Occupied(b, c), b[t].key = k PROVE b[t].psl >= p + 1
  BY DEF Beyond
<1>2. b[t].psl >= p
  BY <1>1 DEF Beyond
<1>3. QED
  BY <1>1, <1>2, KeyAhead

-----------------------------------------------------------------------------
(* The inductive invariant of KeysOnce.  That the places have different    *)
(* keys is not enough: the entry hashmap_set brings must not be put down   *)
(* before the one it is to replace (FreshAhead), and what it displaced     *)
(* must not displace it in turn (Chased): what is carried has its home     *)
(* behind that of the set's key, and has passed no empty bucket since.     *)

Apart ==
  /\ DistinctIn(buckets, Occ)
  /\ DistinctIn(old_buckets, Left)
  /\ \A t \in Left : Absent(old_buckets[t].key, buckets, Occ)
  /\ Inserting => Absent(incoming.key, old_buckets, Left)
  /\ Inserting /\ ~FreshCarried => Absent(incoming.key, buckets, Occ)

FreshAhead == FreshCarried => Beyond(buckets, Occ, arg.key, incoming.psl)

Travelled == Dist(HomeOf(arg.key, cap), slot, cap)
Chased == pc = "insert" /\ ~FreshCarried =>
            /\ incoming.psl <= Travelled
            /\ \A d \in 1 .. Travelled : buckets[Back(slot, d, cap)].psl # 0

OldGone == pc \notin {"rehash", "reinsert", "abort"} => old_cap = 0

KInv == Apart /\ FreshAhead /\ Chased /\ OldGone

LEMMA InitKInv == Init => KInv
BY NoneOccupied DEF Init, KInv, Apart, FreshAhead, Chased, OldGone, FreshCarried, Inserting,
                    Occ, Left, DistinctIn

(* With no old array nothing is left in it.  *)
LEMMA NothingLeft ==
  ASSUME NEW b, NEW n
  PROVE  {t \in Occupied(b, 0) : t >= n} = {}
BY DEF Occupied, Slots

(* A step that leaves both arrays alone, and inserts nothing.  *)
LEMMA KeysKept ==
  ASSUME KInv, UNCHANGED <<buckets, cap, old_buckets, old_cap, i>>,
         pc' \notin {"insert", "reinsert"}, pc' \in {"rehash", "abort"} => pc' = pc,
         pc' \notin {"rehash", "abort"} => pc \notin {"rehash", "reinsert", "abort"}
  PROVE  KInv'
BY DEF KInv, Apart, FreshAhead, Chased, OldGone, FreshCarried, Inserting, Occ, Left

LEMMA KeysOfNone ==
  ASSUME buckets' = NoBuckets(cap'), cap' \in Nat, old_cap' = 0,
         pc' \in {"none", "idle"}
  PROVE  KInv'
<1>1. Occ' = {} /\ Left' = {}
  BY NoneOccupied, NothingLeft DEF Occ, Left
<1>2. QED
  BY <1>1 DEF KInv, Apart, FreshAhead, Chased, OldGone, FreshCarried, Inserting, DistinctIn

LEMMA KeysStepLife ==
  ASSUME IInv, KInv, Create \/ Clear \/ Destroy
  PROVE  KInv'
<1> USE HashMapAssumption
<1>1. old_cap = 0 /\ cap \in Nat
  BY DEF Create, Clear, Destroy, Quiet, KInv, OldGone, IInv, TypeOK
<1>2. CASE Create /\ pc' = "idle"
  BY <1>1, <1>2, KeysOfNone DEF Create, rehash
<1>3. CASE Create /\ pc' = "none"
  BY <1>3, KeysKept DEF Create, rehash
<1>4. CASE Clear \/ Destroy
  BY <1>1, <1>4, KeysOfNone DEF Clear, Destroy, Quiet, rehash
<1>5. QED
  BY <1>2, <1>3, <1>4 DEF Create

LEMMA KeysStepFind ==
  ASSUME IInv, KInv,
         \/ \E op \in {"get", "remove"}, k \in Keys : Find(op, k)
         \/ FindStep \/ RemoveStep
  PROVE  KInv'
<1>0. pc \in {"idle", "find", "shift"}
  BY DEF Find, FindStep, FindMiss, FindNext, GetHit, Found, RemoveStep, RemoveHit,
         ShiftMove, ShiftDone
<1>f. ASSUME pc \in {"find", "shift"}
      PROVE  /\ cap \in Nat \ {0} /\ buckets \in [Slots(cap) -> Bucket]
             /\ slot \in Slots(cap) /\ Succ(slot) \in Slots(cap)
             /\ Succ(slot) = IF slot + 1 = cap THEN 0 ELSE slot + 1
  BY <1>f, Facts, SuccIs DEF InLoop, TypeOK, IInv
<1>1. ASSUME NEW op \in {"get", "remove"}, NEW k \in Keys, Find(op, k)
      PROVE  KInv'
  BY <1>1, KeysKept DEF Find, table, rehash
<1>2. CASE FindMiss \/ FindNext \/ GetHit \/ ShiftDone
  BY <1>0, <1>2, KeysKept DEF FindMiss, FindNext, GetHit, Found, ShiftDone, Return, table, rehash
<1>l. Left = {} /\ old_cap = 0
  BY <1>0, NothingLeft DEF KInv, OldGone, Left
(* In the array of a removal each entry is one that was there before.  *)
<1>3. ASSUME UNCHANGED rehash, pc' = "shift",
             NEW f \in [Occ' -> Occ], \A s, t \in Occ' : f[s] = f[t] => s = t,
             \A s \in Occ' : buckets'[s].key = buckets[f[s]].key
      PROVE  KInv'
  <2>1. Left' = {}
    BY <1>l, <1>3, NothingLeft DEF Left, rehash
  <2>2. DistinctIn(buckets, Occ)'
    BY <1>3 DEF KInv, Apart, DistinctIn
  <2>3. QED
    BY <1>3, <1>l, <2>1, <2>2
       DEF KInv, Apart, FreshAhead, Chased, OldGone, FreshCarried, Inserting, DistinctIn, rehash
<1>4. CASE RemoveHit
  <2>1. buckets' = [buckets EXCEPT ![slot] = Empty] /\ cap' = cap /\ pc = "find"
    BY <1>4 DEF RemoveHit, Found
  <2>2. \A s \in Occ' : s \in Occ /\ buckets'[s] = buckets[s]
    BY <1>f, <2>1 DEF Occ, Occupied, Empty
  <2> DEFINE f == [s \in Occ' |-> s]
  <2>3. f \in [Occ' -> Occ]
    BY <2>2
  <2>4. QED
    BY <1>3, <1>4, <2>2, <2>3 DEF RemoveHit
<1>5. CASE ShiftMove
  <2> DEFINE n == Succ(slot)
             e == WithPsl(buckets[n], buckets[n].psl - 1)
             f == [s \in Occ' |-> IF s = slot THEN n ELSE s]
  <2>1. /\ buckets' = [buckets EXCEPT ![slot] = e, ![n] = Empty] /\ cap' = cap
        /\ pc = "shift" /\ buckets[n].psl > 1
    BY <1>5 DEF ShiftMove, Shiftable
  <2>2. buckets[slot].psl = 0 /\ slot # n
    BY <2>1 DEF IInv, Room
  <2>3. n \in Slots(cap) /\ n \in Occ /\ slot \in Slots(cap) /\ slot \notin Occ
    BY <1>f, <2>1, <2>2 DEF Occ, Occupied
  <2>4. e.key = buckets[n].key
    BY DEF WithPsl
  <2> HIDE DEF n, e
  <2>5. \A s \in Occ' : s # n /\ (s # slot => s \in Occ /\ buckets'[s] = buckets[s])
    BY <1>f, <2>1, <2>3 DEF Occ, Occupied, Empty
  <2>6. buckets'[slot] = e
    BY <1>f, <2>1, <2>2, <2>3
  <2>7. f \in [Occ' -> Occ] /\ \A s \in Occ' : buckets'[s].key = buckets[f[s]].key
    BY <2>3, <2>4, <2>5, <2>6
  <2>8. \A s, t \in Occ' : f[s] = f[t] => s = t
    BY <2>5
  <2> HIDE DEF f
  <2>9. QED
    BY <1>3, <1>5, <2>7, <2>8 DEF ShiftMove
<1>6. QED
  BY <1>1, <1>2, <1>4, <1>5 DEF FindStep, RemoveStep

LEMMA KeysStepSet ==
  ASSUME IInv, KInv, SetStep \/ \E e \in Offered : SetCall(e[1], e[2])
  PROVE  KInv'
<1> USE HashMapAssumption
<1>1. ASSUME NEW e \in Offered, SetCall(e[1], e[2]) PROVE KInv'
  BY <1>1, KeysKept DEF SetCall, Quiet, table, rehash
<1>2. CASE NoGrow \/ Refused \/ AllocKey \/ ValRefused
  BY <1>2, KeysKept DEF NoGrow, Refused, AllocKey, ValRefused, Return, table, rehash
<1>3. CASE Grow
  <2>1. Occ' = {}
    BY <1>3, NoneOccupied DEF Grow, Occ, IInv, TypeOK
  <2>2. Left' = Occ /\ old_buckets' = buckets /\ pc' = "rehash"
    BY <1>3 DEF Grow, Left, Occ, Occupied, IInv, TypeOK, Slots
  <2>3. QED
    BY <2>1, <2>2
       DEF KInv, Apart, FreshAhead, Chased, OldGone, FreshCarried, Inserting, DistinctIn, Absent
<1>4. CASE RehashSkip
  <2>1. Left' \subseteq Left
    BY <1>4 DEF RehashSkip, Left, IInv, TypeOK, Occupied, Slots
  <2>2. UNCHANGED <<Occ, buckets, old_buckets>> /\ pc' = "rehash" /\ pc = "rehash"
    BY <1>4 DEF RehashSkip, Occ, table
  <2>3. QED
    BY <2>1, <2>2
       DEF KInv, Apart, FreshAhead, Chased, OldGone, FreshCarried, Inserting, DistinctIn, Absent
<1>5. CASE RehashOne
  <2>1. i \in Left /\ Left' = Left \ {i}
    BY <1>5 DEF RehashOne, Left, IInv, TypeOK, Occupied, Slots
  <2>2. UNCHANGED <<Occ, buckets, old_buckets>> /\ pc' = "reinsert" /\ pc = "rehash"
    BY <1>5 DEF RehashOne, Occ, table
  <2>3. incoming'.key = old_buckets[i].key
    BY <1>5 DEF RehashOne, WithPsl
  <2>4. QED
    BY <2>1, <2>2, <2>3
       DEF KInv, Apart, FreshAhead, Chased, OldGone, FreshCarried, Inserting, DistinctIn, Absent
<1>6. CASE RehashDone
  <2>1. Left' = {} /\ old_cap' = 0 /\ pc' = "alloc_key"
    BY <1>6, NothingLeft DEF RehashDone, Left
  <2>2. UNCHANGED <<Occ, buckets>>
    BY <1>6 DEF RehashDone, Occ, table
  <2>3. QED
    BY <2>1, <2>2
       DEF KInv, Apart, FreshAhead, Chased, OldGone, FreshCarried, Inserting, DistinctIn, Absent
<1>7. CASE AllocVal
  <2>1. Left = {} /\ Left' = {} /\ old_cap' = 0 /\ pc' = "insert"
    BY <1>7, NothingLeft DEF AllocVal, KInv, OldGone, Left, rehash
  <2>2. UNCHANGED <<Occ, buckets>>
    BY <1>7 DEF AllocVal, Occ, table
  <2>3. incoming'.psl = 1 /\ FreshCarried'
    BY <1>7 DEF AllocVal, FreshCarried
  <2>4. \A s \in Occ : buckets[s].psl >= 1
    BY DEF Occ, Occupied, IInv, TypeOK, Bucket, Entry, Empty
  <2>5. QED
    BY <2>1, <2>2, <2>3, <2>4
       DEF KInv, Apart, FreshAhead, Chased, OldGone, Inserting, DistinctIn, Absent, Beyond
<1>8. QED
  BY <1>1, <1>2, <1>3, <1>4, <1>5, <1>6, <1>7 DEF SetStep

(* What insert_raw knows at its place in the array.  *)
LEMMA InsertFacts ==
  ASSUME IInv, KInv, Inserting
  PROVE  /\ pc \in {"insert", "reinsert"}
         /\ cap \in Nat \ {0} /\ buckets \in [Slots(cap) -> Bucket]
         /\ slot \in Slots(cap) /\ Succ(slot) \in Slots(cap)
         /\ Succ(slot) = IF slot + 1 = cap THEN 0 ELSE slot + 1
         /\ incoming \in Entry /\ incoming.psl \in 1 .. cap /\ incoming.key \in Keys
         /\ incoming.psl - 1 = Dist(HomeOf(incoming.key, cap), slot, cap)
         /\ Ordered(buckets, cap, NoHole)
         /\ pc = "insert" => arg.key \in Keys
         /\ \E z \in Slots(cap) : buckets[z].psl = 0
<1>1. pc \in {"insert", "reinsert"} /\ InLoop
  BY DEF Inserting, InLoop
<1>2. /\ cap \in Nat \ {0} /\ buckets \in [Slots(cap) -> Bucket]
      /\ slot \in Slots(cap) /\ Succ(slot) \in Slots(cap) /\ incoming \in Entry
      /\ \E z \in Slots(cap) : buckets[z].psl = 0
  BY <1>1, Facts DEF IInv, TypeOK
<1>3. Succ(slot) = IF slot + 1 = cap THEN 0 ELSE slot + 1
  BY <1>2, SuccIs
<1>4. Ordered(buckets, cap, NoHole) /\ Aligned(incoming, slot, cap)
  BY <1>1 DEF IInv, ProbeOrder, Hole
<1>5. incoming.psl \in 1 .. cap
  BY <1>2, <1>4, PslBounded
<1>6. pc = "insert" => arg.key \in Keys
  BY DEF IInv, TypeOK, NoArg
<1>7. QED
  BY <1>1, <1>2, <1>3, <1>4, <1>5, <1>6 DEF Aligned, Entry

(* Whatever it puts down or swaps in was nowhere in the array.  *)
LEMMA CarriedAbsent ==
  ASSUME IInv, KInv, Inserting, buckets[slot].psl < incoming.psl
  PROVE  Absent(incoming.key, buckets, Occ)
<1>1. CASE ~FreshCarried
  BY <1>1 DEF KInv, Apart
<1>2. CASE FreshCarried
  BY <1>2, InsertFacts, NoneAhead DEF KInv, FreshAhead, FreshCarried, Occ
<1>3. QED
  BY <1>1, <1>2

(* One bucket further from h, past an occupied one, without coming round.  *)
LEMMA ChaseOn ==
  ASSUME NEW c \in Nat \ {0}, NEW b \in [Slots(c) -> Bucket],
         NEW h \in Slots(c), NEW s \in Slots(c),
         \A d \in 1 .. Dist(h, s, c) : b[Back(s, d, c)].psl # 0, b[s].psl # 0,
         NEW z \in Slots(c), b[z].psl = 0,
         NEW n \in Slots(c), n = IF s + 1 = c THEN 0 ELSE s + 1
  PROVE  /\ Dist(h, n, c) = Dist(h, s, c) + 1
         /\ \A d \in 1 .. Dist(h, n, c) : b[Back(n, d, c)].psl # 0
<1>1. Dist(h, s, c) # c - 1
  <2>1. SUFFICES ASSUME Dist(h, s, c) = c - 1 PROVE FALSE
    OBVIOUS
  <2>2. z # s
    OBVIOUS
  <2>3. Dist(z, s, c) \in 1 .. c - 1 /\ Back(s, Dist(z, s, c), c) = z
    BY <2>2 DEF Dist, Back, Slots
  <2>4. QED
    BY <2>1, <2>3
<1>2. Dist(h, n, c) = Dist(h, s, c) + 1 /\ Dist(h, s, c) \in 0 .. c - 2
  BY <1>1 DEF Dist, Slots
<1>3. ASSUME NEW d \in 1 .. Dist(h, s, c) + 1 PROVE b[Back(n, d, c)].psl # 0
  <2>1. CASE d = 1
    <3>1. Back(n, d, c) = s
      BY <2>1 DEF Back, Slots
    <3>2. QED
      BY <3>1
  <2>2. CASE d # 1
    <3>1. d - 1 \in 1 .. Dist(h, s, c) /\ d \in 2 .. c - 1
      BY <1>2, <2>2
    <3>2. Back(n, d, c) = Back(s, d - 1, c)
      BY <3>1 DEF Back, Slots
    <3>3. QED
      BY <3>1, <3>2
  <2>3. QED
    BY <2>1, <2>2
<1>4. QED
  BY <1>2, <1>3

LEMMA TravelledInt ==
  ASSUME IInv, KInv, pc = "insert"
  PROVE  Travelled \in Int
<1>1. arg.key \in Keys /\ cap \in Nat \ {0} /\ slot \in Slots(cap)
  BY InsertFacts DEF Inserting
<1>2. HomeOf(arg.key, cap) \in Slots(cap)
  BY <1>1, HomeInRange
<1>3. QED
  BY <1>1, <1>2 DEF Travelled, Dist, Slots

(* What was displaced has its home behind the home of the set's key.       *)
LEMMA DisplacedIsOther ==
  ASSUME IInv, KInv, pc = "insert", buckets[slot].psl # 0,
         buckets[slot].key # incoming.key, buckets[slot].psl < incoming.psl
  PROVE  buckets[slot].key # arg.key /\ buckets[slot].psl <= Travelled
<1>1. Inserting /\ slot \in Slots(cap) /\ incoming.psl \in 1 .. cap
  BY InsertFacts DEF Inserting
<1>2. slot \in Occ /\ buckets[slot] \in Entry
  BY <1>1, InsertFacts DEF Occ, Occupied, Bucket, Empty
<1>3. buckets[slot].psl \in Nat /\ Aligned(buckets[slot], slot, cap)
  BY <1>1, <1>2, InsertFacts DEF Entry, Occ, Ordered
<1>4. CASE FreshCarried
  BY <1>1, <1>3, <1>4, InsertFacts DEF FreshCarried, Travelled
<1>5. CASE ~FreshCarried
  <2>1. incoming.psl <= Travelled
    BY <1>5 DEF KInv, Chased
  <2>2. Travelled \in Int
    BY TravelledInt
  <2>3. QED
    BY <1>1, <1>3, <2>1, <2>2 DEF Aligned, Travelled
<1>6. QED
  BY <1>4, <1>5

(* No bucket between the set's key's home and the place of insert_raw is   *)
(* empty.                                                                  *)
LEMMA RunBehind ==
  ASSUME IInv, KInv, pc = "insert"
  PROVE  \A d \in 1 .. Travelled : buckets[Back(slot, d, cap)].psl # 0
<1>1. CASE ~FreshCarried
  BY <1>1 DEF KInv, Chased
<1>2. CASE FreshCarried
  <2>1. /\ Inserting /\ slot \in Slots(cap) /\ incoming.psl \in 1 .. cap /\ cap \in Nat \ {0}
        /\ Travelled = incoming.psl - 1
    BY <1>2, InsertFacts DEF Inserting, FreshCarried, Travelled
  <2>2. Run(buckets, cap, NoHole, incoming.psl, slot)
    BY <2>1 DEF IInv, ProbeOrder
  <2>3. ASSUME NEW d \in 1 .. Travelled PROVE buckets[Back(slot, d, cap)].psl # 0
    <3>1. Back(slot, d, cap) # NoHole
      BY <2>1 DEF Back, NoHole, Slots
    <3>2. buckets[Back(slot, d, cap)].psl >= incoming.psl - d
      BY <2>1, <2>2, <3>1 DEF Run
    <3>3. QED
      BY <2>1, <3>2
  <2>4. QED
    BY <2>3
<1>3. QED
  BY <1>1, <1>2

LEMMA KeysStepInsert ==
  ASSUME IInv, KInv, InsertStep
  PROVE  KInv'
<1>0. Inserting
  BY DEF InsertStep, InsertEmpty, InsertReplace, InsertSwap, InsertAdvance
<1>f. /\ pc \in {"insert", "reinsert"} /\ slot \in Slots(cap) /\ cap \in Nat \ {0}
      /\ buckets \in [Slots(cap) -> Bucket] /\ incoming \in Entry /\ incoming.psl \in 1 .. cap
      /\ Succ(slot) \in Slots(cap) /\ Succ(slot) = IF slot + 1 = cap THEN 0 ELSE slot + 1
  BY <1>0, InsertFacts
<1>o. pc = "insert" => old_cap = 0
  BY DEF KInv, OldGone
<1>1. ASSUME InsertReturn, UNCHANGED rehash, DistinctIn(buckets', Occ'),
             \A t \in Left : Absent(old_buckets[t].key, buckets', Occ')
      PROVE  KInv'
  <2>1. \/ pc = "insert" /\ pc' = "idle"
        \/ pc = "reinsert" /\ pc' = "rehash"
    BY <1>1, <1>f DEF InsertReturn, Return
  <2>2. Left' = Left /\ UNCHANGED <<old_buckets, old_cap>>
    BY <1>1 DEF Left, rehash
  <2>3. QED
    BY <1>1, <1>o, <2>1, <2>2
       DEF KInv, Apart, FreshAhead, Chased, OldGone, FreshCarried, Inserting
<1>2. CASE InsertEmpty
  <2>1. /\ InsertReturn /\ UNCHANGED rehash /\ cap' = cap
        /\ buckets' = [buckets EXCEPT ![slot] = incoming] /\ buckets[slot].psl = 0
    BY <1>2 DEF InsertEmpty
  <2>2. Absent(incoming.key, buckets, Occ)
    BY <1>0, <1>f, <2>1, CarriedAbsent
  <2>3. \A s \in Occ' : IF s = slot THEN buckets'[s] = incoming
                                    ELSE s \in Occ /\ buckets'[s] = buckets[s]
    BY <1>f, <2>1 DEF Occ, Occupied
  <2>4. DistinctIn(buckets', Occ')
    BY <2>2, <2>3 DEF KInv, Apart, DistinctIn, Absent
  <2>5. \A t \in Left : Absent(old_buckets[t].key, buckets', Occ')
    BY <1>0, <2>3 DEF KInv, Apart, Absent
  <2>6. QED
    BY <1>1, <2>1, <2>4, <2>5
<1>3. CASE InsertReplace
  <2>1. /\ InsertReturn /\ UNCHANGED rehash /\ cap' = cap
        /\ buckets' = [buckets EXCEPT ![slot] = WithValue(buckets[slot], incoming.value)]
    BY <1>3 DEF InsertReplace
  <2>2. \A s \in Slots(cap) : buckets'[s].key = buckets[s].key /\ buckets'[s].psl = buckets[s].psl
    BY <1>f, <2>1 DEF WithValue
  <2>3. Occ' = Occ
    BY <2>1, <2>2 DEF Occ, Occupied
  <2>4. DistinctIn(buckets', Occ') /\ \A t \in Left : Absent(old_buckets[t].key, buckets', Occ')
    BY <2>2, <2>3 DEF KInv, Apart, DistinctIn, Absent, Occ, Occupied
  <2>5. QED
    BY <1>1, <2>1, <2>4
(* On to the next bucket: the psl of what is carried grows by one.  *)
<1>4. ASSUME NEW e \in Entry, Carry(e), UNCHANGED <<arg, cap>>, UNCHANGED rehash
      PROVE  /\ pc' = pc \/ pc' = "abort"
             /\ Left' = Left /\ UNCHANGED <<old_buckets, old_cap>> /\ slot' = Succ(slot)
             /\ incoming'.key = e.key
             /\ Inserting' => incoming'.psl = e.psl + 1
  <2>1. IncPsl(e.psl) # 0 => IncPsl(e.psl) = e.psl + 1
    BY IncPslIs DEF Entry
  <2>2. QED
    BY <1>4, <2>1 DEF Carry, WithPsl, Left, rehash, Inserting
<1>5. ASSUME pc = "insert", slot' = Succ(slot), UNCHANGED <<arg, cap>>,
             buckets' \in [Slots(cap) -> Bucket],
             \A s \in Slots(cap) : (buckets'[s].psl = 0) = (buckets[s].psl = 0),
             buckets[slot].psl # 0
      PROVE  /\ Travelled' = Travelled + 1
             /\ \A d \in 1 .. Travelled' : buckets'[Back(slot', d, cap)].psl # 0
  <2>1. HomeOf(arg.key, cap) \in Slots(cap)
    BY <1>0, <1>5, <1>f, HomeInRange, InsertFacts
  <2>2. PICK z \in Slots(cap) : buckets[z].psl = 0
    BY <1>0, InsertFacts
  <2>3. \A d \in 1 .. Travelled : Back(slot, d, cap) \in Slots(cap)
    BY <1>f, <2>1 DEF Travelled, Dist, Back, Slots
  <2>4. \A d \in 1 .. Travelled : buckets'[Back(slot, d, cap)].psl # 0
    BY <1>5, <2>3, RunBehind
  <2> DEFINE h == HomeOf(arg.key, cap)
             n == Succ(slot)
  <2>5. /\ h \in Slots(cap) /\ n \in Slots(cap) /\ n = (IF slot + 1 = cap THEN 0 ELSE slot + 1)
        /\ buckets'[z].psl = 0 /\ buckets'[slot].psl # 0
        /\ \A d \in 1 .. Dist(h, slot, cap) : buckets'[Back(slot, d, cap)].psl # 0
    BY <1>f, <1>5, <2>1, <2>2, <2>4 DEF Travelled
  <2>6. Travelled' = Dist(h, n, cap) /\ Travelled = Dist(h, slot, cap) /\ slot' = n
    BY <1>5 DEF Travelled, HomeOf
  <2> HIDE DEF h, n
  <2>7. /\ Dist(h, n, cap) = Dist(h, slot, cap) + 1
        /\ \A d \in 1 .. Dist(h, n, cap) : buckets'[Back(n, d, cap)].psl # 0
    BY <1>f, <1>5, <2>2, <2>5, ChaseOn
  <2>8. QED
    BY <2>6, <2>7
<1>6. CASE InsertSwap
  <2> DEFINE o == buckets[slot]
  <2>1. /\ buckets' = [buckets EXCEPT ![slot] = incoming] /\ Carry(o)
        /\ UNCHANGED <<arg, cap>> /\ UNCHANGED rehash
        /\ o.psl # 0 /\ o.key # incoming.key /\ o.psl < incoming.psl
    BY <1>6 DEF InsertSwap, Richer
  <2>2. Absent(incoming.key, buckets, Occ)
    BY <1>0, <2>1, CarriedAbsent
  <2>3. o \in Entry /\ slot \in Occ
    BY <1>f, <2>1 DEF Bucket, Empty, Occ, Occupied
  <2>4. /\ pc' = pc \/ pc' = "abort"
        /\ Left' = Left /\ UNCHANGED <<old_buckets, old_cap>> /\ slot' = Succ(slot)
        /\ incoming'.key = o.key
        /\ Inserting' => incoming'.psl = o.psl + 1
    BY <1>4, <2>1, <2>3
  <2>5. Occ' = Occ /\ incoming.psl # 0
    <3>1. Occupied([buckets EXCEPT ![slot] = incoming], cap) = Occupied(buckets, cap)
      BY <1>f, <2>1, SwapOne
    <3>2. QED
      BY <1>f, <2>1, <3>1 DEF Occ
  <2>6. \A s \in Occ : buckets'[s] = IF s = slot THEN incoming ELSE buckets[s]
    BY <1>f, <2>1 DEF Occ, Occupied
  <2>7. pc = "insert" => o.key # arg.key /\ o.psl <= Travelled
    BY <2>1, DisplacedIsOther
  <2> HIDE DEF o
  <2>8. DistinctIn(buckets', Occ') /\ \A t \in Left : Absent(old_buckets[t].key, buckets', Occ')
    BY <1>0, <2>2, <2>5, <2>6 DEF KInv, Apart, DistinctIn, Absent
  <2>9. Absent(o.key, buckets', Occ') /\ Absent(o.key, old_buckets, Left)
    BY <2>1, <2>3, <2>5, <2>6 DEF KInv, Apart, DistinctIn, Absent, o
  <2>10. Apart'
    BY <2>4, <2>8, <2>9 DEF KInv, Apart
  <2>11. ~FreshCarried'
    BY <2>1, <2>4, <2>7 DEF FreshCarried
  <2>12. Chased'
    <3>1. SUFFICES ASSUME pc' = "insert"
                   PROVE  /\ incoming'.psl <= Travelled'
                          /\ \A d \in 1 .. Travelled' : buckets'[Back(slot', d, cap')].psl # 0
      BY DEF Chased
    <3>2. pc = "insert" /\ Inserting'
      BY <1>f, <2>4, <3>1 DEF Inserting
    <3>3. buckets' \in [Slots(cap) -> Bucket]
      BY <1>f, <2>1 DEF Bucket
    <3>4. \A s \in Slots(cap) : (buckets'[s].psl = 0) = (buckets[s].psl = 0)
      BY <1>f, <2>1, <2>5 DEF o
    <3>5. /\ Travelled' = Travelled + 1
          /\ \A d \in 1 .. Travelled' : buckets'[Back(slot', d, cap)].psl # 0
      BY <1>5, <2>1, <2>4, <3>2, <3>3, <3>4 DEF o
    <3>6. o.psl \in Int
      BY <2>3, HashMapAssumption DEF Entry
    <3>7. Travelled \in Int
      BY <3>2, TravelledInt
    <3>8. QED
      BY <2>1, <2>4, <2>7, <3>2, <3>5, <3>6, <3>7
  <2>13. QED
    BY <1>f, <1>o, <2>4, <2>10, <2>11, <2>12 DEF KInv, FreshAhead, OldGone
<1>7. CASE InsertAdvance
  <2>1. /\ Carry(incoming) /\ UNCHANGED <<arg, buckets, cap>> /\ UNCHANGED rehash
        /\ buckets[slot].psl # 0 /\ buckets[slot].key # incoming.key
    BY <1>7 DEF InsertAdvance, table
  <2>2. /\ pc' = pc \/ pc' = "abort"
        /\ Left' = Left /\ UNCHANGED <<old_buckets, old_cap>> /\ slot' = Succ(slot)
        /\ incoming'.key = incoming.key
        /\ Inserting' => incoming'.psl = incoming.psl + 1
    BY <1>f, <1>4, <2>1
  <2>3. Occ' = Occ
    BY <2>1 DEF Occ
  <2>4. Inserting' /\ ~FreshCarried' => ~FreshCarried
    BY <2>1, <2>2 DEF FreshCarried, Inserting
  <2>5. Apart'
    BY <1>0, <2>1, <2>2, <2>3, <2>4 DEF KInv, Apart
  <2>6. FreshAhead'
    <3>1. SUFFICES ASSUME FreshCarried' PROVE Beyond(buckets, Occ, arg.key, incoming.psl + 1)
      BY <2>1, <2>2, <2>3 DEF FreshAhead, FreshCarried, Inserting
    <3>2. FreshCarried
      BY <1>f, <2>1, <2>2, <3>1 DEF FreshCarried
    <3>3. QED
      BY <1>0, <2>1, <3>2, InsertFacts, FurtherAhead DEF KInv, FreshAhead, FreshCarried, Occ
  <2>7. Chased'
    <3>1. SUFFICES ASSUME pc' = "insert", ~FreshCarried'
                   PROVE  /\ incoming'.psl <= Travelled'
                          /\ \A d \in 1 .. Travelled' : buckets'[Back(slot', d, cap')].psl # 0
      BY DEF Chased
    <3>2. pc = "insert" /\ Inserting' /\ ~FreshCarried
      BY <1>f, <2>2, <2>4, <3>1 DEF Inserting
    <3>3. /\ Travelled' = Travelled + 1
          /\ \A d \in 1 .. Travelled' : buckets'[Back(slot', d, cap)].psl # 0
      BY <1>5, <1>f, <2>1, <2>2, <3>2
    <3>4. Travelled \in Int /\ incoming.psl <= Travelled
      BY <3>2, TravelledInt DEF KInv, Chased
    <3>5. QED
      BY <1>f, <2>1, <2>2, <3>2, <3>3, <3>4
  <2>8. QED
    BY <1>f, <1>o, <2>2, <2>5, <2>6, <2>7 DEF KInv, OldGone
<1>8. QED
  BY <1>2, <1>3, <1>6, <1>7 DEF InsertStep

LEMMA NextKInv == IInv /\ KInv /\ [Next]_vars => KInv'
<1> SUFFICES ASSUME IInv, KInv, [Next]_vars PROVE KInv'
  OBVIOUS
<1>1. CASE UNCHANGED vars
  BY <1>1 DEF vars, table, rehash, KInv, Apart, FreshAhead, Chased, OldGone, FreshCarried,
              Inserting, Travelled, Occ, Left
<1>2. CASE Create \/ Clear \/ Destroy
  BY <1>2, KeysStepLife
<1>3. CASE \/ \E op \in {"get", "remove"}, k \in Keys : Find(op, k)
           \/ FindStep \/ RemoveStep
  BY <1>3, KeysStepFind
<1>4. CASE SetStep \/ \E e \in Offered : SetCall(e[1], e[2])
  BY <1>4, KeysStepSet
<1>5. CASE InsertStep
  BY <1>5, KeysStepInsert
<1>6. CASE (\E fwd \in BOOLEAN : IterOpen(fwd)) \/ IterNext \/ IterDrop
  <2>1. pc = "idle" /\ pc' = "idle" /\ UNCHANGED <<buckets, cap, old_buckets, old_cap, i>>
    BY <1>6 DEF IterOpen, Quiet, IterNext, IterDrop, table, rehash
  <2>2. QED
    BY <2>1, KeysKept
<1>7. QED
  BY <1>1, <1>2, <1>3, <1>4, <1>5, <1>6 DEF Next, Step

LEMMA KeysInductive == Spec => [](IInv /\ KInv)
<1>1. Init => IInv /\ KInv
  BY InitIInv, InitKInv
<1>2. IInv /\ KInv /\ [Next]_vars => (IInv /\ KInv)'
  BY NextIInv, NextKInv
<1>3. QED
  BY <1>1, <1>2, PTL DEF Spec

LEMMA ApartIsOnce == KInv => KeysOnce
<1> SUFFICES ASSUME KInv, NEW p \in Places, NEW q \in Places, p # q, EntryAt(p).key = EntryAt(q).key
             PROVE  /\ pc = "insert" /\ incoming.key = arg.key
                    /\ <<"carried", 0>> \in {p, q}
  BY DEF KeysOnce
<1>1. ASSUME NEW x \in Places
      PROVE  \/ \E s \in Occ : x = <<"new", s>> /\ EntryAt(x) = buckets[s]
             \/ \E t \in Left : x = <<"old", t>> /\ EntryAt(x) = old_buckets[t]
             \/ Inserting /\ x = <<"carried", 0>> /\ EntryAt(x) = incoming
  BY <1>1 DEF Places, EntryAt, Occ, Left
<1>2. CASE p # <<"carried", 0>> /\ q # <<"carried", 0>>
  BY <1>1, <1>2 DEF KInv, Apart, DistinctIn, Absent
<1>3. ASSUME NEW x \in Places, x # <<"carried", 0>>, Inserting, EntryAt(x).key = incoming.key
      PROVE  FreshCarried
  BY <1>1, <1>3 DEF KInv, Apart, Absent
<1>4. CASE p = <<"carried", 0>> \/ q = <<"carried", 0>>
  BY <1>1, <1>3, <1>4 DEF FreshCarried
<1>5. QED
  BY <1>2, <1>4

(* No key has two entries, in the array, in the old one and in the hands   *)
(* of insert_raw together, at any step of a set or a rehash; only the      *)
(* entry being set may meet the one it replaces.                           *)
THEOREM KeysOnceCorrect == Spec => []KeysOnce
BY KeysInductive, ApartIsOnce, PTL

-----------------------------------------------------------------------------
(* max_psl.  *)

LEMMA InitMaxPsl == Init => MaxPslCovers
BY NoneOccupied DEF Init, MaxPslCovers

LEMMA NextMaxPsl == IInv /\ MaxPslCovers /\ [Next]_vars => MaxPslCovers'
<1> SUFFICES ASSUME IInv, MaxPslCovers, [Next]_vars PROVE MaxPslCovers'
  OBVIOUS
<1> USE HashMapAssumption
<1>0. cap \in Nat /\ buckets \in [Slots(cap) -> Bucket] /\ max_psl \in Nat
  BY DEF IInv, TypeOK
<1>1. ASSUME UNCHANGED <<buckets, cap, max_psl>> PROVE MaxPslCovers'
  BY <1>1 DEF MaxPslCovers
<1>2. ASSUME buckets' = NoBuckets(cap'), cap' \in Nat PROVE MaxPslCovers'
  BY <1>2, NoneOccupied DEF MaxPslCovers
<1>3. CASE Create \/ Clear \/ Destroy \/ Grow
  BY <1>0, <1>1, <1>2, <1>3 DEF Create, Clear, Destroy, Grow
<1>4. CASE RemoveHit
  BY <1>0, <1>4 DEF RemoveHit, MaxPslCovers, Occupied, Empty
<1>5. CASE ShiftMove
  <2> DEFINE n == Succ(slot)
             e == WithPsl(buckets[n], buckets[n].psl - 1)
  <2>1. pc = "shift" /\ InLoop
    BY <1>5 DEF ShiftMove, InLoop
  <2>2. slot \in Slots(cap) /\ n \in Slots(cap) /\ buckets[n].psl \in Nat /\ buckets[n].psl > 1
    BY <1>0, <1>5, <2>1, Facts DEF IInv, ShiftMove, Shiftable, Bucket, Entry, Empty
  <2>3. /\ buckets' = [buckets EXCEPT ![slot] = e, ![n] = Empty] /\ UNCHANGED <<cap, max_psl>>
    BY <1>5 DEF ShiftMove
  <2>4. e.psl < buckets[n].psl /\ buckets[n].psl <= max_psl
    BY <2>2 DEF WithPsl, MaxPslCovers, Occupied
  <2> HIDE DEF n, e
  <2>5. ASSUME NEW s \in Occupied(buckets, cap)' PROVE buckets'[s].psl <= max_psl
    <3>1. s \in Slots(cap) /\ s # n
      BY <1>0, <2>2, <2>3, <2>5 DEF Occupied, Empty
    <3>2. CASE s = slot
      <4>1. buckets'[s] = e /\ e.psl \in Int
        BY <1>0, <2>2, <2>3, <3>1, <3>2 DEF e, WithPsl
      <4>2. QED
        BY <1>0, <2>2, <2>4, <4>1
    <3>3. CASE s # slot
      BY <1>0, <2>3, <2>5, <3>1, <3>3 DEF Occupied, MaxPslCovers
    <3>4. QED
      BY <3>2, <3>3
  <2>6. QED
    BY <2>3, <2>5 DEF MaxPslCovers
<1>6. ASSUME buckets' = [buckets EXCEPT ![slot] = incoming], cap' = cap, Inserting,
             max_psl' = Raise(incoming.psl)
      PROVE  MaxPslCovers'
  <2>1. incoming \in Entry
    BY <1>6 DEF IInv, TypeOK
  <2>2. incoming.psl \in Nat /\ max_psl' \in Nat /\ max_psl <= max_psl' /\ incoming.psl <= max_psl'
    BY <1>0, <1>6, <2>1 DEF Raise, Entry
  <2>3. \A s \in Slots(cap) : buckets[s].psl \in Int
    BY <1>0 DEF Bucket, Entry, Empty
  <2>4. QED
    BY <1>0, <1>6, <2>2, <2>3 DEF MaxPslCovers, Occupied
<1>7. CASE InsertEmpty \/ InsertSwap
  BY <1>6, <1>7 DEF InsertEmpty, InsertSwap
<1>8. CASE InsertReplace
  <2>1. \A s \in Slots(cap) : buckets'[s].psl = buckets[s].psl
    BY <1>0, <1>8 DEF InsertReplace, WithValue
  <2>2. QED
    BY <1>8, <2>1 DEF InsertReplace, MaxPslCovers, Occupied
<1>9. CASE InsertAdvance \/ FindStep \/ ShiftDone
  BY <1>1, <1>9 DEF InsertAdvance, FindStep, FindMiss, FindNext, GetHit, ShiftDone, table
<1>10. CASE NoGrow \/ Refused \/ RehashSkip \/ RehashOne \/ RehashDone
              \/ AllocKey \/ ValRefused \/ AllocVal
  BY <1>1, <1>10 DEF NoGrow, Refused, RehashSkip, RehashOne, RehashDone,
              AllocKey, ValRefused, AllocVal, table
<1>11. CASE \/ \E e \in Offered : SetCall(e[1], e[2])
            \/ \E op \in {"get", "remove"}, k \in Keys : Find(op, k)
            \/ \E fwd \in BOOLEAN : IterOpen(fwd)
            \/ IterNext \/ IterDrop \/ UNCHANGED vars
  BY <1>1, <1>11 DEF SetCall, Find, IterOpen, IterNext, IterDrop, vars, table
<1>12. QED
  BY <1>3, <1>4, <1>5, <1>7, <1>8, <1>9, <1>10, <1>11
     DEF Next, Step, InsertStep, RemoveStep, SetStep

(* hashmap_set cannot miss that a psl has reached the threshold.           *)
THEOREM MaxPslCorrect == Spec => []MaxPslCovers
<1>1. Init => IInv /\ MaxPslCovers
  BY InitIInv, InitMaxPsl
<1>2. IInv /\ MaxPslCovers /\ [Next]_vars => (IInv /\ MaxPslCovers)'
  BY NextIInv, NextMaxPsl
<1>3. QED
  BY <1>1, <1>2, PTL DEF Spec

-----------------------------------------------------------------------------
(* What a probe for a key knows: the key is not in the array, or it is at  *)
(* the probe's slot or further on.  When probe, a uint8_t, wraps, the key  *)
(* is not in the array, for no bucket's psl is that large.                 *)

FindOK == pc = "find" =>
            \/ Absent(arg.key, buckets, Occ)
            \/ /\ probe \in 1 .. PslWidth - 1
               /\ probe - 1 = Dist(HomeOf(arg.key, cap), slot, cap)
               /\ Run(buckets, cap, NoHole, probe, slot)
               /\ Beyond(buckets, Occ, arg.key, probe)

(* The call that each pc belongs to.  *)
ArgOK ==
  /\ pc \in {"none", "idle"} => arg = NoArg
  /\ pc = "find" => arg.op \in {"get", "remove"} /\ arg.key \in Keys
  /\ pc = "shift" => arg.op = "remove"

LEMMA InitArgOK == Init => ArgOK
BY DEF Init, ArgOK

LEMMA NextArgOK == ArgOK /\ [Next]_vars => ArgOK'
<1> SUFFICES ASSUME ArgOK, [Next]_vars PROVE ArgOK'
  OBVIOUS
<1>1. CASE UNCHANGED vars
  BY <1>1 DEF vars, ArgOK
<1>2. CASE Create \/ Clear \/ Destroy \/ \E e \in Offered : SetCall(e[1], e[2])
  BY <1>2 DEF Create, Clear, Destroy, Quiet, SetCall, ArgOK
<1>3. ASSUME NEW op \in {"get", "remove"}, NEW k \in Keys, Find(op, k) PROVE ArgOK'
  BY <1>3 DEF Find, KeyArg, ArgOK
<1>4. CASE FindStep \/ RemoveStep
  BY <1>4 DEF FindStep, FindMiss, FindNext, GetHit, Found, RemoveStep, RemoveHit, ShiftMove,
              ShiftDone, Return, ArgOK
<1>5. CASE InsertStep \/ SetStep
  BY <1>5 DEF InsertStep, InsertEmpty, InsertReplace, InsertSwap, InsertAdvance, InsertReturn,
              Carry, Return, Inserting, SetStep, NoGrow, Refused, Grow, RehashSkip, RehashOne,
              RehashDone, AllocKey, ValRefused, AllocVal, ArgOK
<1>6. CASE (\E fwd \in BOOLEAN : IterOpen(fwd)) \/ IterNext \/ IterDrop
  BY <1>6 DEF IterOpen, Quiet, IterNext, IterDrop, ArgOK
<1>7. QED
  BY <1>1, <1>2, <1>3, <1>4, <1>5, <1>6 DEF Next, Step

LEMMA InitFindOK == Init => FindOK
BY DEF Init, FindOK

(* What holds while a probe runs.  *)
LEMMA FindFacts ==
  ASSUME IInv, ArgOK, pc = "find"
  PROVE  /\ cap \in Nat \ {0} /\ buckets \in [Slots(cap) -> Bucket]
         /\ slot \in Slots(cap) /\ Succ(slot) \in Slots(cap)
         /\ Succ(slot) = IF slot + 1 = cap THEN 0 ELSE slot + 1
         /\ Ordered(buckets, cap, NoHole)
         /\ arg.key \in Keys
         /\ \E z \in Slots(cap) : buckets[z].psl = 0
<1>1. InLoop
  BY DEF InLoop
<1>2. /\ cap \in Nat \ {0} /\ buckets \in [Slots(cap) -> Bucket]
      /\ slot \in Slots(cap) /\ Succ(slot) \in Slots(cap)
      /\ \E z \in Slots(cap) : buckets[z].psl = 0
  BY <1>1, Facts DEF IInv, TypeOK
<1>3. Succ(slot) = IF slot + 1 = cap THEN 0 ELSE slot + 1
  BY <1>2, SuccIs
<1>4. Ordered(buckets, cap, NoHole)
  BY DEF IInv, ProbeOrder, Hole
<1>5. QED
  BY <1>2, <1>3, <1>4 DEF ArgOK

LEMMA NextFindOK == IInv /\ ArgOK /\ FindOK /\ [Next]_vars => FindOK'
<1> SUFFICES ASSUME IInv, ArgOK, FindOK, [Next]_vars, pc' = "find" PROVE FindOK'
  BY DEF FindOK
<1> USE HashMapAssumption
<1>1. ASSUME NEW op \in {"get", "remove"}, NEW k \in Keys, Find(op, k) PROVE FindOK'
  <2>1. /\ arg'.key = k /\ probe' = 1 /\ slot' = HomeOf(k, cap) /\ UNCHANGED <<buckets, cap>>
        /\ pc = "idle"
    BY <1>1 DEF Find, KeyArg, table
  <2>2. cap \in Nat \ {0} /\ buckets \in [Slots(cap) -> Bucket]
    BY <2>1, Facts DEF IInv, TypeOK
  <2>3. HomeOf(k, cap) \in Slots(cap)
    BY <2>2, HomeInRange
  <2>4. (probe - 1 = Dist(HomeOf(arg.key, cap), slot, cap))'
    BY <2>1, <2>3 DEF Dist, HomeOf, Slots
  <2>5. Run(buckets, cap, NoHole, probe, slot)'
    BY <2>1 DEF Run
  <2>6. Beyond(buckets, Occ, arg.key, probe)'
    BY <2>1, <2>2 DEF Beyond, Occ, Occupied, Bucket, Entry, Empty
  <2>7. QED
    BY <2>1, <2>4, <2>5, <2>6 DEF FindOK
<1>2. CASE FindNext
  <2>1. /\ pc = "find" /\ UNCHANGED <<buckets, cap, arg>> /\ slot' = Succ(slot)
        /\ probe' = IncPsl(probe)
        /\ buckets[slot].psl # 0 /\ buckets[slot].psl >= probe /\ buckets[slot].key # arg.key
    BY <1>2 DEF FindNext, table
  <2>2. CASE Absent(arg.key, buckets, Occ)
    BY <2>1, <2>2 DEF FindOK, Occ
  <2>3. CASE ~Absent(arg.key, buckets, Occ)
    <3> DEFINE h == HomeOf(arg.key, cap)
    <3>1. /\ probe \in 1 .. PslWidth - 1 /\ probe - 1 = Dist(h, slot, cap)
          /\ Run(buckets, cap, NoHole, probe, slot) /\ Beyond(buckets, Occ, arg.key, probe)
      BY <2>1, <2>3 DEF FindOK
    <3>2. h \in Slots(cap)
      BY <2>1, FindFacts, HomeInRange
    <3>3. cap \in Nat \ {0} /\ slot \in Slots(cap)
      BY <2>1, FindFacts
    <3>4. probe \in 1 .. cap
      BY <3>1, <3>2, <3>3 DEF Dist, Slots
    <3>5. Beyond(buckets, Occ, arg.key, probe + 1)
      BY <2>1, <3>1, <3>4, FindFacts, FurtherAhead DEF Occ
    <3>6. CASE probe + 1 = PslWidth
      <4>1. \A s \in Occ : buckets[s].psl < PslWidth
        BY <2>1, FindFacts DEF Occ, Occupied, Bucket, Entry, Empty
      <4>2. \A s \in Occ : buckets[s].psl \in Int
        BY <2>1, FindFacts DEF Occ, Occupied, Bucket, Entry, Empty
      <4>3. Absent(arg.key, buckets, Occ)
        BY <3>5, <3>6, <4>1, <4>2 DEF Beyond, Absent
      <4>4. QED
        BY <2>3, <4>3
    <3>7. CASE probe + 1 # PslWidth
      <4>1. IncPsl(probe) = probe + 1 /\ probe + 1 \in 1 .. PslWidth - 1
        <5>1. probe \in Slots(PslWidth) /\ PslWidth \in Nat \ {0}
          BY <3>1 DEF Slots
        <5>2. QED
          BY <3>1, <3>7, <5>1, ModWrap DEF IncPsl
      <4>2. probe < cap
        BY <2>1, <3>1, <3>4, FindFacts, CarriedNotRound
      <4>3. Run(buckets, cap, NoHole, probe + 1, Succ(slot))
        BY <2>1, <3>1, <3>4, <4>2, FindFacts, CarryKeepsRun
      <4>4. probe = Dist(h, Succ(slot), cap)
        <5>1. PICK n \in Slots(cap) : n = Succ(slot) /\ n = IF slot + 1 = cap THEN 0 ELSE slot + 1
          BY <2>1, FindFacts
        <5>2. QED
          BY <3>1, <3>2, <3>3, <4>2, <5>1 DEF Dist, Slots
      <4>5. QED
        BY <2>1, <3>1, <3>5, <4>1, <4>3, <4>4 DEF FindOK, Occ, HomeOf
    <3>8. QED
      BY <3>6, <3>7
  <2>4. QED
    BY <2>2, <2>3
<1>3. CASE UNCHANGED vars
  BY <1>3 DEF vars, table, FindOK, Occ
<1>4. CASE Create \/ Clear \/ Destroy \/ \E e \in Offered : SetCall(e[1], e[2])
  BY <1>4 DEF Create, Clear, Destroy, Quiet, SetCall
<1>5. CASE InsertStep \/ FindMiss \/ GetHit \/ RemoveStep \/ SetStep
  BY <1>5 DEF InsertStep, InsertEmpty, InsertReplace, InsertSwap, InsertAdvance, InsertReturn,
              Carry, Return, Inserting, FindMiss, GetHit, RemoveStep, RemoveHit, ShiftMove,
              ShiftDone, SetStep, NoGrow, Refused, Grow, RehashSkip, RehashOne, RehashDone,
              AllocKey, ValRefused, AllocVal
<1>6. CASE (\E fwd \in BOOLEAN : IterOpen(fwd)) \/ IterNext \/ IterDrop
  BY <1>6 DEF IterOpen, Quiet, IterNext, IterDrop
<1>7. QED
  BY <1>1, <1>2, <1>3, <1>4, <1>5, <1>6 DEF Next, Step, FindStep

LEMMA FindInductive == Spec => [](ArgOK /\ FindOK)
<1>1. Init => IInv /\ ArgOK /\ FindOK
  BY InitIInv, InitArgOK, InitFindOK
<1>2. IInv /\ ArgOK /\ FindOK /\ [Next]_vars => (IInv /\ ArgOK /\ FindOK)'
  BY NextIInv, NextArgOK, NextFindOK
<1>3. QED
  BY <1>1, <1>2, PTL DEF Spec

(* hashmap_get and hashmap_remove report a key missing only when no bucket *)
(* holds it: neither the early stop at a poorer bucket nor a probe count   *)
(* that has wrapped passes over an entry.                                  *)
MissIsAbsent ==
  pc = "find" /\ (buckets[slot].psl = 0 \/ buckets[slot].psl < probe) =>
    \A s \in Occ : buckets[s].key # arg.key

LEMMA FindKnowsMiss == IInv /\ ArgOK /\ FindOK => MissIsAbsent
<1> SUFFICES ASSUME IInv, ArgOK, FindOK, pc = "find",
                    buckets[slot].psl = 0 \/ buckets[slot].psl < probe,
                    ~Absent(arg.key, buckets, Occ)
             PROVE  FALSE
  BY DEF MissIsAbsent, Absent
<1>1. /\ probe \in 1 .. PslWidth - 1 /\ probe - 1 = Dist(HomeOf(arg.key, cap), slot, cap)
      /\ Beyond(buckets, Occ, arg.key, probe)
  BY DEF FindOK
<1>2. HomeOf(arg.key, cap) \in Slots(cap)
  BY FindFacts, HomeInRange
<1>3. probe \in 1 .. cap
  BY <1>1, <1>2, FindFacts, HashMapAssumption DEF Dist, Slots
<1>4. buckets[slot].psl < probe
  BY <1>3
<1>5. QED
  BY <1>1, <1>3, <1>4, FindFacts, NoneAhead DEF Occ

(* hashmap_get and hashmap_remove miss nothing: where the probe loop stops *)
(* at a poorer or an empty bucket, or probe has wrapped, the key has no    *)
(* entry.                                                                  *)
THEOREM MissesCorrect == Spec => []MissIsAbsent
BY FindInductive, Inductive, FindKnowsMiss, PTL

-----------------------------------------------------------------------------
(* Counting the places an entry may be.  *)

LEMMA TaggedCount ==
  ASSUME NEW S, IsFiniteSet(S), NEW tag
  PROVE  IsFiniteSet({<<tag, s>> : s \in S}) /\ Cardinality({<<tag, s>> : s \in S}) = Cardinality(S)
<1> DEFINE T == {<<tag, s>> : s \in S}
           f == [s \in S |-> <<tag, s>>]
<1>1. f \in [S -> T] /\ (\A x, y \in S : f[x] = f[y] => x = y) /\ \A y \in T : \E x \in S : f[x] = y
  OBVIOUS
<1> HIDE DEF T, f
<1>2. f \in Bijection(S, T)
  BY <1>1 DEF Bijection, Injection, Surjection, IsInjective
<1>3. ExistsBijection(S, T)
  BY <1>2 DEF ExistsBijection
<1>4. QED
  BY <1>3, FS_Bijection DEF T

CarriedCount == IF Inserting THEN 1 ELSE 0

LEMMA PlacesCount ==
  IInv => /\ Cardinality(Places) = Cardinality(Occ) + Cardinality(Left) + CarriedCount
          /\ Cardinality(Occ) \in Nat /\ Cardinality(Left) \in Nat /\ IsFiniteSet(Occ) /\ IsFiniteSet(Left)
<1> SUFFICES ASSUME IInv PROVE /\ Cardinality(Places) = Cardinality(Occ) + Cardinality(Left) + CarriedCount
                               /\ Cardinality(Occ) \in Nat /\ Cardinality(Left) \in Nat
                               /\ IsFiniteSet(Occ) /\ IsFiniteSet(Left)
  OBVIOUS
<1> DEFINE N == {<<"new", s>> : s \in Occ}
           O == {<<"old", s>> : s \in Left}
           C == IF Inserting THEN {<<"carried", 0>>} ELSE {}
<1>1. cap \in Nat /\ old_cap \in Nat
  BY DEF IInv, TypeOK
<1>2. IsFiniteSet(Occ) /\ IsFiniteSet(Left)
  BY <1>1, OccupiedFinite, FS_Subset DEF Occ, Left
<1>3. Cardinality(Occ) \in Nat /\ Cardinality(Left) \in Nat
  BY <1>2, FS_CardinalityType
<1>4. IsFiniteSet(N) /\ Cardinality(N) = Cardinality(Occ)
  BY <1>2, TaggedCount
<1>5. IsFiniteSet(O) /\ Cardinality(O) = Cardinality(Left)
  BY <1>2, TaggedCount
<1>6. N \cap O = {}
  OBVIOUS
<1>8. <<"carried", 0>> \notin N \cup O
  OBVIOUS
<1>10. Places = (N \cup O) \cup C
  BY DEF Places, Occ, Left
<1>n. C = IF Inserting THEN {<<"carried", 0>>} ELSE {}
  OBVIOUS
<1> HIDE DEF N, O, C
<1>c. Cardinality({}) = 0
  BY FS_EmptySet
<1>u. /\ IsFiniteSet(N \cup O)
      /\ Cardinality(N \cup O) = Cardinality(N) + Cardinality(O) - Cardinality(N \cap O)
  BY <1>4, <1>5, FS_Union
<1>7. IsFiniteSet(N \cup O) /\ Cardinality(N \cup O) = Cardinality(Occ) + Cardinality(Left)
  BY <1>3, <1>4, <1>5, <1>6, <1>c, <1>u
<1>9. Cardinality((N \cup O) \cup C) = Cardinality(N \cup O) + CarriedCount
  <2>1. CASE Inserting
    BY <1>7, <1>8, <1>n, <2>1, FS_AddElement DEF CarriedCount
  <2>2. CASE ~Inserting
    <3>1. (N \cup O) \cup C = N \cup O
      BY <1>n, <2>2
    <3>2. CarriedCount = 0 /\ Cardinality(N \cup O) \in Int
      BY <1>3, <1>7, <2>2 DEF CarriedCount
    <3>3. Cardinality((N \cup O) \cup C) = Cardinality(N \cup O)
      BY ONLY <3>1, Zenon
    <3>4. QED
      BY ONLY <3>2, <3>3
  <2>3. QED
    BY <2>1, <2>2
<1>11. QED
  BY <1>2, <1>3, <1>7, <1>9, <1>10

(* What Owned counts, part by part.  *)
Fixed == (IF pc = "none" THEN 0 ELSE 2)
           + (IF pc \in {"rehash", "reinsert"} THEN 1 ELSE 0)
           + (IF pc = "alloc_val" THEN 1 ELSE 0)
           + (IF it.on THEN 1 ELSE 0)
Counted ==
  /\ Cardinality(Occ) \in Nat /\ Cardinality(Left) \in Nat
  /\ Owned = Fixed + 2 * (Cardinality(Occ) + Cardinality(Left) + CarriedCount)

LEMMA OwnedCounted == IInv => Counted
BY PlacesCount DEF Counted, Owned, Fixed

-----------------------------------------------------------------------------
(* No block is lost or freed twice: each step changes `blocks` as it       *)
(* changes what the map can reach.                                         *)

(* A step that moves no entry.  *)
LEMMA BlocksKept ==
  ASSUME IInv, Counted, Counted', NothingLeaks, pc # "abort",
         UNCHANGED <<Occ, Left, CarriedCount>>, blocks' - blocks = Fixed' - Fixed, blocks' \in Int
  PROVE  NothingLeaks'
<1>1. CarriedCount \in {0, 1} /\ Fixed \in Int /\ Fixed' \in Int
  BY DEF CarriedCount, Fixed
<1>2. blocks \in Int
  BY DEF IInv, TypeOK
<1>3. QED
  BY <1>1, <1>2 DEF Counted, NothingLeaks

LEMMA BlocksStepLife ==
  ASSUME IInv, KInv, Counted, Counted', NothingLeaks, Create \/ Clear \/ Destroy
  PROVE  NothingLeaks'
<1> USE HashMapAssumption
<1>0. cap \in Nat /\ blocks \in Int /\ old_cap = 0
  BY DEF Create, Clear, Destroy, Quiet, KInv, OldGone, IInv, TypeOK
<1>1. Left = {}
  BY <1>0, NothingLeft DEF Left
<1>2. UNCHANGED <<Left, CarriedCount>>
  BY <1>0, <1>1, NothingLeft
     DEF Create, Clear, Destroy, Quiet, rehash, Left, CarriedCount, Inserting
<1>3. CASE Create /\ ret' = "OOM"
  BY <1>0, <1>2, <1>3, BlocksKept DEF Create, Occ, Fixed
<1>4. CASE Create /\ ret' = "OK"
  <2>1. cap = 0
    BY <1>4 DEF Create, IInv, Room
  <2>2. Occ = {} /\ Occ' = {}
    <3>1. Occ = {}
      BY <2>1 DEF Occ, Occupied, Slots
    <3>2. Occ' = {}
      BY <1>4, NoneOccupied DEF Create, Occ
    <3>3. QED
      BY <3>1, <3>2
  <2>3. blocks' - blocks = Fixed' - Fixed /\ blocks' \in Int
    BY <1>0, <1>4 DEF Create, Fixed
  <2>4. QED
    BY <1>2, <1>4, <2>2, <2>3, BlocksKept DEF Create
<1>5. CASE Clear \/ Destroy
  <2>1. Cardinality(Occ') = 0
    BY <1>0, <1>5, NoneOccupied DEF Clear, Destroy, Occ
  <2>2. blocks' - blocks = (Fixed' - Fixed) - 2 * Cardinality(Occ)
    BY <1>0, <1>5 DEF Clear, Destroy, Quiet, EntryBlocks, Occ, Fixed, Counted
  <2>3. CarriedCount \in {0, 1} /\ Fixed \in Int /\ Fixed' \in Int
    BY DEF CarriedCount, Fixed
  <2>4. blocks' \in Int /\ pc # "abort"
    BY <1>0, <1>5 DEF Clear, Destroy, Quiet, EntryBlocks, Occ, Counted
  <2>5. blocks = Owned
    BY <2>4 DEF NothingLeaks
  <2>6. Cardinality(Left') = Cardinality(Left) /\ CarriedCount' = CarriedCount
    BY <1>2
  <2>7. blocks' = Owned'
    BY ONLY Counted, Counted', <1>0, <2>1, <2>2, <2>3, <2>4, <2>5, <2>6 DEF Counted
  <2>8. QED
    BY <2>7 DEF NothingLeaks
<1>6. QED
  BY <1>3, <1>4, <1>5 DEF Create

LEMMA BlocksStepFind ==
  ASSUME IInv, KInv, Counted, Counted', NothingLeaks,
         \/ \E op \in {"get", "remove"}, k \in Keys : Find(op, k)
         \/ FindStep \/ RemoveStep
  PROVE  NothingLeaks'
<1> USE HashMapAssumption
<1>0. /\ pc \in {"idle", "find", "shift"} /\ pc' \in {"idle", "find", "shift"}
      /\ UNCHANGED <<cap, rehash, it>>
  BY DEF Find, FindStep, FindMiss, FindNext, GetHit, Found, RemoveStep, RemoveHit,
         ShiftMove, ShiftDone, Return, table
<1>1. /\ blocks \in Int /\ Fixed' = Fixed /\ Fixed \in Int
      /\ UNCHANGED <<Left, CarriedCount>> /\ CarriedCount = 0
  BY <1>0 DEF IInv, TypeOK, Fixed, Left, rehash, CarriedCount, Inserting
<1>2. ASSUME UNCHANGED <<buckets, blocks>> PROVE NothingLeaks'
  <2>1. UNCHANGED Occ
    BY <1>0, <1>2 DEF Occ
  <2>2. QED
    BY <1>0, <1>1, <1>2, <2>1, BlocksKept
<1>f. ASSUME pc \in {"find", "shift"}
      PROVE  /\ cap \in Nat \ {0} /\ buckets \in [Slots(cap) -> Bucket]
             /\ slot \in Slots(cap) /\ Succ(slot) \in Slots(cap)
  BY <1>f, Facts DEF InLoop, TypeOK, IInv
<1>3. CASE RemoveHit
  <2>1. pc = "find" /\ buckets[slot].psl # 0 /\ buckets' = [buckets EXCEPT ![slot] = Empty]
        /\ blocks' = blocks - 2
    BY <1>3 DEF RemoveHit, Found
  <2>2. Cardinality(Occ') = Cardinality(Occ) - 1
    BY <1>0, <1>f, <2>1, EmptyOne DEF Occ
  <2>3. QED
    BY <1>0, <1>1, <2>1, <2>2 DEF Counted, NothingLeaks
<1>4. CASE ShiftMove
  <2> DEFINE n == Succ(slot)
             e == WithPsl(buckets[n], buckets[n].psl - 1)
             b == [buckets EXCEPT ![slot] = e]
  <2>1. /\ pc = "shift" /\ buckets[n].psl > 1 /\ UNCHANGED blocks
        /\ buckets' = [buckets EXCEPT ![slot] = e, ![n] = Empty]
    BY <1>4 DEF ShiftMove, Shiftable
  <2>2. buckets[slot].psl = 0 /\ n # slot /\ n \in Slots(cap) /\ slot \in Slots(cap)
    BY <1>f, <2>1 DEF IInv, Room
  <2>3. e \in Entry
    BY <1>f, <2>1, <2>2 DEF WithPsl, Bucket, Entry, Empty
  <2>4. buckets' = [b EXCEPT ![n] = Empty] /\ b \in [Slots(cap) -> Bucket] /\ b[n] = buckets[n]
    BY <1>f, <2>1, <2>2, <2>3 DEF Bucket
  <2>5. Cardinality(Occupied(b, cap)) = Cardinality(Occ) + 1
    BY <1>f, <2>1, <2>2, <2>3, FillOne DEF Occ
  <2>6. Cardinality(Occ') = Cardinality(Occupied(b, cap)) - 1
    <3>1. b[n].psl # 0
      BY <2>1, <2>4
    <3>2. cap \in Nat
      BY <1>f, <2>1
    <3> HIDE DEF b, n
    <3>3. QED
      BY <1>0, <2>2, <2>4, <3>1, <3>2, EmptyOne DEF Occ
  <2>7. QED
    BY <1>0, <1>1, <2>1, <2>5, <2>6 DEF Counted, NothingLeaks
<1>5. CASE (\E op \in {"get", "remove"}, k \in Keys : Find(op, k)) \/ FindStep \/ ShiftDone
  BY <1>2, <1>5 DEF Find, FindStep, FindMiss, FindNext, GetHit, ShiftDone, table
<1>6. QED
  BY <1>3, <1>4, <1>5 DEF RemoveStep

LEMMA BlocksStepSet ==
  ASSUME IInv, KInv, Counted, Counted', NothingLeaks,
         SetStep \/ \E e \in Offered : SetCall(e[1], e[2])
  PROVE  NothingLeaks'
<1>0. blocks \in Int /\ cap \in Nat /\ old_cap \in Nat /\ i \in 0 .. old_cap
  BY DEF IInv, TypeOK
<1>1. ASSUME NEW e \in Offered, SetCall(e[1], e[2]) PROVE NothingLeaks'
  <2>1. UNCHANGED <<Occ, Left, CarriedCount>> /\ UNCHANGED blocks /\ pc # "abort"
    BY <1>1 DEF SetCall, Quiet, table, rehash, Occ, Left, CarriedCount, Inserting
  <2>2. Fixed' = Fixed /\ Fixed \in Int
    BY <1>1 DEF SetCall, Quiet, Fixed
  <2>3. QED
    BY <1>0, <2>1, <2>2, BlocksKept
<1>2. CASE NoGrow \/ Refused \/ AllocKey \/ ValRefused
  <2>1. UNCHANGED <<Occ, Left, CarriedCount>> /\ pc # "abort"
    BY <1>2 DEF NoGrow, Refused, AllocKey, ValRefused, Return, table, rehash, Occ, Left,
                CarriedCount, Inserting
  <2>2. blocks' - blocks = Fixed' - Fixed /\ blocks' \in Int
    BY <1>0, <1>2 DEF NoGrow, Refused, AllocKey, ValRefused, Return, Fixed, FreeKeyCopy
  <2>3. QED
    BY <2>1, <2>2, BlocksKept
(* The entry to insert is in the hands of insert_raw.  *)
<1>3. CASE AllocVal
  <2>1. UNCHANGED <<Occ, Left>> /\ CarriedCount = 0 /\ CarriedCount' = 1 /\ pc # "abort"
    BY <1>3 DEF AllocVal, table, rehash, Occ, Left, CarriedCount, Inserting
  <2>2. blocks' = blocks + 1 /\ Fixed' = Fixed - 1 /\ Fixed \in Int
    BY <1>3 DEF AllocVal, Fixed
  <2>3. QED
    BY <1>0, <2>1, <2>2 DEF Counted, NothingLeaks
<1>4. CASE Grow
  <2>1. Left = {} /\ Left' = Occ
    <3>1. Left = {}
      BY <1>4, NothingLeft DEF Grow, KInv, OldGone, Left
    <3>2. Left' = Occ
      BY <1>4 DEF Grow, Left, Occ, Occupied, Slots
    <3>3. QED
      BY <3>1, <3>2
  <2>2. Occ' = {} /\ Cardinality({}) = 0
    BY <1>0, <1>4, NoneOccupied, FS_EmptySet DEF Grow, Occ
  <2>3. /\ CarriedCount' = CarriedCount /\ CarriedCount = 0 /\ pc # "abort"
        /\ blocks' = blocks + 1 /\ Fixed' = Fixed + 1 /\ Fixed \in Int
    BY <1>4 DEF Grow, CarriedCount, Inserting, Fixed
  <2>4. QED
    BY <1>0, <2>1, <2>2, <2>3 DEF Counted, NothingLeaks
<1>5. CASE RehashSkip
  <2>1. UNCHANGED <<Occ, CarriedCount>> /\ Fixed' = Fixed /\ Fixed \in Int /\ UNCHANGED blocks
        /\ pc # "abort"
    BY <1>5 DEF RehashSkip, table, Occ, CarriedCount, Inserting, Fixed
  <2>2. Left' = Left
    BY <1>0, <1>5 DEF RehashSkip, Left, Occupied, Slots
  <2>3. QED
    BY <1>0, <2>1, <2>2, BlocksKept
<1>6. CASE RehashOne
  <2>0. IsFiniteSet(Left)
    BY PlacesCount
  <2>1. i \in Left /\ Left' = Left \ {i}
    BY <1>0, <1>6 DEF RehashOne, Left, Occupied, Slots
  <2>2. Cardinality(Left') = Cardinality(Left) - 1
    BY <2>0, <2>1, FS_RemoveElement
  <2>3. /\ UNCHANGED Occ /\ CarriedCount = 0 /\ CarriedCount' = 1 /\ pc # "abort"
        /\ Fixed' = Fixed /\ Fixed \in Int /\ UNCHANGED blocks
    BY <1>6 DEF RehashOne, table, Occ, CarriedCount, Inserting, Fixed
  <2>4. QED
    BY <1>0, <2>2, <2>3 DEF Counted, NothingLeaks
<1>7. CASE RehashDone
  <2>1. Left = {} /\ Left' = {}
    BY <1>0, <1>7, NothingLeft DEF RehashDone, Left, Occupied, Slots
  <2>2. UNCHANGED <<Occ, CarriedCount>> /\ pc # "abort"
    BY <1>7 DEF RehashDone, table, Occ, CarriedCount, Inserting
  <2>3. blocks' - blocks = Fixed' - Fixed /\ blocks' \in Int
    BY <1>0, <1>7 DEF RehashDone, Fixed
  <2>4. QED
    BY <2>1, <2>2, <2>3, BlocksKept
<1>8. QED
  BY <1>1, <1>2, <1>3, <1>4, <1>5, <1>6, <1>7 DEF SetStep

LEMMA BlocksStepInsert ==
  ASSUME IInv, KInv, Counted, Counted', NothingLeaks, InsertStep
  PROVE  NothingLeaks'
<1>0. Inserting /\ pc # "abort" /\ CarriedCount = 1 /\ blocks \in Int
  BY DEF InsertStep, InsertEmpty, InsertReplace, InsertSwap, InsertAdvance, Inserting,
         CarriedCount, IInv, TypeOK
<1>f. cap \in Nat /\ buckets \in [Slots(cap) -> Bucket] /\ slot \in Slots(cap) /\ incoming \in Entry
  BY <1>0, InsertFacts
<1>1. ASSUME InsertReturn, UNCHANGED <<rehash, it>>
      PROVE  CarriedCount' = 0 /\ Fixed' = Fixed /\ Fixed \in Int /\ UNCHANGED Left
  <2>1. \/ pc = "insert" /\ pc' = "idle"
        \/ pc = "reinsert" /\ pc' = "rehash"
    BY <1>0, <1>1 DEF Inserting, InsertReturn, Return
  <2>2. QED
    BY <1>1, <2>1 DEF CarriedCount, Inserting, Fixed, Left, rehash
<1>2. CASE InsertEmpty
  <2>1. /\ InsertReturn /\ UNCHANGED <<rehash, it>> /\ UNCHANGED <<cap, blocks>>
        /\ buckets' = [buckets EXCEPT ![slot] = incoming] /\ buckets[slot].psl = 0
    BY <1>2 DEF InsertEmpty
  <2>2. Cardinality(Occ') = Cardinality(Occ) + 1
    BY <1>f, <2>1, FillOne DEF Occ
  <2>3. QED
    BY <1>0, <1>1, <2>1, <2>2 DEF Counted, NothingLeaks
<1>3. CASE InsertReplace
  <2>1. /\ InsertReturn /\ UNCHANGED <<rehash, it>> /\ UNCHANGED cap /\ blocks' = blocks - 2
        /\ buckets' = [buckets EXCEPT ![slot] = WithValue(buckets[slot], incoming.value)]
    BY <1>3 DEF InsertReplace
  <2>2. Occ' = Occ
    BY <1>f, <2>1 DEF Occ, Occupied, WithValue
  <2>3. QED
    BY <1>0, <1>1, <2>1, <2>2 DEF Counted, NothingLeaks
<1>4. CASE InsertSwap \/ InsertAdvance
  <2>1. /\ pc' = pc \/ pc' = "abort"
        /\ UNCHANGED <<rehash, it, blocks, cap>>
        /\ buckets' = buckets \/ buckets' = [buckets EXCEPT ![slot] = incoming]
        /\ buckets[slot].psl # 0
    BY <1>4 DEF InsertSwap, InsertAdvance, Carry, table
  <2>2. Occ' = Occ
    BY <1>f, <2>1, SwapOne DEF Occ
  <2>3. CASE pc' = pc
    <3>1. UNCHANGED <<Left, CarriedCount>> /\ Fixed' = Fixed /\ Fixed \in Int
      BY <2>1, <2>3 DEF Left, rehash, CarriedCount, Inserting, Fixed
    <3>2. QED
      BY <1>0, <2>1, <2>2, <3>1, BlocksKept
  <2>4. QED
    BY <2>1, <2>3 DEF NothingLeaks
<1>5. QED
  BY <1>2, <1>3, <1>4 DEF InsertStep

LEMMA NextBlocks ==
  IInv /\ KInv /\ Counted /\ Counted' /\ NothingLeaks /\ [Next]_vars => NothingLeaks'
<1> SUFFICES ASSUME IInv, KInv, Counted, Counted', NothingLeaks, [Next]_vars PROVE NothingLeaks'
  OBVIOUS
<1>0. blocks \in Int
  BY DEF IInv, TypeOK
<1>1. CASE UNCHANGED vars
  BY <1>1 DEF vars, table, rehash, NothingLeaks, Owned, Places, Inserting
<1>2. CASE (\E fwd \in BOOLEAN : IterOpen(fwd)) \/ IterNext \/ IterDrop
  <2>1. /\ UNCHANGED <<Occ, Left, CarriedCount>> /\ pc # "abort"
        /\ blocks' - blocks = Fixed' - Fixed /\ blocks' \in Int
    BY <1>0, <1>2 DEF IterOpen, Quiet, IterNext, IterDrop, NoIter, table, rehash, Occ, Left,
                      CarriedCount, Inserting, Fixed
  <2>2. QED
    BY <2>1, BlocksKept
<1>3. QED
  BY <1>1, <1>2, BlocksStepLife, BlocksStepFind, BlocksStepSet, BlocksStepInsert
     DEF Next, Step

LEMMA InitBlocks == IInv /\ Init => NothingLeaks
<1> SUFFICES ASSUME IInv, Init PROVE NothingLeaks
  OBVIOUS
<1>1. Occ = {} /\ Left = {}
  BY DEF Init, Occ, Left, Occupied, Slots
<1>2. QED
  BY <1>1, OwnedCounted, FS_EmptySet DEF Init, Counted, NothingLeaks, Fixed, CarriedCount, Inserting, NoIter

(* Whatever the caller does and whichever allocation is refused, the       *)
(* blocks in use are those the map can still reach.                        *)
THEOREM BlocksCorrect == Spec => []NothingLeaks
<1>1. Init => NothingLeaks
  BY InitIInv, InitBlocks
<1>2. QED
  BY <1>1, KeysInductive, OwnedCounted, NextBlocks, PTL DEF Spec

-----------------------------------------------------------------------------
(* What an iterator has yielded is what it has gone past; only lookups run *)
(* beside it.                                                              *)

PairsOf(S) == {<<buckets[s].key, buckets[s].value>> : s \in S}
IterOK ==
  it.on => /\ pc = "idle" \/ (pc = "find" /\ arg.op = "get")
           /\ it.yields = Cardinality(Occ \ Ahead)
           /\ it.seen = PairsOf(Occ \ Ahead)

LEMMA InitIter == Init => IterOK
BY DEF Init, NoIter, IterOK

LEMMA IterTaken ==
  ASSUME IInv, IterOK, IterNext
  PROVE  IterOK'
<1>1. PICK s \in Ahead : /\ First(s)
                         /\ it' = [on |-> TRUE, fwd |-> it.fwd, slot |-> Past(s),
                                   seen |-> it.seen \cup {<<buckets[s].key, buckets[s].value>>},
                                   yields |-> it.yields + 1]
  BY DEF IterNext
<1>2. /\ pc = "idle" /\ pc' = "idle" /\ it.on /\ UNCHANGED <<buckets, cap>>
      /\ cap \in Nat /\ it.slot \in Nat /\ it.fwd \in BOOLEAN
  BY DEF IterNext, table, IInv, TypeOK
<1>3. Ahead \subseteq Occ /\ Occ \subseteq Slots(cap) /\ Slots(cap) \subseteq Int /\ UNCHANGED Occ
  BY <1>2 DEF Ahead, Occ, Occupied, Slots
<1>4. Ahead' = Ahead \ {s}
  <2>1. CASE it.fwd
    <3>1. it'.fwd /\ it'.slot = s + 1
      BY <1>1, <2>1 DEF Past
    <3>2. Ahead' = {t \in Occ : t >= s + 1} /\ Ahead = {t \in Occ : t >= it.slot}
      BY <1>3, <2>1, <3>1 DEF Ahead, Occ
    <3>3. \A t \in Ahead : s <= t
      BY <1>1, <2>1 DEF First
    <3>4. QED
      BY <1>2, <1>3, <3>2, <3>3
  <2>2. CASE ~it.fwd
    <3>1. ~it'.fwd /\ it'.slot = s
      BY <1>1, <2>2 DEF Past
    <3>2. Ahead' = {t \in Occ : t < s} /\ Ahead = {t \in Occ : t < it.slot}
      BY <1>3, <2>2, <3>1 DEF Ahead, Occ
    <3>3. \A t \in Ahead : t <= s
      BY <1>1, <2>2 DEF First
    <3>4. QED
      BY <1>2, <1>3, <3>2, <3>3
  <2>3. QED
    BY <2>1, <2>2
<1>5. (Occ \ Ahead)' = (Occ \ Ahead) \cup {s} /\ s \notin Occ \ Ahead
  BY <1>3, <1>4
<1>6. IsFiniteSet(Occ \ Ahead)
  BY <1>2, OccupiedFinite, FS_Subset DEF Occ
<1>7. Cardinality((Occ \ Ahead)') = Cardinality(Occ \ Ahead) + 1
  BY <1>5, <1>6, FS_AddElement
<1>8. PairsOf(Occ \ Ahead)' = PairsOf(Occ \ Ahead) \cup {<<buckets[s].key, buckets[s].value>>}
  BY <1>2, <1>5 DEF PairsOf
<1>9. QED
  BY <1>1, <1>2, <1>7, <1>8 DEF IterOK

LEMMA NextIter == IInv /\ IterOK /\ [Next]_vars => IterOK'
<1> SUFFICES ASSUME IInv, IterOK, [Next]_vars PROVE IterOK'
  OBVIOUS
<1>1. ASSUME UNCHANGED <<buckets, cap, it>>,
             pc' = "idle" \/ (pc' = "find" /\ arg'.op = "get")
      PROVE  IterOK'
  BY <1>1 DEF IterOK, PairsOf, Ahead, Occ
<1>2. ASSUME NEW op \in {"get", "remove"}, NEW k \in Keys, Find(op, k) PROVE IterOK'
  <2>1. UNCHANGED <<buckets, cap, it>> /\ pc' = "find" /\ arg'.op = op /\ (op = "remove" => ~it.on)
    BY <1>2 DEF Find, KeyArg, table
  <2>2. CASE op = "get"
    BY <1>1, <2>1, <2>2
  <2>3. CASE op = "remove"
    BY <2>1, <2>3 DEF IterOK
  <2>4. QED
    BY <2>2, <2>3
<1>3. CASE FindMiss \/ GetHit
  BY <1>1, <1>3 DEF FindMiss, GetHit, Return, table
<1>4. CASE FindNext
  <2>1. UNCHANGED <<buckets, cap, it, pc, arg>>
    BY <1>4 DEF FindNext, table
  <2>2. QED
    BY <2>1 DEF IterOK, PairsOf, Ahead, Occ
<1>5. CASE UNCHANGED vars
  BY <1>5 DEF vars, table, IterOK, PairsOf, Ahead, Occ
<1>6. ASSUME NEW fwd \in BOOLEAN, IterOpen(fwd) PROVE IterOK'
  <2>1. /\ it' = [on |-> TRUE, fwd |-> fwd, slot |-> IF fwd THEN 0 ELSE cap, seen |-> {}, yields |-> 0]
        /\ pc' = "idle" /\ UNCHANGED <<buckets, cap>> /\ cap \in Nat
    BY <1>6 DEF IterOpen, Quiet, table, IInv, TypeOK
  <2>2. (Occ \ Ahead)' = {}
    BY <2>1 DEF Occ, Ahead, Occupied, Slots
  <2>3. QED
    BY <2>1, <2>2, FS_EmptySet DEF IterOK, PairsOf
<1>7. CASE IterDrop
  BY <1>7 DEF IterDrop, NoIter, IterOK
(* Nothing else can happen while an iterator is open.  *)
<1>8. CASE Create \/ Clear \/ Destroy \/ RemoveStep \/ SetStep \/ InsertStep
              \/ \E e \in Offered : SetCall(e[1], e[2])
  <2>1. it' = it
    BY <1>8 DEF Create, Clear, Destroy, RemoveStep, RemoveHit, ShiftMove, ShiftDone, SetStep, NoGrow,
         Refused, Grow, RehashSkip, RehashOne, RehashDone, AllocKey, ValRefused, AllocVal, InsertStep,
         InsertEmpty, InsertReplace, InsertSwap, InsertAdvance, SetCall
  <2>2. \/ ~it.on
        \/ pc \notin {"idle", "find"}
        \/ pc = "find" /\ arg.op = "remove"
    BY <1>8 DEF Create, Clear, Destroy, Quiet, RemoveStep, RemoveHit, Found, ShiftMove, ShiftDone, SetStep,
         NoGrow, Refused, Grow, RehashSkip, RehashOne, RehashDone, AllocKey, ValRefused, AllocVal, InsertStep,
         InsertEmpty, InsertReplace, InsertSwap, InsertAdvance, Inserting, SetCall
  <2>3. ~it.on
    BY <2>2 DEF IterOK
  <2>4. QED
    BY <2>1, <2>3 DEF IterOK
<1>9. QED
  BY <1>2, <1>3, <1>4, <1>5, <1>6, <1>7, <1>8, IterTaken DEF Next, Step, FindStep

LEMMA TakenIsAll == IInv /\ IterOK => IterYieldsAll
<1> SUFFICES ASSUME IInv, IterOK, it.on, Ahead = {}
             PROVE  /\ it.yields = len
                    /\ it.seen = {<<buckets[s].key, buckets[s].value>> : s \in Occupied(buckets, cap)}
  BY DEF IterYieldsAll
<1>1. Occ \ Ahead = Occ
  OBVIOUS
<1>2. it.yields = Cardinality(Occ) /\ it.seen = PairsOf(Occ)
  BY <1>1 DEF IterOK
<1>3. QED
  BY <1>2 DEF IInv, LenAndLoad, PairsOf, Occ

(* An iterator that has come to its end, in either direction and with      *)
(* lookups in between, has yielded every entry exactly once.               *)
THEOREM IterCorrect == Spec => []IterYieldsAll
<1>1. Init => IInv /\ IterOK
  BY InitIInv, InitIter
<1>2. IInv /\ IterOK /\ [Next]_vars => (IInv /\ IterOK)'
  BY NextIInv, NextIter
<1>3. QED
  BY <1>1, <1>2, TakenIsAll, PTL DEF Spec

-----------------------------------------------------------------------------
(* The psl, for every hash function: how far past HASH_PSL_THRESHOLD an    *)
(* entry can sit, and that the uint8_t never wraps.                        *)

(* A non-empty set of positive numbers has a smallest.                     *)
LEMMA Smallest ==
  ASSUME NEW S \in SUBSET (Nat \ {0}), S # {}
  PROVE  \E n \in S : \A m \in S : n <= m
<1> PICK x \in S : TRUE
  OBVIOUS
<1> DEFINE T == {m \in 1 .. x : \A y \in S : m <= y}
           n == Cardinality(T)
<1>1. IsFiniteSet(T) /\ n \in Nat
  <2>1. IsFiniteSet(1 .. x)
    BY FS_Interval
  <2>2. T \subseteq 1 .. x
    OBVIOUS
  <2>3. QED
    BY <2>1, <2>2, FS_Subset, FS_CardinalityType
<1>2. ASSUME NEW m \in T PROVE m <= n
  <2>1. 1 .. m \subseteq T
    OBVIOUS
  <2>2. Cardinality(1 .. m) = m
    BY FS_Interval
  <2>3. QED
    BY <1>1, <2>1, <2>2, FS_Subset
<1>3. n \in T
  <2>1. T \subseteq 1 .. n
    BY <1>1, <1>2
  <2>2. IsFiniteSet(1 .. n) /\ Cardinality(1 .. n) = n
    BY <1>1, FS_Interval
  <2>3. T = 1 .. n
    <3> HIDE DEF T
    <3>1. QED
      BY <2>1, <2>2, FS_Subset
  <2>4. 1 \in T
    OBVIOUS
  <2>5. QED
    BY <1>1, <2>3, <2>4
<1>4. n + 1 \notin T
  <2>1. ASSUME n + 1 \in T PROVE FALSE
    BY <1>1, <1>2, <2>1
  <2>2. QED
    BY <2>1
<1>5. \E y \in S : y = n
  <2>1. n <= x /\ \A y \in S : n <= y
    BY <1>3
  <2>2. CASE n = x
    BY <2>2
  <2>3. CASE n # x
    <3>1. n + 1 \in 1 .. x
      BY <1>1, <2>1, <2>3
    <3>2. PICK y \in S : ~(n + 1 <= y)
      BY <1>4, <3>1
    <3>3. n \in Nat /\ y \in Nat /\ n <= y /\ ~(n + 1 <= y)
      <4>1. n <= y
        BY <2>1
      <4>2. QED
        BY <1>1, <3>2, <4>1
    <3>4. y = n
      BY ONLY <3>3
    <3>5. QED
      BY <3>4
  <2>4. QED
    BY <2>2, <2>3
<1>6. QED
  BY <1>3, <1>5

(* The old home of a key is its new one, taken modulo the old capacity.    *)
LEMMA ModUnique ==
  ASSUME NEW c \in Nat \ {0}, NEW a \in Nat, NEW q \in Int, NEW r \in 0 .. c - 1, a = q * c + r
  PROVE  a % c = r
BY SMT

LEMMA HomeHalved ==
  ASSUME NEW c \in Nat \ {0}, NEW k \in Keys
  PROVE  HomeOf(k, c) = IF HomeOf(k, 2 * c) < c THEN HomeOf(k, 2 * c) ELSE HomeOf(k, 2 * c) - c
<1> DEFINE h == Hash[k]  q == h \div (2 * c)  r == h % (2 * c)
<1>1. h \in Nat
  BY HashMapAssumption
<1>2. h = q * (2 * c) + r /\ q \in Int /\ r \in 0 .. 2 * c - 1
  BY <1>1, SMT
<1>3. h % c = IF r < c THEN r ELSE r - c
  <2> HIDE DEF h, q, r
  <2>1. CASE r < c
    <3>1. h = (2 * q) * c + r /\ r \in 0 .. c - 1 /\ 2 * q \in Int
      BY <1>2, <2>1
    <3>2. h % c = r
      BY <1>1, <3>1, ModUnique
    <3>3. QED
      BY <2>1, <3>2
  <2>2. CASE ~(r < c)
    <3>1. h = (2 * q + 1) * c + (r - c) /\ r - c \in 0 .. c - 1 /\ 2 * q + 1 \in Int
      BY <1>2, <2>2
    <3>2. h % c = r - c
      BY <1>1, <3>1, ModUnique
    <3>3. QED
      BY <2>2, <3>2
  <2>3. QED
    BY <2>1, <2>2
<1>4. HomeOf(k, c) = h % c /\ HomeOf(k, 2 * c) = r
  BY DEF HomeOf
<1>5. QED
  BY <1>3, <1>4

-----------------------------------------------------------------------------
(* Going back from a slot.                                                 *)
LEMMA BackFacts ==
  ASSUME NEW c \in Nat \ {0}, NEW s \in Slots(c)
  PROVE  /\ Back(s, 0, c) = s
         /\ \A d \in 0 .. c : Back(s, d, c) \in Slots(c)
         /\ \A d \in 0 .. c : \A e \in 0 .. c - d : Back(Back(s, d, c), e, c) = Back(s, d + e, c)
         /\ \A d, e \in 0 .. c - 1 : Back(s, d, c) = Back(s, e, c) => d = e
         /\ \A z \in Slots(c) : \E d \in 1 .. c : Back(s, d, c) = z
<1>1. /\ Back(s, 0, c) = s
      /\ \A d \in 0 .. c : Back(s, d, c) \in Slots(c)
      /\ \A d, e \in 0 .. c - 1 : Back(s, d, c) = Back(s, e, c) => d = e
  BY DEF Back, Slots
<1>2. ASSUME NEW d \in 0 .. c, NEW e \in 0 .. c - d
      PROVE  Back(Back(s, d, c), e, c) = Back(s, d + e, c)
  BY DEF Back, Slots
<1>3. ASSUME NEW z \in Slots(c) PROVE \E d \in 1 .. c : Back(s, d, c) = z
  <2>1. CASE z < s
    <3>1. s - z \in 1 .. c /\ Back(s, s - z, c) = z
      BY <2>1 DEF Back, Slots
    <3>2. QED
      BY <3>1
  <2>2. CASE ~(z < s)
    <3>1. s + c - z \in 1 .. c /\ Back(s, s + c - z, c) = z
      BY <2>2 DEF Back, Slots
    <3>2. QED
      BY <3>1
  <2>3. QED
    BY <2>1, <2>2
<1>4. QED
  BY <1>1, <1>2, <1>3

LEMMA HomeIsBack ==
  ASSUME NEW c \in Nat \ {0}, NEW s \in Slots(c), NEW e \in Entry, Aligned(e, s, c)
  PROVE  e.psl \in 1 .. c /\ HomeOf(e.key, c) = Back(s, e.psl - 1, c)
<1>1. e.psl \in 1 .. c
  BY PslBounded
<1>2. HomeOf(e.key, c) \in Slots(c)
  BY HomeInRange DEF Entry
<1>3. QED
  BY <1>1, <1>2 DEF Aligned, Dist, Back, Slots

(* The nearest empty bucket behind a slot.                                 *)
LEMMA NearestEmpty ==
  ASSUME NEW c \in Nat \ {0}, NEW b, NEW s \in Slots(c), NEW z \in Slots(c), b[z].psl = 0
  PROVE  \E n \in 1 .. c : /\ b[Back(s, n, c)].psl = 0
                           /\ \A d \in 1 .. n - 1 : b[Back(s, d, c)].psl # 0
<1> DEFINE S == {d \in 1 .. c : b[Back(s, d, c)].psl = 0}
<1>1. S \in SUBSET (Nat \ {0}) /\ S # {}
  <2>1. PICK d \in 1 .. c : Back(s, d, c) = z
    BY BackFacts
  <2>2. d \in S
    BY <2>1
  <2>3. QED
    BY <2>2
<1>2. PICK n \in S : \A m \in S : n <= m
  <2> HIDE DEF S
  <2>1. QED
    BY <1>1, Smallest
<1>3. ASSUME NEW d \in 1 .. n - 1 PROVE b[Back(s, d, c)].psl # 0
  BY <1>2
<1>4. QED
  BY <1>2, <1>3

(* An entry whose home is h, and where a probe for it passes slot s after  *)
(* the bucket n behind s, the nearest empty one, has its home after that.  *)
LEMMA HomeInRun ==
  ASSUME NEW c \in Nat \ {0}, NEW b, NEW s \in Slots(c), NEW n \in 1 .. c,
         b[Back(s, n, c)].psl = 0,
         NEW x \in 0 .. n - 1, NEW p \in 1 .. c, Run(b, c, NoHole, p, Back(s, x, c))
  PROVE  x + p - 1 \in 0 .. n - 1
<1>1. SUFFICES ASSUME n <= x + p - 1 PROVE FALSE
  OBVIOUS
<1> DEFINE d == n - x
<1>2. d \in 1 .. p - 1 /\ x \in 0 .. c /\ d \in 0 .. c - x /\ x + d = n
  BY <1>1
<1>3. Back(Back(s, x, c), d, c) = Back(s, n, c) /\ Back(s, n, c) \in Slots(c)
  <2> HIDE DEF d
  <2>1. Back(Back(s, x, c), d, c) = Back(s, x + d, c)
    BY <1>2, BackFacts
  <2>2. Back(s, n, c) \in Slots(c)
    <3>1. n \in 0 .. c
      OBVIOUS
    <3>2. QED
      BY <3>1, BackFacts
  <2>3. QED
    BY <1>2, <2>1, <2>2
<1>4. b[Back(s, n, c)].psl >= p - d
  <2>1. Back(s, n, c) # NoHole
    BY <1>3 DEF NoHole, Slots
  <2> HIDE DEF d
  <2>2. QED
    BY <1>2, <1>3, <2>1 DEF Run
<1>5. QED
  BY <1>2, <1>4

(* A rehash into twice as many buckets never raises the largest psl.  The  *)
(* n entries from the nearest empty bucket to where a probe passes slot s  *)
(* have their homes in the same run, at least p - 1 buckets behind s; so   *)
(* in the old array, where none was further from home than m allows, they  *)
(* sat in at most n + m - p buckets.                                       *)
LEMMA RehashBound ==
  ASSUME NEW C \in Nat \ {0}, NEW c \in Nat \ {0}, c = 2 * C,
         NEW b \in [Slots(c) -> Bucket], NEW o \in [Slots(C) -> Bucket],
         NEW s \in Slots(c), NEW e \in Entry, NEW m \in Nat,
         Ordered(b, c, NoHole), Aligned(e, s, c), Run(b, c, NoHole, e.psl, s),
         DistinctIn(b, Occupied(b, c)), Absent(e.key, b, Occupied(b, c)),
         \E z \in Slots(c) : b[z].psl = 0,
         \A t \in Occupied(o, C) : Aligned(o[t], t, C) /\ o[t].psl <= m,
         \A u \in Occupied(b, c) : \E t \in Occupied(o, C) : o[t].key = b[u].key,
         \E t \in Occupied(o, C) : o[t].key = e.key
  PROVE  e.psl <= m
<1>1. PICK n \in 1 .. c : /\ b[Back(s, n, c)].psl = 0
                          /\ \A d \in 1 .. n - 1 : b[Back(s, d, c)].psl # 0
  BY NearestEmpty
<1> DEFINE Item(x) == IF x = 0 THEN e ELSE b[Back(s, x, c)]
           Offset(x) == x + Item(x).psl - 1
           p == e.psl
<1>2. e.psl \in 1 .. c
  BY PslBounded
<1>3. ASSUME NEW x \in 0 .. n - 1
      PROVE  /\ Item(x) \in Entry /\ Item(x).psl \in 1 .. c
             /\ Back(s, x, c) \in Slots(c) /\ (x # 0 => Back(s, x, c) \in Occupied(b, c))
             /\ Aligned(Item(x), Back(s, x, c), c) /\ Run(b, c, NoHole, Item(x).psl, Back(s, x, c))
  <2>0. x \in 0 .. c
    OBVIOUS
  <2>1. x \in 0 .. c /\ Back(s, x, c) \in Slots(c) /\ Back(s, 0, c) = s
    BY <2>0, BackFacts
  <2>2. CASE x = 0
    BY <1>2, <2>1, <2>2
  <2>3. CASE x # 0
    <3>1. Back(s, x, c) \in Occupied(b, c) /\ Item(x) = b[Back(s, x, c)]
      BY <1>1, <2>1, <2>3 DEF Occupied
    <3>2. Item(x) \in Entry
      BY <2>1, <3>1 DEF Occupied, Bucket, Empty
    <3>3. Aligned(Item(x), Back(s, x, c), c) /\ Run(b, c, NoHole, Item(x).psl, Back(s, x, c))
      BY <3>1 DEF Ordered
    <3>4. Item(x).psl \in 1 .. c
      <4> HIDE DEF Item
      <4>1. QED
        BY <2>1, <3>2, <3>3, PslBounded
    <3>5. QED
      BY <2>1, <3>1, <3>2, <3>3, <3>4
  <2>4. QED
    BY <2>2, <2>3
<1>4. ASSUME NEW x \in 0 .. n - 1
      PROVE  Offset(x) \in p - 1 .. n - 1 /\ HomeOf(Item(x).key, c) = Back(s, Offset(x), c)
  <2>0. x \in 0 .. c /\ Item(x) \in Entry /\ Item(x).psl \in 1 .. c
    BY <1>3
  <2>1. x \in 0 .. c /\ Back(s, 0, c) = s /\ Item(x) \in Entry /\ Item(x).psl \in 1 .. c
    BY <2>0, BackFacts
  <2>2. Offset(x) \in 0 .. n - 1
    <3> HIDE DEF Item
    <3>1. QED
      BY <1>1, <1>3, <2>1, HomeInRun
  <2>3. Offset(x) >= p - 1
    <3>1. CASE x = 0
      BY <1>2, <3>1
    <3>2. CASE x # 0 /\ x >= p
      <4> HIDE DEF Item
      <4>1. QED
        BY <1>2, <2>1, <3>2
    <3>3. CASE x # 0 /\ ~(x >= p)
      <4>1. x \in 1 .. p - 1 /\ Back(s, x, c) # NoHole /\ Item(x) = b[Back(s, x, c)]
        BY <1>2, <1>3, <3>3 DEF NoHole, Slots
      <4>2. Item(x).psl >= p - x
        BY <4>1 DEF Run
      <4> HIDE DEF Item
      <4>3. QED
        BY <1>2, <2>1, <4>2
    <3>4. QED
      BY <3>1, <3>2, <3>3
  <2>4. HomeOf(Item(x).key, c) = Back(s, Offset(x), c)
    <3> HIDE DEF Item
    <3>1. HomeOf(Item(x).key, c) = Back(Back(s, x, c), Item(x).psl - 1, c)
      BY <1>3, <2>1, HomeIsBack
    <3> DEFINE d == Item(x).psl - 1
    <3>2. d \in 0 .. c - x /\ x + d = Offset(x)
      BY <2>1, <2>2
    <3> HIDE DEF Offset, d
    <3>3. Back(Back(s, x, c), d, c) = Back(s, x + d, c)
      BY <2>1, <3>2, BackFacts
    <3>4. QED
      BY <3>1, <3>2, <3>3 DEF d
  <2>5. QED
    <3> HIDE DEF Item, Offset
    <3>1. QED
      BY <1>2, <2>2, <2>3, <2>4
<1> DEFINE Old(x) == CHOOSE t \in Occupied(o, C) : o[t].key = Item(x).key
           Before(x) == Offset(x) - (o[Old(x)].psl - 1)
<1>5. ASSUME NEW x \in 0 .. n - 1
      PROVE  /\ Old(x) \in Slots(C) /\ o[Old(x)].key = Item(x).key
             /\ o[Old(x)] \in Entry /\ o[Old(x)].psl \in 1 .. C /\ o[Old(x)].psl <= m
             /\ Aligned(o[Old(x)], Old(x), C)
  <2>1. \E t \in Occupied(o, C) : o[t].key = Item(x).key
    <3>1. CASE x = 0
      BY <3>1
    <3>2. CASE x # 0
      <4>1. Back(s, x, c) \in Occupied(b, c) /\ Item(x) = b[Back(s, x, c)]
        BY <1>3, <3>2
      <4>2. QED
        BY <4>1
    <3>3. QED
      BY <3>1, <3>2
  <2> HIDE DEF Item
  <2>2. Old(x) \in Occupied(o, C) /\ o[Old(x)].key = Item(x).key
    BY <2>1
  <2> HIDE DEF Old
  <2>3. Old(x) \in Slots(C) /\ o[Old(x)] \in Entry
    BY <2>2 DEF Occupied, Bucket, Empty
  <2>4. Aligned(o[Old(x)], Old(x), C) /\ o[Old(x)].psl <= m
    BY <2>2
  <2>5. QED
    BY <2>2, <2>3, <2>4, PslBounded
<1>6. ASSUME NEW x \in 0 .. n - 1
      PROVE  /\ Before(x) \in p - m .. n - 1
             /\ \E k \in {-2, -1, 0, 1, 2} : Old(x) = s - Before(x) + k * C
  <2> DEFINE r == o[Old(x)].psl
             h == HomeOf(Item(x).key, c)
             g == HomeOf(Item(x).key, C)
             y == Offset(x)
             t == Old(x)
  <2>1. /\ r \in 1 .. C /\ r <= m /\ t \in Slots(C) /\ g = Back(t, r - 1, C)
    BY <1>5, HomeIsBack
  <2>2. y \in p - 1 .. n - 1 /\ h = Back(s, y, c)
    BY <1>4
  <2>3. g = IF h < C THEN h ELSE h - C
    BY <1>3, HomeHalved DEF Entry
  <2>4. Before(x) = y - (r - 1)
    OBVIOUS
  <2> HIDE DEF r, h, g, y, t, Before, p
  <2>5. p \in 1 .. c
    BY <1>2 DEF p
  <2>6. Before(x) \in p - m .. n - 1
    BY <2>1, <2>2, <2>4, <2>5
  <2>7. \E k \in {-2, -1, 0, 1, 2} : t = s - Before(x) + k * C
    BY <2>1, <2>2, <2>3, <2>4, <2>5 DEF Back, Slots
  <2>8. QED
    BY <2>6, <2>7 DEF t
<1>7. ASSUME NEW x \in 0 .. n - 1, NEW z \in 0 .. n - 1, Before(x) = Before(z)
      PROVE  x = z
  <2> HIDE DEF Before, Item, Offset, Old, p
  <2>1. Old(x) = Old(z)
    <3>1. Before(x) \in Int
      BY <1>2, <1>6 DEF p
    <3>2. PICK j \in {-2, -1, 0, 1, 2} : Old(x) = s - Before(x) + j * C
      BY <1>6
    <3>3. PICK k \in {-2, -1, 0, 1, 2} : Old(z) = s - Before(z) + k * C
      BY <1>6
    <3>4. Old(x) \in 0 .. C - 1 /\ Old(z) \in 0 .. C - 1 /\ s \in Int
      BY <1>5 DEF Slots
    <3>5. QED
      BY <1>7, <3>1, <3>2, <3>3, <3>4
  <2>2. Item(x).key = Item(z).key
    BY <1>5, <2>1
  <2>3. CASE x # 0 /\ z # 0
    <3>1. Back(s, x, c) = Back(s, z, c)
      BY <1>3, <2>2, <2>3 DEF DistinctIn, Item
    <3>2. x \in 0 .. c - 1 /\ z \in 0 .. c - 1
      OBVIOUS
    <3>3. QED
      BY <3>1, <3>2, BackFacts
  <2>4. CASE x # 0 /\ z = 0
    BY <1>3, <2>2, <2>4 DEF Absent, Item
  <2>5. CASE x = 0 /\ z # 0
    BY <1>3, <2>2, <2>5 DEF Absent, Item
  <2>6. QED
    BY <2>3, <2>4, <2>5
<1>8. SUFFICES ASSUME ~(p <= m) PROVE FALSE
  OBVIOUS
<1> DEFINE f == [x \in 0 .. n - 1 |-> Before(x)]
<1>9. f \in [0 .. n - 1 -> p - m .. n - 1]
  BY <1>6
<1>10. /\ IsFiniteSet(0 .. n - 1) /\ IsFiniteSet(p - m .. n - 1)
       /\ Cardinality(p - m .. n - 1) < Cardinality(0 .. n - 1)
  <2> HIDE DEF p
  <2>1. p \in 1 .. c
    BY <1>2 DEF p
  <2>2. Cardinality(0 .. n - 1) = n /\ IsFiniteSet(0 .. n - 1)
    <3>1. n \in Nat /\ n >= 1 /\ 0 \in Int /\ n - 1 \in Int
      OBVIOUS
    <3>2. IsFiniteSet(0 .. n - 1) /\ Cardinality(0 .. n - 1) = IF 0 > n - 1 THEN 0 ELSE n - 1 - 0 + 1
      BY ONLY <3>1, FS_Interval
    <3>3. QED
      BY ONLY <3>1, <3>2
  <2>3. p - m \in Int /\ n - 1 \in Int /\ p - m > 0
    BY <1>8, <2>1
  <2>4. Cardinality(p - m .. n - 1) = (IF p - m > n - 1 THEN 0 ELSE n - 1 - (p - m) + 1) /\ IsFiniteSet(p - m .. n - 1)
    BY <2>3, FS_Interval
  <2>5. QED
    BY <2>2, <2>3, <2>4
<1>11. \E x, z \in 0 .. n - 1 : x # z /\ f[x] = f[z]
  <2> DEFINE S == 0 .. n - 1  T == p - m .. n - 1
  <2>1. IsFiniteSet(S) /\ IsFiniteSet(T) /\ Cardinality(T) < Cardinality(S) /\ f \in [S -> T]
    BY <1>9, <1>10
  <2> HIDE DEF f, S, T
  <2>2. \E x, z \in S : x # z /\ f[x] = f[z]
    BY ONLY <2>1, FS_PigeonHole
  <2>3. QED
    BY <2>2 DEF S
<1>12. QED
  <2> HIDE DEF Before
  <2>1. QED
    BY <1>7, <1>11

-----------------------------------------------------------------------------
(* The bound after d - 1 doublings.                                        *)
AtMost(d) == PslThreshold + (d - 1)

(* Between the decision to grow and the insertion every psl is below it.   *)
Low == pc \in {"alloc_key", "alloc_val", "rehash", "reinsert"}
Within(b, c, m) == \A s \in Occupied(b, c) : b[s].psl <= m

(* Every bucket from slot to an empty one is as it was before the call.    *)
Untouched(m) ==
  \E z \in Slots(cap) :
    /\ buckets[z].psl = 0
    /\ \A t \in Slots(cap) : Dist(slot, t, cap) < Dist(slot, z, cap) => buckets[t].psl <= m

(* What is in the new array, or carried there, is in the old one too.      *)
Origin(k) == \E t \in Occupied(old_buckets, old_cap) : old_buckets[t].key = k

BoundedAt(d) ==
  /\ cap = Caps[d]
  /\ Within(buckets, cap, IF Low THEN AtMost(d) - 1 ELSE AtMost(d))
  /\ pc = "insert" => incoming.psl <= AtMost(d) /\ Untouched(AtMost(d) - 1)
  /\ pc \in {"rehash", "reinsert"} =>
       /\ \A t \in Occupied(old_buckets, old_cap) :
            Aligned(old_buckets[t], t, old_cap) /\ old_buckets[t].psl <= AtMost(d) - 1
       /\ \A s \in Occ : Origin(buckets[s].key)
  /\ pc = "reinsert" => incoming.psl <= AtMost(d) - 1 /\ Origin(incoming.key)

HInv == pc # "abort" /\ (pc # "none" => \E d \in DOMAIN Caps : BoundedAt(d))

LEMMA AtMostFacts ==
  ASSUME NEW d \in DOMAIN Caps
  PROVE  /\ d \in 1 .. Len(Caps) /\ d \in Nat /\ AtMost(d) \in Nat \ {0}
         /\ PslThreshold <= AtMost(d) /\ AtMost(d) < PslWidth
<1>1. Len(Caps) \in Nat /\ DOMAIN Caps = 1 .. Len(Caps)
  BY CapsAssumption
<1>2. QED
  BY <1>1, CapsAssumption, HashMapAssumption DEF AtMost

LEMMA InitHInv == Init => HInv
BY DEF Init, HInv

(* A weaker bound, and steps that leave the array alone.                   *)
LEMMA StillBounded ==
  ASSUME IInv, NEW d \in DOMAIN Caps, BoundedAt(d), UNCHANGED <<buckets, cap>>,
         Low' => Low, pc' \notin {"insert", "reinsert", "rehash", "abort"}
  PROVE  HInv'
<1>1. \A s \in Occupied(buckets, cap) : buckets[s].psl \in Int
  BY HashMapAssumption DEF IInv, TypeOK, Occupied, Bucket, Entry, Empty
<1>2. AtMost(d) \in Nat
  BY AtMostFacts
<1>3. Within(buckets, cap, IF Low' THEN AtMost(d) - 1 ELSE AtMost(d))
  BY <1>1, <1>2 DEF BoundedAt, Within
<1>4. BoundedAt(d)'
  BY <1>3 DEF BoundedAt
<1>5. QED
  BY <1>4 DEF HInv

LEMMA BoundedLife ==
  ASSUME IInv, HInv, Create \/ Clear \/ Destroy
  PROVE  HInv'
<1>1. CASE Create /\ pc' = "none"
  BY <1>1 DEF HInv
<1>2. CASE (Create /\ pc' = "idle") \/ Clear
  <2>1. PICK d \in DOMAIN Caps : cap' = Caps[d]
    <3>1. CASE Create /\ pc' = "idle"
      <4>1. 1 \in DOMAIN Caps
        BY CapsAssumption
      <4>2. cap' = InitCap
        BY <3>1 DEF Create
      <4>3. QED
        BY <4>1, <4>2, CapsAssumption
    <3>2. CASE Clear
      BY <3>2 DEF Clear, Quiet, HInv, BoundedAt
    <3>3. QED
      BY <1>2, <3>1, <3>2
  <2>2. buckets' = NoBuckets(cap') /\ cap' \in Nat /\ pc' = "idle"
    BY <1>2, HashMapAssumption DEF Create, Clear, Quiet, IInv, TypeOK
  <2>3. Occupied(buckets', cap') = {}
    BY <2>2, NoneOccupied
  <2>4. BoundedAt(d)'
    BY <2>1, <2>2, <2>3 DEF BoundedAt, Within
  <2>5. QED
    BY <2>2, <2>4 DEF HInv
<1>3. CASE Destroy
  BY <1>3 DEF Destroy, HInv
<1>4. QED
  BY <1>1, <1>2, <1>3 DEF Create

LEMMA BoundedFind ==
  ASSUME IInv, HInv,
         \/ \E op \in {"get", "remove"}, k \in Keys : Find(op, k)
         \/ FindStep \/ RemoveStep
  PROVE  HInv'
<1> USE HashMapAssumption
<1>0. pc \in {"idle", "find", "shift"} /\ pc' \in {"idle", "find", "shift"} /\ cap' = cap
  BY DEF Find, FindStep, FindMiss, FindNext, GetHit, Found, RemoveStep, RemoveHit,
         ShiftMove, ShiftDone, Return, table
<1>1. PICK d \in DOMAIN Caps : BoundedAt(d)
  BY <1>0 DEF HInv
<1>2. ~Low /\ ~Low'
  BY <1>0 DEF Low
<1>3. ASSUME UNCHANGED buckets PROVE HInv'
  BY <1>0, <1>1, <1>2, <1>3, StillBounded
<1>4. /\ cap \in Nat \ {0} /\ buckets \in [Slots(cap) -> Bucket]
      /\ Within(buckets, cap, AtMost(d)) /\ cap = Caps[d]
  BY <1>0, <1>1, <1>2, Facts DEF IInv, TypeOK, BoundedAt
<1>5. ASSUME Within(buckets', cap, AtMost(d)) PROVE HInv'
  <2>1. BoundedAt(d)'
    BY <1>0, <1>2, <1>4, <1>5 DEF BoundedAt
  <2>2. QED
    BY <1>0, <2>1 DEF HInv
<1>6. CASE RemoveHit
  BY <1>4, <1>5, <1>6 DEF RemoveHit, Within, Occupied, Empty
<1>7. CASE ShiftMove
  <2> DEFINE n == Succ(slot)
             e == WithPsl(buckets[n], buckets[n].psl - 1)
  <2>1. pc = "shift" /\ InLoop
    BY <1>7 DEF ShiftMove, InLoop
  <2>2. slot \in Slots(cap) /\ n \in Slots(cap) /\ buckets[n].psl \in Nat /\ buckets[n].psl > 1
    BY <1>4, <1>7, <2>1, Facts DEF IInv, ShiftMove, Shiftable, Bucket, Entry, Empty
  <2>3. buckets' = [buckets EXCEPT ![slot] = e, ![n] = Empty]
    BY <1>7 DEF ShiftMove
  <2>4. e.psl \in Int /\ e.psl < buckets[n].psl /\ buckets[n].psl <= AtMost(d) /\ AtMost(d) \in Nat
    BY <1>4, <2>2, AtMostFacts DEF WithPsl, Within, Occupied
  <2> HIDE DEF n, e
  <2>5. ASSUME NEW s \in Occupied(buckets', cap) PROVE buckets'[s].psl <= AtMost(d)
    <3>1. s \in Slots(cap) /\ s # n
      BY <1>4, <2>2, <2>3, <2>5 DEF Occupied, Empty
    <3>2. CASE s = slot
      BY <1>4, <2>2, <2>3, <2>4, <3>1, <3>2
    <3>3. CASE s # slot
      BY <1>4, <2>3, <2>5, <3>1, <3>3 DEF Occupied, Within
    <3>4. QED
      BY <3>2, <3>3
  <2>6. QED
    BY <1>5, <2>5 DEF Within
<1>8. CASE ShiftDone \/ FindStep \/ \E op \in {"get", "remove"}, k \in Keys : Find(op, k)
  BY <1>3, <1>8 DEF ShiftDone, FindStep, FindMiss, FindNext, GetHit, Find, table
<1>9. QED
  BY <1>6, <1>7, <1>8 DEF RemoveStep

LEMMA BoundedGrow ==
  ASSUME IInv, HInv, Grow
  PROVE  HInv'
<1> USE HashMapAssumption
<1>1. PICK d \in DOMAIN Caps : BoundedAt(d)
  BY DEF Grow, HInv
<1>2. /\ pc = "set" /\ pc' = "rehash" /\ cap * 2 <= MaxCap /\ cap' = cap * 2
      /\ buckets' = NoBuckets(cap') /\ old_buckets' = buckets /\ old_cap' = cap
  BY DEF Grow
<1>3. cap \in Nat /\ cap = Caps[d] /\ Within(buckets, cap, AtMost(d)) /\ Ordered(buckets, cap, NoHole)
  BY <1>1, <1>2 DEF IInv, TypeOK, ProbeOrder, Hole, BoundedAt, Low
<1>4. d + 1 \in DOMAIN Caps /\ Caps[d + 1] = cap' /\ AtMost(d + 1) - 1 = AtMost(d)
  <2>1. d \in 1 .. Len(Caps) /\ Len(Caps) \in Nat /\ DOMAIN Caps = 1 .. Len(Caps)
    BY AtMostFacts, CapsAssumption
  <2>2. d # Len(Caps)
    <3>1. MaxCap \in Nat /\ 2 * Caps[Len(Caps)] > MaxCap
      BY CapsAssumption
    <3>2. QED
      BY <1>2, <1>3, <3>1
  <2>3. d + 1 \in 2 .. Len(Caps) /\ (d + 1) - 1 = d
    BY <2>1, <2>2
  <2>4. Caps[d + 1] = 2 * Caps[d]
    BY <2>3, CapsAssumption
  <2>5. QED
    BY <1>2, <1>3, <2>1, <2>3, <2>4 DEF AtMost
<1>5. Occupied(buckets', cap') = {}
  BY <1>2, <1>3, NoneOccupied
<1>6. \A t \in Occupied(old_buckets', old_cap') :
        Aligned(old_buckets'[t], t, old_cap') /\ old_buckets'[t].psl <= AtMost(d + 1) - 1
  BY <1>2, <1>3, <1>4 DEF Ordered, Within
<1>7. BoundedAt(d + 1)'
  BY <1>2, <1>4, <1>5, <1>6 DEF BoundedAt, Within, Occ
<1>8. QED
  BY <1>2, <1>4, <1>7 DEF HInv

LEMMA BoundedSet ==
  ASSUME IInv, HInv, MaxPslCovers, SetStep \/ \E e \in Offered : SetCall(e[1], e[2])
  PROVE  HInv'
<1> USE HashMapAssumption
<1>0. pc \in {"idle", "set", "alloc_key", "alloc_val", "rehash"}
  BY DEF SetCall, Quiet, SetStep, NoGrow, Refused, Grow, RehashSkip, RehashOne, RehashDone,
         AllocKey, ValRefused, AllocVal
<1>1. PICK d \in DOMAIN Caps : BoundedAt(d)
  BY <1>0 DEF HInv
<1>2. AtMost(d) \in Nat \ {0} /\ PslThreshold <= AtMost(d)
  BY AtMostFacts
<1>3. /\ \A s \in Slots(cap) : buckets[s].psl \in Nat
      /\ buckets \in [Slots(cap) -> Bucket] /\ cap \in Nat \ {0} /\ max_psl \in Nat
      /\ \E z \in Slots(cap) : buckets[z].psl = 0
  <2>1. buckets \in [Slots(cap) -> Bucket] /\ max_psl \in Nat /\ cap \in Nat \ {0}
        /\ \E z \in Slots(cap) : buckets[z].psl = 0
    BY <1>0, Facts DEF IInv, TypeOK
  <2>2. QED
    BY <2>1 DEF Bucket, Entry, Empty
<1>4. CASE Refused \/ ValRefused \/ \E e \in Offered : SetCall(e[1], e[2])
  <2>1. UNCHANGED <<buckets, cap>> /\ pc' \in {"idle", "set"} /\ ~Low'
    BY <1>4 DEF Refused, ValRefused, SetCall, Quiet, Return, table, Low
  <2>2. QED
    BY <1>1, <2>1, StillBounded
<1>5. CASE NoGrow
  <2>1. UNCHANGED <<buckets, cap>> /\ pc' = "alloc_key" /\ ~(max_psl >= PslThreshold)
    BY <1>5 DEF NoGrow, NeedsGrow, table
  <2>2. Within(buckets, cap, AtMost(d) - 1)
    <3>1. ASSUME NEW s \in Occupied(buckets, cap) PROVE buckets[s].psl <= AtMost(d) - 1
      <4>1. buckets[s].psl \in Nat /\ buckets[s].psl <= max_psl
        BY <1>3 DEF MaxPslCovers, Occupied
      <4>2. QED
        BY <1>2, <1>3, <2>1, <4>1
    <3>2. QED
      BY <3>1 DEF Within
  <2>3. BoundedAt(d)'
    BY <1>1, <2>1, <2>2 DEF BoundedAt, Low
  <2>4. QED
    BY <2>1, <2>3 DEF HInv
<1>6. CASE Grow
  BY <1>6, BoundedGrow
<1>7. CASE RehashSkip \/ RehashDone \/ AllocKey
  <2>1. /\ UNCHANGED <<buckets, cap>> /\ Low /\ Low'
        /\ pc' \in {"rehash", "alloc_key", "alloc_val"}
        /\ pc' = "rehash" => pc = "rehash" /\ UNCHANGED <<old_buckets, old_cap>>
    BY <1>7 DEF RehashSkip, RehashDone, AllocKey, table, Low
  <2>2. BoundedAt(d)'
    BY <1>1, <2>1 DEF BoundedAt, Origin, Occ
  <2>3. QED
    BY <2>1, <2>2 DEF HInv
<1>8. CASE RehashOne
  <2>1. /\ UNCHANGED <<buckets, cap, old_buckets, old_cap>> /\ pc = "rehash" /\ pc' = "reinsert"
        /\ i < old_cap /\ old_buckets[i].psl # 0 /\ incoming' = WithPsl(old_buckets[i], 1)
    BY <1>8 DEF RehashOne, table
  <2>2. i \in Occupied(old_buckets, old_cap) /\ old_buckets[i].psl \in Nat \ {0}
    BY <2>1 DEF IInv, TypeOK, Occupied, Slots, Bucket, Entry, Empty
  <2>3. 1 <= AtMost(d) - 1
    <3>1. old_buckets[i].psl <= AtMost(d) - 1
      BY <1>1, <2>1, <2>2 DEF BoundedAt
    <3>2. QED
      BY <1>2, <2>2, <3>1
  <2>4. incoming'.psl = 1 /\ incoming'.key = old_buckets[i].key
    BY <2>1 DEF WithPsl
  <2>5. BoundedAt(d)'
    BY <1>1, <2>1, <2>2, <2>3, <2>4 DEF BoundedAt, Origin, Occ, Low
  <2>6. QED
    BY <2>1, <2>5 DEF HInv
<1>9. CASE AllocVal
  <2>1. /\ UNCHANGED <<buckets, cap>> /\ pc = "alloc_val" /\ pc' = "insert"
        /\ incoming'.psl = 1
    BY <1>9 DEF AllocVal, table
  <2>2. \A t \in Slots(cap) : buckets[t].psl <= AtMost(d) - 1
    BY <1>1, <1>2, <1>3, <2>1 DEF BoundedAt, Within, Occupied, Low
  <2>3. Untouched(AtMost(d) - 1)'
    BY <1>3, <2>1, <2>2 DEF Untouched
  <2>4. Within(buckets, cap, AtMost(d))
    BY <1>2, <1>3, <2>2 DEF Within, Occupied
  <2>5. incoming'.psl <= AtMost(d)
    BY <1>2, <2>1
  <2>6. BoundedAt(d)'
    BY <1>1, <2>1, <2>3, <2>4, <2>5 DEF BoundedAt, Low
  <2>7. QED
    BY <2>1, <2>6 DEF HInv
<1>10. QED
  BY <1>4, <1>5, <1>6, <1>7, <1>8, <1>9 DEF SetStep

(* Moving on to the next slot, short of the empty one.                     *)
LEMMA OneCloser ==
  ASSUME NEW c \in Nat \ {0}, NEW s \in Slots(c), NEW z \in Slots(c), z # s,
         NEW n \in Slots(c), n = IF s + 1 = c THEN 0 ELSE s + 1
  PROVE  /\ Dist(s, s, c) < Dist(s, z, c)
         /\ \A t \in Slots(c) : Dist(n, t, c) < Dist(n, z, c) =>
              t # s /\ Dist(s, t, c) < Dist(s, z, c)
BY DEF Dist, Slots

(* What insert_raw carries on with.                                        *)
LEMMA BoundedCarry ==
  ASSUME IInv, KInv, HInv, IInv', KInv', InsertSwap \/ InsertAdvance
  PROVE  HInv'
<1> USE HashMapAssumption
<1>1. /\ pc \in {"insert", "reinsert"} /\ Inserting /\ cap' = cap /\ UNCHANGED rehash
      /\ buckets[slot].psl # 0 /\ slot' = Succ(slot)
      /\ pc' = IF incoming'.psl = 0 THEN "abort" ELSE pc
      /\ \/ /\ buckets' = [buckets EXCEPT ![slot] = incoming] /\ incoming'.key = buckets[slot].key
            /\ incoming'.psl = IncPsl(buckets[slot].psl)
         \/ /\ buckets' = buckets /\ incoming'.key = incoming.key
            /\ incoming'.psl = IncPsl(incoming.psl) /\ ~(buckets[slot].psl < incoming.psl)
  BY DEF InsertSwap, InsertAdvance, Inserting, Carry, WithPsl, Richer, table
<1>2. PICK d \in DOMAIN Caps : BoundedAt(d)
  BY <1>1 DEF HInv
<1> DEFINE B == AtMost(d)  n == Succ(slot)
<1>3. B \in Nat \ {0} /\ B < PslWidth /\ PslWidth \in Nat
  BY AtMostFacts
<1>4. /\ cap \in Nat \ {0} /\ buckets \in [Slots(cap) -> Bucket] /\ slot \in Slots(cap)
      /\ n \in Slots(cap) /\ n = (IF slot + 1 = cap THEN 0 ELSE slot + 1)
      /\ incoming \in Entry /\ incoming.psl \in Nat \ {0} /\ buckets[slot] \in Entry
      /\ slot \in Occ /\ buckets[slot].psl \in Nat
  <2>1. /\ cap \in Nat \ {0} /\ buckets \in [Slots(cap) -> Bucket] /\ slot \in Slots(cap)
        /\ n \in Slots(cap) /\ n = (IF slot + 1 = cap THEN 0 ELSE slot + 1)
        /\ incoming \in Entry
    BY <1>1, InsertFacts
  <2>2. buckets[slot] \in Entry /\ slot \in Occ
    BY <1>1, <2>1 DEF Bucket, Empty, Occ, Occupied
  <2>3. incoming.psl \in Nat \ {0} /\ buckets[slot].psl \in Nat
    BY <2>1, <2>2 DEF Entry
  <2>4. QED
    BY <2>1, <2>2, <2>3
<1> HIDE DEF B, n
<1>5. buckets[slot].psl <= B - 1
  <2>1. CASE pc = "reinsert"
    BY <1>2, <1>4, <2>1 DEF BoundedAt, Within, Low, Occ, B
  <2>2. CASE pc = "insert"
    <3>1. PICK z \in Slots(cap) :
            /\ buckets[z].psl = 0
            /\ \A t \in Slots(cap) : Dist(slot, t, cap) < Dist(slot, z, cap) => buckets[t].psl <= B - 1
      BY <1>2, <2>2 DEF BoundedAt, Untouched, B
    <3>2. Dist(slot, slot, cap) < Dist(slot, z, cap)
      BY <1>1, <1>4, <3>1, OneCloser
    <3>3. QED
      BY <1>4, <3>1, <3>2
  <2>3. QED
    BY <1>1, <2>1, <2>2
<1>6. /\ incoming'.psl \in Nat \ {0} /\ incoming'.psl <= B /\ pc' = pc
  <2>1. CASE incoming'.psl = IncPsl(buckets[slot].psl)
    <3>1. buckets[slot].psl + 1 < PslWidth
      BY <1>3, <1>4, <1>5
    <3>2. IncPsl(buckets[slot].psl) = buckets[slot].psl + 1
      <4>1. buckets[slot].psl \in Slots(PslWidth)
        BY <1>4, <3>1, <1>3 DEF Slots
      <4>2. QED
        BY <1>3, <3>1, <4>1, ModWrap DEF IncPsl
    <3>3. QED
      BY <1>1, <1>3, <1>4, <1>5, <2>1, <3>2
  <2>2. CASE incoming'.psl = IncPsl(incoming.psl) /\ ~(buckets[slot].psl < incoming.psl)
    <3>1. incoming.psl <= B - 1 /\ incoming.psl + 1 < PslWidth
      BY <1>3, <1>4, <1>5, <2>2
    <3>2. IncPsl(incoming.psl) = incoming.psl + 1
      <4>1. incoming.psl \in Slots(PslWidth)
        BY <1>4, <3>1, <1>3 DEF Slots
      <4>2. QED
        BY <1>3, <3>1, <4>1, ModWrap DEF IncPsl
    <3>3. QED
      BY <1>1, <1>3, <1>4, <2>2, <3>1, <3>2
  <2>3. QED
    BY <1>1, <2>1, <2>2
<1>7. ASSUME NEW m \in Int, incoming.psl <= m, Within(buckets, cap, m) PROVE Within(buckets', cap, m)
  BY <1>1, <1>4, <1>7 DEF Within, Occupied
<1>8. CASE pc = "insert"
  <2>1. PICK z \in Slots(cap) :
          /\ buckets[z].psl = 0
          /\ \A t \in Slots(cap) : Dist(slot, t, cap) < Dist(slot, z, cap) => buckets[t].psl <= B - 1
    BY <1>2, <1>8 DEF BoundedAt, Untouched, B
  <2>2. z # slot /\ buckets'[z].psl = 0
    BY <1>1, <1>4, <2>1
  <2>3. \A t \in Slots(cap) : Dist(n, t, cap) < Dist(n, z, cap) => buckets'[t].psl <= B - 1
    <3>1. \A t \in Slots(cap) : Dist(n, t, cap) < Dist(n, z, cap) =>
             t # slot /\ Dist(slot, t, cap) < Dist(slot, z, cap)
      BY <1>4, <2>2, OneCloser
    <3>2. \A t \in Slots(cap) : t # slot => buckets'[t] = buckets[t]
      BY <1>1, <1>4
    <3>3. QED
      BY <2>1, <3>1, <3>2
  <2>4. Untouched(AtMost(d) - 1)'
    BY <1>1, <2>2, <2>3 DEF Untouched, B, n
  <2>5. Within(buckets', cap, AtMost(d))
    <3>1. incoming.psl <= AtMost(d) /\ Within(buckets, cap, AtMost(d)) /\ AtMost(d) \in Int
      BY <1>2, <1>3, <1>8 DEF BoundedAt, Low, B
    <3>2. QED
      BY <1>7, <3>1
  <2>6. BoundedAt(d)'
    BY <1>1, <1>2, <1>6, <1>8, <2>4, <2>5 DEF BoundedAt, Low, B
  <2>7. QED
    BY <1>6, <1>8, <2>6 DEF HInv
<1>9. CASE pc = "reinsert"
  <2>1. /\ cap = 2 * old_cap /\ old_cap \in Nat \ {0} /\ old_buckets \in [Slots(old_cap) -> Bucket]
        /\ UNCHANGED <<old_buckets, old_cap>>
    BY <1>1, <1>9 DEF IInv, Room, TypeOK, rehash
  <2>2. /\ Within(buckets', cap, B - 1) /\ B - 1 \in Nat
        /\ \A t \in Occupied(old_buckets, old_cap) :
             Aligned(old_buckets[t], t, old_cap) /\ old_buckets[t].psl <= B - 1
    <3>1. /\ incoming.psl <= B - 1 /\ Within(buckets, cap, B - 1)
          /\ \A t \in Occupied(old_buckets, old_cap) :
               Aligned(old_buckets[t], t, old_cap) /\ old_buckets[t].psl <= B - 1
      BY <1>2, <1>9 DEF BoundedAt, Low, B
    <3>2. QED
      BY <1>3, <1>7, <3>1
  <2>3. /\ \A s \in Occ' : Origin(buckets'[s].key)
        /\ Origin(incoming'.key)
    <3>1. (\A s \in Occ : Origin(buckets[s].key)) /\ Origin(incoming.key)
      BY <1>2, <1>9 DEF BoundedAt
    <3>2. QED
      BY <1>1, <1>4, <3>1 DEF Occ, Occupied
  <2>4. incoming'.psl <= B - 1
    <3>1. /\ buckets' \in [Slots(cap) -> Bucket] /\ slot' \in Slots(cap) /\ incoming' \in Entry
          /\ Ordered(buckets', cap, NoHole) /\ Aligned(incoming', slot', cap)
          /\ Run(buckets', cap, NoHole, incoming'.psl, slot')
      BY <1>1, <1>6, <1>9 DEF IInv, TypeOK, InLoop, ProbeOrder, Hole, Inserting
    <3>2. DistinctIn(buckets', Occupied(buckets', cap)) /\ Absent(incoming'.key, buckets', Occupied(buckets', cap))
      BY <1>1, <1>6, <1>9 DEF KInv, Apart, FreshCarried, Inserting, Occ
    <3>3. \E z \in Slots(cap) : buckets'[z].psl = 0
      <4>1. PICK z \in Slots(cap) : buckets[z].psl = 0
        BY <1>1, InsertFacts
      <4>2. buckets'[z].psl = 0
        BY <1>1, <1>4, <4>1
      <4>3. QED
        BY <4>2
    <3>4. /\ \A u \in Occupied(buckets', cap) : \E t \in Occupied(old_buckets, old_cap) :
               old_buckets[t].key = buckets'[u].key
          /\ \E t \in Occupied(old_buckets, old_cap) : old_buckets[t].key = incoming'.key
      BY <1>1, <2>3 DEF Origin, Occ
    <3>5. QED
      BY <1>4, <2>1, <2>2, <3>1, <3>2, <3>3, <3>4, RehashBound
  <2>5. BoundedAt(d)'
    <3>1. \A k : Origin(k)' <=> Origin(k)
      BY <2>1 DEF Origin
    <3>2. QED
      BY <1>1, <1>2, <1>6, <1>9, <2>1, <2>2, <2>3, <2>4, <3>1 DEF BoundedAt, Low, B
  <2>6. QED
    BY <1>6, <1>9, <2>5 DEF HInv
<1>10. QED
  BY <1>1, <1>8, <1>9

(* Where insert_raw ends.                                                  *)
LEMMA BoundedEnd ==
  ASSUME IInv, KInv, HInv, InsertEmpty \/ InsertReplace
  PROVE  HInv'
<1> USE HashMapAssumption
<1>1. /\ pc \in {"insert", "reinsert"} /\ Inserting /\ cap' = cap /\ UNCHANGED rehash
      /\ pc' = IF pc = "reinsert" THEN "rehash" ELSE "idle"
      /\ \/ InsertEmpty /\ buckets' = [buckets EXCEPT ![slot] = incoming]
         \/ InsertReplace /\ buckets' = [buckets EXCEPT ![slot] = WithValue(buckets[slot], incoming.value)]
  BY DEF InsertEmpty, InsertReplace, Inserting, InsertReturn, Return
<1>2. PICK d \in DOMAIN Caps : BoundedAt(d)
  BY <1>1 DEF HInv
<1>3. cap \in Nat \ {0} /\ buckets \in [Slots(cap) -> Bucket] /\ slot \in Slots(cap) /\ AtMost(d) \in Nat
  BY <1>1, InsertFacts, AtMostFacts
<1>4. \A s \in Occupied(buckets', cap) :
        \/ s \in Occ /\ buckets'[s].psl = buckets[s].psl /\ buckets'[s].key = buckets[s].key
        \/ buckets'[s] = incoming
  BY <1>1, <1>3 DEF Occ, Occupied, WithValue
<1>5. \A s \in Occupied(buckets', cap) : buckets'[s].psl <= IF pc = "reinsert" THEN AtMost(d) - 1 ELSE AtMost(d)
  BY <1>1, <1>2, <1>4 DEF BoundedAt, Within, Low, Occ
<1>6. CASE pc = "insert"
  <2>1. BoundedAt(d)'
    BY <1>1, <1>2, <1>5, <1>6 DEF BoundedAt, Within, Low
  <2>2. QED
    BY <1>1, <1>6, <2>1 DEF HInv
<1>7. CASE pc = "reinsert"
  <2>1. \A k : Origin(k)' <=> Origin(k)
    BY <1>1 DEF Origin, rehash
  <2>2. \A s \in Occ' : Origin(buckets'[s].key)
    BY <1>1, <1>2, <1>4, <1>7 DEF BoundedAt, Occ
  <2>3. \A t \in Occupied(old_buckets', old_cap') :
          Aligned(old_buckets'[t], t, old_cap') /\ old_buckets'[t].psl <= AtMost(d) - 1
    BY <1>1, <1>2, <1>7 DEF BoundedAt, rehash
  <2>4. BoundedAt(d)'
    BY <1>1, <1>2, <1>5, <1>7, <2>1, <2>2, <2>3 DEF BoundedAt, Within, Low
  <2>5. QED
    BY <1>1, <1>7, <2>4 DEF HInv
<1>8. QED
  BY <1>1, <1>6, <1>7

PInv == IInv /\ KInv /\ MaxPslCovers /\ HInv

LEMMA NextPInv == PInv /\ [Next]_vars => PInv'
<1> SUFFICES ASSUME PInv, [Next]_vars PROVE PInv'
  OBVIOUS
<1>1. IInv /\ KInv /\ MaxPslCovers /\ HInv
  BY DEF PInv
<1>2. IInv' /\ KInv' /\ MaxPslCovers'
  BY <1>1, NextIInv, NextKInv, NextMaxPsl
<1>3. HInv'
  <2>1. CASE UNCHANGED vars
    BY <1>1, <2>1 DEF vars, table, rehash, HInv, BoundedAt, Low, Untouched, Origin, Occ
  <2>2. CASE Create \/ Clear \/ Destroy
    BY <1>1, <2>2, BoundedLife
  <2>3. CASE \/ \E op \in {"get", "remove"}, k \in Keys : Find(op, k)
             \/ FindStep \/ RemoveStep
    BY <1>1, <2>3, BoundedFind
  <2>4. CASE SetStep \/ \E e \in Offered : SetCall(e[1], e[2])
    BY <1>1, <2>4, BoundedSet
  <2>5. CASE InsertStep
    BY <1>1, <1>2, <2>5, BoundedCarry, BoundedEnd DEF InsertStep
  <2>6. CASE (\E fwd \in BOOLEAN : IterOpen(fwd)) \/ IterNext \/ IterDrop
    <3>1. pc = "idle" /\ pc' = "idle" /\ UNCHANGED <<buckets, cap>>
      BY <2>6 DEF IterOpen, Quiet, IterNext, IterDrop, table
    <3>2. PICK d \in DOMAIN Caps : BoundedAt(d)
      BY <1>1, <3>1 DEF HInv
    <3>3. QED
      BY <1>1, <3>1, <3>2, StillBounded DEF Low
  <2>7. QED
    BY <2>1, <2>2, <2>3, <2>4, <2>5, <2>6 DEF Next, Step
<1>4. QED
  BY <1>1, <1>2, <1>3 DEF PInv

LEMMA PslInductive == Spec => []PInv
<1>1. Init => PInv
  BY InitIInv, InitKInv, InitMaxPsl, InitHInv DEF PInv
<1>2. QED
  BY <1>1, NextPInv, PTL DEF Spec

(* A psl passes HASH_PSL_THRESHOLD by at most one for each doubling of the *)
(* array, whatever the hash function does: an insertion raises the largest *)
(* psl by one at most, a rehash never.  So hashmap_insert_raw's uint8_t    *)
(* never wraps and its assert never fires.                                 *)
THEOREM HeadroomCorrect == Spec => []PslHeadroom
<1>1. PInv => PslHeadroom
  <2>1. SUFFICES ASSUME IInv, HInv PROVE PslHeadroom
    BY DEF PInv
  <2>2. CASE pc = "none"
    <3>1. cap = 0 /\ Occupied(buckets, cap) = {}
      BY <2>1, <2>2 DEF IInv, Room, Occupied, Slots
    <3>2. 1 \in DOMAIN Caps
      BY CapsAssumption
    <3>3. QED
      BY <2>2, <3>1, <3>2 DEF PslHeadroom
  <2>3. CASE pc # "none"
    <3>1. PICK d \in DOMAIN Caps : BoundedAt(d)
      BY <2>1, <2>3 DEF HInv
    <3>2. \A s \in Occupied(buckets, cap) : buckets[s].psl \in Int
      BY <2>1, HashMapAssumption DEF IInv, TypeOK, Occupied, Bucket, Entry, Empty
    <3>3. \A s \in Occupied(buckets, cap) : buckets[s].psl <= AtMost(d)
      BY <3>1, <3>2, AtMostFacts DEF BoundedAt, Within
    <3>4. QED
      BY <2>1, <2>3, <3>1, <3>3 DEF PslHeadroom, HInv, BoundedAt, AtMost
  <2>4. QED
    BY <2>2, <2>3
<1>2. QED
  BY <1>1, PslInductive, PTL

-----------------------------------------------------------------------------
(* A set of pairs that gives each key one value, and the map it is.        *)

OneEach(P) == \A p, q \in P : p[1] = q[1] => p = q
AsMap(P)   == [k \in {p[1] : p \in P} |-> (CHOOSE p \in P : p[1] = k)[2]]
Without(P, k) == {p \in P : p[1] # k}

LEMMA MapAt ==
  ASSUME NEW P, OneEach(P), NEW p \in P
  PROVE  p[1] \in DOMAIN AsMap(P) /\ AsMap(P)[p[1]] = p[2]
<1>1. (CHOOSE q \in P : q[1] = p[1]) \in P /\ (CHOOSE q \in P : q[1] = p[1])[1] = p[1]
  OBVIOUS
<1>2. (CHOOSE q \in P : q[1] = p[1]) = p
  BY <1>1 DEF OneEach
<1>3. QED
  BY <1>2 DEF AsMap

(* A map is that of a set of pairs when it has its keys and its values.    *)
LEMMA MapIs ==
  ASSUME NEW P, OneEach(P), NEW S, NEW f, f = [k \in S |-> f[k]],
         \A p \in P : p[1] \in S /\ f[p[1]] = p[2],
         \A k \in S : \E p \in P : p[1] = k
  PROVE  AsMap(P) = f
<1>1. S = {p[1] : p \in P}
  <2>1. \A k \in S : k \in {p[1] : p \in P}
    OBVIOUS
  <2>2. \A k \in {p[1] : p \in P} : k \in S
    OBVIOUS
  <2>3. QED
    BY <2>1, <2>2
<1>2. DOMAIN AsMap(P) = S /\ AsMap(P) = [k \in S |-> AsMap(P)[k]]
  BY <1>1 DEF AsMap
<1>3. ASSUME NEW k \in S PROVE AsMap(P)[k] = f[k]
  <2>1. PICK p \in P : p[1] = k
    OBVIOUS
  <2>2. QED
    BY <2>1, MapAt
<1> HIDE DEF AsMap
<1>4. QED
  BY <1>2, <1>3

LEMMA MapOfNone == AsMap({}) = [k \in {} |-> Nil]
BY DEF AsMap

LEMMA KeyHeld ==
  ASSUME NEW P, NEW k
  PROVE  k \in DOMAIN AsMap(P) <=> \E p \in P : p[1] = k
BY DEF AsMap

LEMMA MapPut ==
  ASSUME NEW P \in SUBSET (Keys \X Vals), OneEach(P), NEW k \in Keys, NEW v \in Vals,
         NEW Q, Q = Without(P, k) \cup {<<k, v>>}
  PROVE  /\ AsMap(Q) = [x \in (DOMAIN AsMap(P)) \cup {k} |-> AsMap(Q)[x]]
         /\ AsMap(Q)[k] = v
         /\ \A x \in DOMAIN AsMap(P) : x # k => AsMap(Q)[x] = AsMap(P)[x]
<1> DEFINE S == (DOMAIN AsMap(P)) \cup {k}
           f == [x \in S |-> IF x = k THEN v ELSE AsMap(P)[x]]
<1>1. OneEach(Q)
  BY DEF OneEach, Without
<1>2. ASSUME NEW p \in Q PROVE p[1] \in S /\ f[p[1]] = p[2]
  <2>1. CASE p = <<k, v>>
    BY <2>1
  <2>2. CASE p \in P /\ p[1] # k
    BY <2>2, MapAt
  <2>3. QED
    BY <2>1, <2>2 DEF Without
<1>3. ASSUME NEW x \in S PROVE \E p \in Q : p[1] = x
  <2>1. CASE x = k
    <3>1. <<k, v>> \in Q /\ <<k, v>>[1] = k
      OBVIOUS
    <3>2. QED
      BY <2>1, <3>1
  <2>2. CASE x # k
    BY <2>2, KeyHeld DEF Without
  <2>3. QED
    BY <2>1, <2>2
<1>4. f = [x \in S |-> f[x]]
  OBVIOUS
<1> HIDE DEF S, f
<1>5. AsMap(Q) = f
  BY <1>1, <1>2, <1>3, <1>4, MapIs
<1>6. QED
  BY <1>5 DEF f, S

LEMMA MapDrop ==
  ASSUME NEW P \in SUBSET (Keys \X Vals), OneEach(P), NEW k
  PROVE  AsMap(Without(P, k)) = [x \in (DOMAIN AsMap(P)) \ {k} |-> AsMap(P)[x]]
<1> DEFINE S == (DOMAIN AsMap(P)) \ {k}
           f == [x \in S |-> AsMap(P)[x]]
<1>1. OneEach(Without(P, k))
  BY DEF OneEach, Without
<1>2. ASSUME NEW p \in Without(P, k) PROVE p[1] \in S /\ f[p[1]] = p[2]
  BY MapAt DEF Without
<1>3. ASSUME NEW x \in S PROVE \E p \in Without(P, k) : p[1] = x
  BY KeyHeld DEF Without
<1>4. f = [x \in S |-> f[x]]
  OBVIOUS
<1> HIDE DEF S, f
<1>5. AsMap(Without(P, k)) = f
  BY <1>1, <1>2, <1>3, <1>4, MapIs
<1>6. QED
  BY <1>5 DEF f, S

-----------------------------------------------------------------------------
(* The pairs the map holds: in the array, in what is left of the old one,  *)
(* and in the hands of insert_raw unless it is the entry being set.        *)

Pairs(b, S) == {<<b[s].key, b[s].value>> : s \in S}
Carried == IF Inserting /\ ~FreshCarried THEN {<<incoming.key, incoming.value>>} ELSE {}
Held    == Pairs(buckets, Occ) \cup Pairs(old_buckets, Left) \cup Carried

LEMMA HeldTyped == IInv /\ KInv => Held \in SUBSET (Keys \X Vals) /\ OneEach(Held)
<1> SUFFICES ASSUME IInv, KInv PROVE Held \subseteq Keys \X Vals /\ OneEach(Held)
  OBVIOUS
<1>1. /\ \A s \in Occ : buckets[s] \in Entry
      /\ \A t \in Left : old_buckets[t] \in Entry
      /\ Inserting => incoming \in Entry
  BY DEF IInv, TypeOK, Occ, Left, Occupied, Bucket, Empty
<1>2. Held \subseteq Keys \X Vals
  BY <1>1 DEF Held, Pairs, Carried, Entry
<1>3. ASSUME NEW p \in Held, NEW q \in Held, p[1] = q[1] PROVE p = q
  <2>1. \A r \in Held : \/ \E s \in Occ : r = <<buckets[s].key, buckets[s].value>>
                        \/ \E t \in Left : r = <<old_buckets[t].key, old_buckets[t].value>>
                        \/ /\ Inserting /\ ~FreshCarried
                           /\ r = <<incoming.key, incoming.value>>
    BY DEF Held, Pairs, Carried
  <2>2. QED
    BY <1>3, <2>1 DEF KInv, Apart, DistinctIn, Absent
<1>4. QED
  BY <1>2, <1>3 DEF OneEach

LEMMA ContentsHeld == IInv /\ KInv => Contents = AsMap(Held)
<1> SUFFICES ASSUME IInv, KInv PROVE Contents = AsMap(Held)
  OBVIOUS
<1> DEFINE V(k) == EntryAt(CHOOSE p \in Stored : EntryAt(p).key = k).value
<1>1. \A p \in Stored : <<EntryAt(p).key, EntryAt(p).value>> \in Held
  <2>1. ASSUME NEW p \in Stored
        PROVE  \/ \E s \in Occ : EntryAt(p) = buckets[s]
               \/ \E t \in Left : EntryAt(p) = old_buckets[t]
               \/ Inserting /\ ~FreshCarried /\ EntryAt(p) = incoming
    BY <2>1 DEF Stored, Places, EntryAt, Occ, Left, FreshCarried, Inserting
  <2>2. QED
    BY <2>1 DEF Held, Pairs, Carried
<1>2. \A r \in Held : \E p \in Stored : r = <<EntryAt(p).key, EntryAt(p).value>>
  <2>1. \A s \in Occ : <<"new", s>> \in Stored /\ EntryAt(<<"new", s>>) = buckets[s]
    BY DEF Stored, Places, EntryAt, Occ
  <2>2. \A t \in Left : <<"old", t>> \in Stored /\ EntryAt(<<"old", t>>) = old_buckets[t]
    BY DEF Stored, Places, EntryAt, Left
  <2>3. Inserting /\ ~FreshCarried
          => <<"carried", 0>> \in Stored /\ EntryAt(<<"carried", 0>>) = incoming
    BY DEF Stored, Places, EntryAt
  <2>4. QED
    BY <2>1, <2>2, <2>3 DEF Held, Pairs, Carried
<1>3. /\ \A r \in Held : r[1] \in StoredKeys
      /\ \A k \in StoredKeys : \E r \in Held : r[1] = k
  <2>1. \A p \in Stored : \E r \in Held : r[1] = EntryAt(p).key
    BY <1>1
  <2>2. \A r \in Held : \E p \in Stored : r[1] = EntryAt(p).key
    BY <1>2
  <2>3. QED
    BY <2>1, <2>2 DEF StoredKeys
<1>4. ASSUME NEW r \in Held PROVE V(r[1]) = r[2]
  <2> DEFINE p == CHOOSE x \in Stored : EntryAt(x).key = r[1]
  <2>1. p \in Stored /\ EntryAt(p).key = r[1]
    BY <1>2
  <2> HIDE DEF p
  <2>2. <<EntryAt(p).key, EntryAt(p).value>> = r
    BY <1>1, <2>1, HeldTyped DEF OneEach
  <2>3. EntryAt(p).value = r[2]
    BY <2>2
  <2>4. QED
    BY <2>3 DEF p
<1>5. OneEach(Held)
  BY HeldTyped
<1> DEFINE f == [k \in StoredKeys |-> V(k)]
<1>6. \A r \in Held : r[1] \in StoredKeys /\ f[r[1]] = r[2]
  BY <1>3, <1>4
<1>7. f = [k \in StoredKeys |-> f[k]]
  OBVIOUS
<1>8. Contents = f
  BY DEF Contents
<1> HIDE DEF V, f
<1>9. QED
  BY <1>3, <1>5, <1>6, <1>7, <1>8, MapIs

-----------------------------------------------------------------------------
(* What each step does to the pairs.  *)

LEMMA HeldKept ==
  ASSUME UNCHANGED <<buckets, cap, old_buckets, old_cap, i>>, Carried' = Carried
  PROVE  Held' = Held
<1>1. Occ' = Occ /\ Left' = Left
  BY DEF Occ, Left
<1>2. QED
  BY <1>1 DEF Held

(* While no rehash is under way there is nothing but the array.            *)
LEMMA OnlyArray ==
  ASSUME KInv, pc \notin {"rehash", "reinsert", "abort", "insert"}
  PROVE  Held = Pairs(buckets, Occ) /\ Left = {}
<1>1. Left = {}
  BY NothingLeft DEF KInv, OldGone, Left
<1>2. ~Inserting
  BY DEF Inserting
<1>3. QED
  BY <1>1, <1>2 DEF Held, Carried, Pairs

LEMMA HeldLife ==
  ASSUME IInv, KInv, Create \/ Clear \/ Destroy
  PROVE  IF ret' = "OOM" THEN Held' = Held ELSE Held' = {}
<1> USE HashMapAssumption
<1>1. pc \in {"none", "idle"} /\ pc' \in {"none", "idle"} /\ UNCHANGED rehash
  BY DEF Create, Clear, Destroy, Quiet
<1>2. Carried = {} /\ Carried' = {}
  BY <1>1 DEF Carried, Inserting
<1>3. CASE ret' = "OOM"
  <2>1. UNCHANGED <<buckets, cap>>
    BY <1>3 DEF Create, Clear, Destroy
  <2>2. QED
    BY <1>1, <1>2, <1>3, <2>1, HeldKept DEF rehash
<1>4. CASE ret' # "OOM"
  <2>1. buckets' = NoBuckets(cap') /\ cap' \in Nat
    BY <1>4 DEF Create, Clear, Destroy, IInv, TypeOK
  <2>2. Occ' = {}
    BY <2>1, NoneOccupied DEF Occ
  <2>3. Left' = {}
    BY <1>1, NothingLeft DEF KInv, OldGone, Left, rehash
  <2>4. QED
    BY <1>2, <1>4, <2>2, <2>3 DEF Held, Pairs
<1>5. QED
  BY <1>3, <1>4

LEMMA HeldRemove ==
  ASSUME IInv, KInv, ArgOK, RemoveHit
  PROVE  /\ Held' = Without(Held, arg.key)
         /\ \E p \in Held : p[1] = arg.key
<1>1. /\ pc = "find" /\ pc' = "shift" /\ UNCHANGED <<cap, old_buckets, old_cap, i>>
      /\ buckets' = [buckets EXCEPT ![slot] = Empty]
      /\ buckets[slot].psl # 0 /\ buckets[slot].key = arg.key
  BY DEF RemoveHit, Found, rehash
<1>2. Held = Pairs(buckets, Occ) /\ Left = {}
  BY <1>1, OnlyArray
<1>3. Held' = Pairs(buckets', Occ')
  <2>1. Left' = {} /\ Carried' = {}
    BY <1>1, <1>2 DEF Left, Carried, Inserting
  <2>2. QED
    BY <2>1 DEF Held, Pairs
<1>4. slot \in Occ /\ slot \in Slots(cap) /\ buckets \in [Slots(cap) -> Bucket]
  BY <1>1, FindFacts DEF Occ, Occupied
<1>5. Occ' = Occ \ {slot} /\ \A s \in Occ' : buckets'[s] = buckets[s]
  BY <1>1, <1>4 DEF Occ, Occupied, Empty
<1>6. \A s \in Occ : buckets[s].key = arg.key <=> s = slot
  BY <1>1, <1>4 DEF KInv, Apart, DistinctIn
<1>7. Pairs(buckets', Occ') = Without(Pairs(buckets, Occ), arg.key)
  <2>1. Pairs(buckets', Occ') = Pairs(buckets, Occ \ {slot})
    BY <1>5 DEF Pairs
  <2>2. QED
    BY <1>6, <2>1 DEF Pairs, Without
<1>8. <<arg.key, buckets[slot].value>> \in Held
  BY <1>1, <1>2, <1>4 DEF Pairs
<1>9. QED
  BY <1>2, <1>3, <1>7, <1>8

LEMMA HeldShift ==
  ASSUME IInv, KInv, ShiftMove
  PROVE  Held' = Held
<1> DEFINE n == Succ(slot)
           e == WithPsl(buckets[n], buckets[n].psl - 1)
<1>1. /\ pc = "shift" /\ pc' = "shift" /\ UNCHANGED <<cap, old_buckets, old_cap, i>>
      /\ buckets' = [buckets EXCEPT ![slot] = e, ![n] = Empty]
      /\ buckets[n].psl > 1
  BY DEF ShiftMove, Shiftable, rehash
<1>2. /\ cap \in Nat \ {0} /\ buckets \in [Slots(cap) -> Bucket]
      /\ slot \in Slots(cap) /\ n \in Slots(cap)
  BY <1>1, Facts, SuccIs DEF InLoop, TypeOK, IInv
<1>3. buckets[slot].psl = 0 /\ slot # n
  BY <1>1 DEF IInv, Room
<1>4. buckets[n].psl \in Nat
  BY <1>2 DEF Bucket, Entry, Empty
<1>5. e.key = buckets[n].key /\ e.value = buckets[n].value /\ e.psl # 0
  BY <1>1, <1>4 DEF WithPsl
<1> HIDE DEF n, e
<1>6. Held = Pairs(buckets, Occ) /\ Left = {}
  BY <1>1, OnlyArray
<1>7. Held' = Pairs(buckets', Occ')
  <2>1. Left' = {} /\ Carried' = {}
    BY <1>1, <1>6 DEF Left, Carried, Inserting
  <2>2. QED
    BY <2>1 DEF Held, Pairs
<1>8. n \in Occ /\ slot \notin Occ
  BY <1>1, <1>2, <1>3 DEF Occ, Occupied
<1>9. slot \in Occ' /\ Occ' = (Occ \ {n}) \cup {slot}
  BY <1>1, <1>2, <1>3, <1>5 DEF Occ, Occupied, Empty
<1>10. /\ buckets'[slot] = e
       /\ \A s \in Occ \ {n} : buckets'[s] = buckets[s]
  BY <1>1, <1>2, <1>3, <1>8 DEF Occ, Occupied
<1>11. Pairs(buckets', Occ') = Pairs(buckets, Occ)
  <2>1. \A s \in Occ' : \E t \in Occ : /\ buckets'[s].key = buckets[t].key
                                       /\ buckets'[s].value = buckets[t].value
    BY <1>5, <1>8, <1>9, <1>10
  <2>2. \A t \in Occ : \E s \in Occ' : /\ buckets'[s].key = buckets[t].key
                                       /\ buckets'[s].value = buckets[t].value
    BY <1>5, <1>8, <1>9, <1>10
  <2>3. QED
    BY <2>1, <2>2 DEF Pairs
<1>12. QED
  BY <1>6, <1>7, <1>11

LEMMA HeldSet ==
  ASSUME IInv, KInv, SetStep
  PROVE  Held' = Held
<1>1. CASE NoGrow \/ Refused \/ AllocKey \/ ValRefused \/ AllocVal
  <2>1. Carried = {} /\ Carried' = {}
    BY <1>1 DEF Carried, Inserting, FreshCarried, NoGrow, Refused, AllocKey, ValRefused,
                AllocVal, Return
  <2>2. UNCHANGED <<buckets, cap, old_buckets, old_cap, i>>
    BY <1>1 DEF NoGrow, Refused, AllocKey, ValRefused, AllocVal, table, rehash
  <2>3. QED
    BY <2>1, <2>2, HeldKept
<1>2. CASE Grow
  <2>1. Occ' = {}
    BY <1>2, NoneOccupied DEF Grow, Occ, IInv, TypeOK
  <2>2. Left' = Occ /\ old_buckets' = buckets /\ pc = "set" /\ pc' = "rehash"
    BY <1>2 DEF Grow, Left, Occ, Occupied, IInv, TypeOK, Slots
  <2>3. Held = Pairs(buckets, Occ)
    BY <2>2, OnlyArray
  <2>4. Carried' = {}
    BY <2>2 DEF Carried, Inserting
  <2>5. QED
    BY <2>1, <2>2, <2>3, <2>4 DEF Held, Pairs
<1>3. CASE RehashSkip
  <2>1. Left' = Left
    BY <1>3 DEF RehashSkip, Left, IInv, TypeOK, Occupied, Slots
  <2>2. UNCHANGED <<Occ, buckets, old_buckets>> /\ pc' = "rehash" /\ pc = "rehash"
    BY <1>3 DEF RehashSkip, Occ, table
  <2>3. QED
    BY <2>1, <2>2 DEF Held, Carried, Inserting
<1>4. CASE RehashOne
  <2>1. i \in Left /\ Left' = Left \ {i}
    BY <1>4 DEF RehashOne, Left, IInv, TypeOK, Occupied, Slots
  <2>2. UNCHANGED <<Occ, buckets, old_buckets>> /\ pc' = "reinsert" /\ pc = "rehash"
    BY <1>4 DEF RehashOne, Occ, table
  <2>3. incoming'.key = old_buckets[i].key /\ incoming'.value = old_buckets[i].value
    BY <1>4 DEF RehashOne, WithPsl
  <2>4. Carried = {} /\ Carried' = {<<old_buckets[i].key, old_buckets[i].value>>}
    BY <2>2, <2>3 DEF Carried, Inserting, FreshCarried
  <2>5. Pairs(old_buckets, Left)
          = Pairs(old_buckets, Left') \cup {<<old_buckets[i].key, old_buckets[i].value>>}
    BY <2>1 DEF Pairs
  <2>6. QED
    BY <2>2, <2>4, <2>5 DEF Held
<1>5. CASE RehashDone
  <2>1. Left' = {} /\ pc = "rehash" /\ pc' = "alloc_key"
    BY <1>5, NothingLeft DEF RehashDone, Left
  <2>2. Left = {}
    BY <1>5 DEF RehashDone, Left, Occupied, Slots, IInv, TypeOK
  <2>3. UNCHANGED <<Occ, buckets>>
    BY <1>5 DEF RehashDone, Occ, table
  <2>4. QED
    BY <2>1, <2>2, <2>3 DEF Held, Carried, Inserting, Pairs
<1>6. QED
  BY <1>1, <1>2, <1>3, <1>4, <1>5 DEF SetStep

-----------------------------------------------------------------------------
(* The steps of insert_raw.  The entry being set enters with the first     *)
(* bucket it is put in.                                                    *)

(* Until then insert_raw carries the value that was asked for.             *)
BringsValue == FreshCarried => incoming.value = arg.value

LEMMA NextBringsValue == IInv /\ KInv /\ BringsValue /\ [Next]_vars => BringsValue'
<1> SUFFICES ASSUME IInv, KInv, BringsValue, [Next]_vars, pc' = "insert" PROVE BringsValue'
  BY DEF BringsValue, FreshCarried
<1>1. CASE AllocVal
  BY <1>1 DEF AllocVal, BringsValue
<1>2. CASE InsertAdvance
  BY <1>2 DEF InsertAdvance, Carry, WithPsl, BringsValue, FreshCarried, Inserting
<1>3. CASE InsertSwap
  <2>1. pc = "insert" /\ incoming'.key = buckets[slot].key /\ arg' = arg
    BY <1>3 DEF InsertSwap, Carry, WithPsl, Inserting
  <2>2. buckets[slot].key # arg.key
    BY <1>3, <2>1, DisplacedIsOther DEF InsertSwap, Richer
  <2>3. QED
    BY <2>1, <2>2 DEF BringsValue, FreshCarried
<1>4. CASE InsertEmpty \/ InsertReplace
  BY <1>4 DEF InsertEmpty, InsertReplace, InsertReturn, Return, Inserting
<1>5. CASE UNCHANGED vars
  BY <1>5 DEF vars, BringsValue, FreshCarried
<1>6. CASE \/ FindStep \/ RemoveStep
           \/ NoGrow \/ Refused \/ Grow \/ RehashSkip \/ RehashOne \/ RehashDone
           \/ AllocKey \/ ValRefused
  BY <1>6 DEF FindStep, FindMiss, FindNext, GetHit, Found, RemoveStep, RemoveHit, ShiftMove,
              ShiftDone, NoGrow, Refused, Grow, RehashSkip, RehashOne, RehashDone,
              AllocKey, ValRefused, Return
<1>7. CASE \/ Create \/ Clear \/ Destroy
           \/ \E e \in Offered : SetCall(e[1], e[2])
           \/ \E op \in {"get", "remove"}, k \in Keys : Find(op, k)
           \/ \E fwd \in BOOLEAN : IterOpen(fwd)
           \/ IterNext \/ IterDrop
  BY <1>7 DEF Create, Clear, Destroy, Quiet, SetCall, Find, IterOpen, IterNext, IterDrop
<1>8. QED
  BY <1>1, <1>2, <1>3, <1>4, <1>5, <1>6, <1>7 DEF Next, Step, InsertStep, SetStep

(* The array without the key of a bucket is the array without that bucket. *)
LEMMA PairsWithout ==
  ASSUME NEW b, NEW S, NEW k, DistinctIn(b, S)
  PROVE  /\ Absent(k, b, S) => Without(Pairs(b, S), k) = Pairs(b, S)
         /\ \A s \in S : b[s].key = k => Without(Pairs(b, S), k) = Pairs(b, S \ {s})
<1>1. Absent(k, b, S) => Without(Pairs(b, S), k) = Pairs(b, S)
  BY DEF Absent, Pairs, Without
<1>2. ASSUME NEW s \in S, b[s].key = k
      PROVE  Without(Pairs(b, S), k) = Pairs(b, S \ {s})
  <2>1. \A t \in S : b[t].key # k <=> t # s
    BY <1>2 DEF DistinctIn
  <2>2. QED
    BY <2>1 DEF Pairs, Without
<1>3. QED
  BY <1>1, <1>2

(* Putting an entry in a bucket adds its pair, and takes away that of the  *)
(* bucket's old entry.                                                     *)
LEMMA ArrayPut ==
  ASSUME IInv, KInv, Inserting, NEW e \in Entry,
         buckets' = [buckets EXCEPT ![slot] = e], cap' = cap
  PROVE  Pairs(buckets', Occ') = Pairs(buckets, Occ \ {slot}) \cup {<<e.key, e.value>>}
<1>1. cap \in Nat /\ buckets \in [Slots(cap) -> Bucket] /\ slot \in Slots(cap)
  BY InsertFacts
<1>2. e.psl # 0
  BY HashMapAssumption DEF Entry
<1>3. Occ' = (Occ \ {slot}) \cup {slot}
  BY <1>1, <1>2 DEF Occ, Occupied
<1>4. buckets'[slot] = e /\ \A t \in Occ \ {slot} : buckets'[t] = buckets[t]
  BY <1>1 DEF Occ, Occupied
<1>5. QED
  BY <1>3, <1>4 DEF Pairs

(* hashmap_set's entry meets an empty bucket, the entry it replaces, or a  *)
(* richer one: its key then has the value asked for, and no other changes. *)
LEMMA FreshPut ==
  ASSUME IInv, KInv, BringsValue, FreshCarried,
         InsertEmpty \/ InsertReplace \/ InsertSwap, pc' # "abort"
  PROVE  /\ Held' = Without(Held, arg.key) \cup {<<arg.key, arg.value>>}
         /\ arg.key \in Keys /\ arg.value \in Vals
         /\ ~FreshCarried'
<1>1. pc = "insert" /\ Inserting /\ incoming.key = arg.key /\ incoming.value = arg.value
  BY DEF FreshCarried, Inserting, BringsValue
<1>2. Left = {} /\ incoming \in Entry /\ slot \in Slots(cap)
  BY <1>1, NothingLeft, InsertFacts DEF KInv, OldGone, Left
<1>3. Held = Pairs(buckets, Occ)
  BY <1>2 DEF Held, Carried, Pairs
<1>4. Left' = {} /\ cap' = cap /\ cap \in Nat /\ buckets \in [Slots(cap) -> Bucket]
  BY <1>1, <1>2, InsertFacts DEF InsertEmpty, InsertReplace, InsertSwap, rehash, Left
<1>5. DistinctIn(buckets, Occ)
  BY DEF KInv, Apart
<1>k. arg.key \in Keys /\ arg.value \in Vals
  BY <1>1, <1>2 DEF Entry
<1>6. CASE InsertEmpty
  <2>1. buckets' = [buckets EXCEPT ![slot] = incoming] /\ buckets[slot].psl = 0 /\ pc' = "idle"
    BY <1>1, <1>6 DEF InsertEmpty, InsertReturn, Return
  <2>2. Absent(arg.key, buckets, Occ)
    <3>1. buckets[slot].psl < incoming.psl
      BY <1>1, <2>1, InsertFacts
    <3>2. QED
      BY <1>1, <3>1, CarriedAbsent
  <2>3. Pairs(buckets', Occ') = Pairs(buckets, Occ \ {slot}) \cup {<<arg.key, arg.value>>}
    BY <1>1, <1>2, <1>4, <2>1, ArrayPut
  <2>4. Occ \ {slot} = Occ
    BY <2>1 DEF Occ, Occupied
  <2>5. Without(Held, arg.key) = Pairs(buckets, Occ)
    BY <1>3, <1>5, <2>2, PairsWithout
  <2>6. Held' = Pairs(buckets', Occ') /\ ~FreshCarried'
    BY <1>4, <2>1 DEF Held, Carried, Inserting, FreshCarried, Pairs
  <2>7. QED
    BY <1>k, <2>3, <2>4, <2>5, <2>6
<1>7. CASE InsertReplace
  <2> DEFINE e == WithValue(buckets[slot], incoming.value)
  <2>1. /\ buckets' = [buckets EXCEPT ![slot] = e] /\ pc' = "idle"
        /\ buckets[slot].psl # 0 /\ buckets[slot].key = arg.key
    BY <1>1, <1>7 DEF InsertReplace, InsertReturn, Return
  <2>2. e \in Entry /\ e.key = arg.key /\ e.value = arg.value /\ slot \in Occ
    BY <1>1, <1>2, <1>4, <2>1 DEF WithValue, Entry, Bucket, Empty, Occ, Occupied
  <2> HIDE DEF e
  <2>3. Pairs(buckets', Occ') = Pairs(buckets, Occ \ {slot}) \cup {<<arg.key, arg.value>>}
    BY <1>1, <1>4, <2>1, <2>2, ArrayPut
  <2>4. Without(Held, arg.key) = Pairs(buckets, Occ \ {slot})
    BY <1>3, <1>5, <2>1, <2>2, PairsWithout
  <2>5. Held' = Pairs(buckets', Occ') /\ ~FreshCarried'
    BY <1>4, <2>1 DEF Held, Carried, Inserting, FreshCarried, Pairs
  <2>6. QED
    BY <1>k, <2>3, <2>4, <2>5
<1>8. CASE InsertSwap
  <2>1. /\ buckets' = [buckets EXCEPT ![slot] = incoming] /\ pc' = "insert" /\ arg' = arg
        /\ buckets[slot].psl # 0 /\ buckets[slot].key # incoming.key
        /\ buckets[slot].psl < incoming.psl
        /\ incoming'.key = buckets[slot].key /\ incoming'.value = buckets[slot].value
    BY <1>1, <1>8 DEF InsertSwap, Carry, WithPsl, Richer
  <2>2. Absent(arg.key, buckets, Occ)
    BY <1>1, <2>1, CarriedAbsent
  <2>3. Pairs(buckets', Occ') = Pairs(buckets, Occ \ {slot}) \cup {<<arg.key, arg.value>>}
    BY <1>1, <1>2, <1>4, <2>1, ArrayPut
  <2>4. slot \in Occ
    BY <1>2, <2>1 DEF Occ, Occupied
  <2>5. Pairs(buckets, Occ)
          = Pairs(buckets, Occ \ {slot}) \cup {<<buckets[slot].key, buckets[slot].value>>}
    BY <2>4 DEF Pairs
  <2>6. Without(Held, arg.key) = Pairs(buckets, Occ)
    BY <1>3, <1>5, <2>2, PairsWithout
  <2>7. ~FreshCarried' /\ Inserting'
    BY <1>1, <2>1 DEF FreshCarried, Inserting
  <2>8. Carried' = {<<buckets[slot].key, buckets[slot].value>>}
    BY <2>1, <2>7 DEF Carried
  <2>9. Held' = Pairs(buckets', Occ') \cup {<<buckets[slot].key, buckets[slot].value>>}
    BY <1>4, <2>8 DEF Held, Pairs
  <2>10. QED
    BY <1>k, <2>3, <2>5, <2>6, <2>7, <2>9
<1>9. QED
  BY <1>6, <1>7, <1>8

(* Any other step of insert_raw moves entries and changes none.            *)
LEMMA HeldMoved ==
  ASSUME IInv, KInv, InsertStep, pc' # "abort", FreshCarried => InsertAdvance
  PROVE  /\ Held' = Held
         /\ pc = "insert" /\ pc' = "insert" => (FreshCarried' <=> FreshCarried)
<1>1. Inserting /\ pc \in {"insert", "reinsert"} /\ incoming \in Entry /\ slot \in Slots(cap)
  <2>1. Inserting
    BY DEF InsertStep, InsertEmpty, InsertReplace, InsertSwap, InsertAdvance
  <2>2. QED
    BY <2>1, InsertFacts
<1>2. Left' = Left /\ cap' = cap /\ old_buckets' = old_buckets
  BY DEF InsertStep, InsertEmpty, InsertReplace, InsertSwap, InsertAdvance, table, rehash, Left
<1>3. CASE InsertAdvance
  <2>1. /\ incoming'.key = incoming.key /\ incoming'.value = incoming.value
        /\ pc' = pc /\ UNCHANGED <<buckets, arg>>
    BY <1>3 DEF InsertAdvance, Carry, WithPsl, table
  <2>2. Carried' = Carried /\ Occ' = Occ /\ (FreshCarried' <=> FreshCarried)
    BY <1>2, <2>1 DEF Carried, Inserting, FreshCarried, Occ
  <2>3. QED
    BY <1>2, <2>1, <2>2 DEF Held
<1>4. ASSUME ~FreshCarried PROVE Held = Pairs(buckets, Occ) \cup Pairs(old_buckets, Left)
                                           \cup {<<incoming.key, incoming.value>>}
  BY <1>1, <1>4 DEF Held, Carried
<1>5. CASE InsertEmpty /\ ~FreshCarried
  <2>1. /\ buckets' = [buckets EXCEPT ![slot] = incoming] /\ buckets[slot].psl = 0
        /\ pc' \in {"idle", "rehash"}
    BY <1>1, <1>5 DEF InsertEmpty, InsertReturn, Return
  <2>2. Pairs(buckets', Occ')
          = Pairs(buckets, Occ \ {slot}) \cup {<<incoming.key, incoming.value>>}
    BY <1>1, <1>2, <2>1, ArrayPut
  <2>3. Occ \ {slot} = Occ
    BY <2>1 DEF Occ, Occupied
  <2>4. Held' = Pairs(buckets', Occ') \cup Pairs(old_buckets, Left)
    BY <1>2, <2>1 DEF Held, Carried, Inserting
  <2>5. QED
    BY <1>4, <1>5, <2>1, <2>2, <2>3, <2>4
<1>6. CASE InsertReplace /\ ~FreshCarried
  <2>1. buckets[slot].psl # 0 /\ buckets[slot].key = incoming.key
    BY <1>6 DEF InsertReplace
  <2>2. slot \in Occ
    BY <1>1, <2>1 DEF Occ, Occupied
  <2>3. QED
    BY <1>1, <1>6, <2>1, <2>2 DEF KInv, Apart, Absent
<1>7. CASE InsertSwap /\ ~FreshCarried
  <2>1. /\ buckets' = [buckets EXCEPT ![slot] = incoming] /\ pc' = pc /\ arg' = arg
        /\ buckets[slot].psl # 0 /\ buckets[slot].key # incoming.key
        /\ buckets[slot].psl < incoming.psl
        /\ incoming'.key = buckets[slot].key /\ incoming'.value = buckets[slot].value
    BY <1>7 DEF InsertSwap, Carry, WithPsl, Richer
  <2>2. Pairs(buckets', Occ')
          = Pairs(buckets, Occ \ {slot}) \cup {<<incoming.key, incoming.value>>}
    BY <1>1, <1>2, <2>1, ArrayPut
  <2>3. slot \in Occ
    BY <1>1, <2>1 DEF Occ, Occupied
  <2>4. Pairs(buckets, Occ)
          = Pairs(buckets, Occ \ {slot}) \cup {<<buckets[slot].key, buckets[slot].value>>}
    BY <2>3 DEF Pairs
  <2>5. ~FreshCarried'
    BY <2>1, DisplacedIsOther DEF FreshCarried
  <2>6. Carried' = {<<buckets[slot].key, buckets[slot].value>>}
    BY <1>1, <2>1, <2>5 DEF Carried, Inserting
  <2>7. Held' = Pairs(buckets', Occ') \cup Pairs(old_buckets, Left)
                  \cup {<<buckets[slot].key, buckets[slot].value>>}
    BY <1>2, <2>6 DEF Held
  <2>8. QED
    BY <1>4, <1>7, <2>2, <2>4, <2>5, <2>7
<1>8. QED
  BY <1>3, <1>5, <1>6, <1>7 DEF InsertStep

-----------------------------------------------------------------------------
(* The refinement.  The invariant is that of PslHeadroom, for the program  *)
(* must not stop in an assert; that of the lookups; and BringsValue.       *)

RInv == PInv /\ ArgOK /\ FindOK /\ BringsValue

LEMMA RefineInductive == Spec => []RInv
<1>1. Init => RInv
  BY InitIInv, InitKInv, InitMaxPsl, InitHInv, InitArgOK, InitFindOK
     DEF RInv, PInv, BringsValue, FreshCarried, Init
<1>2. RInv /\ [Next]_vars => RInv'
  BY NextPInv, NextArgOK, NextFindOK, NextBringsValue DEF RInv, PInv
<1>3. QED
  BY <1>1, <1>2, PTL DEF Spec

LEMMA MapNow == RInv => /\ Contents = AsMap(Held)
                        /\ Held \in SUBSET (Keys \X Vals)
                        /\ OneEach(Held)
                        /\ pc # "abort"
BY ContentsHeld, HeldTyped DEF RInv, PInv, HInv

LEMMA MapNext == RInv' => Contents' = AsMap(Held') /\ pc' # "abort"
<1>1. RInv => Contents = AsMap(Held) /\ pc # "abort"
  BY MapNow
<1>2. RInv' => (Contents = AsMap(Held) /\ pc # "abort")'
  BY <1>1, PTL
<1>3. QED
  BY <1>2

LEMMA Stutters ==
  ASSUME RInv, RInv', Held' = Held, pc = "none" <=> pc' = "none",
         CallPhase' = CallPhase, UNCHANGED <<arg, ret>>
  PROVE  UNCHANGED Abstract!mapVars
<1>1. Contents' = Contents
  BY MapNow, MapNext
<1>2. QED
  BY <1>1 DEF Abstract!mapVars

(* The empty map before the struct is allocated, and after it is freed.    *)
LEMMA LifeRefines ==
  ASSUME RInv, RInv', Create \/ Clear \/ Destroy
  PROVE  Abstract!Next
<1>1. /\ Contents = AsMap(Held) /\ Contents' = AsMap(Held')
      /\ IF ret' = "OOM" THEN Held' = Held ELSE Held' = {}
  BY MapNow, MapNext, HeldLife DEF RInv, PInv
<1>2. pc \in {"none", "idle"} /\ pc' \in {"none", "idle"} /\ arg' = arg
  BY DEF Create, Clear, Destroy, Quiet
<1>3. CallPhase = "ready" /\ CallPhase' = "ready"
  BY <1>2 DEF CallPhase
<1>4. ret' # "OOM" => Contents' = [k \in {} |-> Nil]
  BY <1>1, MapOfNone
<1>5. [Abstract!NoMap EXCEPT !.exists = TRUE] = [exists |-> TRUE, at |-> [k \in {} |-> Nil]]
  <2> DEFINE nothing == [k \in {} |-> Nil]
  <2>1. Abstract!NoMap = [exists |-> FALSE, at |-> nothing]
    BY DEF Abstract!NoMap
  <2> HIDE DEF nothing
  <2>2. \A x, y : [[exists |-> x, at |-> nothing] EXCEPT !.exists = y]
                     = [exists |-> y, at |-> nothing]
    OBVIOUS
  <2>3. QED
    BY <2>1, <2>2, Zenon DEF nothing
<1>6. CASE Create /\ ret' = "OOM"
  <2>1. Abstract!Create
    BY <1>1, <1>2, <1>3, <1>6 DEF Create, Abstract!Create
  <2>2. QED
    BY <2>1 DEF Abstract!Next
<1>7. CASE Create /\ ret' # "OOM"
  <2>1. pc = "none" /\ pc' = "idle" /\ ret' = "OK"
    BY <1>7 DEF Create
  <2>2. [exists |-> pc # "none", at |-> Contents]' = [Abstract!NoMap EXCEPT !.exists = TRUE]
    BY <1>4, <1>5, <2>1
  <2>3. Abstract!Create
    BY <1>2, <1>3, <2>1, <2>2 DEF Abstract!Create
  <2>4. QED
    BY <2>3 DEF Abstract!Next
<1>8. CASE Clear
  <2>1. pc = "idle" /\ pc' = "idle" /\ ret' = "OK"
    BY <1>8 DEF Clear, Quiet
  <2>2. [exists |-> pc # "none", at |-> Contents]' = [Abstract!NoMap EXCEPT !.exists = TRUE]
    BY <1>4, <1>5, <2>1
  <2>3. Abstract!Clear
    BY <1>2, <1>3, <2>1, <2>2 DEF Abstract!Clear
  <2>4. QED
    BY <2>3 DEF Abstract!Next
<1>9. CASE Destroy
  <2>1. pc = "idle" /\ pc' = "none" /\ ret' = "OK"
    BY <1>9 DEF Destroy, Quiet
  <2>2. Abstract!Destroy
    BY <1>2, <1>3, <1>4, <2>1 DEF Abstract!Destroy, Abstract!NoMap
  <2>3. QED
    BY <2>2 DEF Abstract!Next
<1>10. QED
  BY <1>6, <1>7, <1>8, <1>9

LEMMA CallRefines ==
  ASSUME RInv, RInv',
         \/ \E e \in Offered : SetCall(e[1], e[2])
         \/ \E op \in {"get", "remove"}, k \in Keys : Find(op, k)
  PROVE  Abstract!Next
<1>1. /\ pc = "idle" /\ pc' \in {"set", "find"} /\ ret' = Nil
      /\ UNCHANGED <<buckets, cap, old_buckets, old_cap, i>>
      /\ arg' \in Abstract!Calls
  BY HashMapAssumption DEF SetCall, Find, Quiet, table, rehash, SetArg, KeyArg, Abstract!Calls
<1>2. CallPhase = "ready" /\ CallPhase' = "pending"
  BY <1>1 DEF CallPhase, FreshCarried
<1>3. Carried = {} /\ Carried' = {}
  BY <1>1 DEF Carried, Inserting
<1>4. Contents' = Contents
  BY <1>1, <1>3, HeldKept, MapNow, MapNext
<1>5. QED
  BY <1>1, <1>2, <1>4 DEF Abstract!Next, Abstract!Invoke

LEMMA FindRefines ==
  ASSUME RInv, RInv', FindStep
  PROVE  [Abstract!Next]_(Abstract!mapVars)
<1>1. /\ pc = "find" /\ pc' \in {"find", "idle"}
      /\ UNCHANGED <<buckets, cap, old_buckets, old_cap, i>>
  BY DEF FindStep, FindMiss, FindNext, GetHit, Found, Return, table, rehash
<1>2. Carried = {} /\ Carried' = {}
  BY <1>1 DEF Carried, Inserting
<1>3. Held' = Held /\ Contents' = Contents /\ Contents = AsMap(Held)
  BY <1>1, <1>2, HeldKept, MapNow, MapNext
<1>4. CallPhase = "pending" /\ arg.op \in {"get", "remove"}
  BY <1>1 DEF CallPhase, FreshCarried, RInv, ArgOK
<1>5. Held = Pairs(buckets, Occ) /\ OneEach(Held)
  BY <1>1, OnlyArray, MapNow DEF RInv, PInv
<1>6. CASE FindNext
  <2>1. pc' = pc /\ UNCHANGED <<arg, ret>>
    BY <1>6 DEF FindNext
  <2>2. QED
    BY <1>1, <1>3, <2>1, Stutters DEF CallPhase, FreshCarried
<1>7. CASE FindMiss
  <2>1. pc' = "idle" /\ arg' = NoArg /\ ret' = "NOT_FOUND"
    BY <1>7 DEF FindMiss, Return
  <2>2. arg.key \notin DOMAIN Contents
    <3>1. MissIsAbsent
      BY FindKnowsMiss DEF RInv, PInv
    <3>2. \A s \in Occ : buckets[s].key # arg.key
      BY <1>7, <3>1 DEF MissIsAbsent, FindMiss
    <3>3. \A p \in Held : p[1] # arg.key
      BY <1>5, <3>2 DEF Pairs
    <3>4. QED
      BY <1>3, <3>3, KeyHeld
  <2>3. CallPhase' = "ready"
    BY <2>1 DEF CallPhase
  <2>4. QED
    BY <1>1, <1>3, <1>4, <2>1, <2>2, <2>3
       DEF Abstract!Next, Abstract!Effect, Abstract!GetEffect, Abstract!RemoveEffect,
           Abstract!NoCall, NoArg
<1>8. CASE GetHit
  <2>1. /\ pc' = "idle" /\ arg' = NoArg /\ ret' = buckets[slot].value
        /\ arg.op = "get" /\ buckets[slot].psl # 0 /\ buckets[slot].key = arg.key
    BY <1>8 DEF GetHit, Found, Return
  <2>2. slot \in Occ
    BY <1>1, <2>1, FindFacts DEF RInv, PInv, Occ, Occupied
  <2>3. <<arg.key, buckets[slot].value>> \in Held
    BY <1>5, <2>1, <2>2 DEF Pairs
  <2>4. arg.key \in DOMAIN Contents /\ Contents[arg.key] = buckets[slot].value
    BY <1>3, <1>5, <2>3, MapAt
  <2>5. CallPhase' = "ready"
    BY <2>1 DEF CallPhase
  <2>6. QED
    BY <1>1, <1>3, <1>4, <2>1, <2>4, <2>5
       DEF Abstract!Next, Abstract!Effect, Abstract!GetEffect, Abstract!NoCall, NoArg
<1>9. QED
  BY <1>6, <1>7, <1>8 DEF FindStep

LEMMA RemoveRefines ==
  ASSUME RInv, RInv', RemoveStep
  PROVE  [Abstract!Next]_(Abstract!mapVars)
<1>0. IInv /\ KInv /\ ArgOK
  BY DEF RInv, PInv
<1>1. /\ Contents = AsMap(Held) /\ Contents' = AsMap(Held')
      /\ Held \in SUBSET (Keys \X Vals) /\ OneEach(Held)
  BY MapNow, MapNext
<1>2. CASE RemoveHit
  <2>1. pc = "find" /\ pc' = "shift" /\ arg' = arg /\ arg.op = "remove"
    BY <1>2 DEF RemoveHit, Found
  <2>2. Held' = Without(Held, arg.key) /\ arg.key \in DOMAIN Contents
    BY <1>0, <1>1, <1>2, HeldRemove, KeyHeld
  <2>3. Contents' = [x \in (DOMAIN Contents) \ {arg.key} |-> Contents[x]]
    BY <1>1, <2>2, MapDrop
  <2>4. CallPhase = "pending" /\ CallPhase' = "done"
    BY <2>1 DEF CallPhase, FreshCarried
  <2>5. QED
    BY <2>1, <2>2, <2>3, <2>4
       DEF Abstract!Next, Abstract!Effect, Abstract!RemoveEffect, Abstract!Drop
<1>3. CASE ShiftMove
  <2>1. pc = "shift" /\ pc' = "shift" /\ UNCHANGED <<arg, ret>>
    BY <1>3 DEF ShiftMove
  <2>2. Held' = Held
    BY <1>0, <1>3, HeldShift
  <2>3. QED
    BY <2>1, <2>2, Stutters DEF CallPhase, FreshCarried
<1>4. CASE ShiftDone
  <2>1. /\ pc = "shift" /\ pc' = "idle" /\ ret' = "OK" /\ arg' = NoArg
        /\ UNCHANGED <<buckets, cap, old_buckets, old_cap, i>>
    BY <1>4 DEF ShiftDone, Return, table, rehash
  <2>2. Carried = {} /\ Carried' = {}
    BY <2>1 DEF Carried, Inserting
  <2>3. Contents' = Contents
    BY <1>1, <2>1, <2>2, HeldKept
  <2>4. CallPhase = "done" /\ CallPhase' = "ready"
    BY <2>1 DEF CallPhase
  <2>5. QED
    BY <2>1, <2>3, <2>4 DEF Abstract!Next, Abstract!Return, Abstract!NoCall, NoArg
<1>5. QED
  BY <1>2, <1>3, <1>4 DEF RemoveStep

(* A refused allocation ends the set with no effect, whatever it did to    *)
(* the array before; the other steps before the insertion are unobserved.  *)
LEMMA SetRefines ==
  ASSUME RInv, RInv', SetStep
  PROVE  [Abstract!Next]_(Abstract!mapVars)
<1>1. Held' = Held /\ Contents' = Contents
  BY HeldSet, MapNow, MapNext DEF RInv, PInv
<1>2. CASE Refused \/ ValRefused
  <2>1. /\ pc \in {"set", "alloc_key", "alloc_val"} /\ pc' = "idle" /\ ret' = "OOM"
        /\ arg' = NoArg
    BY <1>2 DEF Refused, ValRefused, Return
  <2>2. arg.op = "set"
    BY <2>1 DEF RInv, PInv, IInv, TypeOK
  <2>3. CallPhase = "pending" /\ CallPhase' = "ready"
    BY <2>1 DEF CallPhase, FreshCarried
  <2>4. QED
    BY <1>1, <2>1, <2>2, <2>3
       DEF Abstract!Next, Abstract!Effect, Abstract!SetEffect, Abstract!NoCall, NoArg
<1>3. CASE NoGrow \/ Grow \/ RehashSkip \/ RehashOne \/ RehashDone \/ AllocKey \/ AllocVal
  <2>1. /\ pc \in {"set", "rehash", "alloc_key", "alloc_val"} /\ UNCHANGED <<arg, ret>>
        /\ \/ pc' \in {"alloc_key", "rehash", "reinsert", "alloc_val"}
           \/ pc' = "insert" /\ incoming'.key = arg.key
    BY <1>3 DEF NoGrow, Grow, RehashSkip, RehashOne, RehashDone, AllocKey, AllocVal
  <2>2. CallPhase = "pending" /\ CallPhase' = "pending"
    BY <2>1 DEF CallPhase, FreshCarried
  <2>3. QED
    BY <1>1, <2>1, <2>2, Stutters
<1>4. QED
  BY <1>2, <1>3 DEF SetStep

LEMMA InsertRefines ==
  ASSUME RInv, RInv', InsertStep
  PROVE  [Abstract!Next]_(Abstract!mapVars)
<1>0. IInv /\ KInv /\ BringsValue /\ pc' # "abort"
  BY MapNext DEF RInv, PInv
<1>1. /\ Contents = AsMap(Held) /\ Contents' = AsMap(Held')
      /\ Held \in SUBSET (Keys \X Vals) /\ OneEach(Held)
  BY MapNow, MapNext
<1>2. CASE FreshCarried /\ (InsertEmpty \/ InsertReplace \/ InsertSwap)
  <2>1. /\ Held' = Without(Held, arg.key) \cup {<<arg.key, arg.value>>}
        /\ arg.key \in Keys /\ arg.value \in Vals /\ ~FreshCarried'
    BY <1>0, <1>2, FreshPut
  <2>2. Contents' = [x \in (DOMAIN Contents) \cup {arg.key} |->
                       IF x = arg.key THEN arg.value ELSE Contents[x]]
    <3>1. /\ Contents' = [x \in (DOMAIN Contents) \cup {arg.key} |-> Contents'[x]]
          /\ Contents'[arg.key] = arg.value
          /\ \A x \in DOMAIN Contents : x # arg.key => Contents'[x] = Contents[x]
      <4> PICK P, Q, k, v : P = Held /\ Q = Held' /\ k = arg.key /\ v = arg.value
        OBVIOUS
      <4>1. /\ P \in SUBSET (Keys \X Vals) /\ OneEach(P) /\ k \in Keys /\ v \in Vals
            /\ Q = Without(P, k) \cup {<<k, v>>}
        BY <1>1, <2>1
      <4>2. /\ AsMap(Q) = [x \in (DOMAIN AsMap(P)) \cup {k} |-> AsMap(Q)[x]]
            /\ AsMap(Q)[k] = v
            /\ \A x \in DOMAIN AsMap(P) : x # k => AsMap(Q)[x] = AsMap(P)[x]
        BY ONLY <4>1, MapPut, SMTT(30)
      <4>3. Contents = AsMap(P) /\ Contents' = AsMap(Q)
        BY <1>1
      <4>4. QED
        BY ONLY <4>2, <4>3, k = arg.key, v = arg.value
    <3>2. QED
      BY ONLY <3>1
  <2>3. /\ pc = "insert" /\ CallPhase = "pending"
        /\ \/ pc' = "idle" /\ arg' = NoArg /\ ret' = "OK"
           \/ pc' = "insert" /\ arg' = arg
    BY <1>0, <1>2 DEF FreshCarried, CallPhase, InsertEmpty, InsertReplace, InsertSwap,
                      InsertReturn, Return, Carry
  <2>4. arg.op = "set"
    BY <1>0, <2>3 DEF IInv, TypeOK
  <2>5. CASE pc' = "idle"
    <3>1. CallPhase' = "ready" /\ arg' = NoArg /\ ret' = "OK"
      BY <2>3, <2>5 DEF CallPhase
    <3>2. QED
      BY <2>2, <2>3, <2>4, <2>5, <3>1
         DEF Abstract!Next, Abstract!Effect, Abstract!SetEffect, Abstract!Put,
             Abstract!NoCall, NoArg
  <2>6. CASE pc' = "insert"
    <3>1. CallPhase' = "done" /\ arg' = arg
      BY <2>1, <2>3, <2>6 DEF CallPhase
    <3>2. QED
      BY <2>2, <2>3, <2>4, <2>6, <3>1
         DEF Abstract!Next, Abstract!Effect, Abstract!SetEffect, Abstract!Put
  <2>7. QED
    BY <2>3, <2>5, <2>6
<1>3. CASE ~FreshCarried \/ InsertAdvance
  <2>1. Inserting
    BY DEF InsertStep, InsertEmpty, InsertReplace, InsertSwap, InsertAdvance
  <2>2. Held' = Held /\ (pc = "insert" /\ pc' = "insert" => (FreshCarried' <=> FreshCarried))
    BY <1>0, <1>3, HeldMoved
  <2>3. Contents' = Contents
    BY <1>1, <2>2
  <2>4. \/ pc' = pc /\ UNCHANGED <<arg, ret>>
        \/ pc = "reinsert" /\ pc' = "rehash" /\ UNCHANGED <<arg, ret>>
        \/ /\ pc = "insert" /\ pc' = "idle" /\ arg' = NoArg /\ ret' = "OK"
           /\ ~InsertAdvance
    BY <1>0, <2>1 DEF InsertStep, InsertEmpty, InsertReplace, InsertSwap, InsertAdvance,
                      InsertReturn, Return, Carry, Inserting
  <2>5. CASE pc' # "idle"
    <3>1. CallPhase' = CallPhase /\ UNCHANGED <<arg, ret>> /\ pc # "none" /\ pc' # "none"
      BY <2>1, <2>2, <2>4, <2>5 DEF CallPhase, FreshCarried, Inserting
    <3>2. QED
      BY <2>2, <3>1, Stutters
  <2>6. CASE pc' = "idle"
    <3>1. CallPhase = "done" /\ CallPhase' = "ready"
      BY <1>3, <2>1, <2>4, <2>6 DEF CallPhase, Inserting
    <3>2. QED
      BY <2>1, <2>3, <2>4, <2>6, <3>1
         DEF Abstract!Next, Abstract!Return, Abstract!NoCall, NoArg, Inserting
  <2>7. QED
    BY <2>5, <2>6
<1>4. QED
  BY <1>2, <1>3 DEF InsertStep

LEMMA StepRefines == RInv /\ RInv' /\ [Next]_vars => [Abstract!Next]_(Abstract!mapVars)
<1> SUFFICES ASSUME RInv, RInv', [Next]_vars PROVE [Abstract!Next]_(Abstract!mapVars)
  OBVIOUS
<1>1. CASE Create \/ Clear \/ Destroy
  BY <1>1, LifeRefines
<1>2. CASE \/ \E e \in Offered : SetCall(e[1], e[2])
           \/ \E op \in {"get", "remove"}, k \in Keys : Find(op, k)
  BY <1>2, CallRefines
<1>3. CASE Step
  BY <1>3, InsertRefines, FindRefines, RemoveRefines, SetRefines DEF Step
<1>4. CASE (\E fwd \in BOOLEAN : IterOpen(fwd)) \/ IterNext \/ IterDrop \/ UNCHANGED vars
  <2>1. UNCHANGED <<buckets, cap, old_buckets, old_cap, i, incoming, pc, arg, ret>>
    BY <1>4 DEF IterOpen, IterNext, IterDrop, vars, table, rehash
  <2>2. Carried' = Carried /\ CallPhase' = CallPhase
    BY <2>1 DEF Carried, CallPhase, FreshCarried, Inserting
  <2>3. QED
    BY <2>1, <2>2, HeldKept, Stutters
<1>5. QED
  BY <1>1, <1>2, <1>3, <1>4 DEF Next

LEMMA InitRefines == Init => Abstract!Init
<1> SUFFICES ASSUME Init PROVE Abstract!Init
  OBVIOUS
<1>1. Contents = AsMap(Held)
  BY InitIInv, InitKInv, ContentsHeld
<1>2. Occ = {} /\ Left = {} /\ ~Inserting
  BY NoneOccupied DEF Init, Occ, Left, Inserting
<1>3. Held = {}
  BY <1>2 DEF Held, Pairs, Carried
<1>4. Contents = [k \in {} |-> Nil]
  BY <1>1, <1>3, MapOfNone
<1>5. pc = "none" /\ CallPhase = "ready" /\ arg = NoArg /\ ret = Nil
  BY DEF Init, CallPhase
<1>6. QED
  BY <1>4, <1>5 DEF Abstract!Init, Abstract!NoMap, Abstract!NoCall, NoArg

(* Each call of hashmap_set, hashmap_remove and hashmap_get returns what a *)
(* map would return and takes effect on the contents at one instant, for   *)
(* every hash function: no swap, shift or rehash, and no allocation that   *)
(* is refused, loses, alters or revives an entry.                          *)
THEOREM RefinementCorrect == Spec => ImplementsMap
<1>1. Init => Abstract!Init
  BY InitRefines
<1>2. RInv /\ RInv' /\ [Next]_vars => [Abstract!Next]_(Abstract!mapVars)
  BY StepRefines
<1>3. QED
  BY <1>1, <1>2, RefineInductive, PTL DEF Spec, ImplementsMap, Abstract!Spec

-----------------------------------------------------------------------------
(* The steps of an extend are calls of the map, or do not touch it.        *)

BatchOK == /\ batch \in Seq(Offered)
           /\ taken \in 0 .. Len(batch)
           /\ Extending => pc # "none"

LEMMA InitBatch == ExtendInit => BatchOK
BY DEF ExtendInit, BatchOK, Extending

LEMMA StepStays == Step => pc # "none" /\ pc # "idle" /\ pc' # "none"
BY DEF Step, InsertStep, InsertEmpty, InsertReplace, InsertSwap, InsertAdvance, InsertReturn,
       Carry, Inserting, Return, FindStep, FindMiss, FindNext, GetHit, Found, RemoveStep,
       RemoveHit, ShiftMove, ShiftDone, SetStep, NoGrow, Refused, Grow, RehashSkip, RehashOne,
       RehashDone, AllocKey, ValRefused, AllocVal

LEMMA NextBatch == BatchOK /\ [ExtendNext]_extVars => BatchOK'
<1> SUFFICES ASSUME BatchOK, [ExtendNext]_extVars PROVE BatchOK'
  OBVIOUS
<1>1. CASE Step /\ UNCHANGED extend
  BY <1>1, StepStays DEF BatchOK, extend, Extending
<1>2. CASE ~Extending /\ UNCHANGED extend
  BY <1>2 DEF BatchOK, extend, Extending
<1>3. ASSUME NEW es \in Batches, ExtendCall(es) PROVE BatchOK'
  <2>1. es \in Seq(Offered) /\ Len(es) \in Nat
    BY BatchesAssumption
  <2>2. pc' = "idle"
    BY <1>3 DEF ExtendCall, Quiet, vars
  <2>3. QED
    BY <1>3, <2>1, <2>2 DEF ExtendCall, BatchOK
<1>4. CASE ExtendInvalid \/ ExtendDone \/ ExtendFailed
  <2>1. batch' = <<>> /\ taken' = 0 /\ handed' = 0
    BY <1>4 DEF ExtendInvalid, ExtendDone, ExtendFailed, ExtendReturn
  <2>2. <<>> \in Seq(Offered) /\ Len(<<>>) = 0
    OBVIOUS
  <2>3. QED
    BY <2>1, <2>2 DEF BatchOK, Extending
<1>5. CASE ExtendSet
  <2>1. Len(batch) \in Nat
    BY DEF BatchOK
  <2>2. QED
    BY <1>5, <2>1 DEF ExtendSet, SetCall, BatchOK, Extending
<1>6. CASE UNCHANGED extVars
  BY <1>6 DEF extVars, extend, vars, BatchOK, Extending
<1>7. QED
  BY <1>1, <1>2, <1>3, <1>4, <1>5, <1>6 DEF ExtendNext, ExtendTurn

LEMMA ExtendStep == BatchOK /\ [ExtendNext]_extVars => [Next]_vars
<1> SUFFICES ASSUME BatchOK, [ExtendNext]_extVars PROVE [Next]_vars
  OBVIOUS
<1>1. CASE Step /\ UNCHANGED extend
  BY <1>1 DEF Next
<1>2. CASE \E es \in Batches : ExtendCall(es)
  BY <1>2 DEF ExtendCall
<1>3. CASE ExtendInvalid \/ ExtendDone \/ ExtendFailed
  BY <1>3 DEF ExtendInvalid, ExtendDone, ExtendFailed, ExtendReturn
<1>4. CASE ExtendSet
  <2>1. batch[taken + 1] \in Offered
    BY <1>4 DEF ExtendSet, BatchOK
  <2>2. QED
    BY <1>4, <2>1 DEF ExtendSet, Next
<1>5. CASE UNCHANGED extVars
  BY <1>5 DEF extVars
<1>6. QED
  BY <1>1, <1>2, <1>3, <1>4, <1>5 DEF ExtendNext, ExtendTurn

(* hashmap_extend does nothing to the map that its caller could not do     *)
(* with hashmap_set, so all that is proved of the map holds of one that is *)
(* also extended.                                                          *)
THEOREM ExtendIsMap == ExtendSpec => Spec
<1>1. ExtendInit => Init
  BY DEF ExtendInit
<1>2. QED
  BY <1>1, InitBatch, NextBatch, ExtendStep, PTL DEF ExtendSpec, Spec

(* A map that is also extended returns what MapSpec allows.                *)
THEOREM ExtendRefines == ExtendSpec => ImplementsMap
BY ExtendIsMap, RefinementCorrect, PTL

-----------------------------------------------------------------------------
(* Writing one entry over a map.  *)

IsPut(g, f, k, v) == /\ g = [x \in (DOMAIN f) \cup {k} |-> g[x]]
                     /\ g[k] = v
                     /\ \A x \in DOMAIN f : x # k => g[x] = f[x]

LEMMA PutUnique ==
  ASSUME NEW f, NEW g, NEW h, NEW k, NEW v, IsPut(g, f, k, v), IsPut(h, f, k, v)
  PROVE  g = h
<1> DEFINE S == (DOMAIN f) \cup {k}
<1>1. g = [x \in S |-> g[x]] /\ h = [x \in S |-> h[x]]
  BY DEF IsPut
<1>2. \A x \in S : g[x] = h[x]
  BY DEF IsPut
<1> HIDE DEF S
<1>3. QED
  BY <1>1, <1>2

(* The last of the first n entries of a batch that has the key k.          *)
LastOf(b, n, k) == {j \in 1 .. n : b[j][1] = k /\ \A h \in j + 1 .. n : b[h][1] # k}
OverBy(b, m, n) == [k \in DOMAIN m \cup {b[j][1] : j \in 1 .. n} |->
                      IF LastOf(b, n, k) = {} THEN m[k]
                      ELSE b[CHOOSE j \in LastOf(b, n, k) : TRUE][2]]

LEMMA OverIs == \A m, n : Over(m, n) = OverBy(batch, m, n)
BY DEF Over, OverBy, LastOf

LEMMA OverNone ==
  ASSUME NEW b, NEW m, m = [x \in DOMAIN m |-> m[x]]
  PROVE  OverBy(b, m, 0) = m
<1>1. {b[j][1] : j \in 1 .. 0} = {} /\ \A k : LastOf(b, 0, k) = {}
  BY DEF LastOf
<1>2. DOMAIN OverBy(b, m, 0) = DOMAIN m
  BY <1>1 DEF OverBy
<1>3. \A x \in DOMAIN m : OverBy(b, m, 0)[x] = m[x]
  BY <1>1 DEF OverBy
<1>4. OverBy(b, m, 0) = [x \in DOMAIN m |-> OverBy(b, m, 0)[x]]
  BY <1>2 DEF OverBy
<1>5. QED
  BY <1>3, <1>4

(* One more entry of the batch is one more put.                            *)
LEMMA OverPut ==
  ASSUME NEW b, NEW m, NEW n \in Nat
  PROVE  IsPut(OverBy(b, m, n + 1), OverBy(b, m, n), b[n + 1][1], b[n + 1][2])
<1> DEFINE k == b[n + 1][1]
           Seen(q) == {b[j][1] : j \in 1 .. q}
<1>1. Seen(n + 1) = Seen(n) \cup {k}
  <2>1. 1 .. n + 1 = (1 .. n) \cup {n + 1}
    OBVIOUS
  <2>2. QED
    BY <2>1
<1>2. LastOf(b, n + 1, k) = {n + 1}
  <2>1. ASSUME NEW j \in LastOf(b, n + 1, k) PROVE j = n + 1
    <3>1. j \in 1 .. n + 1 /\ \A h \in j + 1 .. n + 1 : b[h][1] # k
      BY <2>1 DEF LastOf
    <3>2. QED
      BY <3>1
  <2>2. n + 1 \in LastOf(b, n + 1, k)
    BY DEF LastOf
  <2>3. QED
    BY <2>1, <2>2
<1>3. ASSUME NEW x, x # k PROVE LastOf(b, n + 1, x) = LastOf(b, n, x)
  <2>1. ASSUME NEW j \in LastOf(b, n + 1, x) PROVE j \in LastOf(b, n, x)
    <3>1. j \in 1 .. n + 1 /\ b[j][1] = x /\ \A h \in j + 1 .. n + 1 : b[h][1] # x
      BY <2>1 DEF LastOf
    <3>2. j # n + 1
      BY <1>3, <3>1
    <3>3. j \in 1 .. n /\ \A h \in j + 1 .. n : b[h][1] # x
      BY <3>1, <3>2
    <3>4. QED
      BY <3>1, <3>3 DEF LastOf
  <2>2. ASSUME NEW j \in LastOf(b, n, x) PROVE j \in LastOf(b, n + 1, x)
    <3>1. j \in 1 .. n /\ b[j][1] = x /\ \A h \in j + 1 .. n : b[h][1] # x
      BY <2>2 DEF LastOf
    <3>2. ASSUME NEW h \in j + 1 .. n + 1 PROVE b[h][1] # x
      <4>1. CASE h = n + 1
        BY <1>3, <4>1
      <4>2. CASE h # n + 1
        BY <3>1, <3>2, <4>2
      <4>3. QED
        BY <4>1, <4>2
    <3>3. j \in 1 .. n + 1
      BY <3>1
    <3>4. QED
      BY <3>1, <3>2, <3>3 DEF LastOf
  <2>3. QED
    BY <2>1, <2>2
<1>4. DOMAIN OverBy(b, m, n) = DOMAIN m \cup Seen(n)
  BY DEF OverBy
<1>5. DOMAIN OverBy(b, m, n + 1) = (DOMAIN OverBy(b, m, n)) \cup {k}
  <2>1. DOMAIN OverBy(b, m, n + 1) = DOMAIN m \cup Seen(n + 1)
    BY DEF OverBy
  <2> HIDE DEF Seen, k
  <2>2. QED
    BY <1>1, <1>4, <2>1
<1>6. OverBy(b, m, n + 1)
        = [x \in DOMAIN OverBy(b, m, n + 1) |-> OverBy(b, m, n + 1)[x]]
  BY DEF OverBy
<1>7. OverBy(b, m, n + 1)[k] = b[n + 1][2]
  <2>1. k \in DOMAIN m \cup Seen(n + 1)
    BY <1>1
  <2>2. (CHOOSE j \in LastOf(b, n + 1, k) : TRUE) = n + 1
    BY <1>2
  <2>3. LastOf(b, n + 1, k) # {}
    BY <1>2
  <2>4. QED
    BY <2>1, <2>2, <2>3 DEF OverBy
<1>8. ASSUME NEW x \in DOMAIN OverBy(b, m, n), x # k
      PROVE  OverBy(b, m, n + 1)[x] = OverBy(b, m, n)[x]
  <2>1. x \in DOMAIN m \cup Seen(n) /\ x \in DOMAIN m \cup Seen(n + 1)
    BY <1>1, <1>4
  <2>2. LastOf(b, n + 1, x) = LastOf(b, n, x)
    BY <1>3, <1>8
  <2>3. QED
    BY <2>1, <2>2 DEF OverBy
<1>9. QED
  BY <1>5, <1>6, <1>7, <1>8 DEF IsPut

-----------------------------------------------------------------------------
(* The inductive invariant of ExtendsByPrefix: it says what the map holds  *)
(* in the middle of a set too, before its effect and after it.  What the   *)
(* set does to the map is taken from the refinement.                       *)

Taken(n) == Contents = OverBy(batch, before, n)
InSet == /\ pc \notin {"find", "shift", "none", "idle"}
         /\ taken >= 1
         /\ arg.key = batch[taken][1] /\ arg.value = batch[taken][2]
         /\ Taken(IF CallPhase = "done" THEN taken ELSE taken - 1)
EInv == Extending => IF pc = "idle" THEN Taken(IF Failed THEN taken - 1 ELSE taken)
                                    ELSE InSet

LEMMA EInvIsPrefix == EInv => ExtendsByPrefix
BY OverIs DEF EInv, Taken, ExtendsByPrefix

(* A step of a set in progress, as the refinement sees it.                 *)
LEMMA SetEffects ==
  ASSUME RInv, RInv', Step, pc \notin {"find", "shift", "none", "idle"}
  PROVE  \/ UNCHANGED <<Contents, CallPhase, arg>> /\ pc' \notin {"find", "shift", "none", "idle"}
         \/ /\ CallPhase = "pending" /\ IsPut(Contents', Contents, arg.key, arg.value)
            /\ \/ CallPhase' = "done" /\ arg' = arg /\ pc' \notin {"find", "shift", "none", "idle"}
               \/ pc' = "idle" /\ ret' = "OK"
         \/ CallPhase = "pending" /\ Contents' = Contents /\ pc' = "idle" /\ ret' = "OOM"
         \/ CallPhase = "done" /\ Contents' = Contents /\ pc' = "idle" /\ ret' = "OK"
<1>1. [Abstract!Next]_(Abstract!mapVars)
  BY StepRefines DEF Next
<1>2. arg.op = "set" /\ pc # "abort" /\ pc' # "abort"
  BY MapNow, MapNext DEF RInv, PInv, IInv, TypeOK
<1>3. pc' \notin {"find", "shift", "none"}
  BY DEF Step, InsertStep, InsertEmpty, InsertReplace, InsertSwap, InsertAdvance, InsertReturn,
         Carry, Inserting, Return, FindStep, FindMiss, FindNext, GetHit, Found, RemoveStep,
         RemoveHit, ShiftMove, ShiftDone, SetStep, NoGrow, Refused, Grow, RehashSkip,
         RehashOne, RehashDone, AllocKey, ValRefused, AllocVal
<1>4. CallPhase # "ready" /\ (pc' = "idle" <=> CallPhase' = "ready")
  BY <1>3 DEF CallPhase
<1>5. CASE UNCHANGED Abstract!mapVars
  <2>1. UNCHANGED <<Contents, CallPhase, arg>>
    BY <1>5 DEF Abstract!mapVars
  <2>2. QED
    BY <1>3, <1>4, <2>1
<1>6. CASE Abstract!Effect
  <2>1. CallPhase = "pending" /\ Abstract!SetEffect
        /\ ((CallPhase' = "done" /\ arg' = arg) \/ CallPhase' = "ready")
    BY <1>2, <1>6 DEF Abstract!Effect, Abstract!GetEffect, Abstract!RemoveEffect
  <2>2. CASE /\ [exists |-> pc # "none", at |-> Contents]'
                  = Abstract!Put([exists |-> pc # "none", at |-> Contents], arg.key, arg.value)
             /\ (IF CallPhase = "done" THEN "OK" ELSE ret)' = "OK"
    <3>1. Contents' = [x \in (DOMAIN Contents) \cup {arg.key} |->
                         IF x = arg.key THEN arg.value ELSE Contents[x]]
      BY <2>2 DEF Abstract!Put
    <3>2. IsPut(Contents', Contents, arg.key, arg.value)
      BY <3>1 DEF IsPut
    <3>3. CallPhase' = "ready" => ret' = "OK"
      BY <2>2
    <3>4. QED
      BY <1>3, <1>4, <2>1, <3>2, <3>3
  <2>3. CASE /\ UNCHANGED [exists |-> pc # "none", at |-> Contents]
             /\ (IF CallPhase = "done" THEN "OK" ELSE ret)' = "OOM"
    BY <1>4, <2>1, <2>3
  <2>4. QED
    BY <2>1, <2>2, <2>3 DEF Abstract!SetEffect
<1>7. CASE Abstract!Return
  <2>1. /\ CallPhase = "done" /\ CallPhase' = "ready" /\ Contents' = Contents
        /\ (IF CallPhase = "done" THEN "OK" ELSE ret)' = IF CallPhase = "done" THEN "OK" ELSE ret
    BY <1>7 DEF Abstract!Return
  <2>2. QED
    BY <1>4, <2>1
<1>8. CASE Abstract!Create \/ Abstract!Clear \/ Abstract!Destroy \/ Abstract!Invoke
  BY <1>4, <1>8 DEF Abstract!Create, Abstract!Clear, Abstract!Destroy, Abstract!Invoke
<1>9. QED
  BY <1>1, <1>5, <1>6, <1>7, <1>8 DEF Abstract!Next

LEMMA EInvStep ==
  ASSUME RInv, RInv', BatchOK, EInv, Extending, Step, UNCHANGED extend
  PROVE  EInv'
<1>1. InSet /\ UNCHANGED <<batch, taken, before, handed>> /\ taken \in Nat \ {0}
  BY StepStays DEF EInv, BatchOK, InSet, extend
<1>2. CASE UNCHANGED <<Contents, CallPhase, arg>> /\ pc' \notin {"find", "shift", "none", "idle"}
  BY <1>1, <1>2 DEF EInv, InSet, Taken
<1>3. ASSUME CallPhase = "pending", IsPut(Contents', Contents, arg.key, arg.value)
      PROVE  Contents' = OverBy(batch, before, taken)
  <2>1. Contents = OverBy(batch, before, taken - 1)
    BY <1>1, <1>3 DEF InSet, Taken
  <2>2. IsPut(OverBy(batch, before, taken), OverBy(batch, before, taken - 1),
              batch[taken][1], batch[taken][2])
    <3>1. taken - 1 \in Nat /\ (taken - 1) + 1 = taken
      BY <1>1
    <3>2. QED
      BY <3>1, OverPut
  <2>3. arg.key = batch[taken][1] /\ arg.value = batch[taken][2]
    BY <1>1 DEF InSet
  <2>4. QED
    BY <1>3, <2>1, <2>2, <2>3, PutUnique
<1>4. CASE /\ CallPhase = "pending" /\ IsPut(Contents', Contents, arg.key, arg.value)
           /\ CallPhase' = "done" /\ arg' = arg /\ pc' \notin {"find", "shift", "none", "idle"}
  BY <1>1, <1>3, <1>4 DEF EInv, InSet, Taken
<1>5. CASE /\ CallPhase = "pending" /\ IsPut(Contents', Contents, arg.key, arg.value)
           /\ pc' = "idle" /\ ret' = "OK"
  BY <1>1, <1>3, <1>5 DEF EInv, Taken, Failed
<1>6. CASE CallPhase = "pending" /\ Contents' = Contents /\ pc' = "idle" /\ ret' = "OOM"
  BY <1>1, <1>6 DEF EInv, InSet, Taken, Failed
<1>7. CASE CallPhase = "done" /\ Contents' = Contents /\ pc' = "idle" /\ ret' = "OK"
  BY <1>1, <1>7 DEF EInv, InSet, Taken, Failed
<1>8. QED
  BY <1>1, <1>2, <1>4, <1>5, <1>6, <1>7, SetEffects DEF InSet

(* The table as it was, and the same program counter or a call just made.  *)
LEMMA MapKept ==
  ASSUME RInv, RInv', UNCHANGED <<table, rehash, incoming>>,
         (pc = "idle" /\ pc' \in {"idle", "set"}) \/ UNCHANGED <<pc, arg>>
  PROVE  Contents' = Contents
<1>1. UNCHANGED <<buckets, cap, old_buckets, old_cap, i, incoming>>
  BY DEF table, rehash
<1>2. Carried' = Carried
  BY <1>1 DEF Carried, Inserting, FreshCarried
<1>3. QED
  BY <1>1, <1>2, HeldKept, MapNow, MapNext

LEMMA NextEInv == RInv /\ RInv' /\ BatchOK /\ EInv /\ [ExtendNext]_extVars => EInv'
<1> SUFFICES ASSUME RInv, RInv', BatchOK, EInv, [ExtendNext]_extVars, Extending' PROVE EInv'
  BY DEF EInv
<1>1. CASE Step /\ UNCHANGED extend
  BY <1>1, EInvStep DEF extend, Extending
<1>2. CASE ~Extending /\ UNCHANGED extend
  BY <1>2 DEF extend, Extending
<1>3. ASSUME NEW es \in Batches, ExtendCall(es) PROVE EInv'
  <2>1. /\ pc = "idle" /\ pc' = "idle" /\ taken' = 0 /\ before' = Contents
        /\ UNCHANGED <<table, rehash, incoming>>
    BY <1>3 DEF ExtendCall, Quiet, vars
  <2>2. Contents' = Contents
    BY <2>1, MapKept
  <2>3. Contents = [x \in DOMAIN Contents |-> Contents[x]]
    BY DEF Contents
  <2>4. OverBy(batch', Contents, 0) = Contents
    BY <2>3, OverNone
  <2>5. ~Failed'
    BY <2>1 DEF Failed
  <2>6. QED
    BY <2>1, <2>2, <2>4, <2>5 DEF EInv, Taken
<1>4. CASE ExtendInvalid \/ ExtendDone \/ ExtendFailed
  BY <1>4 DEF ExtendInvalid, ExtendDone, ExtendFailed, ExtendReturn, Extending
<1>5. CASE ExtendSet
  <2>1. /\ Extending /\ pc = "idle" /\ ~Failed /\ pc' = "set" /\ taken' = taken + 1
        /\ arg'.key = batch[taken + 1][1] /\ arg'.value = batch[taken + 1][2]
        /\ UNCHANGED <<batch, before>> /\ UNCHANGED <<table, rehash, incoming>>
    BY <1>5 DEF ExtendSet, GoesOn, SetCall, SetArg
  <2>2. Contents = OverBy(batch, before, taken)
    BY <2>1 DEF EInv, Taken
  <2>3. Contents' = Contents
    BY <2>1, MapKept
  <2>4. taken \in Nat
    BY DEF BatchOK
  <2>5. CallPhase' = "pending" /\ taken' - 1 = taken /\ taken' >= 1
    BY <2>1, <2>4 DEF CallPhase, FreshCarried
  <2>6. InSet'
    BY <2>1, <2>2, <2>3, <2>5 DEF InSet, Taken
  <2>7. QED
    BY <2>1, <2>6 DEF EInv
<1>6. CASE UNCHANGED extVars
  <2>1. UNCHANGED extend /\ UNCHANGED <<pc, arg, ret>> /\ UNCHANGED <<table, rehash, incoming>>
    BY <1>6 DEF extVars, vars
  <2>2. Contents' = Contents /\ CallPhase' = CallPhase
    BY <2>1, MapKept DEF CallPhase, FreshCarried
  <2>3. QED
    BY <2>1, <2>2 DEF EInv, InSet, Taken, Failed, Extending, extend
<1>7. QED
  BY <1>1, <1>2, <1>3, <1>4, <1>5, <1>6 DEF ExtendNext, ExtendTurn

(* Between two sets the map holds what it held when hashmap_extend was     *)
(* called, overwritten by the entries taken so far and by no other; when a *)
(* set is refused, by all but that one.  However it ends, an extend has    *)
(* added a prefix of what it was given.                                    *)
THEOREM ExtendCorrect == ExtendSpec => []ExtendsByPrefix
<1>1. ExtendInit => EInv
  BY DEF ExtendInit, EInv, Extending
<1>2. Spec => []RInv
  BY RefineInductive
<1>3. RInv /\ RInv' /\ BatchOK /\ EInv /\ [ExtendNext]_extVars => EInv'
  BY NextEInv
<1>4. QED
  BY <1>1, <1>2, <1>3, InitBatch, NextBatch, ExtendIsMap, EInvIsPrefix, PTL DEF ExtendSpec
=============================================================================
