------------------------------ MODULE VecProofs ------------------------------
(***************************************************************************)
(* Theorems of Vec, for every set of elements and every capacity: no slot  *)
(* out of bounds or unwritten is read, no block is lost, iterators keep    *)
(* the order, and vec_t and seqc_stack_t implement DequeSpec.              *)
(***************************************************************************)
EXTENDS DequeProofs, WellFoundedInduction, FiniteSetTheorems

VDeque == INSTANCE DequeSpec WITH items <- V!Items, exists <- Exists, feed <- Given,
            extending <- Feeding, result <- ret, Indices <- 0 .. MaxCap

-----------------------------------------------------------------------------
(* A set of numbers has a least, for the sets 0 .. x are finite and so     *)
(* well-ordered by inclusion.                                              *)
LEMMA Least ==
  ASSUME NEW T \in SUBSET Nat, T # {}
  PROVE  \E x \in T : \A y \in T : x <= y
<1> DEFINE R == StrictSubsetOrdering(Nat)
           F == {0 .. x : x \in T}
<1>1. IsWellFoundedOn(R, FiniteSubsetsOf(Nat))
  BY FS_StrictSubsetOrderingWellFounded
<1>2. F \subseteq FiniteSubsetsOf(Nat) /\ F # {}
  <2>1. ASSUME NEW x \in T PROVE 0 .. x \in FiniteSubsetsOf(Nat)
    <3>1. x \in Int /\ IsFiniteSet(0 .. x)
      BY FS_Interval
    <3>2. QED
      BY <3>1 DEF FiniteSubsetsOf
  <2>2. QED
    BY <2>1
<1> HIDE DEF R, F
<1>3. \E f \in F : \A g \in F : <<g, f>> \notin R
  BY <1>1, <1>2, WFMin
<1>4. PICK x \in T : \A y \in T : <<0 .. y, 0 .. x>> \notin R
  BY <1>3 DEF F
<1>5. ASSUME NEW y \in T PROVE ~(y < x)
  <2>1. SUFFICES ASSUME y < x PROVE <<0 .. y, 0 .. x>> \in R
    BY <1>4
  <2>2. 0 .. y \subseteq 0 .. x /\ x \in 0 .. x /\ x \notin 0 .. y
    BY <2>1
  <2>3. 0 .. y \in SUBSET Nat /\ 0 .. x \in SUBSET Nat
    OBVIOUS
  <2>4. QED
    BY <2>2, <2>3 DEF R, StrictSubsetOrdering
<1>6. QED
  BY <1>5

-----------------------------------------------------------------------------
(* Sequences changed at an index.                                          *)

AsInserted(s, l, i, e, r) ==
  \A n \in 1 .. l + 1 : r[n] = IF n < i THEN s[n] ELSE IF n = i THEN e ELSE s[n - 1]
AsRemoved(s, l, i, r) ==
  \A n \in 1 .. l - 1 : r[n] = IF n < i THEN s[n] ELSE s[n + 1]

LEMMA InsertedIs ==
  ASSUME NEW s \in Seq(Elems), NEW l \in Nat, Len(s) = l, NEW i \in 1 .. l + 1, NEW e \in Elems,
         NEW r, r = VDeque!InsertAt(s, i, e)
  PROVE  r \in Seq(Elems) /\ Len(r) = l + 1 /\ AsInserted(s, l, i, e, r)
<1> PICK a, b, m : a = SubSeq(s, 1, i - 1) /\ b = SubSeq(s, i, l) /\ m = a \o <<e>>
  OBVIOUS
<1>1. a \in Seq(Elems) /\ Len(a) = i - 1 /\ \A n \in 1 .. i - 1 : a[n] = s[n]
  <2>1. 1 \in Int /\ i - 1 \in Int /\ \A n \in 1 .. i - 1 : s[n] \in Elems
    BY ElementOfSeq
  <2>2. /\ a \in Seq(Elems) /\ Len(a) = IF 1 <= i - 1 THEN (i - 1) - 1 + 1 ELSE 0
        /\ \A n \in 1 .. (i - 1) - 1 + 1 : a[n] = s[1 + n - 1]
    BY <2>1, SubSeqProperties
  <2>3. QED
    BY <2>2
<1>2. b \in Seq(Elems) /\ Len(b) = l - i + 1 /\ \A n \in 1 .. l - i + 1 : b[n] = s[i + n - 1]
  <2>1. i \in Int /\ l \in Int /\ \A n \in i .. l : s[n] \in Elems
    BY ElementOfSeq
  <2>2. /\ b \in Seq(Elems) /\ Len(b) = IF i <= l THEN l - i + 1 ELSE 0
        /\ \A n \in 1 .. l - i + 1 : b[n] = s[i + n - 1]
    BY <2>1, SubSeqProperties
  <2>3. QED
    BY <2>2
<1>3. m \in Seq(Elems) /\ Len(m) = i /\ (\A n \in 1 .. i - 1 : m[n] = s[n]) /\ m[i] = e
  <2>1. m = Append(a, e)
    BY <1>1, AppendIsConcat
  <2>2. QED
    BY <1>1, <2>1, AppendProperties
<1>4. r = m \o b
  BY DEF VDeque!InsertAt
<1>5. /\ r \in Seq(Elems) /\ Len(r) = Len(m) + Len(b)
      /\ \A n \in 1 .. Len(m) + Len(b) : r[n] = IF n <= Len(m) THEN m[n] ELSE b[n - Len(m)]
  <2>1. m \in Seq(Elems) /\ b \in Seq(Elems) /\ r = m \o b
    BY <1>2, <1>3, <1>4
  <2>2. QED
    BY ONLY <2>1, ConcatProperties
<1>6. Len(m) + Len(b) = l + 1
  BY <1>2, <1>3
<1>7. ASSUME NEW n \in 1 .. l + 1
      PROVE  r[n] = IF n < i THEN s[n] ELSE IF n = i THEN e ELSE s[n - 1]
  <2>1. CASE n <= i
    BY <1>3, <1>5, <1>6, <2>1
  <2>2. CASE n > i
    <3>1. n - i \in 1 .. l - i + 1 /\ i + (n - i) - 1 = n - 1 /\ ~(n <= i)
      BY <2>2
    <3>2. r[n] = b[n - i]
      BY <1>3, <1>5, <1>6, <3>1
    <3>3. QED
      BY <1>2, <2>2, <3>1, <3>2
  <2>3. QED
    BY <2>1, <2>2
<1>8. QED
  BY <1>5, <1>6, <1>7 DEF AsInserted

LEMMA RemovedIs ==
  ASSUME NEW s \in Seq(Elems), NEW l \in Nat, Len(s) = l, NEW i \in 1 .. l,
         NEW r, r = VDeque!RemoveAt(s, i)
  PROVE  r \in Seq(Elems) /\ Len(r) = l - 1 /\ AsRemoved(s, l, i, r)
<1> PICK a, b : a = SubSeq(s, 1, i - 1) /\ b = SubSeq(s, i + 1, l)
  OBVIOUS
<1>1. a \in Seq(Elems) /\ Len(a) = i - 1 /\ \A n \in 1 .. i - 1 : a[n] = s[n]
  <2>1. 1 \in Int /\ i - 1 \in Int /\ \A n \in 1 .. i - 1 : s[n] \in Elems
    BY ElementOfSeq
  <2>2. /\ a \in Seq(Elems) /\ Len(a) = IF 1 <= i - 1 THEN (i - 1) - 1 + 1 ELSE 0
        /\ \A n \in 1 .. (i - 1) - 1 + 1 : a[n] = s[1 + n - 1]
    BY <2>1, SubSeqProperties
  <2>3. QED
    BY <2>2
<1>2. b \in Seq(Elems) /\ Len(b) = l - i /\ \A n \in 1 .. l - i : b[n] = s[i + n]
  <2>1. i + 1 \in Int /\ l \in Int /\ \A n \in i + 1 .. l : s[n] \in Elems
    BY ElementOfSeq
  <2>2. /\ b \in Seq(Elems) /\ Len(b) = IF i + 1 <= l THEN l - (i + 1) + 1 ELSE 0
        /\ \A n \in 1 .. l - (i + 1) + 1 : b[n] = s[(i + 1) + n - 1]
    BY <2>1, SubSeqProperties
  <2>3. l - (i + 1) + 1 = l - i /\ \A n \in 1 .. l - i : (i + 1) + n - 1 = i + n
    OBVIOUS
  <2>4. QED
    BY <2>2, <2>3
<1>3. r = a \o b
  BY DEF VDeque!RemoveAt
<1>4. /\ r \in Seq(Elems) /\ Len(r) = Len(a) + Len(b)
      /\ \A n \in 1 .. Len(a) + Len(b) : r[n] = IF n <= Len(a) THEN a[n] ELSE b[n - Len(a)]
  BY <1>1, <1>2, <1>3, ConcatProperties
<1>5. Len(a) + Len(b) = l - 1
  BY <1>1, <1>2
<1>6. ASSUME NEW n \in 1 .. l - 1 PROVE r[n] = IF n < i THEN s[n] ELSE s[n + 1]
  <2>1. CASE n < i
    BY <1>1, <1>4, <1>5, <2>1
  <2>2. CASE ~(n < i)
    <3>1. n - (i - 1) \in 1 .. l - i /\ i + (n - (i - 1)) = n + 1 /\ ~(n <= i - 1)
      BY <2>2
    <3>2. r[n] = b[n - (i - 1)]
      BY <1>1, <1>4, <1>5, <3>1
    <3>3. QED
      BY <1>2, <2>2, <3>1, <3>2
  <2>3. QED
    BY <2>1, <2>2
<1>7. QED
  BY <1>4, <1>5, <1>6 DEF AsRemoved

-----------------------------------------------------------------------------
(* An array of capacity c that holds l elements from slot 0 on.            *)

Front(d, l) == [n \in 1 .. l |-> d[n - 1]]

VShape(d, c, l) ==
  /\ c \in Nat /\ l \in 0 .. c
  /\ d \in [Slots(c) -> Elems \cup {Junk}]
  /\ Front(d, l) \in Seq(Elems)

Written(d, l, s) == Len(s) = l /\ \A n \in 1 .. l : d[n - 1] = s[n]

LEMMA FrontSeq ==
  ASSUME NEW d, NEW l \in Nat
  PROVE  /\ Len(Front(d, l)) = l /\ DOMAIN Front(d, l) = 1 .. l
         /\ \A n \in 1 .. l : Front(d, l)[n] = d[n - 1]
BY DEF Front

LEMMA FrontIs ==
  ASSUME NEW d, NEW l \in Nat, NEW s \in Seq(Elems), Written(d, l, s)
  PROVE  Front(d, l) = s
<1> DEFINE t == Front(d, l)
<1>1. t = [n \in 1 .. l |-> t[n]] /\ \A n \in 1 .. l : t[n] = s[n]
  BY DEF Front, Written
<1> HIDE DEF t
<1>2. QED
  BY <1>1, SeqIs DEF t, Written

LEMMA ShapeIs ==
  ASSUME NEW c \in Nat, NEW k \in 0 .. c, NEW d \in [Slots(c) -> Elems \cup {Junk}],
         NEW r \in Seq(Elems), Written(d, k, r)
  PROVE  VShape(d, c, k) /\ Front(d, k) = r
<1>1. k \in Nat
  OBVIOUS
<1>2. Front(d, k) = r
  BY <1>1, FrontIs
<1>3. QED
  BY <1>2 DEF VShape

(* What an array that is as it should be holds.                            *)
LEMMA ShapeHolds ==
  ASSUME NEW d, NEW c, NEW l, VShape(d, c, l)
  PROVE  /\ c \in Nat /\ l \in Nat /\ l <= c /\ d \in [Slots(c) -> Elems \cup {Junk}]
         /\ Front(d, l) \in Seq(Elems) /\ Len(Front(d, l)) = l /\ DOMAIN Front(d, l) = 1 .. l
         /\ \A n \in 1 .. l : Front(d, l)[n] = d[n - 1]
         /\ \A s \in 0 .. l - 1 : s \in Slots(c) /\ d[s] \in Elems /\ d[s] = Front(d, l)[s + 1]
<1>1. c \in Nat /\ l \in Nat /\ l <= c /\ d \in [Slots(c) -> Elems \cup {Junk}]
      /\ Front(d, l) \in Seq(Elems)
  BY DEF VShape
<1>2. /\ Len(Front(d, l)) = l /\ DOMAIN Front(d, l) = 1 .. l
      /\ \A n \in 1 .. l : Front(d, l)[n] = d[n - 1]
  BY <1>1, FrontSeq
<1>3. ASSUME NEW s \in 0 .. l - 1
      PROVE  s \in Slots(c) /\ d[s] \in Elems /\ d[s] = Front(d, l)[s + 1]
  <2>1. s + 1 \in 1 .. l /\ (s + 1) - 1 = s /\ s \in Slots(c)
    BY <1>1 DEF Slots
  <2>2. QED
    BY <1>1, <1>2, <2>1, ElementOfSeq
<1>4. QED
  BY <1>1, <1>2, <1>3

Put(d, i, e, d1) == d1 = [d EXCEPT ![i] = e]
(* A sort that puts at each slot in use what was at another one.           *)
Permuted(d, l, f, d1) ==
  /\ f \in [Slots(l) -> Slots(l)] /\ \A i, j \in Slots(l) : f[i] = f[j] => i = j
  /\ d1 = [s \in DOMAIN d |-> IF s < l THEN d[f[s]] ELSE d[s]]
Rearranged(s, l, r) ==
  \E g \in [1 .. l -> 1 .. l] : VDeque!IsInjective(g) /\ r = [n \in 1 .. l |-> s[g[n]]]

(* Written behind the last element.                                        *)
LEMMA FrontAppend ==
  ASSUME NEW d, NEW c, NEW l, VShape(d, c, l), l < c, NEW e \in Elems,
         NEW d1, Put(d, l, e, d1)
  PROVE  VShape(d1, c, l + 1) /\ Front(d1, l + 1) = Append(Front(d, l), e)
<1> PICK s, r : s = Front(d, l) /\ r = Append(s, e)
  OBVIOUS
<1>1. /\ c \in Nat /\ l \in Nat /\ d \in [Slots(c) -> Elems \cup {Junk}] /\ s \in Seq(Elems)
      /\ Len(s) = l /\ \A n \in 1 .. l : s[n] = d[n - 1]
  BY ShapeHolds
<1> PICK k \in 0 .. c : k = l + 1
  BY <1>1
<1>2. r \in Seq(Elems) /\ Len(r) = k /\ (\A n \in 1 .. l : r[n] = s[n]) /\ r[k] = e
  BY <1>1, AppendProperties
<1>3. l \in Slots(c) /\ d1 \in [Slots(c) -> Elems \cup {Junk}] /\ d1 = [d EXCEPT ![l] = e]
  BY <1>1 DEF Slots, Put
<1>4. ASSUME NEW n \in 1 .. k PROVE d1[n - 1] = r[n]
  <2>1. CASE n = k
    BY <1>1, <1>2, <1>3, <2>1
  <2>2. CASE n # k
    <3>1. n \in 1 .. l /\ n - 1 # l /\ n - 1 \in Slots(c)
      BY <1>1, <2>2 DEF Slots
    <3>2. QED
      BY <1>1, <1>2, <1>3, <3>1
  <2>3. QED
    BY <2>1, <2>2
<1>5. Written(d1, k, r)
  BY <1>2, <1>4 DEF Written
<1>6. VShape(d1, c, k) /\ Front(d1, k) = r
  <2>1. /\ c \in Nat /\ k \in 0 .. c /\ d1 \in [Slots(c) -> Elems \cup {Junk}] /\ r \in Seq(Elems)
        /\ Written(d1, k, r)
    BY <1>1, <1>2, <1>3, <1>5
  <2>2. QED
    BY ONLY <2>1, ShapeIs
<1>7. QED
  BY <1>6

(* Opened at i by moving the elements from i on one slot up.               *)
LEMMA FrontInsert ==
  ASSUME NEW d, NEW c, NEW l, VShape(d, c, l), l < c, NEW e \in Elems, NEW i \in 0 .. l,
         NEW d1, d1 = [V!Moved(d, i, i + 1, l - i) EXCEPT ![i] = e]
  PROVE  VShape(d1, c, l + 1) /\ Front(d1, l + 1) = VDeque!InsertAt(Front(d, l), i + 1, e)
<1> PICK s, r : s = Front(d, l) /\ r = VDeque!InsertAt(s, i + 1, e)
  OBVIOUS
<1>1. /\ c \in Nat /\ l \in Nat /\ d \in [Slots(c) -> Elems \cup {Junk}] /\ s \in Seq(Elems)
      /\ Len(s) = l /\ \A n \in 1 .. l : s[n] = d[n - 1]
  BY ShapeHolds
<1> PICK k \in 0 .. c : k = l + 1
  BY <1>1
<1> PICK j \in 1 .. k : j = i + 1
  BY <1>1
<1>2. /\ r \in Seq(Elems) /\ Len(r) = k
      /\ \A n \in 1 .. k : r[n] = IF n < j THEN s[n] ELSE IF n = j THEN e ELSE s[n - 1]
  <2>1. s \in Seq(Elems) /\ l \in Nat /\ Len(s) = l /\ j \in 1 .. l + 1 /\ r = VDeque!InsertAt(s, j, e)
    BY <1>1
  <2>2. r \in Seq(Elems) /\ Len(r) = l + 1 /\ AsInserted(s, l, j, e, r)
    BY ONLY <2>1, e \in Elems, InsertedIs
  <2>3. QED
    BY <2>2 DEF AsInserted
<1>3. i \in Slots(c) /\ j + (l - i) = k /\ \A t \in Slots(c) : t - j + i = t - 1
  BY <1>1 DEF Slots
<1> PICK m : m = V!Moved(d, i, j, l - i)
  OBVIOUS
<1>4. m = [t \in Slots(c) |-> IF j <= t /\ t < k THEN d[t - 1] ELSE d[t]]
  BY <1>1, <1>3 DEF V!Moved
<1>5. m \in [Slots(c) -> Elems \cup {Junk}]
  <2>1. ASSUME NEW t \in Slots(c), j <= t PROVE t - 1 \in Slots(c)
    BY <1>1, <2>1 DEF Slots
  <2>2. QED
    BY <1>1, <1>4, <2>1
<1>6. d1 = [m EXCEPT ![i] = e]
  OBVIOUS
<1>7. d1 \in [Slots(c) -> Elems \cup {Junk}] /\ d1[i] = e /\ \A t \in Slots(c) : t # i => d1[t] = m[t]
  BY <1>3, <1>5, <1>6
<1>8. ASSUME NEW n \in 1 .. k PROVE d1[n - 1] = r[n]
  <2>1. n - 1 \in Slots(c)
    BY <1>1 DEF Slots
  <2>2. CASE n = j
    BY <1>2, <1>7, <2>2
  <2>3. CASE n < j
    <3>1. n - 1 # i /\ ~(j <= n - 1) /\ n \in 1 .. l
      BY <1>1, <2>3
    <3>2. QED
      BY <1>1, <1>2, <1>4, <1>7, <2>1, <2>3, <3>1
  <2>4. CASE n > j
    <3>1. n - 1 # i /\ j <= n - 1 /\ n - 1 < k /\ n - 1 \in 1 .. l /\ ~(n < j) /\ n # j
      BY <1>1, <2>4
    <3>2. d1[n - 1] = d[(n - 1) - 1]
      BY <1>4, <1>7, <2>1, <3>1
    <3>3. QED
      BY <1>1, <1>2, <3>1, <3>2
  <2>5. QED
    BY <2>2, <2>3, <2>4
<1>9. Written(d1, k, r)
  BY <1>2, <1>8 DEF Written
<1>10. VShape(d1, c, k) /\ Front(d1, k) = r
  BY ONLY <1>1, <1>2, <1>7, <1>9, k \in 0 .. c, ShapeIs
<1>11. QED
  BY <1>10

(* Closed at i by moving the elements behind it one slot down.             *)
LEMMA FrontRemove ==
  ASSUME NEW d, NEW c, NEW l, VShape(d, c, l), NEW i \in 0 .. l - 1,
         NEW d1, d1 = V!Moved(d, i + 1, i, l - i - 1)
  PROVE  VShape(d1, c, l - 1) /\ Front(d1, l - 1) = VDeque!RemoveAt(Front(d, l), i + 1)
<1> PICK s, r : s = Front(d, l) /\ r = VDeque!RemoveAt(s, i + 1)
  OBVIOUS
<1>1. /\ c \in Nat /\ l \in Nat /\ l <= c /\ d \in [Slots(c) -> Elems \cup {Junk}] /\ s \in Seq(Elems)
      /\ Len(s) = l /\ \A n \in 1 .. l : s[n] = d[n - 1]
  BY ShapeHolds
<1> PICK k \in 0 .. c : k = l - 1
  BY <1>1
<1> PICK j \in 1 .. l : j = i + 1
  BY <1>1
<1>2. /\ r \in Seq(Elems) /\ Len(r) = k
      /\ \A n \in 1 .. k : r[n] = IF n < j THEN s[n] ELSE s[n + 1]
  <2>1. s \in Seq(Elems) /\ l \in Nat /\ Len(s) = l /\ j \in 1 .. l /\ r = VDeque!RemoveAt(s, j)
    BY <1>1
  <2>2. r \in Seq(Elems) /\ Len(r) = l - 1 /\ AsRemoved(s, l, j, r)
    BY ONLY <2>1, RemovedIs
  <2>3. QED
    BY <2>2 DEF AsRemoved
<1>3. i + (l - i - 1) = k /\ \A t \in Slots(c) : t - i + j = t + 1
  BY <1>1 DEF Slots
<1>4. d1 = [t \in Slots(c) |-> IF i <= t /\ t < k THEN d[t + 1] ELSE d[t]]
  BY <1>1, <1>3 DEF V!Moved
<1>5. d1 \in [Slots(c) -> Elems \cup {Junk}]
  <2>1. ASSUME NEW t \in Slots(c), t < k PROVE t + 1 \in Slots(c)
    BY <1>1, <2>1 DEF Slots
  <2>2. QED
    BY <1>1, <1>4, <2>1
<1>6. ASSUME NEW n \in 1 .. k PROVE d1[n - 1] = r[n]
  <2>1. n - 1 \in Slots(c) /\ n - 1 < k /\ n \in 1 .. l /\ n + 1 \in 1 .. l /\ (n + 1) - 1 = (n - 1) + 1
    BY <1>1 DEF Slots
  <2>2. CASE n < j
    <3>1. ~(i <= n - 1)
      BY <2>2
    <3>2. QED
      BY <1>1, <1>2, <1>4, <2>1, <2>2, <3>1
  <2>3. CASE ~(n < j)
    <3>1. i <= n - 1
      BY <2>3
    <3>2. d1[n - 1] = d[(n - 1) + 1]
      BY <1>4, <2>1, <3>1
    <3>3. QED
      BY <1>1, <1>2, <2>1, <2>3, <3>2
  <2>4. QED
    BY <2>2, <2>3
<1>7. Written(d1, k, r)
  BY <1>2, <1>6 DEF Written
<1>8. VShape(d1, c, k) /\ Front(d1, k) = r
  BY ONLY <1>1, <1>2, <1>5, <1>7, k \in 0 .. c, ShapeIs
<1>9. QED
  BY <1>8

(* Written over at i.  *)
LEMMA FrontSet ==
  ASSUME NEW d, NEW c, NEW l, VShape(d, c, l), NEW i \in 0 .. l - 1, NEW e \in Elems,
         NEW d1, Put(d, i, e, d1)
  PROVE  VShape(d1, c, l) /\ Front(d1, l) = VDeque!ReplaceAt(Front(d, l), i + 1, e)
<1> PICK s, r : s = Front(d, l) /\ r = VDeque!ReplaceAt(s, i + 1, e)
  OBVIOUS
<1>1. /\ c \in Nat /\ l \in 0 .. c /\ d \in [Slots(c) -> Elems \cup {Junk}] /\ s \in Seq(Elems)
      /\ Len(s) = l /\ \A n \in 1 .. l : s[n] = d[n - 1]
  BY ShapeHolds
<1> PICK j \in 1 .. l : j = i + 1
  BY <1>1
<1>2. r \in Seq(Elems) /\ Len(r) = l /\ \A n \in 1 .. l : r[n] = IF n = j THEN e ELSE s[n]
  <2>1. r = [s EXCEPT ![j] = e] /\ j \in 1 .. Len(s) /\ DOMAIN s = 1 .. l
    BY <1>1, LenProperties DEF VDeque!ReplaceAt
  <2>2. [s EXCEPT ![j] = e] \in Seq(Elems) /\ Len([s EXCEPT ![j] = e]) = Len(s)
    <3>1. s \in Seq(Elems) /\ j \in 1 .. Len(s) /\ e \in Elems
      BY <1>1, <2>1
    <3>2. QED
      BY ONLY <3>1, ExceptSeq
  <2>3. QED
    BY <1>1, <2>1, <2>2
<1>3. d1 \in [Slots(c) -> Elems \cup {Junk}] /\ i \in Slots(c) /\ d1 = [d EXCEPT ![i] = e]
  BY <1>1 DEF Slots, Put
<1>4. ASSUME NEW n \in 1 .. l PROVE d1[n - 1] = r[n]
  <2>1. n - 1 \in Slots(c) /\ (n = j <=> n - 1 = i)
    BY <1>1 DEF Slots
  <2>2. QED
    BY <1>1, <1>2, <1>3, <2>1
<1>5. Written(d1, l, r)
  BY <1>1, <1>2, <1>4 DEF Written
<1>6. VShape(d1, c, l) /\ Front(d1, l) = r
  BY ONLY <1>1, <1>2, <1>3, <1>5, ShapeIs
<1>7. QED
  BY <1>6

(* Cut off behind the first k.  *)
LEMMA FrontCut ==
  ASSUME NEW d, NEW c, NEW l, VShape(d, c, l), NEW k \in 0 .. l
  PROVE  VShape(d, c, k) /\ Front(d, k) = SubSeq(Front(d, l), 1, k)
<1> PICK s, r : s = Front(d, l) /\ r = SubSeq(s, 1, k)
  OBVIOUS
<1>1. /\ c \in Nat /\ l \in Nat /\ l <= c /\ d \in [Slots(c) -> Elems \cup {Junk}] /\ s \in Seq(Elems)
      /\ Len(s) = l /\ \A n \in 1 .. l : s[n] = d[n - 1]
  BY ShapeHolds
<1>2. r \in Seq(Elems) /\ Len(r) = k /\ \A n \in 1 .. k : r[n] = s[n]
  <2>1. 1 \in Int /\ k \in Int /\ \A n \in 1 .. k : s[n] \in Elems
    BY <1>1, ElementOfSeq
  <2>2. /\ r \in Seq(Elems) /\ Len(r) = IF 1 <= k THEN k - 1 + 1 ELSE 0
        /\ \A n \in 1 .. k - 1 + 1 : r[n] = s[1 + n - 1]
    BY <2>1, SubSeqProperties
  <2>3. QED
    BY <1>1, <2>2
<1>3. Written(d, k, r) /\ k \in 0 .. c
  BY <1>1, <1>2 DEF Written
<1>4. VShape(d, c, k) /\ Front(d, k) = r
  BY ONLY <1>1, <1>2, <1>3, ShapeIs
<1>5. QED
  BY <1>4

(* Rearranged.  *)
LEMMA FrontSort ==
  ASSUME NEW d, NEW c, NEW l, VShape(d, c, l), NEW f, NEW d1, Permuted(d, l, f, d1)
  PROVE  VShape(d1, c, l) /\ Rearranged(Front(d, l), l, Front(d1, l))
<1> USE DEF Permuted
<1> PICK s : s = Front(d, l)
  OBVIOUS
<1>1. /\ c \in Nat /\ l \in 0 .. c /\ d \in [Slots(c) -> Elems \cup {Junk}] /\ s \in Seq(Elems)
      /\ Len(s) = l /\ \A n \in 1 .. l : s[n] = d[n - 1]
  BY ShapeHolds
<1> DEFINE g == [n \in 1 .. l |-> f[n - 1] + 1]
           r == [n \in 1 .. l |-> s[g[n]]]
<1>2. ASSUME NEW n \in 1 .. l
      PROVE  /\ n - 1 \in Slots(l) /\ f[n - 1] \in Slots(l) /\ g[n] = f[n - 1] + 1
             /\ g[n] \in 1 .. l /\ g[n] - 1 = f[n - 1]
  <2>1. n - 1 \in Slots(l)
    BY <1>1 DEF Slots
  <2>2. f[n - 1] \in 0 .. l - 1
    BY <2>1 DEF Slots
  <2>3. QED
    BY <1>1, <2>1, <2>2 DEF Slots
<1>3. g \in [1 .. l -> 1 .. l]
  BY <1>2
<1>4. VDeque!IsInjective(g)
  <2>1. ASSUME NEW m \in 1 .. l, NEW n \in 1 .. l, g[m] = g[n] PROVE m = n
    <3>1. f[m - 1] = f[n - 1]
      BY <1>2, <2>1
    <3>2. m - 1 = n - 1
      BY <1>2, <3>1
    <3>3. QED
      BY <3>2
  <2>2. QED
    BY <2>1 DEF VDeque!IsInjective
<1>5. d1 \in [Slots(c) -> Elems \cup {Junk}]
  <2>1. ASSUME NEW t \in Slots(c), t < l PROVE f[t] \in Slots(c)
    <3>1. t \in Slots(l)
      BY <1>1, <2>1 DEF Slots
    <3>2. f[t] \in 0 .. l - 1
      BY <3>1 DEF Slots
    <3>3. QED
      BY <1>1, <3>2 DEF Slots
  <2>2. QED
    BY <1>1, <2>1
<1>6. ASSUME NEW n \in 1 .. l PROVE d1[n - 1] = r[n]
  <2>1. n - 1 \in Slots(c) /\ n - 1 < l
    BY <1>1 DEF Slots
  <2>2. d1[n - 1] = d[f[n - 1]]
    BY <1>1, <2>1
  <2>3. s[g[n]] = d[f[n - 1]]
    BY <1>1, <1>2
  <2>4. QED
    BY <2>2, <2>3
<1>7. r \in Seq(Elems) /\ Len(r) = l
  <2>1. \A n \in 1 .. l : s[g[n]] \in Elems
    BY <1>1, <1>2, ElementOfSeq
  <2>2. r \in [1 .. l -> Elems]
    BY <2>1
  <2>3. l \in Nat
    BY <1>1
  <2> HIDE DEF r
  <2>4. QED
    BY ONLY <2>2, <2>3
<1> HIDE DEF r, g
<1>8. Written(d1, l, r)
  BY <1>6, <1>7 DEF Written
<1>9. VShape(d1, c, l) /\ Front(d1, l) = r
  BY ONLY <1>1, <1>5, <1>7, <1>8, ShapeIs
<1>10. Front(d1, l) = [n \in 1 .. l |-> Front(d, l)[g[n]]]
  BY <1>9 DEF r
<1>11. QED
  BY ONLY <1>3, <1>4, <1>9, <1>10 DEF Rearranged

-----------------------------------------------------------------------------
(* What the calls of vec_t do to the array.                                *)

VecShape == VShape(data, cap, len)

LEMMA VItemsAre == V!Items = Front(data, len) /\ V!Items' = Front(data', len')
BY DEF V!Items, Front

LEMMA VSlotsAre == \A c : V!Slots(c) = Slots(c)
BY DEF V!Slots, Slots

LEMMA VItemsOf ==
  VecShape => /\ cap \in Nat /\ len \in Nat /\ len <= cap /\ data \in [Slots(cap) -> Elems \cup {Junk}]
              /\ V!Items \in Seq(Elems) /\ Len(V!Items) = len /\ DOMAIN V!Items = 1 .. len
              /\ \A s \in 0 .. len - 1 : data[s] = V!Items[s + 1] /\ data[s] \in Elems
<1> SUFFICES ASSUME VecShape
             PROVE  /\ cap \in Nat /\ len \in Nat /\ len <= cap
                    /\ data \in [Slots(cap) -> Elems \cup {Junk}]
                    /\ V!Items \in Seq(Elems) /\ Len(V!Items) = len /\ DOMAIN V!Items = 1 .. len
                    /\ \A s \in 0 .. len - 1 : data[s] = V!Items[s + 1] /\ data[s] \in Elems
  OBVIOUS
<1> PICK d, c, l : d = data /\ c = cap /\ l = len
  OBVIOUS
<1>1. VShape(d, c, l) /\ V!Items = Front(d, l)
  BY VItemsAre DEF VecShape
<1>2. QED
  BY <1>1, ShapeHolds

LEMMA VKept ==
  ASSUME VecShape, UNCHANGED V!vec
  PROVE  VecShape' /\ V!Items' = V!Items
BY VItemsAre DEF VecShape, V!vec

(* A larger buffer with what the smaller one held.                         *)
LEMMA Reallocated ==
  ASSUME VecShape, NEW c \in Nat, len <= c, NEW d, d = V!Realloc(data, c)
  PROVE  VShape(d, c, len) /\ Front(d, len) = V!Items
<1>1. /\ len \in Nat /\ len <= cap /\ data \in [Slots(cap) -> Elems \cup {Junk}]
      /\ V!Items \in Seq(Elems) /\ Len(V!Items) = len
      /\ \A s \in 0 .. len - 1 : data[s] = V!Items[s + 1]
  BY VItemsOf
<1> PICK l \in 0 .. c : l = len
  BY <1>1
<1>2. d = [s \in Slots(c) |-> IF s < l THEN data[s] ELSE Junk]
  BY VSlotsAre DEF V!Realloc
<1>3. d \in [Slots(c) -> Elems \cup {Junk}]
  <2>1. ASSUME NEW s \in Slots(c), s < l PROVE s \in Slots(cap)
    BY <1>1, <2>1, VItemsOf DEF Slots
  <2>2. QED
    BY <1>1, <1>2, <2>1
<1>4. ASSUME NEW n \in 1 .. l PROVE d[n - 1] = V!Items[n]
  <2>1. n - 1 \in 0 .. len - 1 /\ (n - 1) + 1 = n /\ n - 1 \in Slots(c) /\ n - 1 < l
    BY <1>1 DEF Slots
  <2>2. QED
    BY <1>1, <1>2, <2>1
<1>5. Written(d, l, V!Items)
  BY <1>1, <1>4 DEF Written
<1> PICK s \in Seq(Elems) : s = V!Items
  BY <1>1
<1>6. VShape(d, c, l) /\ Front(d, l) = s
  BY ONLY <1>3, <1>5, c \in Nat, l \in 0 .. c, s \in Seq(Elems), s = V!Items, ShapeIs
<1>7. QED
  BY <1>6

(* The room a push or an insert finds or makes holds what the array held.  *)
LEMMA VSpace ==
  ASSUME VecShape, NEW g \in V!Space
  PROVE  /\ VShape(g.data, g.cap, len) /\ Front(g.data, len) = V!Items /\ len < g.cap
         /\ g.cap \in Nat \ {0}
<1>1. cap \in Nat /\ len \in Nat /\ len <= cap
  BY VItemsOf
<1>2. CASE ~V!Full
  <2>1. g.data = data /\ g.cap = cap
    BY <1>2 DEF V!Space
  <2>2. len < cap /\ cap # 0
    BY <1>1, <1>2 DEF V!Full
  <2>3. QED
    BY <1>1, <2>1, <2>2, VItemsAre DEF VecShape
<1>3. CASE V!Full
  <2>1. g.data = V!Realloc(data, V!NewCap) /\ g.cap = V!NewCap
    BY <1>3 DEF V!Space
  <2>2. V!NewCap \in Nat \ {0} /\ len < V!NewCap
    BY <1>1, <1>3, RingBufAssumption DEF V!NewCap, V!Full
  <2> PICK d, c : d = g.data /\ c = g.cap
    OBVIOUS
  <2>3. VShape(d, c, len) /\ Front(d, len) = V!Items
    <3>1. c \in Nat /\ len <= c /\ d = V!Realloc(data, c)
      BY <1>1, <2>1, <2>2
    <3>2. QED
      BY <3>1, Reallocated
  <2>4. QED
    BY <2>1, <2>2, <2>3
<1>4. QED
  BY <1>2, <1>3

LEMMA VPushed ==
  ASSUME VecShape, NEW e \in Elems, V!Pushed(e)
  PROVE  /\ VecShape' /\ V!Items' = Append(V!Items, e) /\ cap' # 0
         /\ blocks' = blocks + (IF cap = 0 THEN 1 ELSE 0)
<1> PICK g \in V!Space : /\ data' = [g.data EXCEPT ![len] = e]
                         /\ cap' = g.cap /\ len' = len + 1
                         /\ blocks' = IF cap = 0 THEN blocks + 1 ELSE blocks
  BY DEF V!Pushed, V!Stored
<1> PICK d, c, l, d1 : d = g.data /\ c = g.cap /\ l = len /\ d1 = data'
  OBVIOUS
<1>1. VShape(d, c, l) /\ Front(d, l) = V!Items /\ l < c /\ c # 0 /\ Put(d, l, e, d1)
  BY VSpace DEF Put
<1>2. VShape(d1, c, l + 1) /\ Front(d1, l + 1) = Append(Front(d, l), e)
  BY ONLY <1>1, e \in Elems, FrontAppend
<1>3. VecShape' /\ V!Items' = Append(V!Items, e)
  BY <1>1, <1>2, VItemsAre DEF VecShape
<1>4. QED
  BY <1>1, <1>3

LEMMA VInserted ==
  ASSUME VecShape, NEW e \in Elems, NEW i \in 0 .. len, V!Inserted(i, e)
  PROVE  /\ VecShape' /\ V!Items' = VDeque!InsertAt(V!Items, i + 1, e) /\ cap' # 0
         /\ blocks' = blocks + (IF cap = 0 THEN 1 ELSE 0)
<1> PICK g \in V!Space : /\ data' = [V!Moved(g.data, i, i + 1, len - i) EXCEPT ![i] = e]
                         /\ cap' = g.cap /\ len' = len + 1
                         /\ blocks' = IF cap = 0 THEN blocks + 1 ELSE blocks
  BY DEF V!Inserted, V!Stored
<1> PICK d, c, l, d1 : d = g.data /\ c = g.cap /\ l = len /\ d1 = data'
  OBVIOUS
<1>1. /\ VShape(d, c, l) /\ Front(d, l) = V!Items /\ l < c /\ c # 0 /\ i \in 0 .. l
      /\ d1 = [V!Moved(d, i, i + 1, l - i) EXCEPT ![i] = e]
  BY VSpace
<1>2. VShape(d1, c, l + 1) /\ Front(d1, l + 1) = VDeque!InsertAt(Front(d, l), i + 1, e)
  BY ONLY <1>1, e \in Elems, FrontInsert
<1>3. VecShape' /\ V!Items' = VDeque!InsertAt(V!Items, i + 1, e)
  BY <1>1, <1>2, VItemsAre DEF VecShape
<1>4. QED
  BY <1>1, <1>3

LEMMA VPopped ==
  ASSUME VecShape, V!Pop, len # 0
  PROVE  /\ VecShape' /\ V!Items # <<>> /\ ret' = V!Items[Len(V!Items)] /\ ret' \in Elems
         /\ V!Items' = SubSeq(V!Items, 1, Len(V!Items) - 1)
<1>1. UNCHANGED <<data, cap>> /\ len' = len - 1 /\ ret' = data[len - 1]
  BY DEF V!Pop, V!Changed
<1>2. /\ len \in Nat /\ Len(V!Items) = len
      /\ \A s \in 0 .. len - 1 : data[s] = V!Items[s + 1] /\ data[s] \in Elems
  BY VItemsOf
<1> PICK d, c, l, k : d = data /\ c = cap /\ l = len /\ k = len - 1
  OBVIOUS
<1>3. VShape(d, c, l) /\ k \in 0 .. l /\ V!Items = Front(d, l)
  BY <1>2, VItemsAre DEF VecShape
<1>4. VShape(d, c, k) /\ Front(d, k) = SubSeq(Front(d, l), 1, k)
  BY ONLY <1>3, FrontCut
<1>5. VecShape' /\ V!Items' = SubSeq(V!Items, 1, Len(V!Items) - 1)
  BY <1>1, <1>2, <1>3, <1>4, VItemsAre DEF VecShape
<1>6. len - 1 \in 0 .. len - 1 /\ (len - 1) + 1 = len
  BY <1>2
<1>7. QED
  BY <1>1, <1>2, <1>5, <1>6

LEMMA VTruncated ==
  ASSUME VecShape, NEW k \in 0 .. len, len' = k, UNCHANGED <<data, cap>>
  PROVE  VecShape' /\ V!Items' = SubSeq(V!Items, 1, k)
<1> PICK d, c, l : d = data /\ c = cap /\ l = len
  OBVIOUS
<1>1. VShape(d, c, l) /\ k \in 0 .. l /\ V!Items = Front(d, l)
  BY VItemsAre DEF VecShape
<1>2. VShape(d, c, k) /\ Front(d, k) = SubSeq(Front(d, l), 1, k)
  BY ONLY <1>1, FrontCut
<1>3. QED
  BY <1>1, <1>2, VItemsAre DEF VecShape

LEMMA VRemoved ==
  ASSUME VecShape, NEW i \in 0 .. len - 1, V!Remove(i)
  PROVE  VecShape' /\ V!Items' = VDeque!RemoveAt(V!Items, i + 1)
<1>1. UNCHANGED cap /\ len' = len - 1 /\ data' = V!Moved(data, i + 1, i, len - i - 1)
  BY VItemsOf DEF V!Remove, V!Changed
<1> PICK d, c, l, d1 : d = data /\ c = cap /\ l = len /\ d1 = data'
  OBVIOUS
<1>2. /\ VShape(d, c, l) /\ i \in 0 .. l - 1 /\ V!Items = Front(d, l)
      /\ d1 = V!Moved(d, i + 1, i, l - i - 1)
  BY <1>1, VItemsAre DEF VecShape
<1>3. VShape(d1, c, l - 1) /\ Front(d1, l - 1) = VDeque!RemoveAt(Front(d, l), i + 1)
  BY ONLY <1>2, FrontRemove
<1>4. QED
  BY <1>1, <1>2, <1>3, VItemsAre DEF VecShape

LEMMA VOverwritten ==
  ASSUME VecShape, NEW i \in 0 .. len - 1, NEW e \in Elems, V!SetAt(i, e)
  PROVE  VecShape' /\ V!Items' = VDeque!ReplaceAt(V!Items, i + 1, e)
<1>1. UNCHANGED <<cap, len>> /\ data' = [data EXCEPT ![i] = e]
  BY VItemsOf DEF V!SetAt, V!Changed
<1> PICK d, c, l, d1 : d = data /\ c = cap /\ l = len /\ d1 = data'
  OBVIOUS
<1>2. VShape(d, c, l) /\ i \in 0 .. l - 1 /\ V!Items = Front(d, l) /\ Put(d, i, e, d1)
  BY <1>1, VItemsAre DEF VecShape, Put
<1>3. VShape(d1, c, l) /\ Front(d1, l) = VDeque!ReplaceAt(Front(d, l), i + 1, e)
  BY ONLY <1>2, e \in Elems, FrontSet
<1>4. QED
  BY <1>1, <1>2, <1>3, VItemsAre DEF VecShape

LEMMA VSorted ==
  ASSUME VecShape, V!Sort
  PROVE  VecShape' /\ Rearranged(V!Items, len, V!Items')
<1>1. UNCHANGED <<cap, len>>
  BY DEF V!Sort, V!Changed
<1> PICK d, c, l, d1 : d = data /\ c = cap /\ l = len /\ d1 = data'
  OBVIOUS
<1>2. PICK f : Permuted(d, l, f, d1)
  BY VSlotsAre DEF V!Sort, Permuted
<1>3. VShape(d, c, l) /\ V!Items = Front(d, l)
  BY VItemsAre DEF VecShape
<1>4. VShape(d1, c, l) /\ Rearranged(Front(d, l), l, Front(d1, l))
  BY ONLY <1>2, <1>3, FrontSort
<1>5. V!Items' = Front(d1, l) /\ VecShape'
  BY <1>1, <1>4, VItemsAre DEF VecShape
<1>6. QED
  BY <1>3, <1>4, <1>5

(* A buffer of its own, before anything is in it, or no more.              *)
LEMMA VEmptied ==
  ASSUME VecShape, V!CreateWithCap \/ V!Destroy \/ V!Clear, pc = "none" => cap = 0
  PROVE  VecShape' /\ V!Items' = <<>>
<1>1. cap \in Nat /\ len \in Nat /\ len <= cap /\ data \in [Slots(cap) -> Elems \cup {Junk}]
  BY VItemsOf
<1>2. len' = 0 /\ cap' \in Nat /\ data' \in [Slots(cap') -> Elems \cup {Junk}]
  <2>1. CASE V!CreateWithCap
    <3>1. len = 0
      BY <1>1, <2>1 DEF V!CreateWithCap
    <3>2. CASE UNCHANGED <<data, cap>>
      BY <1>1, <2>1, <3>1, <3>2 DEF V!CreateWithCap
    <3>3. CASE \E c \in 1 .. MaxCap : cap' = c /\ data' = [s \in V!Slots(c) |-> Junk]
      <4> PICK c \in 1 .. MaxCap : cap' = c /\ data' = [s \in V!Slots(c) |-> Junk]
        BY <3>3
      <4>1. c \in Nat /\ data' = [s \in Slots(c) |-> Junk]
        BY VSlotsAre, RingBufAssumption
      <4>2. QED
        BY <2>1, <3>1, <4>1 DEF V!CreateWithCap
    <3>4. QED
      BY <2>1, <3>2, <3>3 DEF V!CreateWithCap
  <2>2. CASE V!Destroy
    BY <2>2 DEF V!Destroy, V!NoData, V!Slots, Slots
  <2>3. CASE V!Clear
    BY <1>1, <2>3 DEF V!Clear, V!Changed
  <2>4. QED
    BY <2>1, <2>2, <2>3
<1> PICK d, c : d = data' /\ c = cap'
  OBVIOUS
<1>3. c \in Nat /\ 0 \in 0 .. c /\ d \in [Slots(c) -> Elems \cup {Junk}]
  BY <1>2
<1>4. <<>> \in Seq(Elems) /\ Written(d, 0, <<>>)
  BY DEF Written
<1>5. VShape(d, c, 0) /\ Front(d, 0) = <<>>
  BY ONLY <1>3, <1>4, ShapeIs
<1>6. QED
  BY <1>2, <1>5, VItemsAre DEF VecShape

LEMMA VReserved ==
  ASSUME VecShape, blocks \in Int, NEW c \in 0 .. MaxCap, V!Reserve(c)
  PROVE  /\ VecShape' /\ V!Items' = V!Items
         /\ blocks' = blocks + (IF cap = 0 /\ cap' # 0 THEN 1 ELSE 0) /\ (cap # 0 => cap' # 0)
<1>1. cap \in Nat /\ len \in Nat /\ len <= cap /\ UNCHANGED len /\ c \in Nat
  BY VItemsOf, RingBufAssumption DEF V!Reserve
<1>2. CASE UNCHANGED <<data, cap, blocks>>
  BY <1>1, <1>2, VKept DEF V!vec
<1>3. CASE /\ c > cap /\ data' = V!Realloc(data, c) /\ cap' = c
           /\ blocks' = IF cap = 0 THEN blocks + 1 ELSE blocks
  <2> PICK d : d = data' /\ d = V!Realloc(data, c)
    BY <1>3
  <2>1. len <= c /\ c # 0
    BY <1>1, <1>3
  <2>2. VShape(d, c, len) /\ Front(d, len) = V!Items
    BY <1>1, <2>1, Reallocated
  <2>3. QED
    BY <1>1, <1>3, <2>1, <2>2, VItemsAre DEF VecShape
<1>4. QED
  BY <1>2, <1>3 DEF V!Reserve

(* The calls by index, with one that is past the end.                      *)
LEMMA VIndexed ==
  ASSUME VecShape, NEW i \in Nat
  PROVE  /\ V!Remove(i) =>
              /\ VecShape' /\ UNCHANGED <<cap, blocks>>
              /\ V!Items' = IF i < len THEN VDeque!RemoveAt(V!Items, i + 1) ELSE V!Items
         /\ \A e \in Elems : V!SetAt(i, e) =>
              /\ VecShape' /\ UNCHANGED <<cap, blocks>>
              /\ V!Items' = IF i < len THEN VDeque!ReplaceAt(V!Items, i + 1, e) ELSE V!Items
         /\ V!Truncate(i) =>
              /\ VecShape' /\ UNCHANGED <<cap, blocks>>
              /\ V!Items' = SubSeq(V!Items, 1, IF i < len THEN i ELSE len)
<1>1. len \in Nat /\ (i < len => i \in 0 .. len - 1)
  BY VItemsOf
<1>2. ASSUME V!Remove(i)
      PROVE  /\ VecShape' /\ UNCHANGED <<cap, blocks>>
             /\ V!Items' = IF i < len THEN VDeque!RemoveAt(V!Items, i + 1) ELSE V!Items
  <2>1. UNCHANGED <<cap, blocks>>
    BY <1>2 DEF V!Remove, V!Changed
  <2>2. CASE i < len
    BY <1>1, <1>2, <2>1, <2>2, VRemoved
  <2>3. CASE ~(i < len)
    <3>1. UNCHANGED V!vec
      BY <1>2, <2>3 DEF V!Remove, V!Changed, V!vec
    <3>2. QED
      BY <2>1, <2>3, <3>1, VKept
  <2>4. QED
    BY <2>2, <2>3
<1>3. ASSUME NEW e \in Elems, V!SetAt(i, e)
      PROVE  /\ VecShape' /\ UNCHANGED <<cap, blocks>>
             /\ V!Items' = IF i < len THEN VDeque!ReplaceAt(V!Items, i + 1, e) ELSE V!Items
  <2>1. UNCHANGED <<cap, blocks>>
    BY <1>3 DEF V!SetAt, V!Changed
  <2>2. CASE i < len
    BY <1>1, <1>3, <2>1, <2>2, VOverwritten
  <2>3. CASE ~(i < len)
    <3>1. UNCHANGED V!vec
      BY <1>3, <2>3 DEF V!SetAt, V!Changed, V!vec
    <3>2. QED
      BY <2>1, <2>3, <3>1, VKept
  <2>4. QED
    BY <2>2, <2>3
<1>4. ASSUME V!Truncate(i)
      PROVE  /\ VecShape' /\ UNCHANGED <<cap, blocks>>
             /\ V!Items' = SubSeq(V!Items, 1, IF i < len THEN i ELSE len)
  <2> PICK k : k = IF i < len THEN i ELSE len
    OBVIOUS
  <2>1. len' = k /\ UNCHANGED <<data, cap, blocks>>
    BY <1>4 DEF V!Truncate, V!Changed
  <2>2. k \in 0 .. len
    BY <1>1
  <2>3. QED
    BY <2>1, <2>2, VTruncated
<1>5. QED
  BY <1>2, <1>3, <1>4

(* Every other step leaves the array alone.                                *)
LEMMA VStep ==
  ASSUME [V!Next]_(V!vars)
  PROVE  \/ UNCHANGED V!vec
         \/ V!CreateWithCap \/ V!Destroy \/ V!Clear \/ V!Sort
         \/ V!Pop /\ len # 0
         \/ \E e \in Elems : V!Push(e)
         \/ \E i \in 0 .. MaxCap : V!Remove(i) \/ V!Truncate(i) \/ V!Reserve(i)
         \/ \E i \in 0 .. MaxCap : \E e \in Elems : V!SetAt(i, e)
         \/ \E i \in 0 .. MaxCap : \E e \in Elems : i <= len /\ V!Insert(i, e)
         \/ V!FeedOne(V!Pushed(Head(feed))) /\ UNCHANGED it
<1>1. CASE UNCHANGED V!vars
  BY <1>1 DEF V!vars
<1>2. CASE V!Create \/ V!Peek \/ V!GrowRefused \/ V!IterNext \/ V!IterDrop
           \/ (\E i \in 0 .. MaxCap : V!Get(i)) \/ (\E P \in SUBSET Elems : V!Find(P))
           \/ \E fwd \in BOOLEAN : V!IterOpen(fwd)
  BY <1>2 DEF V!Create, V!Peek, V!Get, V!Find, V!Looked, V!GrowRefused, V!IterOpen, V!IterNext,
     V!IterDrop
<1>3. CASE V!ExtendStart \/ V!ExtendStep
  BY <1>3 DEF V!ExtendStart, V!ExtendStep
<1>4. CASE V!Pop /\ len = 0
  BY <1>4 DEF V!Pop, V!Changed, V!vec
<1>5. ASSUME NEW i \in 0 .. MaxCap, NEW e \in Elems, V!Insert(i, e), ~(i <= len)
      PROVE  UNCHANGED V!vec
  BY <1>5 DEF V!Insert
<1>6. QED
  BY <1>1, <1>2, <1>3, <1>4, <1>5 DEF V!Next, V!Call, V!CallAt, V!InsertRefused, V!Iterate

-----------------------------------------------------------------------------
(* The invariant of vec_t and seqc_stack_t.                                *)

VIterators == [on : BOOLEAN, fwd : BOOLEAN, len : Nat, pos : Nat, seen : Seq(Elems)]

VStanding ==
  /\ it.on => pc = "idle"
  /\ pc = "none" => cap = 0
  /\ pc = "extend" => feed \in Sources

VInv ==
  /\ VecShape /\ V!TypeOK /\ it \in VIterators /\ blocks \in Int
  /\ VStanding /\ V!NothingLeaks /\ V!IterInOrder

LEMMA InitV == V!Init => VInv
<1> SUFFICES ASSUME V!Init PROVE VInv
  OBVIOUS
<1>1. /\ kind \in {"vec", "stack"} /\ cap = 0 /\ len = 0
      /\ data \in [Slots(0) -> Elems \cup {Junk}] /\ it = V!NoIter
      /\ pc = "none" /\ feed = <<>> /\ ret = Nil /\ blocks = 0
  BY DEF V!Init, V!NoData, V!Slots, Slots
<1>2. <<>> \in Seq(Elems)
  OBVIOUS
<1>3. VecShape
  <2> PICK d : d = data
    OBVIOUS
  <2>1. Written(d, 0, <<>>) /\ 0 \in 0 .. 0 /\ 0 \in Nat /\ d \in [Slots(0) -> Elems \cup {Junk}]
    BY <1>1 DEF Written
  <2>2. VShape(d, 0, 0)
    BY ONLY <1>2, <2>1, ShapeIs
  <2>3. QED
    BY <1>1, <2>2 DEF VecShape
<1>4. V!TypeOK
  BY <1>1, <1>2 DEF V!TypeOK, V!NoIter, V!Slots, Slots
<1>5. it \in VIterators
  BY <1>1, <1>2 DEF VIterators, V!NoIter
<1>6. VStanding /\ V!NothingLeaks /\ V!IterInOrder
  BY <1>1 DEF VStanding, V!NothingLeaks, V!IterInOrder, V!NoIter, V!ExtendBlocks
<1>7. QED
  BY <1>1, <1>3, <1>4, <1>5, <1>6 DEF VInv

LEMMA VShapeKept ==
  ASSUME VInv, [V!Next]_(V!vars)
  PROVE  VecShape'
<1>1. VecShape /\ blocks \in Int /\ (pc = "none" => cap = 0) /\ len \in Nat
      /\ \A i \in 0 .. MaxCap : i \in Nat
  BY VItemsOf, RingBufAssumption DEF VInv, VStanding
<1>2. CASE UNCHANGED V!vec
  BY <1>1, <1>2, VKept
<1>3. CASE V!CreateWithCap \/ V!Destroy \/ V!Clear
  BY <1>1, <1>3, VEmptied
<1>4. CASE V!Sort
  BY <1>1, <1>4, VSorted
<1>5. CASE V!Pop /\ len # 0
  BY <1>1, <1>5, VPopped
<1>6. ASSUME NEW e \in Elems, V!Push(e) PROVE VecShape'
  BY <1>1, <1>6, VPushed DEF V!Push
<1>7. ASSUME NEW i \in 0 .. MaxCap, V!Remove(i) \/ V!Truncate(i) \/ \E e \in Elems : V!SetAt(i, e)
      PROVE  VecShape'
  BY <1>1, <1>7, VIndexed
<1>8. ASSUME NEW i \in 0 .. MaxCap, V!Reserve(i) PROVE VecShape'
  BY <1>1, <1>8, VReserved
<1>9. ASSUME NEW i \in 0 .. MaxCap, NEW e \in Elems, i <= len, V!Insert(i, e) PROVE VecShape'
  <2>1. V!Inserted(i, e) /\ i \in 0 .. len
    BY <1>1, <1>9 DEF V!Insert
  <2>2. QED
    BY <1>1, <2>1, VInserted
<1>10. CASE V!FeedOne(V!Pushed(Head(feed))) /\ UNCHANGED it
  <2>1. feed # <<>> /\ feed \in Seq(Elems) /\ V!Pushed(Head(feed))
    BY <1>10 DEF V!FeedOne, VInv, V!TypeOK
  <2>2. Head(feed) \in Elems
    BY <2>1, HeadTailProperties
  <2>3. QED
    BY <1>1, <2>1, <2>2, VPushed
<1>11. QED
  BY <1>2, <1>3, <1>4, <1>5, <1>6, <1>7, <1>8, <1>9, <1>10, VStep

(* While an iterator is open the array stays as it is.                     *)
LEMMA VNoChangeUnderIter ==
  ASSUME VInv, [V!Next]_(V!vars), it.on \/ it'.on
  PROVE  UNCHANGED V!vec
<1>1. it.on => pc = "idle"
  BY DEF VInv, VStanding
<1>2. CASE it.on
  <2>1. pc = "idle" /\ it.on
    BY <1>1, <1>2
  <2>2. QED
    BY <2>1, VStep DEF V!Push, V!Pop, V!CreateWithCap, V!Destroy, V!Clear, V!Sort, V!Remove,
       V!Truncate, V!Reserve, V!SetAt, V!Insert, V!Quiet, V!VecOnly, V!FeedOne
<1>3. CASE ~it.on
  <2>1. it' # it
    BY <1>3
  <2>2. QED
    BY <2>1, VStep DEF V!Push, V!Pop, V!CreateWithCap, V!Destroy, V!Clear, V!Sort, V!Remove,
       V!Truncate, V!Reserve, V!SetAt, V!Insert, V!Changed
<1>4. QED
  BY <1>2, <1>3

(* The calls between extends that an open iterator does not forbid by      *)
(* name: what they leave alone, whatever they do to the array.             *)
VCalls ==
  \/ V!Clear \/ V!Pop \/ V!Peek \/ V!Sort \/ V!GrowRefused
  \/ \E e \in Elems : V!Push(e)
  \/ \E i \in 0 .. MaxCap : \/ V!Get(i) \/ V!Remove(i) \/ V!Truncate(i) \/ V!Reserve(i)
                            \/ \E e \in Elems : V!Insert(i, e) \/ V!SetAt(i, e)
  \/ \E P \in SUBSET Elems : V!Find(P)

LEMMA VNext ==
  ASSUME [V!Next]_(V!vars)
  PROVE  \/ UNCHANGED V!vars \/ VCalls \/ V!Create \/ V!CreateWithCap \/ V!Destroy
         \/ (\E fwd \in BOOLEAN : V!IterOpen(fwd)) \/ V!IterNext \/ V!IterDrop
         \/ V!ExtendStart \/ V!ExtendStep
BY DEF V!Next, V!Call, V!CallAt, V!InsertRefused, V!Iterate, VCalls

LEMMA VCallsLeave ==
  ASSUME VCalls
  PROVE  pc = "idle" /\ UNCHANGED <<kind, it, pc, feed>>
<1>1. CASE V!Clear \/ V!Pop \/ V!Peek \/ V!Sort \/ V!GrowRefused \/ \E e \in Elems : V!Push(e)
  BY <1>1 DEF V!Clear, V!Pop, V!Peek, V!Sort, V!GrowRefused, V!Push, V!Changed, V!Looked, V!Quiet,
     V!VecOnly
<1>2. CASE \E i \in 0 .. MaxCap : \/ V!Get(i) \/ V!Remove(i) \/ V!Truncate(i) \/ V!Reserve(i)
                                  \/ \E e \in Elems : V!Insert(i, e) \/ V!SetAt(i, e)
  BY <1>2 DEF V!Get, V!Remove, V!Truncate, V!Reserve, V!Insert, V!SetAt, V!Changed, V!Looked, V!Quiet,
     V!VecOnly
<1>3. CASE \E P \in SUBSET Elems : V!Find(P)
  BY <1>3 DEF V!Find, V!Looked
<1>4. QED
  BY <1>1, <1>2, <1>3 DEF VCalls

LEMMA VStandingKept ==
  ASSUME VInv, [V!Next]_(V!vars)
  PROVE  VStanding'
<1>1. VStanding
  BY DEF VInv
<1>2. CASE UNCHANGED V!vars
  BY <1>1, <1>2 DEF V!vars, V!vec, VStanding
<1>3. CASE VCalls
  BY <1>1, <1>3, VCallsLeave DEF VStanding
<1>4. CASE V!Create \/ V!CreateWithCap \/ V!Destroy
  BY <1>1, <1>4 DEF VStanding, V!Create, V!CreateWithCap, V!Destroy, V!Quiet, V!vec
<1>5. CASE (\E fwd \in BOOLEAN : V!IterOpen(fwd)) \/ V!IterNext \/ V!IterDrop
  BY <1>1, <1>5 DEF VStanding, V!IterOpen, V!IterNext, V!IterDrop, V!NoIter, V!Quiet, V!vec
<1>6. CASE V!ExtendStart
  BY <1>1, <1>6 DEF VStanding, V!ExtendStart, V!ExtendCall
<1>7. CASE V!ExtendStep
  BY <1>1, <1>7 DEF VStanding, V!ExtendStep, V!ExtendRefused, V!ExtendScratch, V!FeedOne, V!FeedRefused,
     V!FeedDone, V!FeedEnd
<1>8. QED
  BY <1>2, <1>3, <1>4, <1>5, <1>6, <1>7, VNext

(* A call that stores frees nothing, and allocates when it makes the first *)
(* buffer.                                                                 *)
VGrown == blocks' = blocks + (IF cap = 0 /\ cap' # 0 THEN 1 ELSE 0) /\ (cap # 0 => cap' # 0)

LEMMA VGrows ==
  ASSUME VInv, VCalls
  PROVE  VGrown
<1>1. VecShape /\ blocks \in Int /\ cap \in Nat /\ len \in Nat /\ (\A i \in 0 .. MaxCap : i \in Nat)
  BY VItemsOf, RingBufAssumption DEF VInv
<1>2. ASSUME UNCHANGED <<cap, blocks>> PROVE VGrown
  BY <1>1, <1>2 DEF VGrown
<1>3. CASE V!Clear \/ V!Pop \/ V!Peek \/ V!Sort \/ V!GrowRefused
  BY <1>2, <1>3 DEF V!Clear, V!Pop, V!Peek, V!Sort, V!GrowRefused, V!Changed, V!Looked, V!vec
<1>4. ASSUME NEW e \in Elems, V!Push(e) PROVE VGrown
  <2>1. cap' # 0 /\ blocks' = blocks + (IF cap = 0 THEN 1 ELSE 0)
    BY <1>1, <1>4, VPushed DEF V!Push
  <2>2. QED
    BY <2>1 DEF VGrown
<1>5. ASSUME NEW i \in 0 .. MaxCap, V!Get(i) \/ V!Remove(i) \/ V!Truncate(i) \/ \E e \in Elems : V!SetAt(i, e)
      PROVE  VGrown
  BY <1>2, <1>5 DEF V!Get, V!Remove, V!Truncate, V!SetAt, V!Changed, V!Looked, V!vec
<1>6. ASSUME NEW i \in 0 .. MaxCap, V!Reserve(i) PROVE VGrown
  BY <1>1, <1>6, VReserved DEF VGrown
<1>7. ASSUME NEW i \in 0 .. MaxCap, NEW e \in Elems, V!Insert(i, e) PROVE VGrown
  <2>1. CASE i <= len
    <3>1. i \in 0 .. len /\ V!Inserted(i, e)
      BY <1>1, <1>7, <2>1 DEF V!Insert
    <3>2. cap' # 0 /\ blocks' = blocks + (IF cap = 0 THEN 1 ELSE 0)
      BY <1>1, <3>1, VInserted
    <3>3. QED
      BY <3>2 DEF VGrown
  <2>2. CASE ~(i <= len)
    BY <1>2, <1>7, <2>2 DEF V!Insert, V!vec
  <2>3. QED
    BY <2>1, <2>2
<1>8. CASE \E P \in SUBSET Elems : V!Find(P)
  BY <1>2, <1>8 DEF V!Find, V!Looked, V!vec
<1>9. QED
  BY <1>3, <1>4, <1>5, <1>6, <1>7, <1>8 DEF VCalls

LEMMA VBlocksKept ==
  ASSUME VInv, [V!Next]_(V!vars)
  PROVE  V!NothingLeaks' /\ blocks' \in Int
<1>1. /\ VecShape /\ VStanding /\ V!NothingLeaks /\ blocks \in Int /\ feed \in Seq(Elems)
      /\ it.on \in BOOLEAN /\ pc \in {"none", "idle", "extend", "feeding"} /\ cap \in Nat
  BY VItemsOf DEF VInv, V!TypeOK, VIterators
<1>2. V!Structs \in {1, 2} /\ (UNCHANGED kind => V!Structs' = V!Structs)
  BY DEF V!Structs
<1> USE DEF V!NothingLeaks, V!ExtendBlocks
<1>3. CASE UNCHANGED V!vars
  BY <1>1, <1>2, <1>3 DEF V!vars, V!vec
<1>4. CASE VCalls
  <2>1. pc = "idle" /\ UNCHANGED <<kind, it, pc, feed>> /\ VGrown
    BY <1>4, VCallsLeave, VGrows
  <2>2. QED
    BY <1>1, <1>2, <2>1 DEF VGrown
<1>5. CASE V!Create
  BY <1>1, <1>2, <1>5 DEF V!Create, V!vec
<1>6. CASE V!CreateWithCap
  <2>1. CASE UNCHANGED <<data, cap, pc, blocks>>
    BY <1>1, <1>2, <1>6, <2>1 DEF V!CreateWithCap
  <2>2. CASE (\E c \in 1 .. MaxCap : cap' = c) /\ pc' = "idle" /\ blocks' = blocks + 2
    <3>1. cap' # 0 /\ cap = 0 /\ V!Structs = 1 /\ UNCHANGED <<kind, it>> /\ pc = "none"
      BY <1>1, <1>6, <2>2 DEF V!CreateWithCap, VStanding, V!Structs
    <3>2. QED
      BY <1>1, <1>2, <2>2, <3>1
  <2>3. QED
    BY <1>6, <2>1, <2>2 DEF V!CreateWithCap
<1>7. CASE V!Destroy
  BY <1>1, <1>2, <1>7 DEF V!Destroy, V!Quiet, V!StructsFree
<1>8. CASE \E fwd \in BOOLEAN : V!IterOpen(fwd)
  BY <1>1, <1>2, <1>8 DEF V!IterOpen, V!Quiet, V!vec
<1>9. CASE V!IterDrop
  BY <1>1, <1>2, <1>9 DEF V!IterDrop, V!NoIter, V!vec
<1>10. CASE V!IterNext
  <2>1. it'.on = it.on /\ UNCHANGED <<kind, cap, pc, blocks>>
    BY <1>10 DEF V!IterNext, V!vec, VInv, VIterators
  <2>2. QED
    BY <1>1, <1>2, <2>1
<1>11. CASE V!ExtendStart
  BY <1>1, <1>2, <1>11 DEF V!ExtendStart, V!ExtendCall, V!vec
<1>12. CASE (V!ExtendRefused \/ V!ExtendScratch) /\ UNCHANGED <<kind, V!vec, it>>
  BY <1>1, <1>2, <1>12 DEF V!ExtendRefused, V!ExtendScratch, V!IterDestroy, V!vec
<1>13. CASE (V!FeedRefused(V!Full) \/ V!FeedDone) /\ UNCHANGED <<kind, V!vec, it>>
  BY <1>1, <1>2, <1>13 DEF V!FeedRefused, V!FeedDone, V!FeedEnd, V!IterDestroy, V!ScratchFree, V!vec
<1>14. CASE V!FeedOne(V!Pushed(Head(feed))) /\ UNCHANGED <<kind, it>>
  <2>1. Head(feed) \in Elems
    BY <1>1, <1>14, HeadTailProperties DEF V!FeedOne
  <2>2. cap' # 0 /\ blocks' = blocks + (IF cap = 0 THEN 1 ELSE 0) /\ UNCHANGED <<kind, it, pc>>
        /\ pc = "feeding"
    BY <1>1, <1>14, <2>1, VPushed DEF V!FeedOne
  <2>3. QED
    BY <1>1, <1>2, <2>2
<1>15. QED
  BY <1>3, <1>4, <1>5, <1>6, <1>7, <1>8, <1>9, <1>10, <1>11, <1>12, <1>13, <1>14, VNext
     DEF V!ExtendStep

(* What an iterator at p has yielded of the sequence s.  *)
VYields(t, s, l, p, f) ==
  IF f THEN t = SubSeq(s, 1, p) ELSE t = [n \in 1 .. l - p |-> s[l + 1 - n]]

LEMMA VYieldsNone ==
  ASSUME NEW s \in Seq(Elems), NEW l \in Nat, NEW f \in BOOLEAN
  PROVE  VYields(<<>>, s, l, IF f THEN 0 ELSE l, f)
<1>1. l - l = 0 /\ [n \in 1 .. 0 |-> s[l + 1 - n]] = <<>>
  OBVIOUS
<1>2. SubSeq(s, 1, 0) = <<>>
  <2>1. 1 \in Int /\ 0 \in Int /\ \A n \in 1 .. 0 : s[n] \in Elems
    OBVIOUS
  <2>2. SubSeq(s, 1, 0) \in Seq(Elems) /\ Len(SubSeq(s, 1, 0)) = 0
    BY <2>1, SubSeqProperties
  <2>3. QED
    BY <2>2, EmptySeq
<1>3. QED
  BY <1>1, <1>2 DEF VYields

(* At p the next element is e and the next position q.  *)
VTurn(s, l, p, f, e, q) ==
  IF f THEN p < l /\ e = s[p + 1] /\ q = p + 1 ELSE p > 0 /\ e = s[p] /\ q = p - 1

LEMMA VYieldsNext ==
  ASSUME NEW s \in Seq(Elems), NEW l \in Nat, Len(s) = l, NEW t \in Seq(Elems), NEW f,
         NEW p \in 0 .. l, VYields(t, s, l, p, f), NEW e \in Elems, NEW q, VTurn(s, l, p, f, e, q),
         NEW r, r = Append(t, e)
  PROVE  r \in Seq(Elems) /\ q \in 0 .. l /\ VYields(r, s, l, q, f)
<1>1. r \in Seq(Elems) /\ q \in 0 .. l
  BY AppendProperties DEF VTurn
<1>2. CASE f
  <2> PICK u : u = SubSeq(s, 1, q)
    OBVIOUS
  <2>1. q = p + 1 /\ q \in 1 .. l /\ e = s[q] /\ t = SubSeq(s, 1, p)
    BY <1>2 DEF VYields, VTurn
  <2>2. /\ t \in Seq(Elems) /\ Len(t) = p /\ \A n \in 1 .. p : t[n] = s[n]
    <3>1. 1 \in Int /\ p \in Int /\ \A n \in 1 .. p : s[n] \in Elems
      BY ElementOfSeq
    <3>2. /\ Len(t) = IF 1 <= p THEN p - 1 + 1 ELSE 0
          /\ \A n \in 1 .. p - 1 + 1 : t[n] = s[1 + n - 1]
      BY <2>1, <3>1, SubSeqProperties
    <3>3. QED
      BY <3>2
  <2>3. /\ u \in Seq(Elems) /\ Len(u) = q /\ \A n \in 1 .. q : u[n] = s[n]
    <3>1. 1 \in Int /\ q \in Int /\ \A n \in 1 .. q : s[n] \in Elems
      BY <2>1, ElementOfSeq
    <3>2. /\ u \in Seq(Elems) /\ Len(u) = IF 1 <= q THEN q - 1 + 1 ELSE 0
          /\ \A n \in 1 .. q - 1 + 1 : u[n] = s[1 + n - 1]
      BY <3>1, SubSeqProperties
    <3>3. QED
      BY <2>1, <3>2
  <2>4. Len(r) = q /\ (\A n \in 1 .. p : r[n] = t[n]) /\ r[q] = e
    BY <2>1, <2>2, AppendProperties
  <2>5. \A n \in 1 .. q : r[n] = u[n]
    <3>1. ASSUME NEW n \in 1 .. q PROVE r[n] = u[n]
      <4>1. CASE n = q
        BY <2>1, <2>3, <2>4, <4>1
      <4>2. CASE n # q
        <5>1. n \in 1 .. p
          BY <2>1, <4>2
        <5>2. QED
          BY <2>2, <2>3, <2>4, <5>1
      <4>3. QED
        BY <4>1, <4>2
    <3>2. QED
      BY <3>1
  <2>6. r = u
    BY <1>1, <2>3, <2>4, <2>5, SeqEqual
  <2>7. QED
    BY <1>1, <1>2, <2>6 DEF VYields
<1>3. CASE ~f
  <2>1. /\ q = p - 1 /\ p \in 1 .. l /\ e = s[p] /\ t = [n \in 1 .. l - p |-> s[l + 1 - n]]
        /\ l - q = (l - p) + 1 /\ l - p \in Nat
    BY <1>3 DEF VYields, VTurn
  <2>2. r = [n \in 1 .. l - q |-> s[l + 1 - n]]
    BY <2>1
  <2>3. QED
    BY <1>1, <1>3, <2>2 DEF VYields
<1>4. QED
  BY <1>2, <1>3

LEMMA VIteratorParts ==
  ASSUME NEW i \in VIterators
  PROVE  /\ i.on \in BOOLEAN /\ i.fwd \in BOOLEAN /\ i.len \in Nat /\ i.pos \in Nat
         /\ i.seen \in Seq(Elems)
BY DEF VIterators

VPlace ==
  it.on => /\ it.pos <= it.len /\ it.len = len
           /\ VYields(it.seen, V!Items, len, it.pos, it.fwd)

LEMMA VPlaceIs ==
  ASSUME VInv
  PROVE  it \in VIterators /\ VPlace
BY DEF VInv, V!TypeOK, V!IterInOrder, VPlace, VYields

(* The iterator's next element is at its place in the sequence.            *)
LEMMA VIterTakes ==
  ASSUME VInv, V!IterNext
  PROVE  it' \in VIterators /\ VPlace'
<1>1. it \in VIterators /\ it.on /\ VPlace /\ VecShape
  BY VPlaceIs DEF V!IterNext, VInv
<1>2. /\ len \in Nat /\ V!Items \in Seq(Elems) /\ Len(V!Items) = len
      /\ \A n \in 0 .. len - 1 : data[n] = V!Items[n + 1] /\ data[n] \in Elems
  BY <1>1, VItemsOf
<1> PICK s, l : s = V!Items /\ l = len
  OBVIOUS
<1> PICK t, p, f : t = it.seen /\ p = it.pos /\ f = it.fwd
  OBVIOUS
<1>3. t \in Seq(Elems) /\ p \in Nat /\ p <= l /\ it.len = l
  BY <1>1, VIteratorParts DEF VPlace
<1>4. f \in BOOLEAN
  BY ONLY <1>1, f = it.fwd, VIteratorParts
<1>5. VYields(t, s, l, p, f)
  BY <1>1 DEF VPlace
<1>6. /\ IF f THEN p < l ELSE p > 0
      /\ it' = [it EXCEPT !.pos = IF f THEN p + 1 ELSE p - 1,
                          !.seen = Append(t, data[IF f THEN p ELSE p - 1])]
      /\ UNCHANGED V!vec
  BY <1>1, <1>3 DEF V!IterNext
<1> PICK e, r, q : /\ e = data[IF f THEN p ELSE p - 1] /\ r = Append(t, e)
                   /\ q = IF f THEN p + 1 ELSE p - 1
  OBVIOUS
<1>7. e \in Elems /\ e = s[IF f THEN p + 1 ELSE p]
  <2>1. CASE f
    <3>1. p \in 0 .. l - 1
      BY <1>2, <1>3, <1>6, <2>1
    <3>2. QED
      BY <1>2, <2>1, <3>1
  <2>2. CASE ~f
    <3>1. p - 1 \in 0 .. l - 1 /\ (p - 1) + 1 = p
      BY <1>2, <1>3, <1>6, <2>2
    <3>2. QED
      BY <1>2, <2>2, <3>1
  <2>3. QED
    BY <1>4, <2>1, <2>2
<1>8. r \in Seq(Elems) /\ q \in 0 .. l /\ VYields(r, s, l, q, f)
  <2>1. /\ s \in Seq(Elems) /\ l \in Nat /\ Len(s) = l /\ t \in Seq(Elems)
        /\ p \in 0 .. l /\ VYields(t, s, l, p, f) /\ e \in Elems /\ r = Append(t, e)
    BY <1>2, <1>3, <1>4, <1>5, <1>7
  <2>2. VTurn(s, l, p, f, e, q)
    BY <1>4, <1>6, <1>7 DEF VTurn
  <2>3. QED
    BY ONLY <2>1, <2>2, VYieldsNext
<1>9. it' = [it EXCEPT !.pos = q, !.seen = r] /\ q \in Nat /\ q <= l
  BY <1>2, <1>6, <1>8
<1>10. it' \in VIterators
  BY <1>1, <1>8, <1>9 DEF VIterators
<1>11. it'.fwd = f
  BY ONLY <1>1, <1>9, f = it.fwd DEF VIterators
<1>12. it'.pos = q /\ it'.seen = r /\ it'.len = l
  BY <1>1, <1>3, <1>9 DEF VIterators
<1>13. V!Items' = s /\ len' = l
  BY <1>1, <1>6, VKept DEF V!vec
<1>14. QED
  BY <1>8, <1>9, <1>10, <1>11, <1>12, <1>13 DEF VPlace

LEMMA VIterKept ==
  ASSUME VInv, [V!Next]_(V!vars)
  PROVE  it' \in VIterators /\ VPlace'
<1>1. VecShape /\ it \in VIterators /\ VPlace /\ len \in Nat /\ V!Items \in Seq(Elems)
  BY VPlaceIs, VItemsOf DEF VInv
<1>2. CASE V!IterNext
  BY <1>2, VIterTakes
<1>3. ASSUME NEW f \in BOOLEAN, V!IterOpen(f) PROVE it' \in VIterators /\ VPlace'
  <2> PICK s, l : s = V!Items /\ l = len
    OBVIOUS
  <2>1. /\ it' = [on |-> TRUE, fwd |-> f, len |-> l, pos |-> IF f THEN 0 ELSE l, seen |-> <<>>]
        /\ UNCHANGED V!vec
    BY <1>3 DEF V!IterOpen
  <2>2. <<>> \in Seq(Elems) /\ (IF f THEN 0 ELSE l) \in Nat /\ (IF f THEN 0 ELSE l) <= l
    BY <1>1
  <2>3. it' \in VIterators
    BY <1>1, <2>1, <2>2 DEF VIterators
  <2>4. it'.fwd = f
    BY ONLY <2>1
  <2>5. it'.len = l /\ it'.pos = (IF f THEN 0 ELSE l) /\ it'.seen = <<>>
    BY <2>1
  <2>6. V!Items' = s /\ len' = l
    BY <1>1, <2>1, VKept DEF V!vec
  <2>7. VYields(<<>>, s, l, IF f THEN 0 ELSE l, f)
    BY <1>1, VYieldsNone
  <2>8. QED
    BY <2>2, <2>3, <2>4, <2>5, <2>6, <2>7 DEF VPlace
<1>4. CASE V!IterDrop
  <2>1. <<>> \in Seq(Elems)
    OBVIOUS
  <2>2. QED
    BY <1>4, <2>1 DEF V!IterDrop, V!NoIter, VIterators, VPlace
<1>5. CASE UNCHANGED it
  <2>1. CASE it.on
    <3>1. UNCHANGED V!vec
      BY <2>1, VNoChangeUnderIter
    <3>2. V!Items' = V!Items /\ len' = len
      BY <1>1, <3>1, VKept DEF V!vec
    <3>3. QED
      BY <1>1, <1>5, <3>2 DEF VPlace
  <2>2. CASE ~it.on
    BY <1>1, <1>5, <2>2 DEF VPlace
  <2>3. QED
    BY <2>1, <2>2
<1>6. CASE UNCHANGED V!vars \/ VCalls \/ V!Create \/ V!CreateWithCap \/ V!Destroy
           \/ V!ExtendStart \/ V!ExtendStep
  BY <1>5, <1>6, VCallsLeave DEF V!vars, V!Create, V!CreateWithCap, V!Destroy, V!ExtendStart,
     V!ExtendStep
<1>7. QED
  BY <1>2, <1>3, <1>4, <1>6, VNext

LEMMA VCallKept ==
  ASSUME VInv, [V!Next]_(V!vars)
  PROVE  /\ pc' \in {"none", "idle", "extend", "feeding"} /\ feed' \in Seq(Elems)
         /\ kind' \in {"vec", "stack"}
<1>1. /\ pc \in {"none", "idle", "extend", "feeding"} /\ feed \in Seq(Elems)
      /\ kind \in {"vec", "stack"}
  BY DEF VInv, V!TypeOK
<1>2. CASE UNCHANGED V!vars \/ VCalls
  BY <1>1, <1>2, VCallsLeave DEF V!vars
<1>3. CASE V!Create \/ V!CreateWithCap \/ V!Destroy \/ V!IterNext \/ V!IterDrop
           \/ \E fwd \in BOOLEAN : V!IterOpen(fwd)
  BY <1>1, <1>3 DEF V!Create, V!CreateWithCap, V!Destroy, V!IterNext, V!IterDrop, V!IterOpen
<1>4. CASE V!ExtendStart
  BY <1>1, <1>4, RingBufAssumption DEF V!ExtendStart, V!ExtendCall
<1>5. CASE V!ExtendStep
  <2>1. CASE V!FeedOne(V!Pushed(Head(feed))) /\ UNCHANGED <<kind, it>>
    <3>1. feed # <<>> /\ feed' = Tail(feed) /\ UNCHANGED <<kind, pc>>
      BY <2>1 DEF V!FeedOne
    <3>2. QED
      BY <1>1, <3>1, HeadTailProperties
  <2>2. CASE (V!ExtendRefused \/ V!ExtendScratch \/ V!FeedRefused(V!Full) \/ V!FeedDone)
             /\ UNCHANGED kind
    <3>1. pc' \in {"idle", "feeding"} /\ feed' \in {feed, <<>>}
      BY <2>2 DEF V!ExtendRefused, V!ExtendScratch, V!FeedRefused, V!FeedDone, V!FeedEnd
    <3>2. <<>> \in Seq(Elems)
      OBVIOUS
    <3>3. QED
      BY <1>1, <2>2, <3>1, <3>2
  <2>3. QED
    BY <1>5, <2>1, <2>2 DEF V!ExtendStep
<1>6. QED
  BY <1>2, <1>3, <1>4, <1>5, VNext

LEMMA NextV == VInv /\ [V!Next]_(V!vars) => VInv'
<1> SUFFICES ASSUME VInv, [V!Next]_(V!vars) PROVE VInv'
  OBVIOUS
<1>1. VecShape' /\ VStanding' /\ V!NothingLeaks' /\ blocks' \in Int /\ it' \in VIterators /\ VPlace'
  BY VShapeKept, VStandingKept, VBlocksKept, VIterKept
<1>2. V!IterInOrder'
  BY <1>1 DEF VPlace, VYields, V!IterInOrder
<1>3. V!TypeOK'
  <2> PICK d, c, l : d = data' /\ c = cap' /\ l = len'
    OBVIOUS
  <2>1. VShape(d, c, l)
    BY <1>1 DEF VecShape
  <2>2. /\ c \in Nat /\ l \in Nat /\ l <= c /\ d \in [Slots(c) -> Elems \cup {Junk}]
        /\ \A s \in 0 .. l - 1 : d[s] \in Elems
    BY <2>1, ShapeHolds
  <2>3. \A s \in 0 .. l - 1 : d[s] # Junk
    BY <2>2, RingBufAssumption
  <2>4. /\ cap' \in Nat /\ len' \in 0 .. cap' /\ data' \in [Slots(cap') -> Elems \cup {Junk}]
        /\ \A s \in Slots(len') : data'[s] # Junk
    <3>1. l \in 0 .. c /\ Slots(l) = 0 .. l - 1
      BY <2>2 DEF Slots
    <3>2. \A s \in Slots(l) : d[s] # Junk
      BY ONLY <2>3, <3>1
    <3>3. QED
      BY <2>2, <3>1, <3>2
  <2>5. it'.on => it'.pos <= it'.len /\ it'.len = len'
    BY <1>1 DEF VPlace
  <2>6. QED
    BY <2>4, <2>5, VCallKept, VSlotsAre DEF V!TypeOK
<1>4. QED
  BY <1>1, <1>2, <1>3 DEF VInv

LEMMA VInductive == V!Spec => []VInv
BY InitV, NextV, PTL DEF V!Spec

(* Every index into the buffer of a vec_t is in bounds and every element   *)
(* read was written, whatever the capacities and however it has grown.     *)
THEOREM VecTypes == V!Spec => []V!TypeOK
<1>1. VInv => V!TypeOK
  BY DEF VInv
<1>2. QED
  BY <1>1, VInductive, PTL

(* No path of vec.c, stack.c and seqc_extend loses a block or frees one    *)
(* twice, for a vec_t and for the two structs of a stack.                  *)
THEOREM VecBlocks == V!Spec => []V!NothingLeaks
<1>1. VInv => V!NothingLeaks
  BY DEF VInv
<1>2. QED
  BY <1>1, VInductive, PTL

(* An iterator over a vec_t yields its elements in order, or in reverse.   *)
THEOREM VecIterates == V!Spec => []V!IterInOrder
<1>1. VInv => V!IterInOrder
  BY DEF VInv
<1>2. QED
  BY <1>1, VInductive, PTL

-----------------------------------------------------------------------------
(* vec_t and seqc_stack_t implement DequeSpec.  *)

LEMMA VItemsNone == VecShape /\ len = 0 => V!Items = <<>>
BY VItemsOf, EmptySeq

LEMMA InitVDeque == V!Init => VDeque!Init
<1> SUFFICES ASSUME V!Init PROVE VDeque!Init
  OBVIOUS
<1>1. len = 0 /\ pc = "none" /\ ret = Nil /\ asked = <<"nothing">> /\ VInv
  BY InitV DEF V!Init
<1>2. V!Items = <<>>
  BY <1>1, VItemsNone DEF VInv
<1>3. ~Exists /\ ~Feeding /\ Given = <<>>
  BY <1>1 DEF Exists, Given, Feeding
<1>4. QED
  BY <1>1, <1>2, <1>3 DEF VDeque!Init

LEMMA VCallSeen ==
  pc = "idle" /\ pc' = "idle" =>
     /\ Exists = TRUE /\ Exists' = TRUE /\ Feeding = FALSE /\ Feeding' = FALSE
     /\ Given = <<>> /\ Given' = <<>> /\ VDeque!Ready
     /\ UNCHANGED <<Exists, Given, Feeding>>
BY DEF Exists, Given, Feeding, VDeque!Ready

(* What a call that changes nothing returns.                               *)
LEMMA VLookRefines ==
  ASSUME VInv,
         \/ asked' = <<"back">> /\ V!Peek
         \/ \E e \in Elems : asked' = <<"push_back", e>> /\ V!GrowRefused
         \/ \E i \in 0 .. MaxCap : \E e \in Elems : asked' = <<"insert", i, e>> /\ V!InsertRefused(i)
         \/ \E i \in 0 .. MaxCap : asked' = <<"get", i>> /\ V!Get(i)
         \/ \E P \in SUBSET Elems : asked' = <<"find", P>> /\ V!Find(P)
  PROVE  VDeque!Next
<1>1. /\ VecShape /\ len \in Nat /\ V!Items \in Seq(Elems) /\ Len(V!Items) = len
      /\ DOMAIN V!Items = 1 .. len
      /\ \A s \in 0 .. len - 1 : data[s] = V!Items[s + 1]
  BY VItemsOf DEF VInv
<1>2. pc = "idle" /\ UNCHANGED <<V!vec, pc>>
  BY DEF V!Peek, V!GrowRefused, V!InsertRefused, V!Get, V!Find, V!Looked, V!Quiet
<1>3. VDeque!Ready /\ UNCHANGED <<V!Items, Exists, Given, Feeding>>
  BY <1>1, <1>2, VCallSeen, VKept
<1>4. ASSUME NEW r, ret' = r PROVE VDeque!Leave(r)
  BY <1>3, <1>4 DEF VDeque!Leave
<1>5. ASSUME NEW e \in Elems, asked' = <<"push_back", e>>, V!GrowRefused PROVE VDeque!Next
  <2>1. ret' = "OOM"
    BY <1>5 DEF V!GrowRefused
  <2>2. VDeque!PushBack(e)
    BY <1>3, <1>4, <2>1 DEF VDeque!PushBack
  <2>3. QED
    BY <1>5, <2>2 DEF VDeque!Next
<1>10. ASSUME NEW i \in 0 .. MaxCap, NEW e \in Elems, asked' = <<"insert", i, e>>, V!InsertRefused(i)
       PROVE  VDeque!Next
  <2>1. ret' = "OOM" /\ i <= Len(V!Items)
    BY <1>1, <1>10 DEF V!InsertRefused, V!GrowRefused
  <2>2. VDeque!InsertBefore(i, e)
    BY <1>3, <1>4, <2>1 DEF VDeque!InsertBefore
  <2>3. QED
    BY <1>10, <2>2 DEF VDeque!Next
<1>6. CASE asked' = <<"back">> /\ V!Peek
  <2>1. ret' = IF V!Items = <<>> THEN "NOT_FOUND" ELSE V!Items[Len(V!Items)]
    <3>1. CASE len = 0
      BY <1>1, <1>6, <3>1, VItemsNone DEF V!Peek, V!Looked
    <3>2. CASE len # 0
      <4>1. len - 1 \in 0 .. len - 1 /\ (len - 1) + 1 = len /\ V!Items # <<>>
        BY <1>1, <3>2
      <4>2. QED
        BY <1>1, <1>6, <3>2, <4>1 DEF V!Peek, V!Looked
    <3>3. QED
      BY <3>1, <3>2
  <2>2. VDeque!Back
    BY <1>3, <1>4, <2>1 DEF VDeque!Back
  <2>3. QED
    BY <1>6, <2>2 DEF VDeque!Next
<1>7. ASSUME NEW i \in 0 .. MaxCap, asked' = <<"get", i>>, V!Get(i) PROVE VDeque!Next
  <2>1. i \in Nat
    BY RingBufAssumption
  <2>2. ret' = IF i < Len(V!Items) THEN V!Items[i + 1] ELSE "NOT_FOUND"
    <3>1. CASE i < len
      <4>1. i \in 0 .. len - 1
        BY <1>1, <2>1, <3>1
      <4>2. QED
        BY <1>1, <1>7, <3>1, <4>1 DEF V!Get, V!Looked
    <3>2. CASE ~(i < len)
      BY <1>1, <1>7, <3>2 DEF V!Get, V!Looked
    <3>3. QED
      BY <3>1, <3>2
  <2>3. VDeque!Get(i)
    BY <1>3, <1>4, <2>2 DEF VDeque!Get
  <2>4. QED
    BY <1>7, <2>3 DEF VDeque!Next
<1>8. ASSUME NEW P \in SUBSET Elems, asked' = <<"find", P>>, V!Find(P) PROVE VDeque!Next
  <2> DEFINE hits == {i \in V!Slots(len) : data[i] \in P}
  <2>1. ret' = IF hits = {} THEN "NOT_FOUND" ELSE data[CHOOSE i \in hits : \A j \in hits : i <= j]
    BY <1>8 DEF V!Find, V!Looked
  <2>2. \A i : i \in hits <=> i \in 0 .. len - 1 /\ V!Items[i + 1] \in P
    BY <1>1, VSlotsAre DEF Slots
  <2>3. hits \subseteq Nat
    BY <1>1, <2>2
  <2> HIDE DEF hits
  <2>4. VDeque!FindFirst(P)
    <3>1. CASE hits = {}
      <4>1. ASSUME NEW n \in DOMAIN V!Items PROVE V!Items[n] \notin P
        <5>1. n - 1 \in 0 .. len - 1 /\ (n - 1) + 1 = n
          BY <1>1
        <5>2. QED
          BY <2>2, <3>1, <5>1
      <4>2. QED
        BY <1>3, <1>4, <2>1, <3>1, <4>1 DEF VDeque!FindFirst
    <3>2. CASE hits # {}
      <4>1. \E i \in hits : \A j \in hits : i <= j
        BY <2>3, <3>2, Least
      <4> PICK k : k = CHOOSE i \in hits : \A j \in hits : i <= j
        OBVIOUS
      <4>2. k \in hits /\ \A j \in hits : k <= j
        BY <4>1
      <4>3. k \in 0 .. len - 1 /\ V!Items[k + 1] \in P /\ k + 1 \in 1 .. len /\ ret' = V!Items[k + 1]
        <5>1. k \in 0 .. len - 1 /\ V!Items[k + 1] \in P
          BY <2>2, <4>2
        <5>2. QED
          BY <1>1, <2>1, <3>2, <5>1
      <4>4. ASSUME NEW j \in 1 .. (k + 1) - 1 PROVE V!Items[j] \notin P
        <5>1. j - 1 \in 0 .. len - 1 /\ (j - 1) + 1 = j /\ ~(k <= j - 1)
          BY <1>1, <4>3
        <5>2. QED
          BY <2>2, <4>2, <5>1
      <4>5. k + 1 \in DOMAIN V!Items /\ VDeque!Leave(V!Items[k + 1])
        BY <1>1, <1>4, <4>3
      <4>6. QED
        BY <1>3, <4>3, <4>4, <4>5 DEF VDeque!FindFirst
    <3>3. QED
      BY <3>1, <3>2
  <2>5. QED
    BY <1>8, <2>4 DEF VDeque!Next
<1>9. QED
  BY <1>5, <1>6, <1>7, <1>8, <1>10

(* What the calls that change the array make of the sequence.              *)
LEMMA VCallRefines ==
  ASSUME VInv,
         \/ asked' = <<"clear">> /\ V!Clear
         \/ asked' = <<"pop_back">> /\ V!Pop
         \/ asked' = <<"sort">> /\ V!Sort
         \/ \E e \in Elems : asked' = <<"push_back", e>> /\ V!Push(e)
         \/ \E i \in 0 .. MaxCap :
              \/ asked' = <<"remove", i>> /\ V!Remove(i)
              \/ asked' = <<"truncate", i>> /\ V!Truncate(i)
              \/ asked' = <<"reserve", i>> /\ V!Reserve(i)
              \/ \E e \in Elems : \/ asked' = <<"insert", i, e>> /\ V!Insert(i, e)
                                  \/ asked' = <<"set", i, e>> /\ V!SetAt(i, e)
  PROVE  VDeque!Next
<1>1. /\ VecShape /\ len \in Nat /\ V!Items \in Seq(Elems) /\ Len(V!Items) = len
      /\ DOMAIN V!Items = 1 .. len /\ blocks \in Int /\ (pc = "none" => cap = 0)
  BY VItemsOf DEF VInv, VStanding
<1>2. VDeque!Ready /\ UNCHANGED <<Exists, Given, Feeding>>
  <2>1. VCalls
    BY DEF VCalls
  <2>2. QED
    BY <2>1, VCallsLeave, VCallSeen
<1>3. ASSUME NEW s, NEW r, V!Items' = s, ret' = r PROVE VDeque!Change(s, r)
  BY <1>2, <1>3 DEF VDeque!Change
<1>4. ASSUME NEW r, V!Items' = V!Items, ret' = r PROVE VDeque!Leave(r)
  BY <1>2, <1>4 DEF VDeque!Leave
<1>5. CASE asked' = <<"clear">> /\ V!Clear
  <2>1. V!Items' = <<>> /\ ret' = "OK"
    BY <1>1, <1>5, VEmptied DEF V!Clear
  <2>2. VDeque!Clear
    BY <1>2, <1>3, <2>1 DEF VDeque!Clear
  <2>3. QED
    BY <1>5, <2>2 DEF VDeque!Next
<1>6. CASE asked' = <<"pop_back">> /\ V!Pop
  <2>1. CASE len = 0
    <3>1. V!Items' = V!Items /\ ret' = "NOT_FOUND" /\ V!Items = <<>>
      BY <1>1, <1>6, <2>1, VKept, VItemsNone DEF V!Pop, V!Changed, V!vec
    <3>2. VDeque!PopBack
      BY <1>2, <1>4, <3>1 DEF VDeque!PopBack
    <3>3. QED
      BY <1>6, <3>2 DEF VDeque!Next
  <2>2. CASE len # 0
    <3>1. /\ V!Items # <<>> /\ V!Items' = SubSeq(V!Items, 1, Len(V!Items) - 1)
          /\ ret' = V!Items[Len(V!Items)]
      BY <1>1, <1>6, <2>2, VPopped
    <3>2. VDeque!PopBack
      BY <1>2, <1>3, <3>1 DEF VDeque!PopBack
    <3>3. QED
      BY <1>6, <3>2 DEF VDeque!Next
  <2>3. QED
    BY <2>1, <2>2
<1>7. CASE asked' = <<"sort">> /\ V!Sort
  <2>1. PICK g \in [1 .. len -> 1 .. len] :
           VDeque!IsInjective(g) /\ V!Items' = [n \in 1 .. len |-> V!Items[g[n]]]
    BY <1>1, <1>7, VSorted DEF Rearranged
  <2>2. ret' = "OK"
    BY <1>7 DEF V!Sort
  <2>3. VDeque!Rearrange
    BY <1>1, <1>2, <2>1, <2>2 DEF VDeque!Rearrange
  <2>4. QED
    BY <1>7, <2>3 DEF VDeque!Next
<1>8. ASSUME NEW e \in Elems, asked' = <<"push_back", e>>, V!Push(e) PROVE VDeque!Next
  <2>1. V!Items' = Append(V!Items, e) /\ ret' = "OK"
    BY <1>1, <1>8, VPushed DEF V!Push
  <2>2. VDeque!PushBack(e)
    BY <1>2, <1>3, <2>1 DEF VDeque!PushBack
  <2>3. QED
    BY <1>8, <2>2 DEF VDeque!Next
<1>9. ASSUME NEW i \in 0 .. MaxCap,
             \/ asked' = <<"remove", i>> /\ V!Remove(i)
             \/ asked' = <<"truncate", i>> /\ V!Truncate(i)
             \/ asked' = <<"reserve", i>> /\ V!Reserve(i)
      PROVE  VDeque!Next
  <2>1. i \in Nat
    BY RingBufAssumption
  <2>2. CASE asked' = <<"remove", i>> /\ V!Remove(i)
    <3>1. V!Items' = IF i < Len(V!Items) THEN VDeque!RemoveAt(V!Items, i + 1) ELSE V!Items
      BY <1>1, <2>1, <2>2, VIndexed
    <3>2. ret' = "OK"
      BY <2>2 DEF V!Remove
    <3>3. VDeque!Delete(i)
      BY <1>2, <1>3, <3>1, <3>2 DEF VDeque!Delete
    <3>4. QED
      BY <2>2, <3>3 DEF VDeque!Next
  <2>3. CASE asked' = <<"truncate", i>> /\ V!Truncate(i)
    <3>1. V!Items' = SubSeq(V!Items, 1, IF i < Len(V!Items) THEN i ELSE Len(V!Items))
      BY <1>1, <2>1, <2>3, VIndexed
    <3>2. ret' = "OK"
      BY <2>3 DEF V!Truncate
    <3>3. VDeque!Truncate(i)
      BY <1>2, <1>3, <3>1, <3>2 DEF VDeque!Truncate
    <3>4. QED
      BY <2>3, <3>3 DEF VDeque!Next
  <2>4. CASE asked' = <<"reserve", i>> /\ V!Reserve(i)
    <3>1. V!Items' = V!Items /\ ret' \in {"OK", "OOM"}
      BY <1>1, <2>4, VReserved DEF V!Reserve
    <3>2. VDeque!Reserve
      BY <1>2, <1>4, <3>1 DEF VDeque!Reserve
    <3>3. QED
      BY <2>4, <3>2 DEF VDeque!Next
  <2>5. QED
    BY <1>9, <2>2, <2>3, <2>4
<1>10. ASSUME NEW i \in 0 .. MaxCap, NEW e \in Elems, asked' = <<"insert", i, e>>, V!Insert(i, e)
       PROVE  VDeque!Next
  <2>1. i \in Nat
    BY RingBufAssumption
  <2>2. CASE i <= len
    <3>1. i \in 0 .. len /\ i <= Len(V!Items)
      BY <1>1, <2>1, <2>2
    <3>2. V!Inserted(i, e) /\ ret' = "OK"
      BY <1>10, <2>2 DEF V!Insert
    <3>3. V!Items' = VDeque!InsertAt(V!Items, i + 1, e)
      BY <1>1, <3>1, <3>2, VInserted
    <3>4. VDeque!InsertBefore(i, e)
      BY <1>2, <1>3, <3>1, <3>2, <3>3 DEF VDeque!InsertBefore
    <3>5. QED
      BY <1>10, <3>4 DEF VDeque!Next
  <2>3. CASE ~(i <= len)
    <3>1. ~(i <= Len(V!Items)) /\ ret' = "INVALID" /\ V!Items' = V!Items
      BY <1>1, <1>10, <2>3, VKept DEF V!Insert
    <3>2. VDeque!InsertBefore(i, e)
      BY <1>2, <1>4, <3>1 DEF VDeque!InsertBefore
    <3>3. QED
      BY <1>10, <3>2 DEF VDeque!Next
  <2>4. QED
    BY <2>2, <2>3
<1>11. ASSUME NEW i \in 0 .. MaxCap, NEW e \in Elems, asked' = <<"set", i, e>>, V!SetAt(i, e)
       PROVE  VDeque!Next
  <2>1. i \in Nat
    BY RingBufAssumption
  <2>2. V!Items' = IF i < Len(V!Items) THEN VDeque!ReplaceAt(V!Items, i + 1, e) ELSE V!Items
    BY <1>1, <1>11, <2>1, VIndexed
  <2>3. ret' = "OK"
    BY <1>11 DEF V!SetAt
  <2>4. VDeque!Overwrite(i, e)
    BY <1>2, <1>3, <2>2, <2>3 DEF VDeque!Overwrite
  <2>5. QED
    BY <1>11, <2>4 DEF VDeque!Next
<1>12. QED
  BY <1>5, <1>6, <1>7, <1>8, <1>9, <1>10, <1>11

LEMMA VLifeRefines ==
  ASSUME VInv,
         \/ asked' = <<"create">> /\ (V!Create \/ V!CreateWithCap)
         \/ asked' = <<"destroy">> /\ V!Destroy
  PROVE  VDeque!Next
<1>1. VecShape /\ (pc = "none" => cap = 0)
  BY DEF VInv, VStanding
<1>2. CASE asked' = <<"create">> /\ (V!Create \/ V!CreateWithCap)
  <2>1. ~Exists /\ Feeding = FALSE /\ Feeding' = FALSE /\ Given = <<>> /\ Given' = <<>>
    BY <1>2 DEF V!Create, V!CreateWithCap, Exists, Feeding, Given
  <2>2. V!Items' = V!Items
    <3>1. CASE V!Create
      BY <1>1, <3>1, VKept DEF V!Create
    <3>2. CASE V!CreateWithCap
      <4>1. len = 0
        BY <1>1, <3>2, VItemsOf DEF V!CreateWithCap
      <4>2. QED
        BY <1>1, <3>2, <4>1, VItemsNone, VEmptied
    <3>3. QED
      BY <1>2, <3>1, <3>2
  <2>3. Exists' \in BOOLEAN /\ ret' = IF Exists' THEN "OK" ELSE "OOM"
    BY <1>2 DEF V!Create, V!CreateWithCap, Exists
  <2>4. VDeque!Create
    BY <2>1, <2>2, <2>3 DEF VDeque!Create
  <2>5. QED
    BY <1>2, <2>4 DEF VDeque!Next
<1>3. CASE asked' = <<"destroy">> /\ V!Destroy
  <2>1. Exists /\ ~Exists' /\ Feeding = FALSE /\ Feeding' = FALSE /\ Given = <<>> /\ Given' = <<>>
        /\ ret' = "OK"
    BY <1>3 DEF V!Destroy, V!Quiet, Exists, Feeding, Given
  <2>2. V!Items' = <<>>
    BY <1>1, <1>3, VEmptied
  <2>3. VDeque!Destroy
    BY <2>1, <2>2 DEF VDeque!Destroy
  <2>4. QED
    BY <1>3, <2>3 DEF VDeque!Next
<1>4. QED
  BY <1>2, <1>3

LEMMA VIterRefines ==
  ASSUME VInv, UNCHANGED V!vars \/ (V!Iterate /\ UNCHANGED asked)
  PROVE  UNCHANGED VDeque!vars
<1>1. UNCHANGED <<V!vec, pc, feed, ret, asked>>
  BY DEF V!vars, V!Iterate, V!IterOpen, V!IterNext, V!IterDrop
<1>2. V!Items' = V!Items
  BY <1>1, VKept DEF VInv
<1>3. QED
  BY <1>1, <1>2 DEF VDeque!vars, Exists, Given, Feeding

LEMMA VExtendSeen ==
  ASSUME VInv,
         \/ V!ExtendStart /\ UNCHANGED asked
         \/ V!ExtendStep /\ asked' = IF pc = "extend" THEN <<"extend", feed>> ELSE asked
  PROVE  VDeque!Next \/ UNCHANGED VDeque!vars
<1>0. /\ pc = "extend" => asked' = <<"extend", feed>>
      /\ pc # "extend" => UNCHANGED asked
  BY DEF V!ExtendStart, V!ExtendCall
<1>1. VecShape /\ feed \in Seq(Elems) /\ (pc = "extend" => feed \in Sources)
  BY DEF VInv, V!TypeOK, VStanding
<1>2. CASE V!ExtendStart
  <2>1. UNCHANGED <<Exists, Feeding, Given, ret, asked>>
    BY <1>0, <1>2 DEF V!ExtendStart, V!ExtendCall, Exists, Feeding, Given
  <2>2. V!Items' = V!Items
    BY <1>1, <1>2, VKept DEF V!ExtendStart
  <2>3. QED
    BY <2>1, <2>2 DEF VDeque!vars
<1>3. CASE V!ExtendRefused /\ UNCHANGED <<kind, V!vec, it>>
  <2>1. Exists /\ ~Feeding /\ UNCHANGED <<Exists, Feeding, Given>> /\ ret' \in {"OOM", "INVALID"}
        /\ asked' = <<"extend", feed>> /\ feed \in Sources
    BY <1>0, <1>1, <1>3 DEF V!ExtendRefused, Exists, Feeding, Given
  <2>2. V!Items' = V!Items
    BY <1>1, <1>3, VKept
  <2>3. VDeque!RefuseExtend
    BY <2>1, <2>2 DEF VDeque!RefuseExtend, VDeque!Ready, VDeque!Leave
  <2>4. QED
    BY <2>1, <2>3 DEF VDeque!Next
<1>4. CASE V!ExtendScratch /\ UNCHANGED <<kind, V!vec, it>>
  <2>1. Exists /\ ~Feeding /\ Feeding' /\ UNCHANGED Exists /\ Given' = feed /\ ret' = Nil
        /\ asked' = <<"extend", feed>> /\ feed \in Sources
    BY <1>0, <1>1, <1>4 DEF V!ExtendScratch, Exists, Feeding, Given
  <2>2. V!Items' = V!Items
    BY <1>1, <1>4, VKept
  <2>3. VDeque!Extend(feed)
    BY <2>1, <2>2 DEF VDeque!Extend, VDeque!Ready
  <2>4. QED
    BY <2>1, <2>3 DEF VDeque!Next
<1>5. CASE V!FeedOne(V!Pushed(Head(feed)))
  <2>1. /\ feed # <<>> /\ Feeding /\ UNCHANGED <<Exists, Feeding, ret, asked>>
        /\ Given = feed /\ Given' = Tail(feed) /\ V!Pushed(Head(feed))
    BY <1>0, <1>5 DEF V!FeedOne, Exists, Feeding, Given
  <2>2. V!Items' = Append(V!Items, Head(feed))
    BY <1>1, <2>1, HeadTailProperties, VPushed
  <2>3. VDeque!Feed
    BY <2>1, <2>2 DEF VDeque!Feed
  <2>4. QED
    BY <2>1, <2>3 DEF VDeque!Next
<1>6. CASE (V!FeedRefused(V!Full) \/ V!FeedDone) /\ UNCHANGED <<kind, V!vec, it>>
  <2>1. /\ Feeding /\ ~Feeding' /\ UNCHANGED Exists /\ Given = feed /\ Given' = <<>>
        /\ ret' = (IF feed = <<>> THEN "OK" ELSE "OOM") /\ UNCHANGED asked
    BY <1>0, <1>6 DEF V!FeedRefused, V!FeedDone, V!FeedEnd, Exists, Feeding, Given
  <2>2. V!Items' = V!Items
    BY <1>1, <1>6, VKept
  <2>3. VDeque!EndExtend
    BY <2>1, <2>2 DEF VDeque!EndExtend
  <2>4. QED
    BY <2>1, <2>3 DEF VDeque!Next
<1>7. QED
  BY <1>2, <1>3, <1>4, <1>5, <1>6 DEF V!ExtendStep

LEMMA NextVDeque == VInv /\ [V!Next]_(V!vars) => [VDeque!Next]_(VDeque!vars)
<1> SUFFICES ASSUME VInv, [V!Next]_(V!vars) PROVE VDeque!Next \/ UNCHANGED VDeque!vars
  OBVIOUS
<1>1. CASE V!Call
  BY <1>1, VLookRefines, VCallRefines DEF V!Call
<1>2. ASSUME NEW i \in 0 .. MaxCap, V!CallAt(i) PROVE VDeque!Next
  BY <1>2, VLookRefines, VCallRefines DEF V!CallAt
<1>3. QED
  BY <1>1, <1>2, VLifeRefines, VIterRefines, VExtendSeen DEF V!Next

(* Every call of vec.c and stack.c has on the sequence of elements the     *)
(* effect of that call of DequeSpec, with the element and at the index it  *)
(* was given: no growth, move, refused allocation or broken-off extend     *)
(* touches an element that the call does not name, and a stack is last in, *)
(* first out.                                                              *)
THEOREM VecRefines == V!Spec => VDeque!Spec
BY InitVDeque, NextVDeque, VInductive, PTL DEF V!Spec, VDeque!Spec
=============================================================================
