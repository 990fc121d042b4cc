--------------------------- MODULE TreeIterProofs ---------------------------
(***************************************************************************)
(* Theorems of TreeIter, for every search tree, bound and capacity: what   *)
(* an iterator yields comes in order and without gaps, its end is the end, *)
(* and no block is lost.                                                   *)
(***************************************************************************)
EXTENDS TreeIter, SequenceTheorems, TLAPS

(* What an iterator has yet to visit: the nodes under current, and each    *)
(* stacked node with those on its far side.                                *)
Rest(n)   == {n} \cup tree.under[Far(n)]
Stacked   == UNION {Rest(stack[j]) : j \in DOMAIN stack}
Remaining == tree.under[current] \cup Stacked

TypeOK ==
  /\ tree \in Trees
  /\ pc \in {"none", "prime", "idle", "next"}
  /\ dir \in {"fwd", "rev"}
  /\ lo \in Bounds \cup {None} /\ hi \in Bounds \cup {None}
  /\ dir = "rev" => lo = None /\ hi = None
  /\ pc = "prime" => lo # None
  /\ stack \in Seq(Keys) /\ current \in Keys \cup {0} /\ yielded \in Seq(Keys)
  /\ short \in BOOLEAN /\ refused \in BOOLEAN
  /\ ret \in {"none", "true", "false", "invalid", "failed", "collected"}

(* Each stacked node comes after everything stacked above it.              *)
Chain ==
  \A j \in DOMAIN stack :
    /\ \A k \in tree.under[current] : Before(k, stack[j])
    /\ \A h \in 1 .. j - 1 : \A k \in Rest(stack[j]) : Before(k, stack[h])

(* Nothing below the lower bound is left to visit, except while the stack  *)
(* is primed.                                                              *)
NoneBelow ==
  lo # None => /\ \A k \in Stacked : k >= lo
               /\ pc # "prime" => \A k \in tree.under[current] : k >= lo

(* What was yielded comes before what remains.                             *)
YieldedFirst ==
  \A h \in DOMAIN yielded : \A k \in Remaining : Before(yielded[h], k)

(* Every key of the range has been yielded or remains.                     *)
Covered ==
  pc # "none" /\ ~short => \A k \in Keys : InRange(k) => k \in Range(yielded) \cup Remaining

OrderInv == TypeOK /\ Chain /\ NoneBelow /\ YieldedFirst /\ Covered /\ InOrderNoGap /\ EndsAtTheEnd

-----------------------------------------------------------------------------
(* Trees and orders.                                                       *)

LEMMA TreeFacts ==
  ASSUME TypeOK
  PROVE  /\ IsSearchTree(tree) /\ Keys \subseteq Nat \ {0}
         /\ tree.under \in [Keys \cup {0} -> SUBSET Keys] /\ tree.under[0] = {}
         /\ tree.root \in Keys \cup {0} /\ tree.under[tree.root] = Keys
<1>1. IsSearchTree(tree)
  BY TreeIterAssumption DEF TypeOK
<1>2. QED
  BY <1>1 DEF IsSearchTree, Keys

(* The two children of a node, by the direction of the iterator.           *)
LEMMA NodeFacts ==
  ASSUME TypeOK, NEW n \in Keys
  PROVE  /\ Near(n) \in Keys \cup {0} /\ Far(n) \in Keys \cup {0}
         /\ tree.under[n] = {n} \cup tree.under[Near(n)] \cup tree.under[Far(n)]
         /\ \A m \in tree.under[Near(n)] : Before(m, n)
         /\ \A m \in tree.under[Far(n)] : Before(n, m)
<1>1. IsSearchTree(tree) /\ Keys = DOMAIN tree.left
  BY TreeFacts DEF Keys
<1>2. /\ tree.left[n] \in Keys \cup {0} /\ tree.right[n] \in Keys \cup {0}
      /\ tree.under[n] = {n} \cup tree.under[tree.left[n]] \cup tree.under[tree.right[n]]
      /\ \A m \in tree.under[tree.left[n]] : m < n
      /\ \A m \in tree.under[tree.right[n]] : n < m
  BY <1>1 DEF IsSearchTree
<1>3. \A m \in tree.under[tree.left[n]] \cup tree.under[tree.right[n]] : m \in Nat
  BY <1>2, TreeFacts
<1>4. n \in Nat
  BY TreeFacts
<1>5. CASE dir = "rev"
  BY <1>2, <1>3, <1>4, <1>5 DEF Near, Far, Before
<1>6. CASE dir # "rev"
  BY <1>2, <1>3, <1>4, <1>6 DEF Near, Far, Before
<1>7. QED
  BY <1>5, <1>6

LEMMA BeforeOrder ==
  ASSUME TypeOK
  PROVE  /\ \A a, b, c \in Keys : Before(a, b) /\ Before(b, c) => Before(a, c)
         /\ \A a, b \in Keys : ~(Before(a, b) /\ Before(b, a))
<1>1. Keys \subseteq Nat
  BY TreeFacts
<1>2. QED
  BY <1>1 DEF Before

(* What remains is keys.                                                   *)
LEMMA RestKeys ==
  ASSUME TypeOK
  PROVE  /\ \A n \in Keys : Rest(n) \subseteq Keys /\ n \in Rest(n)
         /\ Stacked \subseteq Keys /\ Remaining \subseteq Keys
         /\ \A j \in DOMAIN stack : stack[j] \in Keys
         /\ \A j \in DOMAIN yielded : yielded[j] \in Keys
<1>1. \A j \in DOMAIN stack : stack[j] \in Keys
  BY ElementOfSeq DEF TypeOK
<1>2. \A j \in DOMAIN yielded : yielded[j] \in Keys
  BY ElementOfSeq DEF TypeOK
<1>3. ASSUME NEW n \in Keys PROVE Rest(n) \subseteq Keys /\ n \in Rest(n)
  BY NodeFacts, TreeFacts DEF Rest
<1>4. Stacked \subseteq Keys
  BY <1>1, <1>3 DEF Stacked
<1>5. tree.under[current] \subseteq Keys
  BY TreeFacts DEF TypeOK
<1>6. QED
  BY <1>1, <1>2, <1>3, <1>4, <1>5 DEF Remaining

(* The sequences' ends.                                                    *)
LEMMA PushedSeq ==
  ASSUME NEW S, NEW s \in Seq(S), NEW e \in S
  PROVE  /\ Append(s, e) \in Seq(S) /\ Len(Append(s, e)) = Len(s) + 1
         /\ DOMAIN Append(s, e) = DOMAIN s \cup {Len(s) + 1} /\ Len(s) + 1 \notin DOMAIN s
         /\ \A j \in DOMAIN s : Append(s, e)[j] = s[j]
         /\ Append(s, e)[Len(s) + 1] = e
         /\ Range(Append(s, e)) = Range(s) \cup {e}
<1>1. /\ Append(s, e) \in Seq(S) /\ Len(Append(s, e)) = Len(s) + 1
      /\ \A j \in 1 .. Len(s) : Append(s, e)[j] = s[j]
      /\ Append(s, e)[Len(s) + 1] = e
  BY AppendProperties
<1>2. DOMAIN s = 1 .. Len(s) /\ DOMAIN Append(s, e) = 1 .. Len(s) + 1 /\ Len(s) \in Nat
  BY <1>1, LenProperties
<1>3. DOMAIN Append(s, e) = DOMAIN s \cup {Len(s) + 1} /\ Len(s) + 1 \notin DOMAIN s
  BY <1>2
<1>4. Range(Append(s, e)) = Range(s) \cup {e}
  BY <1>1, <1>2, <1>3 DEF Range
<1>5. QED
  BY <1>1, <1>2, <1>3, <1>4

PrefixOf(p, s) == \A j \in DOMAIN p : p[j] = s[j]

LEMMA PoppedSeq ==
  ASSUME NEW S, NEW s \in Seq(S), s # <<>>, NEW p, p = SubSeq(s, 1, Len(s) - 1)
  PROVE  /\ p \in Seq(S) /\ Len(p) = Len(s) - 1 /\ Len(s) \in DOMAIN s
         /\ DOMAIN s = DOMAIN p \cup {Len(s)} /\ DOMAIN p = 1 .. Len(s) - 1
         /\ PrefixOf(p, s)
<1>1. Len(s) \in Nat \ {0} /\ DOMAIN s = 1 .. Len(s)
  BY LenProperties, EmptySeq
<1>2. /\ p \in Seq(S) /\ Len(p) = Len(s) - 1
      /\ \A j \in 1 .. Len(s) - 1 : p[j] = s[j]
  <2>1. /\ Len(p) = IF 1 <= Len(s) - 1 THEN Len(s) - 1 ELSE 0
        /\ \A j \in 1 .. Len(s) - 1 : p[j] = s[1 + j - 1]
        /\ p \in Seq(S)
    BY <1>1, SubSeqProperties
  <2>2. QED
    BY <1>1, <2>1
<1>3. DOMAIN p = 1 .. Len(s) - 1
  BY <1>1, <1>2, LenProperties
<1>4. PrefixOf(p, s)
  BY <1>2, <1>3 DEF PrefixOf
<1>5. QED
  BY <1>1, <1>2, <1>3, <1>4

-----------------------------------------------------------------------------
(* The steps.  Those that do not touch the traversal come first.           *)

core == <<tree, dir, lo, hi, stack, current, yielded, short>>

LEMMA CoreKept ==
  ASSUME OrderInv, UNCHANGED core, pc' \in {"idle", "next"}, pc \notin {"none", "prime"},
         refused' \in BOOLEAN, ret' \in {"none", "true", "false"},
         ret' = "false" /\ ~refused' => ret = "false" /\ ~refused
  PROVE  OrderInv'
<1>1. UNCHANGED <<Keys, Remaining, Stacked>> /\ \A n : Rest(n)' = Rest(n) /\ InRange(n)' = InRange(n)
  BY DEF core, Keys, Remaining, Stacked, Rest, Far, InRange
<1>2. \A m, n : Before(m, n)' = Before(m, n)
  BY DEF core, Before
<1>3. TypeOK'
  BY DEF OrderInv, TypeOK, core, Keys
<1>4. Chain' /\ NoneBelow' /\ YieldedFirst'
  BY <1>1, <1>2 DEF OrderInv, Chain, NoneBelow, YieldedFirst, core
<1>5. Covered' /\ InOrderNoGap' /\ EndsAtTheEnd'
  BY <1>1, <1>2 DEF OrderInv, Covered, InOrderNoGap, EndsAtTheEnd, core
<1>6. QED
  BY <1>3, <1>4, <1>5 DEF OrderInv

(* Without an iterator only what was yielded counts.                       *)
LEMMA NoIterator ==
  ASSUME OrderInv, UNCHANGED <<tree, dir, lo, hi, yielded, short>>,
         pc' = "none", stack' = <<>>, current' = 0,
         refused' \in BOOLEAN, ret' \in {"none", "true", "false", "invalid", "failed", "collected"},
         ret' = "false" /\ ~refused' => ret = "false" /\ ~refused
  PROVE  OrderInv'
<1>1. UNCHANGED Keys /\ \A n : InRange(n)' = InRange(n)
  BY DEF Keys, InRange
<1>2. \A m, n : Before(m, n)' = Before(m, n)
  BY DEF Before
<1>3. TypeOK'
  BY EmptySeq DEF OrderInv, TypeOK, Keys
<1>4. Remaining' = {} /\ Stacked' = {} /\ tree'.under[current'] = {} /\ DOMAIN stack' = {}
  <2>1. tree'.under[current'] = {}
    BY <1>3, TreeFacts DEF OrderInv
  <2>2. DOMAIN stack' = {}
    BY LenProperties, EmptySeq
  <2>3. Stacked' = {}
    BY <2>2 DEF Stacked
  <2>4. QED
    BY <2>1, <2>2, <2>3 DEF Remaining
<1>5. Chain' /\ NoneBelow' /\ YieldedFirst' /\ Covered'
  BY <1>4 DEF Chain, NoneBelow, YieldedFirst, Covered
<1>6. InOrderNoGap' /\ EndsAtTheEnd'
  BY <1>1, <1>2 DEF OrderInv, InOrderNoGap, EndsAtTheEnd
<1>7. QED
  BY <1>3, <1>5, <1>6 DEF OrderInv

LEMMA StepUser ==
  ASSUME OrderInv,
         \/ NextCall \/ (\E big \in {0, 1} : Collect(big)) \/ CollectTakes
         \/ DescendRefused \/ Drop \/ CollectRefused \/ CollectFails \/ CollectDone
  PROVE  OrderInv'
<1>1. CASE NextCall \/ (\E big \in {0, 1} : Collect(big)) \/ CollectTakes
  <2>1. /\ UNCHANGED core /\ pc = "idle" /\ pc' \in {"idle", "next"} /\ ret' = "none"
        /\ refused' \in BOOLEAN
    BY <1>1 DEF NextCall, Collect, CollectTakes, iterVars, core, OrderInv, TypeOK
  <2>2. QED
    BY <2>1, CoreKept
<1>2. CASE DescendRefused
  <2>1. UNCHANGED core /\ pc = "next" /\ pc' = "idle" /\ ret' = "false" /\ refused' = TRUE
    BY <1>2 DEF DescendRefused, PushRefused, core
  <2>2. QED
    BY <2>1, CoreKept
<1>3. CASE Drop \/ CollectRefused \/ CollectFails \/ CollectDone
  <2>1. /\ UNCHANGED <<tree, dir, lo, hi, yielded, short, refused>>
        /\ pc' = "none" /\ stack' = <<>> /\ current' = 0
        /\ ret' \in {ret, "failed", "collected"} /\ refused \in BOOLEAN
        /\ ret \in {"none", "true", "false", "invalid", "failed", "collected"}
    BY <1>3 DEF Drop, CollectRefused, CollectFails, CollectDone, CollectEnds, Dropped, OrderInv, TypeOK
  <2>2. QED
    BY <2>1, NoIterator
<1>4. QED
  BY <1>1, <1>2, <1>3

(* Before an iterator and after it.                                        *)
LEMMA StepOutside ==
  ASSUME OrderInv, IterRefused \/ FreeSlice \/ UNCHANGED vars
  PROVE  OrderInv'
<1>1. UNCHANGED core /\ pc' = pc /\ UNCHANGED refused /\ ret' \in {ret, "invalid"}
  BY DEF IterRefused, FreeSlice, vars, iterVars, core
<1>2. UNCHANGED <<Keys, Remaining, Stacked>> /\ \A n : Rest(n)' = Rest(n) /\ InRange(n)' = InRange(n)
  BY <1>1 DEF core, Keys, Remaining, Stacked, Rest, Far, InRange
<1>3. \A m, n : Before(m, n)' = Before(m, n)
  BY <1>1 DEF core, Before
<1>4. TypeOK'
  BY <1>1 DEF OrderInv, TypeOK, core, Keys
<1>5. Chain' /\ NoneBelow' /\ YieldedFirst'
  BY <1>1, <1>2, <1>3 DEF OrderInv, Chain, NoneBelow, YieldedFirst, core
<1>6. Covered' /\ InOrderNoGap' /\ EndsAtTheEnd'
  BY <1>1, <1>2, <1>3 DEF OrderInv, Covered, InOrderNoGap, EndsAtTheEnd, core
<1>7. QED
  BY <1>4, <1>5, <1>6 DEF OrderInv

-----------------------------------------------------------------------------
(* The steps of the traversal.  All but the constructors leave the tree    *)
(* and what the iterator was opened with alone.                            *)
LEMMA SameIterator ==
  ASSUME UNCHANGED <<tree, dir, lo, hi>>
  PROVE  /\ UNCHANGED Keys
         /\ \A n : Rest(n)' = Rest(n) /\ Far(n)' = Far(n) /\ InRange(n)' = InRange(n)
         /\ \A m, n : Before(m, n)' = Before(m, n)
BY DEF Keys, Rest, Far, InRange, Before

LEMMA BoundsFacts ==
  ASSUME TypeOK
  PROVE  /\ lo # None => lo \in Int /\ dir = "fwd"
         /\ hi # None => hi \in Int /\ dir = "fwd"
BY TreeIterAssumption DEF TypeOK

(* A constructor: every key is under the root, and none is yielded.        *)
LEMMA StepOpened ==
  ASSUME OrderInv, Iter \/ IterRange
  PROVE  OrderInv'
<1>1. PICK d \in {"fwd", "rev"}, l \in Bounds \cup {None}, h \in Bounds \cup {None} :
        Opened(d, l, h) /\ (d = "rev" => l = None /\ h = None)
  BY DEF Iter, IterRange
<1>2. /\ tree' = tree /\ UNCHANGED Keys /\ dir' = d /\ lo' = l /\ hi' = h
      /\ stack' = <<>> /\ yielded' = <<>> /\ current' = tree.root
      /\ short' = FALSE /\ refused' = FALSE /\ ret' = "none"
      /\ pc' = IF l = None THEN "idle" ELSE "prime"
  BY <1>1 DEF Opened, Keys
<1>3. TypeOK'
  <2>1. tree.root \in Keys \cup {0} /\ tree \in Trees
    BY TreeFacts DEF OrderInv, TypeOK
  <2>2. QED
    BY <1>1, <1>2, <2>1, EmptySeq DEF TypeOK
<1>4. DOMAIN stack' = {} /\ DOMAIN yielded' = {} /\ Range(yielded)' = {}
  BY <1>2, LenProperties, EmptySeq DEF Range
<1>5. Stacked' = {} /\ Remaining' = Keys' /\ tree'.under[current'] = Keys'
  <2>1. tree.under[tree.root] = Keys
    BY TreeFacts DEF OrderInv
  <2>2. Stacked' = {}
    BY <1>4 DEF Stacked
  <2>3. QED
    BY <1>2, <2>1, <2>2 DEF Remaining
<1>6. Chain' /\ YieldedFirst' /\ Covered'
  BY <1>4, <1>5 DEF Chain, YieldedFirst, Covered
<1>7. NoneBelow'
  BY <1>2, <1>5 DEF NoneBelow
<1>8. InOrderNoGap' /\ EndsAtTheEnd'
  BY <1>2, <1>4 DEF InOrderNoGap, EndsAtTheEnd
<1>9. QED
  BY <1>3, <1>6, <1>7, <1>8 DEF OrderInv

(* The iterator moves down without a push, or stays.                       *)
LEMMA MovedDown ==
  ASSUME OrderInv, UNCHANGED <<tree, dir, lo, hi, stack, yielded, refused>>,
         current' \in Keys \cup {0}, tree.under[current'] \subseteq tree.under[current],
         pc' \in {"prime", "idle"}, pc' = "prime" => pc = "prime",
         short' \in BOOLEAN, short => short',
         ret' \in {"none", "true", "false", "invalid", "failed", "collected"},
         Covered', EndsAtTheEnd',
         pc' # "prime" /\ lo # None => \A k \in tree.under[current'] : k >= lo
  PROVE  OrderInv'
<1>1. /\ UNCHANGED Keys
      /\ \A n : Rest(n)' = Rest(n) /\ InRange(n)' = InRange(n)
      /\ \A m, n : Before(m, n)' = Before(m, n)
  BY SameIterator
<1>2. UNCHANGED Stacked
  BY <1>1 DEF Stacked
<1>3. Remaining' \subseteq Remaining
  BY <1>2 DEF Remaining
<1>4. TypeOK'
  BY <1>1 DEF OrderInv, TypeOK
<1>5. Chain'
  BY <1>1 DEF OrderInv, Chain
<1>6. NoneBelow'
  BY <1>2 DEF OrderInv, NoneBelow
<1>7. YieldedFirst'
  BY <1>1, <1>3 DEF OrderInv, YieldedFirst
<1>8. InOrderNoGap'
  BY <1>1 DEF OrderInv, InOrderNoGap
<1>9. QED
  BY <1>4, <1>5, <1>6, <1>7, <1>8 DEF OrderInv

(* Priming: what is passed over lies below the lower bound.                *)
LEMMA StepPrime ==
  ASSUME OrderInv, PrimeRight \/ PrimeRefused \/ PrimeDone
  PROVE  OrderInv'
<1>1. TypeOK
  BY DEF OrderInv
<1>2. tree.under[0] = {}
  BY <1>1, TreeFacts
<1>3. CASE PrimeRight
  <2>1. /\ UNCHANGED <<tree, dir, lo, hi, stack, yielded, refused, ret, short>>
        /\ pc = "prime" /\ pc' = "prime" /\ current \in Keys /\ ~(current >= lo)
        /\ current' = tree.right[current]
    BY <1>1, <1>3 DEF PrimeRight, NotBelow, AfterSmaller, TypeOK
  <2>2. lo # None /\ lo \in Int /\ dir = "fwd"
    BY <1>1, <2>1, BoundsFacts DEF TypeOK
  <2>3. current' = Far(current)
    BY <2>1, <2>2 DEF Far
  <2>4. /\ current' \in Keys \cup {0}
        /\ tree.under[current] = {current} \cup tree.under[Near(current)] \cup tree.under[current']
        /\ \A m \in tree.under[Near(current)] : Before(m, current)
    BY <1>1, <2>1, <2>3, NodeFacts
  <2>5. \A k \in tree.under[current] : k \in tree.under[current'] \/ ~(k >= lo)
    <3>1. tree.under[Near(current)] \subseteq Nat /\ current \in Nat
      BY <1>1, <2>1, TreeFacts, NodeFacts
    <3>2. QED
      BY <2>1, <2>2, <2>4, <3>1 DEF Before
  <2>6. Covered'
    <3>1. UNCHANGED <<Keys, Stacked, Range(yielded)>> /\ \A n : InRange(n)' = InRange(n)
      BY <2>1, SameIterator DEF Stacked, Range
    <3>2. \A k \in Remaining : k \in Remaining' \/ ~InRange(k)
      BY <2>1, <2>2, <2>5, <3>1 DEF Remaining, InRange
    <3>3. QED
      BY <2>1, <3>1, <3>2 DEF OrderInv, Covered
  <2>7. EndsAtTheEnd'
    BY <2>1, SameIterator DEF OrderInv, EndsAtTheEnd
  <2>8. tree.under[current'] \subseteq tree.under[current]
    BY <2>4
  <2>9. refused' = refused /\ short' = short /\ short \in BOOLEAN
        /\ ret' \in {"none", "true", "false", "invalid", "failed", "collected"}
    BY <1>1, <2>1 DEF TypeOK
  <2>10. QED
    BY <2>1, <2>4, <2>6, <2>7, <2>8, <2>9, MovedDown
<1>4. CASE PrimeRefused
  <2>1. /\ UNCHANGED <<tree, dir, lo, hi, stack, yielded, refused, ret>>
        /\ pc' = "idle" /\ current' = 0 /\ short' = TRUE
    BY <1>4 DEF PrimeRefused, PushRefused
  <2>2. Covered' /\ EndsAtTheEnd'
    BY <2>1 DEF Covered, EndsAtTheEnd
  <2>3. ret' \in {"none", "true", "false", "invalid", "failed", "collected"}
    BY <1>1, <2>1 DEF TypeOK
  <2>4. QED
    BY <1>2, <2>1, <2>2, <2>3, MovedDown
<1>5. CASE PrimeDone
  <2>1. UNCHANGED core /\ UNCHANGED <<refused, ret>> /\ pc = "prime" /\ pc' = "idle" /\ current = 0
    BY <1>5 DEF PrimeDone, iterVars, core
  <2>2. /\ UNCHANGED <<Keys, Range(yielded), Remaining>> /\ \A n : InRange(n)' = InRange(n)
    BY <2>1, SameIterator DEF core, Remaining, Stacked, Range
  <2>3. Covered' /\ EndsAtTheEnd'
    BY <2>1, <2>2 DEF OrderInv, Covered, EndsAtTheEnd, core
  <2>4. /\ ret' \in {"none", "true", "false", "invalid", "failed", "collected"}
        /\ short \in BOOLEAN /\ current' \in Keys \cup {0}
    BY <1>1, <2>1 DEF TypeOK, core
  <2>5. QED
    BY <1>2, <2>1, <2>3, <2>4, MovedDown DEF core
<1>6. QED
  BY <1>3, <1>4, <1>5

(* A push moves current from what is under it to what is stacked.          *)
LEMMA StepPushes ==
  ASSUME OrderInv, PrimePush \/ Descend
  PROVE  OrderInv'
<1>1. TypeOK
  BY DEF OrderInv
<1>2. /\ UNCHANGED <<tree, pc, dir, lo, hi, yielded, short, ret, refused>>
      /\ pc \in {"prime", "next"} /\ (pc = "prime" => current >= lo)
      /\ current \in Keys /\ stack' = Append(stack, current) /\ current' = Near(current)
  <2>1. dir = "fwd" \/ pc = "next"
    BY <1>1, BoundsFacts DEF TypeOK, PrimePush, Descend
  <2>2. QED
    BY <1>1, <2>1 DEF PrimePush, Descend, Push, NotBelow, Near, TypeOK
<1>3. /\ UNCHANGED <<Keys, Range(yielded)>>
      /\ \A n : Rest(n)' = Rest(n) /\ Far(n)' = Far(n) /\ InRange(n)' = InRange(n)
      /\ \A m, n : Before(m, n)' = Before(m, n)
  BY <1>2, SameIterator DEF Range
<1>4. /\ stack' \in Seq(Keys) /\ DOMAIN stack' = DOMAIN stack \cup {Len(stack) + 1}
      /\ \A j \in DOMAIN stack : stack'[j] = stack[j] /\ j \in Nat /\ 1 .. j - 1 \subseteq DOMAIN stack
      /\ stack'[Len(stack) + 1] = current /\ 1 .. (Len(stack) + 1) - 1 = DOMAIN stack
      /\ Len(stack) + 1 \notin DOMAIN stack
  <2>1. stack \in Seq(Keys)
    BY <1>1 DEF TypeOK
  <2>2. /\ stack' \in Seq(Keys) /\ DOMAIN stack' = DOMAIN stack \cup {Len(stack) + 1}
        /\ \A j \in DOMAIN stack : stack'[j] = stack[j]
        /\ stack'[Len(stack) + 1] = current /\ Len(stack) + 1 \notin DOMAIN stack
    BY <1>2, <2>1, PushedSeq
  <2>3. DOMAIN stack = 1 .. Len(stack) /\ Len(stack) \in Nat
    BY <2>1, LenProperties
  <2>4. QED
    BY <2>2, <2>3
<1>5. /\ current' \in Keys \cup {0} /\ Rest(current) \subseteq tree.under[current]
      /\ tree.under[current'] \subseteq tree.under[current]
      /\ tree.under[current] = tree.under[current'] \cup Rest(current)
      /\ \A m \in tree.under[current'] : Before(m, current)
      /\ \A m \in tree.under[Far(current)] : Before(current, m)
  BY <1>1, <1>2, NodeFacts DEF Rest
<1>6. Stacked' = Stacked \cup Rest(current)
  BY <1>3, <1>4 DEF Stacked
<1>7. Remaining' = Remaining
  BY <1>2, <1>5, <1>6 DEF Remaining
<1>8. TypeOK'
  BY <1>1, <1>2, <1>3, <1>4, <1>5 DEF TypeOK
<1>9. Chain'
  <2>1. ASSUME NEW j \in DOMAIN stack
        PROVE  /\ \A k \in tree.under[current'] : Before(k, stack'[j])
               /\ \A h \in 1 .. j - 1 : \A k \in Rest(stack'[j]) : Before(k, stack'[h])
    BY <1>4, <1>5 DEF OrderInv, Chain
  <2>2. /\ \A k \in tree.under[current'] : Before(k, stack'[Len(stack) + 1])
        /\ \A h \in DOMAIN stack : \A k \in Rest(stack'[Len(stack) + 1]) : Before(k, stack'[h])
    BY <1>4, <1>5 DEF OrderInv, Chain
  <2>3. QED
    BY <1>2, <1>3, <1>4, <2>1, <2>2 DEF Chain
<1>10. NoneBelow'
  <2>1. ASSUME lo # None PROVE \A k \in Rest(current) : k >= lo
    <3>1. CASE pc = "prime"
      <4>1. lo \in Int /\ dir = "fwd" /\ current >= lo
        BY <1>1, <1>2, <2>1, <3>1, BoundsFacts
      <4>2. tree.under[Far(current)] \subseteq Nat /\ current \in Nat
        BY <1>1, <1>2, TreeFacts, RestKeys DEF Rest
      <4>3. QED
        BY <1>5, <4>1, <4>2 DEF Rest, Before
    <3>2. CASE pc = "next"
      BY <1>5, <2>1, <3>2 DEF OrderInv, NoneBelow
    <3>3. QED
      BY <1>2, <3>1, <3>2
  <2>2. QED
    BY <1>2, <1>5, <1>6, <2>1 DEF OrderInv, NoneBelow
<1>11. YieldedFirst' /\ Covered'
  BY <1>2, <1>3, <1>7 DEF OrderInv, YieldedFirst, Covered
<1>12. InOrderNoGap' /\ EndsAtTheEnd'
  BY <1>2, <1>3 DEF OrderInv, InOrderNoGap, EndsAtTheEnd
<1>13. QED
  BY <1>8, <1>9, <1>10, <1>11, <1>12 DEF OrderInv

(* The end: nothing remains, or all that remains is past the upper bound.  *)
LEMMA StepEnds ==
  ASSUME OrderInv, NextEnds \/ NextPastHi
  PROVE  OrderInv'
<1>1. TypeOK
  BY DEF OrderInv
<1>2. /\ UNCHANGED <<tree, dir, lo, hi, current, yielded, short, refused>>
      /\ pc = "next" /\ pc' = "idle" /\ ret' = "false" /\ current = 0 /\ stack' = <<>>
      /\ stack = <<>> \/ PastHi(Top)
  BY DEF NextEnds, NextPastHi, iterVars
<1>3. /\ UNCHANGED <<Keys, Range(yielded)>>
      /\ \A n : Rest(n)' = Rest(n) /\ Far(n)' = Far(n) /\ InRange(n)' = InRange(n)
      /\ \A m, n : Before(m, n)' = Before(m, n)
  BY <1>2, SameIterator DEF Range
<1>4. tree.under[current] = {}
  BY <1>1, <1>2, TreeFacts
<1>5. DOMAIN stack' = {} /\ Stacked' = {} /\ Remaining' = {}
  <2>1. DOMAIN stack' = {}
    BY <1>2, LenProperties, EmptySeq
  <2>2. Stacked' = {}
    BY <2>1 DEF Stacked
  <2>3. QED
    BY <1>2, <1>4, <2>1, <2>2 DEF Remaining
<1>6. \A k \in Remaining : ~InRange(k)
  <2>1. CASE stack = <<>>
    <3>1. DOMAIN stack = {}
      BY <2>1, LenProperties, EmptySeq
    <3>2. QED
      BY <1>4, <3>1 DEF Remaining, Stacked
  <2>2. CASE stack # <<>> /\ PastHi(Top)
    <3>1. hi # None /\ hi \in Int /\ dir = "fwd" /\ Top > hi
      BY <1>1, <2>2, BoundsFacts DEF PastHi
    <3>2. /\ Len(stack) \in DOMAIN stack /\ DOMAIN stack = 1 .. Len(stack) /\ Len(stack) \in Nat
      BY <1>1, <2>2, LenProperties, EmptySeq DEF TypeOK
    <3>3. Top \in Nat /\ Remaining \subseteq Nat
      BY <1>1, <3>2, RestKeys, TreeFacts DEF Top
    <3>4. ASSUME NEW j \in DOMAIN stack, NEW k \in Rest(stack[j]) PROVE k = Top \/ Before(Top, k)
      <4>1. stack[j] \in Keys /\ k \in Keys /\ Top \in Keys
        BY <1>1, <3>2, RestKeys DEF Top
      <4>2. k = stack[j] \/ Before(stack[j], k)
        BY <1>1, <4>1, NodeFacts DEF Rest
      <4>3. stack[j] = Top \/ Before(Top, stack[j])
        <5>1. Top \in Rest(Top)
          BY <1>1, <4>1, RestKeys
        <5>2. CASE j = Len(stack)
          BY <5>2 DEF Top
        <5>3. CASE j # Len(stack)
          <6>1. j \in 1 .. Len(stack) - 1
            BY <3>2, <5>3
          <6>2. QED
            BY <3>2, <5>1, <6>1 DEF OrderInv, Chain, Top
        <5>4. QED
          BY <5>2, <5>3
      <4>4. QED
        BY <1>1, <4>1, <4>2, <4>3, BeforeOrder
    <3>5. Remaining = Stacked
      BY <1>4 DEF Remaining
    <3>6. \A k \in Remaining : k >= Top
      BY <3>1, <3>3, <3>4, <3>5 DEF Stacked, Before
    <3>7. QED
      BY <3>1, <3>3, <3>6 DEF InRange
  <2>3. QED
    BY <1>2, <2>1, <2>2
<1>7. ~short => \A k \in Keys : InRange(k) => k \in Range(yielded)
  BY <1>2, <1>6 DEF OrderInv, Covered
<1>8. TypeOK'
  BY <1>1, <1>2, <1>3, EmptySeq DEF TypeOK
<1>9. Chain' /\ YieldedFirst' /\ NoneBelow'
  BY <1>2, <1>4, <1>5 DEF Chain, YieldedFirst, NoneBelow
<1>10. Covered' /\ EndsAtTheEnd'
  BY <1>2, <1>3, <1>7 DEF Covered, EndsAtTheEnd
<1>11. InOrderNoGap'
  BY <1>2, <1>3 DEF OrderInv, InOrderNoGap
<1>12. QED
  BY <1>8, <1>9, <1>10, <1>11 DEF OrderInv

(* The top of the stack comes before all else that remains.                *)
LEMMA StepYields ==
  ASSUME OrderInv, NextYields
  PROVE  OrderInv'
<1>1. TypeOK /\ stack \in Seq(Keys) /\ yielded \in Seq(Keys)
  BY DEF OrderInv, TypeOK
<1>2. /\ UNCHANGED <<tree, dir, lo, hi, short, refused>>
      /\ pc = "next" /\ pc' = "idle" /\ ret' = "true" /\ current = 0 /\ current' = Far(Top)
      /\ stack # <<>> /\ stack' = SubSeq(stack, 1, Len(stack) - 1)
      /\ yielded' = Append(yielded, Top) /\ ~PastHi(Top)
  BY DEF NextYields, Popped
<1>3. /\ UNCHANGED Keys
      /\ \A n : Rest(n)' = Rest(n) /\ Far(n)' = Far(n) /\ InRange(n)' = InRange(n)
      /\ \A m, n : Before(m, n)' = Before(m, n)
  BY <1>2, SameIterator
<1>4. tree.under[current] = {} /\ Remaining = Stacked
  BY <1>1, <1>2, TreeFacts DEF Remaining
<1>5. /\ stack' \in Seq(Keys) /\ Len(stack) \in DOMAIN stack
      /\ DOMAIN stack = DOMAIN stack' \cup {Len(stack)}
      /\ \A j \in DOMAIN stack' : stack'[j] = stack[j] /\ j \in 1 .. Len(stack) - 1
      /\ \A j \in DOMAIN stack' : 1 .. j - 1 \subseteq DOMAIN stack'
      /\ DOMAIN stack' = 1 .. Len(stack) - 1
  <2>1. /\ stack' \in Seq(Keys) /\ Len(stack) \in DOMAIN stack /\ Len(stack') = Len(stack) - 1
        /\ DOMAIN stack = DOMAIN stack' \cup {Len(stack)}
        /\ \A j \in DOMAIN stack' : stack'[j] = stack[j] /\ j \in 1 .. Len(stack) - 1
    <3> PICK s, p : s = stack /\ p = stack'
      OBVIOUS
    <3>1. s \in Seq(Keys) /\ s # <<>> /\ p = SubSeq(s, 1, Len(s) - 1)
      BY <1>1, <1>2
    <3>2. /\ p \in Seq(Keys) /\ Len(p) = Len(s) - 1 /\ Len(s) \in DOMAIN s
          /\ DOMAIN s = DOMAIN p \cup {Len(s)} /\ DOMAIN p = 1 .. Len(s) - 1 /\ PrefixOf(p, s)
      BY ONLY <3>1, PoppedSeq
    <3>3. QED
      BY <3>2 DEF PrefixOf
  <2>2. DOMAIN stack' = 1 .. Len(stack) - 1 /\ Len(stack) \in Nat
    <3> PICK s, p : s = stack /\ p = stack'
      OBVIOUS
    <3>1. s \in Seq(Keys) /\ p \in Seq(Keys) /\ Len(p) = Len(s) - 1
      BY <1>1, <2>1
    <3>2. Len(s) \in Nat /\ DOMAIN p = 1 .. Len(p)
      BY ONLY <3>1, LenProperties
    <3>3. QED
      BY <3>1, <3>2
  <2>3. \A j \in DOMAIN stack' : 1 .. j - 1 \subseteq DOMAIN stack'
    BY ONLY <2>2
  <2>4. QED
    BY <2>1, <2>2, <2>3
<1>6. /\ yielded' \in Seq(Keys) /\ DOMAIN yielded' = DOMAIN yielded \cup {Len(yielded) + 1}
      /\ Len(yielded) + 1 \notin DOMAIN yielded /\ \A j \in DOMAIN yielded : yielded'[j] = yielded[j]
      /\ yielded'[Len(yielded) + 1] = Top /\ Range(yielded') = Range(yielded) \cup {Top}
      /\ DOMAIN yielded = 1 .. Len(yielded) /\ Len(yielded) \in Nat
  <2>1. Top \in Keys
    BY <1>1, <1>5, RestKeys DEF Top
  <2>2. QED
    BY <1>1, <1>2, <2>1, PushedSeq, LenProperties
<1>7. /\ Top \in Keys /\ current' \in Keys \cup {0}
      /\ Rest(Top) = {Top} \cup tree.under[current'] /\ \A m \in tree.under[current'] : Before(Top, m)
  BY <1>1, <1>2, <1>5, RestKeys, NodeFacts DEF Top, Rest
<1>8. /\ Stacked' \subseteq Stacked /\ Stacked = Stacked' \cup Rest(Top)
      /\ Remaining' \subseteq Remaining /\ Remaining = Remaining' \cup {Top}
  <2>1. Stacked = Stacked' \cup Rest(Top)
    BY <1>3, <1>5 DEF Stacked, Top
  <2>2. Remaining' = tree.under[current'] \cup Stacked'
    BY <1>2 DEF Remaining
  <2>3. QED
    BY <1>4, <1>7, <2>1, <2>2
<1>9. \A k \in Remaining' : Before(Top, k)
  <2>1. ASSUME NEW j \in DOMAIN stack', NEW k \in Rest(stack[j])
        PROVE  Before(Top, k)
    <3>1. stack[j] \in Keys /\ k \in Keys
      BY <1>1, <1>5, RestKeys
    <3>2. k = stack[j] \/ Before(stack[j], k)
      BY <1>1, <3>1, NodeFacts DEF Rest
    <3>3. Before(Top, stack[j])
      BY <1>5, <1>7 DEF OrderInv, Chain, Top
    <3>4. QED
      BY <1>1, <1>7, <3>1, <3>2, <3>3, BeforeOrder
  <2>2. \A k \in Stacked' : Before(Top, k)
    BY <1>3, <1>5, <2>1 DEF Stacked
  <2>3. QED
    BY <1>2, <1>7, <2>2 DEF Remaining
<1>10. TypeOK'
  BY <1>1, <1>2, <1>3, <1>5, <1>6, <1>7 DEF TypeOK
<1>11. Chain'
  <2>1. ASSUME NEW j \in DOMAIN stack'
        PROVE  /\ \A k \in tree.under[current'] : Before(k, stack'[j])
               /\ \A h \in 1 .. j - 1 : \A k \in Rest(stack'[j]) : Before(k, stack'[h])
    BY <1>5, <1>7 DEF OrderInv, Chain, Top
  <2>2. QED
    BY <1>2, <1>3, <2>1 DEF Chain
<1>12. NoneBelow'
  BY <1>2, <1>7, <1>8 DEF OrderInv, NoneBelow
<1>13. YieldedFirst'
  <2>1. ASSUME NEW h \in DOMAIN yielded', NEW k \in Remaining' PROVE Before(yielded'[h], k)
    BY <1>6, <1>8, <1>9 DEF OrderInv, YieldedFirst
  <2>2. QED
    BY <1>3, <2>1 DEF YieldedFirst
<1>14. Covered'
  BY <1>2, <1>3, <1>6, <1>8 DEF OrderInv, Covered
<1>15. InOrderNoGap'
  <2>1. ASSUME NEW i \in DOMAIN yielded', NEW j \in DOMAIN yielded', i < j
        PROVE  Before(yielded'[i], yielded'[j])
    <3>1. i \in DOMAIN yielded
      BY <1>6, <2>1
    <3>2. CASE j \in DOMAIN yielded
      BY <1>6, <2>1, <3>1, <3>2 DEF OrderInv, InOrderNoGap
    <3>3. CASE j = Len(yielded) + 1
      BY <1>6, <1>8, <3>1, <3>3 DEF OrderInv, YieldedFirst
    <3>4. QED
      BY <1>6, <3>2, <3>3
  <2>2. InRange(Top)
    <3>1. lo # None => Top >= lo
      BY <1>7, <1>8 DEF OrderInv, NoneBelow
    <3>2. hi # None => Top <= hi
      BY <1>1, <1>2, <1>7, BoundsFacts, TreeFacts DEF PastHi
    <3>3. QED
      BY <3>1, <3>2 DEF InRange
  <2>3. ASSUME ~short, NEW k \in Keys, InRange(k), Before(k, Top)
        PROVE  k \in Range(yielded')
    <3>1. k \in Range(yielded) \cup Remaining
      BY <1>2, <2>3 DEF OrderInv, Covered
    <3>2. ~Before(Top, k) /\ k # Top
      <4>1. ~Before(Top, Top)
        BY <1>1, <1>7, BeforeOrder
      <4>2. QED
        BY <1>1, <1>7, <2>3, <4>1, BeforeOrder
    <3>3. QED
      BY <1>6, <1>8, <1>9, <3>1, <3>2
  <2>4. ASSUME NEW i \in DOMAIN yielded'
        PROVE  /\ InRange(yielded'[i])
               /\ ~short => \A k \in Keys : InRange(k) /\ Before(k, yielded'[i]) => k \in Range(yielded')
    <3>1. CASE i \in DOMAIN yielded
      BY <1>6, <3>1 DEF OrderInv, InOrderNoGap
    <3>2. CASE i = Len(yielded) + 1
      BY <1>6, <2>2, <2>3, <3>2
    <3>3. QED
      BY <1>6, <3>1, <3>2
  <2>5. QED
    BY <1>2, <1>3, <2>1, <2>4 DEF InOrderNoGap
<1>16. EndsAtTheEnd'
  BY <1>2 DEF EndsAtTheEnd
<1>17. QED
  BY <1>10, <1>11, <1>12, <1>13, <1>14, <1>15, <1>16 DEF OrderInv

-----------------------------------------------------------------------------
LEMMA InitOrderInv ==
  Init => OrderInv
<1> SUFFICES ASSUME Init PROVE OrderInv
  OBVIOUS
<1>1. TypeOK
  BY EmptySeq DEF Init, TypeOK
<1>2. /\ DOMAIN stack = {} /\ DOMAIN yielded = {} /\ pc = "none" /\ ret = "none"
      /\ tree.under[current] = {}
  <2>1. stack = <<>> /\ yielded = <<>> /\ pc = "none" /\ ret = "none" /\ current = 0
    BY DEF Init
  <2>2. QED
    BY <1>1, <2>1, LenProperties, EmptySeq, TreeFacts
<1>3. Stacked = {} /\ Remaining = {}
  BY <1>2 DEF Stacked, Remaining
<1>4. QED
  BY <1>1, <1>2, <1>3
  DEF OrderInv, Chain, NoneBelow, YieldedFirst, Covered, InOrderNoGap, EndsAtTheEnd

LEMMA NextOrderInv ==
  OrderInv /\ [Next]_vars => OrderInv'
<1> SUFFICES ASSUME OrderInv, [Next]_vars PROVE OrderInv'
  OBVIOUS
<1>1. CASE Iter \/ IterRange
  BY <1>1, StepOpened
<1>2. CASE Prime
  BY <1>2, StepPrime, StepPushes DEF Prime
<1>3. CASE Step
  BY <1>3, StepPushes, StepUser, StepYields, StepEnds DEF Step
<1>4. CASE CollectStep \/ (user = "caller" /\ NextCall) \/ (\E big \in {0, 1} : Collect(big)) \/ CollectRefused \/ Drop
  BY <1>4, StepUser DEF CollectStep
<1>5. CASE IterRefused \/ FreeSlice \/ UNCHANGED vars
  BY <1>5, StepOutside
<1>6. QED
  BY <1>1, <1>2, <1>3, <1>4, <1>5 DEF Next

(* What an iterator has yielded is in order, in its range, and without     *)
(* gaps unless its priming ran out of memory: avl_iter, avl_iter_range,    *)
(* their reversed and range forms and their twins in bstree and omap.      *)
THEOREM OrderCorrect == Spec => []InOrderNoGap
<1>1. OrderInv => InOrderNoGap
  BY DEF OrderInv
<1>2. QED
  BY <1>1, InitOrderInv, NextOrderInv, PTL DEF Spec

(* next reports the end only once every key of the range was yielded, or   *)
(* after a push was refused.                                               *)
THEOREM EndCorrect == Spec => []EndsAtTheEnd
<1>1. OrderInv => EndsAtTheEnd
  BY DEF OrderInv
<1>2. QED
  BY <1>1, InitOrderInv, NextOrderInv, PTL DEF Spec

-----------------------------------------------------------------------------
(* The blocks.  Who holds the iterator says whether there is a buffer, and *)
(* there is no slice while there is an iterator.                           *)
Accounts ==
  /\ cap \in Nat
  /\ buf \in Buffers(Keys) \cup {None}
  /\ user \in {"caller", "collect"}
  /\ buf # None <=> user = "collect"
  /\ user = "collect" => pc \in {"idle", "next"}
  /\ slice # None => pc = "none"
  /\ ret = "true" => yielded # <<>>

LeakInv == Accounts /\ NothingLeaks

LEMMA NoneFacts ==
  ASSUME TypeOK
  PROVE  None \notin Seq(Keys) /\ None \notin Buffers(Keys)
BY TreeIterAssumption DEF TypeOK, Keys

LEMMA BlockFacts ==
  /\ \A h : HiBlocks(h) \in {0, 1}
  /\ StackBlocks \in {0, 1} /\ IterBlocks \in Nat
  /\ IterBlocks = 1 + HiBlocks(hi) + StackBlocks
BY DEF HiBlocks, StackBlocks, IterBlocks

(* Steps that leave the blocks alone.                                      *)
LEMMA AccountsKept ==
  ASSUME LeakInv, TypeOK, UNCHANGED <<tree, hi, cap, callVars, blocks>>,
         pc = "none" <=> pc' = "none", user = "collect" => pc' \in {"idle", "next"},
         stack' \in Seq(Keys), Len(stack') <= Len(stack),
         ret' = "true" => yielded' # <<>>
  PROVE  LeakInv'
<1>1. UNCHANGED <<Keys, IterBlocks>>
  BY DEF Keys, IterBlocks, HiBlocks, StackBlocks
<1>2. Accounts'
  BY <1>1 DEF LeakInv, Accounts, callVars
<1>3. Len(stack) \in Nat /\ Len(stack') \in Nat /\ cap \in Nat
  BY LenProperties DEF LeakInv, Accounts, TypeOK
<1>4. Len(stack') <= cap'
  BY <1>3 DEF LeakInv, NothingLeaks
<1>5. NothingLeaks'
  BY <1>1, <1>4 DEF LeakInv, NothingLeaks, callVars
<1>6. QED
  BY <1>2, <1>5 DEF LeakInv

LEMMA LeakQuiet ==
  ASSUME LeakInv, TypeOK,
         \/ IterRefused \/ PrimeRight \/ PrimeRefused \/ PrimeDone \/ NextCall
         \/ DescendRefused \/ NextYields \/ NextPastHi \/ NextEnds \/ UNCHANGED vars
  PROVE  LeakInv'
<1>1. stack \in Seq(Keys) /\ Len(stack) \in Nat /\ <<>> \in Seq(Keys) /\ Len(<<>>) = 0
  BY LenProperties, EmptySeq DEF TypeOK
<1>2. /\ UNCHANGED <<tree, hi, cap, callVars, blocks>> /\ (pc = "none" <=> pc' = "none")
      /\ (user = "collect" => pc' \in {"idle", "next"})
  BY DEF IterRefused, PrimeRight, PrimeRefused, PrimeDone, NextCall, DescendRefused,
         NextYields, NextPastHi, NextEnds, vars, iterVars, PushRefused, LeakInv, Accounts
<1>3. CASE NextYields
  <2>1. stack # <<>> /\ stack' = SubSeq(stack, 1, Len(stack) - 1) /\ yielded' = Append(yielded, Top)
    BY <1>3 DEF NextYields, Popped
  <2>2. stack' \in Seq(Keys) /\ Len(stack') = Len(stack) - 1
    BY <1>1, <2>1, PoppedSeq
  <2>3. yielded' # <<>>
    <3>1. Top \in Keys /\ yielded \in Seq(Keys)
      BY <1>1, <2>1, PoppedSeq, RestKeys DEF Top, TypeOK
    <3>2. Len(yielded') = Len(yielded) + 1 /\ Len(yielded) \in Nat
      BY <2>1, <3>1, AppendProperties, LenProperties
    <3>3. QED
      BY <1>1, <3>2
  <2>4. QED
    BY <1>1, <1>2, <2>2, <2>3, AccountsKept
<1>4. CASE ~NextYields
  <2>1. /\ stack' \in {stack, <<>>} /\ yielded' = yielded /\ (ret' = "true" => ret = "true")
    BY <1>4 DEF IterRefused, PrimeRight, PrimeRefused, PrimeDone, NextCall, DescendRefused,
         NextPastHi, NextEnds, vars, iterVars, PushRefused
  <2>2. ret' = "true" => yielded' # <<>>
    BY <2>1 DEF LeakInv, Accounts
  <2>3. stack' \in Seq(Keys) /\ Len(stack') <= Len(stack)
    <3>1. CASE stack' = stack
      BY <1>1, <3>1
    <3>2. CASE stack' = <<>>
      BY <1>1, <3>2
    <3>3. QED
      BY <2>1, <3>1, <3>2
  <2>4. QED
    BY <1>2, <2>2, <2>3, AccountsKept
<1>5. QED
  BY <1>3, <1>4

LEMMA LeakPush ==
  ASSUME LeakInv, TypeOK, PrimePush \/ Descend
  PROVE  LeakInv'
<1>1. /\ UNCHANGED <<tree, hi, callVars, pc, yielded, ret>> /\ pc # "none" /\ current \in Keys
      /\ Push(current)
  BY DEF PrimePush, Descend, TypeOK
<1>2. Len(stack) \in Nat /\ cap \in Nat /\ Len(stack) <= cap /\ Len(stack') = Len(stack) + 1
  <2>1. stack \in Seq(Keys)
    BY DEF TypeOK
  <2>2. QED
    BY <1>1, <2>1, LenProperties, AppendProperties DEF Push, LeakInv, NothingLeaks, Accounts
<1>3. /\ cap' \in Nat /\ Len(stack') <= cap' /\ cap' # 0
      /\ blocks' = blocks + StackBlocks' - StackBlocks
  <2>1. StackCap \in Nat \ {0} /\ blocks \in Int
    <3>1. buf # None => buf.scratch \in {0, 1}
      BY DEF LeakInv, Accounts, Buffers
    <3>2. QED
      BY <3>1, BlockFacts, TreeIterAssumption DEF LeakInv, NothingLeaks
  <2>2. CASE Len(stack) < cap
    <3>1. cap' = cap /\ blocks' = blocks /\ cap # 0
      BY <1>1, <1>2, <2>2 DEF Push
    <3>2. StackBlocks' = StackBlocks
      BY <3>1 DEF StackBlocks
    <3>3. QED
      BY <1>2, <2>1, <2>2, <3>1, <3>2, BlockFacts
  <2>3. CASE ~(Len(stack) < cap)
    <3>1. cap' = DoubledCap /\ blocks' = blocks + 1 - StackBlocks /\ Len(stack) = cap
      BY <1>1, <1>2, <2>3 DEF Push
    <3>2. cap' \in Nat /\ cap + 1 <= cap'
      BY <1>2, <2>1, <3>1 DEF DoubledCap
    <3>3. StackBlocks' = 1
      BY <1>2, <3>2 DEF StackBlocks
    <3>4. QED
      BY <1>2, <3>1, <3>2, <3>3
  <2>4. QED
    BY <2>2, <2>3
<1>4. Accounts'
  BY <1>1, <1>3 DEF LeakInv, Accounts, callVars, Keys
<1>5. NothingLeaks'
  <2>1. UNCHANGED <<buf, slice, pc>> /\ HiBlocks(hi)' = HiBlocks(hi)
    BY <1>1 DEF callVars, HiBlocks
  <2>2. IterBlocks' = IterBlocks + StackBlocks' - StackBlocks
    BY <2>1, BlockFacts DEF IterBlocks, StackBlocks, HiBlocks
  <2>3. buf # None => buf.scratch \in {0, 1} /\ Len(buf.elems) <= buf.cap
    BY DEF LeakInv, Accounts, NothingLeaks, Buffers
  <2>4. /\ blocks = IterBlocks + (IF buf = None THEN 0 ELSE 1 + buf.scratch) + (IF slice = None THEN 0 ELSE 1)
        /\ IterBlocks \in Nat /\ StackBlocks \in {0, 1} /\ StackBlocks' \in {0, 1}
    BY <1>1, BlockFacts DEF LeakInv, NothingLeaks, StackBlocks
  <2>5. blocks' = IterBlocks' + (IF buf' = None THEN 0 ELSE 1 + buf'.scratch) + (IF slice' = None THEN 0 ELSE 1)
    <3> DEFINE rest == (IF buf = None THEN 0 ELSE 1 + buf.scratch) + (IF slice = None THEN 0 ELSE 1)
    <3>1. rest \in Int /\ blocks = IterBlocks + rest
      BY <2>3, <2>4
    <3>2. IterBlocks' + rest = IterBlocks + rest + StackBlocks' - StackBlocks /\ IterBlocks' \in Int
      <4> HIDE DEF rest
      <4>1. QED
        BY <2>2, <2>4, <3>1
    <3>3. blocks' = IterBlocks' + rest
      <4> HIDE DEF rest
      <4>1. QED
        BY <1>3, <2>4, <3>1, <3>2
    <3>4. /\ (IF buf' = None THEN 0 ELSE 1 + buf'.scratch) \in Int
          /\ (IF slice' = None THEN 0 ELSE 1) \in Int
          /\ rest = (IF buf' = None THEN 0 ELSE 1 + buf'.scratch) + (IF slice' = None THEN 0 ELSE 1)
      BY <2>1, <2>3
    <3>5. QED
      <4> HIDE DEF rest
      <4>1. QED
        BY <3>2, <3>3, <3>4
  <2>6. QED
    BY <1>1, <1>3, <2>1, <2>3, <2>5 DEF NothingLeaks
<1>6. QED
  BY <1>4, <1>5 DEF LeakInv

(* An iterator's blocks come with it, and with its stack, and go with it.  *)
LEMMA LeakOpened ==
  ASSUME LeakInv, TypeOK, Iter \/ IterRange
  PROVE  LeakInv'
<1>1. PICK d \in {"fwd", "rev"}, l \in Bounds \cup {None}, h \in Bounds \cup {None} : Opened(d, l, h)
  BY DEF Iter, IterRange
<1>2. /\ UNCHANGED <<tree, user, buf, slice>> /\ pc = "none" /\ pc' # "none" /\ slice = None
      /\ hi' = h /\ stack' = <<>> /\ cap' = 0 /\ ret' = "none" /\ blocks' = blocks + 1 + HiBlocks(h)
  BY <1>1 DEF Opened, callVars
<1>3. user = "caller" /\ buf = None /\ blocks = 0
  BY <1>2 DEF LeakInv, Accounts, NothingLeaks
<1>4. Accounts'
  BY <1>2, <1>3 DEF LeakInv, Accounts, Keys
<1>5. IterBlocks' = 1 + HiBlocks(h) /\ HiBlocks(h) \in {0, 1}
  BY <1>2, BlockFacts DEF IterBlocks, StackBlocks, HiBlocks
<1>6. Len(stack') <= cap'
  BY <1>2, EmptySeq
<1>7. QED
  BY <1>2, <1>3, <1>4, <1>5, <1>6 DEF LeakInv, NothingLeaks

LEMMA LeakDropped ==
  ASSUME LeakInv, TypeOK, Drop \/ CollectRefused
  PROVE  LeakInv'
<1>1. /\ UNCHANGED <<tree, user, buf, slice>> /\ pc = "idle" /\ pc' = "none" /\ user = "caller"
      /\ stack' = <<>> /\ cap' = 0 /\ blocks' = blocks - IterBlocks
      /\ UNCHANGED yielded /\ (ret' = "true" => ret = "true")
  BY DEF Drop, CollectRefused, Dropped, callVars
<1>2. buf = None /\ slice = None /\ blocks = IterBlocks /\ IterBlocks \in Nat
  BY <1>1, BlockFacts DEF LeakInv, Accounts, NothingLeaks
<1>3. blocks' = 0
  BY <1>1, <1>2
<1>4. Accounts'
  BY <1>1, <1>2 DEF LeakInv, Accounts, Keys
<1>5. Len(stack') <= cap'
  BY <1>1, EmptySeq
<1>6. QED
  BY <1>1, <1>2, <1>3, <1>4, <1>5 DEF LeakInv, NothingLeaks

(* iter_collect: its buffer becomes the slice, or nothing is left of it.   *)
LEMMA LeakCollect ==
  ASSUME LeakInv, TypeOK, NEW big \in {0, 1}, Collect(big)
  PROVE  LeakInv'
<1>1. /\ UNCHANGED <<tree, pc, hi, stack, cap, slice, yielded>> /\ pc = "idle" /\ user = "caller"
      /\ user' = "collect" /\ buf' = [elems |-> <<>>, cap |-> CollectCap, scratch |-> big]
      /\ blocks' = blocks + 1 + big /\ ret' = "none"
  BY DEF Collect, iterVars
<1>2. buf = None /\ slice = None /\ blocks = IterBlocks /\ IterBlocks \in Nat
  BY <1>1, BlockFacts DEF LeakInv, Accounts, NothingLeaks
<1>3. buf' \in Buffers(Keys) /\ Len(buf'.elems) <= buf'.cap /\ buf'.scratch = big
  <2>1. CollectCap \in Nat \ {0} /\ <<>> \in Seq(Keys) /\ Len(<<>>) = 0
    BY TreeIterAssumption, EmptySeq
  <2>2. QED
    BY <1>1, <2>1 DEF Buffers
<1>4. buf' # None
  BY <1>3, NoneFacts
<1>5. Accounts'
  BY <1>1, <1>2, <1>3, <1>4 DEF LeakInv, Accounts, Keys
<1>6. IterBlocks' = IterBlocks /\ Len(stack') <= cap'
  BY <1>1 DEF IterBlocks, HiBlocks, StackBlocks, LeakInv, NothingLeaks
<1>7. QED
  BY <1>1, <1>2, <1>3, <1>4, <1>5, <1>6 DEF LeakInv, NothingLeaks

LEMMA LeakCollectTakes ==
  ASSUME LeakInv, TypeOK, CollectTakes
  PROVE  LeakInv'
<1>1. /\ UNCHANGED <<tree, pc, user, hi, stack, cap, slice, yielded, blocks>> /\ pc = "idle" /\ user = "collect"
      /\ buf' = [buf EXCEPT !.elems = Append(@, yielded[Len(yielded)]), !.cap = Grown(@)]
      /\ ret = "true" /\ ret' = "none"
  BY DEF CollectTakes, iterVars
<1>2. buf \in Buffers(Keys) /\ buf # None /\ Len(buf.elems) <= buf.cap /\ slice = None
  BY <1>1 DEF LeakInv, Accounts, NothingLeaks
<1>3. yielded[Len(yielded)] \in Keys
  <2>1. yielded \in Seq(Keys) /\ yielded # <<>>
    BY <1>1 DEF LeakInv, Accounts, TypeOK
  <2>2. Len(yielded) \in DOMAIN yielded
    BY <2>1, EmptySeq, LenProperties
  <2>3. QED
    BY <2>2, RestKeys
<1>4. buf' \in Buffers(Keys) /\ Len(buf'.elems) <= buf'.cap /\ buf'.scratch = buf.scratch
  <2> DEFINE last == yielded[Len(yielded)]
  <2>1. buf.elems \in Seq(Keys) /\ buf.cap \in Nat \ {0} /\ buf.scratch \in {0, 1}
    BY <1>2 DEF Buffers
  <2>2. /\ Append(buf.elems, last) \in Seq(Keys)
        /\ Len(Append(buf.elems, last)) = Len(buf.elems) + 1 /\ Len(buf.elems) \in Nat
    BY <1>3, <2>1, AppendProperties, LenProperties
  <2>3. buf' = [elems |-> Append(buf.elems, last), cap |-> Grown(buf.cap), scratch |-> buf.scratch]
    BY <1>1, <1>2 DEF Buffers
  <2>4. Grown(buf.cap) \in Nat \ {0} /\ Len(buf.elems) + 1 <= Grown(buf.cap)
    BY <1>2, <2>1, <2>2 DEF Grown
  <2>5. QED
    BY <2>1, <2>2, <2>3, <2>4 DEF Buffers
<1>5. buf' # None
  BY <1>4, NoneFacts
<1>6. Accounts'
  BY <1>1, <1>2, <1>4, <1>5 DEF LeakInv, Accounts, Keys
<1>7. IterBlocks' = IterBlocks /\ Len(stack') <= cap'
  BY <1>1 DEF IterBlocks, HiBlocks, StackBlocks, LeakInv, NothingLeaks
<1>8. QED
  BY <1>1, <1>2, <1>4, <1>5, <1>6, <1>7 DEF LeakInv, NothingLeaks

LEMMA LeakCollectEnds ==
  ASSUME LeakInv, TypeOK, CollectFails \/ CollectDone
  PROVE  LeakInv'
<1>1. /\ UNCHANGED tree /\ pc = "idle" /\ pc' = "none" /\ user = "collect" /\ user' = "caller"
      /\ stack' = <<>> /\ cap' = 0 /\ buf' = None /\ ret' # "true"
      /\ \/ slice' = None /\ blocks' = blocks - IterBlocks - buf.scratch - (1 - 0)
         \/ slice' = buf.elems /\ blocks' = blocks - IterBlocks - buf.scratch - (1 - 1)
  BY DEF CollectFails, CollectDone, CollectEnds, Dropped
<1>2. buf \in Buffers(Keys) /\ buf # None /\ slice = None
  BY <1>1 DEF LeakInv, Accounts
<1>3. buf.scratch \in {0, 1} /\ buf.elems \in Seq(Keys) /\ IterBlocks \in Nat
  BY <1>2, BlockFacts DEF Buffers
<1>4. blocks = IterBlocks + (1 + buf.scratch) + 0
  BY <1>1, <1>2 DEF LeakInv, NothingLeaks
<1>5. buf.elems # None
  BY <1>3, NoneFacts
<1>6. blocks' = IF slice' = None THEN 0 ELSE 1
  BY <1>1, <1>3, <1>4, <1>5
<1>7. Accounts'
  BY <1>1 DEF LeakInv, Accounts, Keys
<1>8. Len(stack') <= cap'
  BY <1>1, EmptySeq
<1>9. QED
  BY <1>1, <1>6, <1>7, <1>8 DEF LeakInv, NothingLeaks

LEMMA LeakFreeSlice ==
  ASSUME LeakInv, TypeOK, FreeSlice
  PROVE  LeakInv'
<1>1. /\ UNCHANGED <<tree, pc, user, stack, cap, buf, ret, yielded>> /\ pc = "none" /\ slice # None
      /\ slice' = None /\ blocks' = blocks - 1
  BY DEF FreeSlice, iterVars
<1>2. user = "caller" /\ buf = None /\ blocks = 1
  BY <1>1 DEF LeakInv, Accounts, NothingLeaks
<1>3. Accounts'
  BY <1>1, <1>2 DEF LeakInv, Accounts, Keys
<1>4. QED
  BY <1>1, <1>2, <1>3 DEF LeakInv, NothingLeaks

LEMMA NextLeakInv ==
  OrderInv /\ LeakInv /\ [Next]_vars => LeakInv'
<1> SUFFICES ASSUME OrderInv, LeakInv, [Next]_vars PROVE LeakInv'
  OBVIOUS
<1>1. TypeOK
  BY DEF OrderInv
<1>2. CASE Iter \/ IterRange
  BY <1>1, <1>2, LeakOpened
<1>3. CASE Prime
  BY <1>1, <1>3, LeakQuiet, LeakPush DEF Prime
<1>4. CASE Step
  BY <1>1, <1>4, LeakQuiet, LeakPush DEF Step
<1>5. CASE CollectStep
  BY <1>1, <1>5, LeakQuiet, LeakCollectTakes, LeakCollectEnds DEF CollectStep
<1>6. CASE (user = "caller" /\ NextCall) \/ IterRefused \/ UNCHANGED vars
  BY <1>1, <1>6, LeakQuiet
<1>7. CASE (\E big \in {0, 1} : Collect(big)) \/ CollectRefused \/ Drop \/ FreeSlice
  BY <1>1, <1>7, LeakCollect, LeakDropped, LeakFreeSlice
<1>8. QED
  BY <1>2, <1>3, <1>4, <1>5, <1>6, <1>7 DEF Next

LEMMA InitLeakInv ==
  Init => LeakInv
<1> SUFFICES ASSUME Init PROVE LeakInv
  OBVIOUS
<1>1. Len(stack) = 0
  BY EmptySeq DEF Init
<1>2. QED
  BY <1>1 DEF Init, LeakInv, Accounts, NothingLeaks

(* avl_iter_destroy and iter_collect give every block back: the state, the *)
(* bound, the stack, the buffer and the scratch element; and neither the   *)
(* stack nor the buffer is written past its end.                           *)
THEOREM BlocksCorrect == Spec => []NothingLeaks
<1>1. LeakInv => NothingLeaks
  BY DEF LeakInv
<1>2. QED
  BY <1>1, InitOrderInv, NextOrderInv, InitLeakInv, NextLeakInv, PTL DEF Spec
=============================================================================
