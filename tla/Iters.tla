-------------------------------- MODULE Iters --------------------------------
(***************************************************************************)
(* The iterators of src/src/iter/iter.c as values: what next, peek and     *)
(* destroy do to an iterator and to the blocks it owns, for every source   *)
(* and adaptor; and, independently of that, the sequence an iterator       *)
(* stands for.                                                             *)
(*                                                                         *)
(* An element is a tuple of numbers; an adaptor that yields several        *)
(* elements at once (zip, enumerate, window, chunks) yields their          *)
(* concatenation.  The caller's functions are fixed: Pred, MapFn, Rank     *)
(* (what cmp compares) and SubOf (the fn of flat_map).                     *)
(***************************************************************************)
EXTENDS Integers, Sequences, SequencesExt, TLC

CONSTANTS
  Width,   (* bits of the long long of iter_range                          *)
  Gap,     (* in a generator's script: it returns false, and goes on later *)
  CollectCap   (* elements iter_collect first makes room for: 16           *)

Pred(e) == e[1] % 2 = 1
MapFn(e) == <<e[1] + 1>>
Rank(e) == e[1] \div 2
Wrapped(x) == ((x + 2^(Width - 1)) % 2^Width) - 2^(Width - 1)

(* An iterator: its kind, the blocks' owner id, what it was made with, the *)
(* iterators it owns, and its state: a number, a flag and a buffer.        *)
Iterator(k, id, arg, src, n) ==
  [k |-> k, id |-> id, arg |-> arg, src |-> src, n |-> n, flag |-> FALSE, buf |-> <<>>]
(* The zero iter_t: what a constructor that fails returns.  *)
Failed == Iterator("failed", 0, <<>>, <<>>, 0)
IsValid(it) == it.k # "failed"

SourceKinds == {"slice", "slice_rev", "generate", "range"}
NoBuffer == {"filter", "take", "take_while", "skip", "skip_while", "chain"}
(* The blocks of an iterator.  Windows and chunks of zero elements have no *)
(* buffer.                                                                 *)
Needs(k, arg) ==
  IF k \in SourceKinds \cup NoBuffer \/ (k \in {"window", "chunks"} /\ arg = 0)
  THEN {"state"} ELSE {"state", "buf"}
Blocks(it) == IF IsValid(it) THEN {<<it.id, b>> : b \in Needs(it.k, it.arg)} ELSE {}

(* mem_free of a block that is not live leaves a mark.  *)
Free(heap, b) == IF b \in heap THEN heap \ {b} ELSE heap \cup {<<b[1], "freed twice">>}
FreeAll(heap, blocks) == FoldLeft(Free, heap, SetToSeq(blocks))

(* The iterators an iterator owns now: flat_map's second is the            *)
(* sub-iterator, which is live only while the flag (sub_active) says so.   *)
Owned(it) == IF it.k = "flat_map" /\ ~it.flag THEN SubSeq(it.src, 1, 1) ELSE it.src
RECURSIVE Destroy(_, _), LiveBlocks(_)
Destroy(heap, it) == FreeAll(FoldLeft(Destroy, heap, Owned(it)), Blocks(it))
LiveBlocks(it) ==
  Blocks(it) \cup UNION {LiveBlocks(it.src[i]) : i \in
                          {j \in DOMAIN it.src : it.k = "flat_map" /\ j = 2 => it.flag}}

(* What the fn of flat_map makes of an element: each odd one twice, or, if *)
(* it is refused memory for these, a failed iterator; the others nothing.  *)
SubItems(arg, e) == IF Pred(e) /\ arg = "twice" THEN <<e[1], e[1]>> ELSE <<>>
SubFails(arg, e) == Pred(e) /\ arg = "refused"
SubOf(it, e) ==
  IF SubFails(it.arg, e) THEN Failed
  ELSE Iterator("slice", 0 - it.id, SubItems(it.arg, e), <<>>, 0)

-----------------------------------------------------------------------------
(* next: whether there was an element, the element, and what becomes of    *)
(* the iterator and of the heap.                                           *)
Yield(e, it, heap) == [ok |-> TRUE, out |-> e, it |-> it, heap |-> heap]
Stop(it, heap) == [ok |-> FALSE, out |-> <<>>, it |-> it, heap |-> heap]
Put(it, e) == [it EXCEPT !.buf = Append(@, e)]
Flat(elems) == FlattenSeq(elems)

SliceNext(it, heap) ==
  IF it.n >= Len(it.arg) THEN Stop(it, heap)
  ELSE Yield(<<it.arg[it.n + 1]>>, [it EXCEPT !.n = @ + 1], heap)
SliceRevNext(it, heap) ==
  IF it.n = 0 THEN Stop(it, heap) ELSE Yield(<<it.arg[it.n]>>, [it EXCEPT !.n = @ - 1], heap)
GenerateNext(it, heap) ==
  IF it.n = Len(it.arg) THEN Stop(it, heap)
  ELSE LET moved == [it EXCEPT !.n = @ + 1]
       IN IF it.arg[it.n + 1] = Gap THEN Stop(moved, heap)
          ELSE Yield(<<it.arg[it.n + 1]>>, moved, heap)
RangeNext(it, heap) ==
  LET end == it.arg[2]  step == it.arg[3]
  IN IF (step > 0 /\ it.n >= end) \/ (step < 0 /\ it.n <= end) THEN Stop(it, heap)
     ELSE Yield(<<it.n>>, [it EXCEPT !.n = Wrapped(@ + step)], heap)

RECURSIVE Pull(_, _)
(* iter_next on one of the iterators that `it` owns.  *)
PullFrom(i, it, heap) ==
  LET p == Pull(it.src[i], heap) IN [p EXCEPT !.it = [it EXCEPT !.src[i] = p.it]]

RECURSIVE FilterNext(_, _)
FilterNext(it, heap) ==
  LET p == PullFrom(1, it, heap)
  IN IF p.ok /\ ~Pred(p.out) THEN FilterNext(p.it, p.heap) ELSE p
MapNext(it, heap) ==
  LET p == PullFrom(1, it, heap) IN IF p.ok THEN [p EXCEPT !.out = MapFn(@)] ELSE p

TakeNext(it, heap) ==
  IF it.n = 0 THEN Stop(it, heap)
  ELSE LET p == PullFrom(1, it, heap) IN IF p.ok THEN [p EXCEPT !.it.n = @ - 1] ELSE p
TakeWhileNext(it, heap) ==
  LET p == PullFrom(1, it, heap) IN IF p.ok /\ ~Pred(p.out) THEN Stop(p.it, p.heap) ELSE p

RECURSIVE SkipNext(_, _), SkipWhileNext(_, _)
SkipNext(it, heap) ==
  LET p == PullFrom(1, it, heap)
  IN IF it.n > 0 /\ p.ok THEN SkipNext([p.it EXCEPT !.n = @ - 1], p.heap) ELSE p
SkipWhileNext(it, heap) ==
  LET p == PullFrom(1, it, heap)
  IN IF p.ok /\ ~it.flag /\ Pred(p.out) THEN SkipWhileNext(p.it, p.heap)
     ELSE IF p.ok THEN [p EXCEPT !.it.flag = TRUE] ELSE p

(* The flag is done_first.  *)
ChainForgets(it, heap) ==
  LET p == PullFrom(1, it, heap) IN IF p.ok THEN p ELSE PullFrom(2, p.it, p.heap)
ChainNext(it, heap) ==
  IF it.flag THEN PullFrom(2, it, heap)
  ELSE LET p == PullFrom(1, it, heap)
       IN IF p.ok THEN p ELSE PullFrom(2, [p.it EXCEPT !.flag = TRUE], p.heap)
ZipNext(it, heap) ==
  LET a == PullFrom(1, it, heap)
      b == PullFrom(2, a.it, a.heap)
  IN IF ~a.ok THEN a ELSE IF b.ok THEN [b EXCEPT !.out = a.out \o @] ELSE b
EnumNext(it, heap) ==
  LET p == PullFrom(1, it, heap)
  IN IF p.ok THEN [p EXCEPT !.out = <<it.n>> \o @, !.it.n = @ + 1] ELSE p

(* The buffer is filled from where it stands up to arg elements, or until  *)
(* the source stops.                                                       *)
RECURSIVE Fill(_, _)
Fill(it, heap) ==
  IF Len(it.buf) = it.arg THEN Yield(Flat(it.buf), it, heap)
  ELSE LET p == PullFrom(1, it, heap)
       IN IF p.ok THEN Fill(Put(p.it, p.out), p.heap) ELSE p
(* The flag is primed.  *)
WindowNext(it, heap) ==
  IF it.arg = 0 THEN Stop(it, heap)
  ELSE LET p == Fill([it EXCEPT !.buf = IF it.flag THEN Tail(@) ELSE <<>>], heap)
       IN IF p.ok THEN [p EXCEPT !.it.flag = TRUE]
          ELSE IF it.flag THEN Stop(Put(p.it, Last(it.buf)), p.heap) ELSE p
(* The flag is done.  *)
ChunkNext(it, heap) ==
  IF it.flag THEN Stop(it, heap)
  ELSE LET p == Fill([it EXCEPT !.buf = <<>>], heap)
       IN IF p.it.buf = <<>> THEN Stop(p.it, p.heap)
          ELSE Yield(Flat(p.it.buf), [p.it EXCEPT !.flag = ~p.ok], p.heap)

(* The flag is has_peeked, and the number 1 is source_done.  *)
PeekableForgets(it, heap) ==
  IF it.flag THEN Yield(it.buf[1], [it EXCEPT !.flag = FALSE, !.buf = <<>>], heap)
  ELSE PullFrom(1, it, heap)
PeekableNext(it, heap) ==
  IF it.flag THEN Yield(it.buf[1], [it EXCEPT !.flag = FALSE, !.buf = <<>>], heap)
  ELSE IF it.n = 1 THEN Stop(it, heap) ELSE PullFrom(1, it, heap)
(* iter_peek: false at once on anything but a peekable.  *)
PeekTwice(it, heap) ==
  IF it.k # "peekable" \/ it.n = 1 THEN Stop(it, heap)
  ELSE LET p == PullFrom(1, it, heap)
       IN IF p.ok THEN [p EXCEPT !.it.buf = <<p.out>>, !.it.flag = TRUE]
          ELSE [p EXCEPT !.it.n = 1]
Peek(it, heap) ==
  IF it.k # "peekable" THEN Stop(it, heap)
  ELSE IF it.flag THEN Yield(it.buf[1], it, heap)
  ELSE IF it.n = 1 THEN Stop(it, heap)
  ELSE LET p == PullFrom(1, it, heap)
       IN IF p.ok THEN [p EXCEPT !.it = [Put(@, p.out) EXCEPT !.flag = TRUE]]
          ELSE [p EXCEPT !.it.n = 1]

(* The buffer holds the last element yielded.  *)
RECURSIVE DedupNext(_, _), FlatMapNext(_, _)
DedupNext(it, heap) ==
  LET p == PullFrom(1, it, heap)
  IN IF ~p.ok THEN p
     ELSE IF it.buf # <<>> /\ Rank(p.out) = Rank(it.buf[1]) THEN DedupNext(p.it, p.heap)
     ELSE [p EXCEPT !.it.buf = <<p.out>>]
FlatMapOuter(it, heap) ==
  LET p == PullFrom(1, it, heap)
      sub == SubOf(it, p.out)
  IN IF p.ok THEN FlatMapNext([p.it EXCEPT !.src[2] = sub, !.flag = TRUE], p.heap \cup Blocks(sub))
     ELSE p
FlatMapNext(it, heap) ==
  IF ~it.flag THEN FlatMapOuter(it, heap)
  ELSE LET p == PullFrom(2, it, heap)
       IN IF p.ok THEN p
          ELSE FlatMapOuter([p.it EXCEPT !.flag = FALSE], Destroy(p.heap, p.it.src[2]))

(* iter_next.  *)
Pull(it, heap) ==
  CASE it.k = "failed"     -> Stop(it, heap)
    [] it.k = "slice"      -> SliceNext(it, heap)
    [] it.k = "slice_rev"  -> SliceRevNext(it, heap)
    [] it.k = "generate"   -> GenerateNext(it, heap)
    [] it.k = "range"      -> RangeNext(it, heap)
    [] it.k = "filter"     -> FilterNext(it, heap)
    [] it.k = "map"        -> MapNext(it, heap)
    [] it.k = "take"       -> TakeNext(it, heap)
    [] it.k = "take_while" -> TakeWhileNext(it, heap)
    [] it.k = "skip"       -> SkipNext(it, heap)
    [] it.k = "skip_while" -> SkipWhileNext(it, heap)
    [] it.k = "chain"      -> ChainNext(it, heap)
    [] it.k = "zip"        -> ZipNext(it, heap)
    [] it.k = "enumerate"  -> EnumNext(it, heap)
    [] it.k = "window"     -> WindowNext(it, heap)
    [] it.k = "chunks"     -> ChunkNext(it, heap)
    [] it.k = "peekable"   -> PeekableNext(it, heap)
    [] it.k = "dedup"      -> DedupNext(it, heap)
    [] it.k = "flat_map"   -> FlatMapNext(it, heap)

-----------------------------------------------------------------------------
(* The terminals that loop over an iterator: when they stop early, and     *)
(* what they make of an element.                                           *)
LoopTerminals == {"count", "visit", "find", "any", "all", "min", "max"}
AsEmpty(t) == CASE t = "count" -> 0 [] t = "any" -> FALSE [] t = "all" -> TRUE [] OTHER -> <<>>
(* "cut" is iter_collect when its buffer cannot grow.                       *)
StopsAt(t, acc) == CASE t = "find" -> acc # <<>> [] t = "any" -> acc [] t = "all" -> ~acc
                     [] t = "cut" -> Len(acc) > CollectCap [] OTHER -> FALSE
LastBetter(t, e, best) == IF t = "min" THEN Rank(e) <= Rank(best) ELSE Rank(e) >= Rank(best)
Better(t, e, best) == IF t = "min" THEN Rank(e) < Rank(best) ELSE Rank(e) > Rank(best)
Step(t, acc, e) ==
  CASE t = "count" -> acc + 1
    [] t \in {"visit", "cut"} -> Append(acc, e)
    [] t = "find"  -> IF Pred(e) THEN <<e>> ELSE acc
    [] t = "any"   -> Pred(e)
    [] t = "all"   -> Pred(e)
    [] OTHER       -> IF acc = <<>> \/ Better(t, e, acc[1]) THEN <<e>> ELSE acc
RECURSIVE Loop(_, _, _, _)
Loop(t, acc, it, heap) ==
  LET p == Pull(it, heap)
  IN IF StopsAt(t, acc) THEN [acc |-> acc, it |-> it, heap |-> heap]
     ELSE IF p.ok THEN Loop(t, Step(t, acc, p.out), p.it, p.heap)
     ELSE [acc |-> acc, it |-> p.it, heap |-> p.heap]

-----------------------------------------------------------------------------
(* The sequence an iterator stands for, and what a terminal is to make of  *)
(* a sequence.  A generator's ends at the first time it returns false.     *)
Singles(s) == [i \in DOMAIN s |-> <<s[i]>>]
(* The length of the longest prefix whose elements all pass.  *)
Run(Passes(_), s) ==
  CHOOSE n \in 0 .. Len(s) : /\ \A i \in 1 .. n : Passes(s[i])
                             /\ n < Len(s) => ~Passes(s[n + 1])
NotGap(x) == x # Gap
Upto(s, n) == SubSeq(s, 1, IF n < Len(s) THEN n ELSE Len(s))
After(s, n) == SubSeq(s, n + 1, Len(s))
RangeSeq(a) ==
  LET start == a[1]  end == a[2]  step == a[3]
      In(x) == IF step > 0 THEN start <= x /\ x < end ELSE end < x /\ x <= start
  IN IF step = 0 \/ ~In(start) THEN <<>>
     ELSE LET last == CHOOSE n \in 0 .. 2^Width : In(start + n * step) /\ ~In(start + (n + 1) * step)
          IN [i \in 1 .. last + 1 |-> <<start + (i - 1) * step>>]
RECURSIVE Meaning(_)
Meaning(it) ==
  LET s == Meaning(it.src[1])  n == it.arg IN
  CASE it.k = "failed"     -> <<>>
    [] it.k = "slice"      -> Singles(it.arg)
    [] it.k = "slice_rev"  -> Singles(Reverse(it.arg))
    [] it.k = "generate"   -> Singles(Upto(it.arg, Run(NotGap, it.arg)))
    [] it.k = "range"      -> RangeSeq(it.arg)
    [] it.k = "filter"     -> SelectSeq(s, Pred)
    [] it.k = "map"        -> [i \in DOMAIN s |-> MapFn(s[i])]
    [] it.k = "take"       -> Upto(s, n)
    [] it.k = "take_while" -> Upto(s, Run(Pred, s))
    [] it.k = "skip"       -> After(s, n)
    [] it.k = "skip_while" -> After(s, Run(Pred, s))
    [] it.k = "chain"      -> s \o Meaning(it.src[2])
    [] it.k = "zip"        -> LET t == Meaning(it.src[2])
                              IN [i \in DOMAIN s \cap DOMAIN t |-> s[i] \o t[i]]
    [] it.k = "enumerate"  -> [i \in DOMAIN s |-> <<i - 1>> \o s[i]]
    [] it.k = "window"     -> IF n = 0 THEN <<>>
                              ELSE [i \in 1 .. Len(s) - n + 1 |-> Flat(SubSeq(s, i, i + n - 1))]
    [] it.k = "chunks"     -> IF n = 0 THEN <<>>
                              ELSE [i \in 1 .. (Len(s) + n - 1) \div n |->
                                      Flat(Upto(After(s, (i - 1) * n), n))]
    [] it.k = "peekable"   -> s
    [] it.k = "dedup"      -> Flat([i \in DOMAIN s |-> IF i > 1 /\ Rank(s[i]) = Rank(s[i - 1])
                                                       THEN <<>> ELSE <<s[i]>>])
    [] it.k = "flat_map"   -> Flat([i \in DOMAIN s |-> Singles(SubItems(it.arg, s[i]))])

(* min and max are the first of the least or greatest elements.  *)
Best(t, s) ==
  LET AtLeast(i, j) == IF t = "min" THEN Rank(s[i]) <= Rank(s[j]) ELSE Rank(s[i]) >= Rank(s[j])
      first == CHOOSE i \in DOMAIN s : \A j \in DOMAIN s : AtLeast(i, j) /\ (AtLeast(j, i) => i <= j)
  IN IF s = <<>> THEN <<>> ELSE <<s[first]>>
(* Some order that cmp allows: qsort leaves open that of equal elements.   *)
Arranged(s) == SortSeq(s, LAMBDA a, b : Rank(a) < Rank(b))
Outcome(t, s) ==
  CASE t = "count" -> Len(s)
    [] t \in {"visit", "collect"} -> s
    [] t = "sort"  -> Arranged(s)
    [] t = "find"  -> Upto(SelectSeq(s, Pred), 1)
    [] t = "any"   -> \E i \in DOMAIN s : Pred(s[i])
    [] t = "all"   -> \A i \in DOMAIN s : Pred(s[i])
    [] OTHER       -> Best(t, s)

(* Iterators that may go on after they said false: a generator whose       *)
(* function does, and take_while, which keeps no flag.                     *)
RECURSIVE Reviving(_)
Reviving(it) ==
  \/ it.k = "take_while"
  \/ it.k = "generate" /\ \E i \in DOMAIN it.arg : it.arg[i] = Gap
  \/ \E i \in DOMAIN it.src : Reviving(it.src[i])
=============================================================================
