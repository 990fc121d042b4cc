------------------------------ MODULE Pipeline ------------------------------
(***************************************************************************)
(* A caller of src/src/iter/iter.c: builds a pipeline out of sources and   *)
(* adaptors, any of whose allocations may be refused, and then takes       *)
(* elements from it, peeks, hands it to a terminal or destroys it.         *)
(*                                                                         *)
(* Every adaptor takes its sources over: whatever comes of it, the caller  *)
(* has nothing else to free.                                               *)
(***************************************************************************)
EXTENDS Iters

CONSTANTS
  Slices,      (* the numbers of a slice                                    *)
  Scripts,     (* what a generator yields, with Gaps                        *)
  Ranges,      (* <<start, end, step>>                                      *)
  Adaptors,    (* [k, arg] of the adaptors of one source                    *)
  Terminals,   (* those the caller may use, LoopTerminals, collect and sort *)
  MaxIters,    (* iterators that may be alive while a pipeline is built     *)
  MaxDepth     (* adaptors that may stand on one another                    *)

VARIABLES
  phase,       (* "build", then "use", then "over"                          *)
  held,        (* the iterators the caller holds: at most two               *)
  heap,        (* the blocks not freed: <<owner, "state" or "buf">>         *)
  made,        (* the pipeline as it was when its use began                 *)
  got,         (* what next has yielded until it first said false           *)
  ended,       (* which of next and peek first said false, or "no"          *)
  revived,     (* next has yielded again after that                         *)
  ret          (* the last call and its result                              *)

vars == <<phase, held, heap, made, got, ended, revived, ret>>
useVars == <<made, got, ended, revived, ret>>

NoCall == [call |-> "none", v |-> <<>>]
Init ==
  /\ phase = "build" /\ held = <<>> /\ heap = {}
  /\ made = Failed /\ got = <<>> /\ ended = "no" /\ revived = FALSE /\ ret = NoCall

-----------------------------------------------------------------------------
Owners == {b[1] : b \in heap}
FreeId == CHOOSE n \in 1 .. MaxIters : n \notin Owners
Room == Cardinality(Owners) < MaxIters
SubSource(k) == IF k = "flat_map" THEN <<Failed>> ELSE <<>>
StartAt(k, arg) == CASE k = "slice_rev" -> Len(arg) [] k = "range" -> arg[1]
                     [] k \in {"take", "skip"} -> arg [] OTHER -> 0

(* The allocations of a constructor that a refusal may leave granted:      *)
(* iter_map stops at its first refusal, the others ask for both.           *)
Grants(k, arg) == IF k = "map" THEN {{}, {"state"}, {"state", "buf"}} ELSE SUBSET Needs(k, arg)

DestroyFirst(h, srcs) == FoldLeft(Destroy, h, Upto(srcs, 1))
DestroySources(h, srcs) == FoldLeft(Destroy, h, srcs)
(* A constructor: fails with a failed source; refused a block, it frees    *)
(* the other and destroys its sources.                                     *)
Construct(k, arg, srcs, granted) ==
  LET it == Iterator(k, FreeId, arg, srcs \o SubSource(k), StartAt(k, arg))
      taken == {<<FreeId, b>> : b \in granted}
  IN IF \E i \in DOMAIN srcs : ~IsValid(srcs[i])
     THEN [it |-> Failed, heap |-> DestroySources(heap, srcs)]
     ELSE IF granted = Needs(k, arg) THEN [it |-> it, heap |-> heap \cup taken]
     ELSE [it |-> Failed, heap |-> DestroySources(FreeAll(heap \cup taken, taken), srcs)]

Built(kept, c) ==
  /\ held' = Append(kept, c.it) /\ heap' = c.heap
  /\ UNCHANGED <<phase, useVars>>

Source(k, arg) ==
  /\ phase = "build" /\ Len(held) < 2 /\ Room
  /\ \E granted \in Grants(k, arg) : Built(held, Construct(k, arg, <<>>, granted))

IterFromSlice == \E s \in Slices : Source("slice", s)
IterFromSliceRev == \E s \in Slices : Source("slice_rev", s)
IterGenerate == \E s \in Scripts : Source("generate", s)
(* A range with step 0 is made an empty one.  *)
IterRange == \E r \in Ranges :
  Source("range", IF r[3] = 0 THEN <<r[1], r[1], 1>> ELSE r)

(* The elements an iterator yields point into its buffers: windows, chunks *)
(* and entries.  The header has the caller copy what it keeps, so the      *)
(* adaptors that keep elements are not put above these.                    *)
RECURSIVE Views(_)
Views(it) ==
  \/ it.k \in {"window", "chunks", "enumerate"}
  \/ it.k \notin {"map", "flat_map"} /\ \E i \in DOMAIN it.src : Views(it.src[i])
Keeps(k) == k \in {"window", "chunks", "dedup"}

RECURSIVE Depth(_)
Depth(it) == IF it.src = <<>> THEN 0 ELSE 1 + Max({Depth(it.src[i]) : i \in DOMAIN it.src})

Adapt ==
  /\ phase = "build" /\ held # <<>> /\ Room
  /\ Depth(Last(held)) < MaxDepth
  /\ \E a \in Adaptors :
       /\ ~(Keeps(a.k) /\ Views(Last(held)))
       /\ \E granted \in Grants(a.k, a.arg) :
            Built(Front(held), Construct(a.k, a.arg, <<Last(held)>>, granted))

(* The size of the elements, which iter_chain has its sources agree on.    *)
RECURSIVE ElemSize(_)
ElemSize(it) ==
  CASE ~IsValid(it) -> 0
    [] it.k \in SourceKinds \cup {"map", "flat_map"} -> 8
    [] it.k = "zip" -> ElemSize(it.src[1]) + ElemSize(it.src[2])
    [] it.k = "enumerate" -> 16
    [] it.k \in {"window", "chunks"} -> 24
    [] OTHER -> ElemSize(it.src[1])
Join(k) ==
  /\ phase = "build" /\ Len(held) = 2 /\ Room
  /\ \E granted \in Grants(k, 0) : Built(<<>>, Construct(k, 0, held, granted))
IterChain ==
  /\ \A i, j \in DOMAIN held : IsValid(held[i]) /\ IsValid(held[j]) => ElemSize(held[i]) = ElemSize(held[j])
  /\ Join("chain")
IterZip == Join("zip")

Use ==
  /\ phase = "build" /\ Len(held) = 1
  /\ phase' = "use" /\ made' = held[1]
  /\ UNCHANGED <<held, heap, got, ended, revived, ret>>

-----------------------------------------------------------------------------
Pulled(p) == held' = <<p.it>> /\ heap' = p.heap
Heard(p, call) == ended' = IF p.ok \/ ended # "no" THEN ended ELSE call

CallNext ==
  /\ phase = "use"
  /\ LET p == Pull(held[1], heap)
     IN /\ Pulled(p) /\ Heard(p, "next")
        /\ got' = IF p.ok /\ ended = "no" THEN Append(got, p.out) ELSE got
        /\ revived' = (revived \/ (p.ok /\ ended # "no"))
  /\ ret' = NoCall /\ UNCHANGED <<phase, made>>

CallPeek ==
  /\ phase = "use"
  /\ LET p == Peek(held[1], heap)
     IN /\ Pulled(p)
        /\ IF held[1].k = "peekable" THEN Heard(p, "peek") ELSE UNCHANGED ended
        /\ ret' = [call |-> "peek", v |-> IF p.ok THEN <<p.out>> ELSE <<>>]
  /\ UNCHANGED <<phase, made, got, revived>>

Over(h, r) ==
  /\ phase' = "over" /\ held' = <<>> /\ heap' = h /\ ret' = r
  /\ made' = Failed /\ got' = <<>> /\ ended' = "no" /\ revived' = FALSE

CallDestroy == phase = "use" /\ Over(Destroy(heap, held[1]), NoCall)

(* A terminal.  For elements over 512 bytes it asks for scratch elements,  *)
(* iter_min and iter_max for two; refused one it acts as if there were no  *)
(* elements, but iter_all is false.  Failed iterators have small elements. *)
Scratches(t) == {<<0, s>> : s \in IF t \in {"min", "max"} THEN {"best", "cur"} ELSE {"cur"}}
Terminal(t) ==
  /\ phase = "use"
  /\ \E needed \in {{}, Scratches(t)} : \E granted \in SUBSET needed :
       /\ ~IsValid(held[1]) => needed = {}
       /\ LET h == heap \cup granted
              run == IF granted = needed THEN Loop(t, AsEmpty(t), held[1], h)
                     ELSE [acc |-> AsEmpty(t), it |-> held[1], heap |-> h]
              refused == granted # needed \/ ~IsValid(held[1])
              result == IF t = "all" /\ refused THEN FALSE ELSE run.acc
          IN Over(FreeAll(Destroy(run.heap, run.it), granted),
                  [call |-> t, v |-> result, refused |-> refused])

(* iter_collect and iter_sort, which sorts what was collected: a buffer,   *)
(* perhaps a scratch element, and the growths of the buffer, each of which *)
(* may be refused; then, and if there are no elements, there is no result. *)
(* The buffer of a result is the caller's to free.                         *)
Out == {<<0, "out">>}
Collect(t) ==
  /\ phase = "use"
  /\ \E needed \in {Out, Out \cup {<<0, "cur">>}} :
       \E granted \in {{}, Out, needed}, cut \in BOOLEAN :
         /\ ~IsValid(held[1]) => needed = Out
         /\ LET h == heap \cup granted
                run == IF granted = needed
                       THEN Loop(IF cut THEN "cut" ELSE "visit", <<>>, held[1], h)
                       ELSE [acc |-> <<>>, it |-> held[1], heap |-> h]
                refused == granted # needed \/ cut
                v == IF refused THEN <<>> ELSE run.acc
            IN /\ cut => Len(run.acc) > CollectCap
               /\ Over(FreeAll(Destroy(run.heap, run.it), IF v = <<>> THEN granted ELSE granted \ Out),
                       [call |-> t, refused |-> refused,
                        v |-> IF t = "sort" THEN Arranged(v) ELSE v])

Next ==
  \/ IterFromSlice \/ IterFromSliceRev \/ IterGenerate \/ IterRange
  \/ Adapt \/ IterChain \/ IterZip \/ Use
  \/ CallNext \/ CallPeek \/ CallDestroy 
  \/ \E t \in Terminals : IF t \in LoopTerminals THEN Terminal(t) ELSE Collect(t)

Spec == Init /\ [][Next]_vars

-----------------------------------------------------------------------------
(* The blocks not freed are exactly those of the iterators the caller      *)
(* still holds and of what these own, however many allocations were        *)
(* refused while they were built, and no block was freed twice: an adaptor *)
(* that fails destroys its sources, flat_map its sub-iterators, and each   *)
(* exactly once.  The buffer collected into is the result's or nobody's.   *)
OwnedOnce ==
  heap = UNION {LiveBlocks(held[i]) : i \in DOMAIN held}
           \cup IF ret.call \in {"collect", "sort"} /\ ret.v # <<>> THEN Out ELSE {}

(* What next yields is what the pipeline stands for, element by element,   *)
(* and it says false only at its end: no adaptor drops an element, yields  *)
(* one twice, or asks a source for more after the source has said false.   *)
YieldsMeaning ==
  phase = "use" => LET m == Meaning(made) IN IsPrefix(got, m) /\ (ended # "no" => got = m)

(* A peek shows the element that the next call of next is to yield, and    *)
(* looking takes nothing: what was yielded so far goes on from there.      *)
PeekShowsNext ==
  phase = "use" /\ ret.call = "peek" /\ ret.v # <<>> /\ ended = "no" => IsPrefix(got \o ret.v, Meaning(made))

(* Once next has said false it keeps saying so, if the sources do and      *)
(* there is no take_while; once a peek has said false, whatever they do.   *)
EndIsFinal == revived => Reviving(made) /\ ended # "peek"

(* A terminal called before the end makes of the elements left what it is  *)
(* to make of that sequence; refused its scratch it acts as on none.       *)
TerminalsRight ==
  [][\A t \in Terminals : phase = "use" /\ ended = "no" /\ ret'.call = t =>
       LET left == IF ret'.refused THEN <<>> ELSE After(Meaning(made), Len(got))
       IN IF t = "all" /\ ret'.refused THEN ~ret'.v ELSE ret'.v = Outcome(t, left)]_vars

(* include/seqc/iter.h:79-80: "Yields long long integers from start        *)
(* (inclusive) to end (exclusive) by step."                                *)
RangeInside ==
  made.k = "range" => \A i \in DOMAIN got :
    IF made.arg[3] > 0 THEN got[i][1] \in made.arg[1] .. made.arg[2] - 1
                       ELSE got[i][1] \in made.arg[2] + 1 .. made.arg[1]

(* docs/iter.md:319-320: iter_take_while "Stops permanently at the first   *)
(* element that fails".                                                    *)
TakeWhileStops == made.k = "take_while" => ~revived
=============================================================================
