------------------------------- MODULE PQueue -------------------------------
(***************************************************************************)
(* pqueue_t: the binary heap of src/src/pqueue/pqueue.c in a vec_t of      *)
(* src/src/vec/vec.c.                                                      *)
(*                                                                         *)
(* A call is one step, its allocations granted or refused, except those    *)
(* that add or take elements one by one: pqueue_extend (module Extend),    *)
(* pqueue_create_from_vec and pqueue_drain.                                *)
(***************************************************************************)
EXTENDS Extend, FiniteSets

CONSTANTS
  Elems,
  Prio,      (* what the caller's cmp compares; elements may tie            *)
  InitCap,   (* INITIAL_CAP of vec.c: 16 in the code                        *)
  MaxCap     (* a buffer of more elements than this is always refused       *)

ASSUME PQueueAssumption ==
  /\ Prio \in [Elems -> Int]
  /\ InitCap \in Nat \ {0} /\ MaxCap \in Nat
  /\ Sources \subseteq Seq(Elems)
  /\ Nil \notin Seq(Elems)

VARIABLES
  hasVec,    (* q->data is not NULL                                         *)
  data, cap, (* struct vec_t                                                *)
  source,    (* the vec_t a queue is being made from                        *)
  slice      (* what a drain has copied out                                 *)

(* The caller frees a drain's slice before the next call.                  *)
Idle == pc = "idle" /\ slice = Nil

queue == <<hasVec, data, cap, source>>
vars == <<queue, slice, pc, feed, ret, blocks>>

-----------------------------------------------------------------------------
(* The heap, at positions from 0.                                          *)
At(d, i) == d[i + 1]
Swapped(d, i, j) == [d EXCEPT ![i + 1] = At(d, j), ![j + 1] = At(d, i)]
Less(a, b) == Prio[a] < Prio[b]
Halved(i) == i \div 2
Parent(i) == (i - 1) \div 2

(* A heap and a position, which sift_up is only given within the heap.     *)
Heaps == Seq(Elems) \X Nat
Within == {h \in Heaps : h[2] < Len(h[1])}

SiftUp[h \in Within] ==
  LET d == h[1]  i == h[2] IN
  IF i > 0 /\ Less(At(d, i), At(d, Parent(i)))
  THEN SiftUp[<<Swapped(d, i, Parent(i)), Parent(i)>>] ELSE d

Lesser(d, i, child) == IF child < Len(d) /\ Less(At(d, child), At(d, i)) THEN child ELSE i
LeftOnly(d, i) == Lesser(d, i, 2 * i + 1)
Smallest(d, i) == Lesser(d, Lesser(d, i, 2 * i + 1), 2 * i + 2)
SiftDown[h \in Heaps] ==
  LET d == h[1]  i == h[2]  s == Smallest(d, i) IN
  IF s = i THEN d ELSE SiftDown[<<Swapped(d, i, s), s>>]

(* Floyd's heapify sifts down every position below n, the last one first.  *)
Heapify[h \in Heaps] ==
  LET d == h[1]  n == h[2] IN
  IF n = 0 THEN d ELSE Heapify[<<SiftDown[<<d, n - 1>>], n - 1>>]

(* pqueue_pop: the last element takes the place of the first.              *)
LastKept(d) == SubSeq(d, 1, Len(d) - 1)
WithoutFirst(d) ==
  IF Len(d) = 1 THEN <<>>
  ELSE SiftDown[<<[LastKept(d) EXCEPT ![1] = d[Len(d)]], 0>>]

-----------------------------------------------------------------------------
Init ==
  /\ hasVec = FALSE /\ data = <<>> /\ cap = 0 /\ source = <<>>
  /\ slice = Nil /\ pc = "none" /\ feed = <<>> /\ ret = Nil /\ blocks = 0

(* pqueue_create does not look at what vec_create returned: the queue may  *)
(* come without a vec_t, and then every push is INVALID.                   *)
Created ==
  /\ hasVec' \in BOOLEAN
  /\ blocks' = blocks + (IF hasVec' THEN 2 ELSE 1)
  /\ data' = <<>> /\ cap' = 0
Create == pc = "none" /\ slice = Nil /\ Created /\ pc' = "idle" /\ ret' = "OK" /\ source' = <<>> /\ UNCHANGED <<slice, feed>>
CreateRefused ==
  /\ pc = "none" /\ ret' = "OOM"
  /\ UNCHANGED <<queue, slice, pc, feed, blocks>>

HandleOnly(n) == n - (IF hasVec THEN 1 ELSE 0)
VecFree(n) == n - (IF hasVec THEN 1 ELSE 0) - (IF cap = 0 THEN 0 ELSE 1)
Destroy ==
  /\ Idle
  /\ blocks' = VecFree(blocks) - 1
  /\ hasVec' = FALSE /\ data' = <<>> /\ cap' = 0 /\ source' = <<>>
  /\ pc' = "none" /\ ret' = "OK" /\ UNCHANGED <<slice, feed>>

(* vec_push; at capacity it reallocates, which may be refused.             *)
Full == Len(data) = cap
NewCap == IF cap = 0 THEN InitCap ELSE cap * 2
Appended ==
  /\ hasVec /\ (Full => NewCap <= MaxCap)
  /\ cap' = (IF Full THEN NewCap ELSE cap)
  /\ blocks' = (IF cap = 0 THEN blocks + 1 ELSE blocks)
  /\ UNCHANGED <<hasVec, source>>

Pushed(e) == Appended /\ data' = SiftUp[<<Append(data, e), Len(data)>>]
Push(e) == Idle /\ Pushed(e) /\ ret' = "OK" /\ UNCHANGED <<slice, pc, feed>>
PushRefused ==
  /\ Idle /\ (hasVec => Full)
  /\ ret' = IF hasVec THEN "OOM" ELSE "INVALID"
  /\ UNCHANGED <<queue, slice, pc, feed, blocks>>

Pop ==
  /\ Idle
  /\ IF data = <<>> THEN ret' = "NOT_FOUND" /\ UNCHANGED data
                    ELSE ret' = data[1] /\ data' = WithoutFirst(data)
  /\ UNCHANGED <<hasVec, cap, source, slice, pc, feed, blocks>>
Peek ==
  /\ Idle /\ ret' = (IF data = <<>> THEN "NOT_FOUND" ELSE data[1])
  /\ UNCHANGED <<queue, slice, pc, feed, blocks>>
Clear ==
  /\ Idle /\ data' = <<>> /\ ret' = "OK"
  /\ UNCHANGED <<hasVec, cap, source, slice, pc, feed, blocks>>

-----------------------------------------------------------------------------
(* pqueue_create_from_vec ignores what vec_push returns, and heapifies     *)
(* from the middle of the vec_t it was given.                              *)
FromVec(v) ==
  /\ pc = "none" /\ slice = Nil /\ Created
  /\ source' = v /\ feed' = v
  /\ pc' = "fill" /\ ret' = Nil /\ UNCHANGED slice
Fill ==
  /\ pc = "fill" /\ feed # <<>>
  /\ Appended /\ data' = Append(data, Head(feed)) /\ feed' = Tail(feed)
  /\ UNCHANGED <<slice, pc, ret>>
FillRefused ==
  /\ pc = "fill" /\ feed # <<>> /\ (hasVec => Full)
  /\ feed' = Tail(feed)
  /\ UNCHANGED <<hasVec, data, cap, source, slice, pc, ret, blocks>>
FillDone ==
  /\ pc = "fill" /\ feed = <<>>
  /\ data' = Heapify[<<data, Halved(Len(source))>>] /\ source' = <<>>
  /\ pc' = "idle" /\ ret' = "OK"
  /\ UNCHANGED <<hasVec, cap, slice, feed, blocks>>

(* pqueue_drain pops every element into a slice; refused it, the elements  *)
(* are gone.                                                               *)
DrainNothing ==
  /\ Idle /\ data = <<>> /\ ret' = "OK"
  /\ UNCHANGED <<queue, slice, pc, feed, blocks>>
DrainRefused ==
  /\ Idle /\ data # <<>>
  /\ data' = <<>> /\ ret' = "OOM"
  /\ UNCHANGED <<hasVec, cap, source, slice, pc, feed, blocks>>
Drain ==
  /\ Idle /\ data # <<>>
  /\ slice' = <<>> /\ blocks' = blocks + 1
  /\ pc' = "drain" /\ ret' = Nil /\ UNCHANGED <<queue, feed>>
DrainOne ==
  /\ pc = "drain" /\ data # <<>>
  /\ slice' = Append(slice, data[1]) /\ data' = WithoutFirst(data)
  /\ UNCHANGED <<hasVec, cap, source, pc, feed, ret, blocks>>
DrainDone ==
  /\ pc = "drain" /\ data = <<>>
  /\ pc' = "idle" /\ ret' = "OK" /\ UNCHANGED <<queue, slice, feed, blocks>>
FreeSlice ==
  /\ pc = "idle" /\ slice # Nil
  /\ slice' = Nil /\ blocks' = blocks - 1
  /\ UNCHANGED <<queue, pc, feed, ret>>

-----------------------------------------------------------------------------
ExtendStart == Idle /\ (\E s \in Sources : ExtendCall(s)) /\ UNCHANGED <<queue, slice>>
ExtendStep ==
  \/ (ExtendRefused \/ (hasVec /\ ExtendScratch)) /\ UNCHANGED <<queue, slice>>
  \/ FeedOne(Pushed(Head(feed))) /\ UNCHANGED slice
  \/ (FeedRefused(Full) \/ FeedDone) /\ UNCHANGED <<queue, slice>>

Next ==
  \/ Create \/ CreateRefused \/ Destroy \/ PushRefused \/ Pop \/ Peek \/ Clear
  \/ \E e \in Elems : Push(e)
  \/ \E v \in Sources : FromVec(v)
  \/ Fill \/ FillRefused \/ FillDone
  \/ DrainNothing \/ DrainRefused \/ Drain \/ DrainOne \/ DrainDone \/ FreeSlice
  \/ ExtendStart \/ ExtendStep

Spec == Init /\ [][Next]_vars

-----------------------------------------------------------------------------
(* Types; the vec_t never holds more than it has room for.                 *)
TypeOK ==
  /\ data \in Seq(Elems) /\ cap \in 0 .. MaxCap /\ Len(data) <= cap
  /\ (~hasVec => cap = 0) /\ hasVec \in BOOLEAN
  /\ source \in Seq(Elems) /\ feed \in Seq(Elems)
  /\ slice = Nil \/ slice \in Seq(Elems)
  /\ pc \in {"none", "idle", "extend", "feeding", "fill", "drain"}
  /\ blocks \in Nat

(* No element comes before its parent, whatever was pushed, popped and     *)
(* sifted, and also in a queue that lacks elements of the vec_t it was     *)
(* made from: its heapify starts at positions past the end.                *)
HeapOrder ==
  pc # "fill" => \A i \in 1 .. Len(data) - 1 : ~Less(At(data, i), At(data, Parent(i)))

(* No path of pqueue.c, vec.c and collection.c loses a block or frees one  *)
(* twice.                                                                  *)
NothingLeaks ==
  blocks = (IF pc = "none" THEN 0 ELSE 1) + (IF hasVec THEN 1 ELSE 0)
             + (IF cap = 0 THEN 0 ELSE 1) + (IF slice = Nil THEN 0 ELSE 1) + ExtendBlocks

(* The heap implements a bag that gives back the least first.              *)
Bag(s) == [e \in {s[i] : i \in DOMAIN s} |-> Cardinality({i \in DOMAIN s : s[i] = e})]
Doing == CASE pc = "feeding" -> "extend" [] pc = "drain" -> "drain"
           [] pc = "fill" -> "build" [] OTHER -> "nothing"
Prios == INSTANCE PrioSpec WITH bag <- Bag(data), exists <- pc # "none", doing <- Doing,
           feed <- IF pc \in {"feeding", "fill"} THEN feed ELSE <<>>,
           out <- IF slice = Nil THEN <<>> ELSE slice, result <- ret
ImplementsPrio == Prios!Spec

(* docs/pqueue.md:64: "Build a priority queue from a copy of v's elements" *)
(* -- so, once the copying is over, of all of them.                        *)
FromVecHoldsAll == pc = "fill" /\ feed = <<>> => Bag(data) = Bag(source)
=============================================================================
