-------------------------------- MODULE Queue --------------------------------
(***************************************************************************)
(* queue_t: the circular FIFO of src/src/queue/queue.c.                    *)
(*                                                                         *)
(* A call is one step, its allocation granted or refused, except           *)
(* queue_extend, which is the loop of module Extend around queue_push.     *)
(***************************************************************************)
EXTENDS Extend

CONSTANTS
  Elems,
  InitCap,   (* INITIAL_CAP: 16 in the code                                 *)
  MaxCap,    (* a buffer of more elements than this is always refused       *)
  Junk       (* what a slot holds before it is written                      *)

VARIABLES
  buf, cap, len, head,   (* struct queue_t                                  *)
  it,                    (* an iterator: what it copied from the queue      *)
  asked                  (* the last call, with its arguments               *)

queue == <<buf, cap, len, head>>
vars  == <<queue, it, pc, feed, ret, blocks, asked>>

Slots(c) == 0 .. c - 1
NoBuf    == [s \in Slots(0) |-> Junk]
NoIter   == [on |-> FALSE, fwd |-> TRUE, next |-> 0, cap |-> 0, remaining |-> 0, seen |-> <<>>]

Wrapped(h, n, c) == (h + n) % c

Init ==
  /\ buf = NoBuf /\ cap = 0 /\ len = 0 /\ head = 0
  /\ it = NoIter /\ pc = "none" /\ feed = <<>> /\ ret = Nil /\ blocks = 0
  /\ asked = <<"nothing">>

Create ==
  /\ pc = "none"
  /\ \/ ret' = "OK" /\ pc' = "idle" /\ blocks' = blocks + 1
     \/ ret' = "OOM" /\ UNCHANGED <<pc, blocks>>
  /\ UNCHANGED <<queue, it, feed>>

Quiet == pc = "idle" /\ ~it.on

Destroy ==
  /\ Quiet
  /\ buf' = NoBuf /\ cap' = 0 /\ len' = 0 /\ head' = 0
  /\ blocks' = blocks - (IF cap = 0 THEN 1 ELSE 2)
  /\ pc' = "none" /\ ret' = "OK"
  /\ UNCHANGED <<it, feed>>

-----------------------------------------------------------------------------
(* queue_grow copies the elements in logical order to the start of the new *)
(* buffer.                                                                 *)
NewCap == IF cap = 0 THEN InitCap ELSE cap * 2
CopyLogical(n) == buf[Wrapped(head, n, IF cap = 0 THEN 1 ELSE cap)]

Full == len = cap
AllocAtGrowth(n) == IF Full /\ cap = 0 THEN n + 1 ELSE n

Pushed(e) ==
  \E g \in (IF ~Full THEN {[buf |-> buf, cap |-> cap, head |-> head]}
            ELSE {[buf  |-> [s \in Slots(NewCap) |-> IF s < len THEN CopyLogical(s) ELSE Junk],
                   cap  |-> NewCap, head |-> 0]}) :
    /\ g.cap <= MaxCap
    /\ buf' = [g.buf EXCEPT ![Wrapped(g.head, len, g.cap)] = e]
    /\ cap' = g.cap /\ head' = g.head /\ len' = len + 1
    /\ blocks' = AllocAtGrowth(blocks)

Push(e) == Quiet /\ Pushed(e) /\ ret' = "OK" /\ UNCHANGED <<it, pc, feed>>

PushRefused ==
  /\ Quiet /\ Full
  /\ ret' = "OOM"
  /\ UNCHANGED <<queue, it, pc, feed, blocks>>

HeadAfterPop == Wrapped(head, 1, cap)
Pop ==
  /\ Quiet
  /\ IF len = 0
     THEN ret' = "NOT_FOUND" /\ UNCHANGED <<len, head>>
     ELSE ret' = buf[head] /\ head' = HeadAfterPop /\ len' = len - 1
  /\ UNCHANGED <<buf, cap, it, pc, feed, blocks>>

LastSlot == Wrapped(head, len - 1, cap)
Front ==
  /\ pc = "idle"
  /\ ret' = IF len = 0 THEN "NOT_FOUND" ELSE buf[head]
  /\ UNCHANGED <<queue, it, pc, feed, blocks>>
Back ==
  /\ pc = "idle"
  /\ ret' = IF len = 0 THEN "NOT_FOUND" ELSE buf[LastSlot]
  /\ UNCHANGED <<queue, it, pc, feed, blocks>>

Clear ==
  /\ Quiet
  /\ len' = 0 /\ head' = 0 /\ ret' = "OK"
  /\ UNCHANGED <<buf, cap, it, pc, feed, blocks>>

-----------------------------------------------------------------------------
(* queue_iter and queue_iter_rev copy the buffer's address, capacity and   *)
(* count, and walk on their own from the front or the last element.        *)

FirstPastEnd == IF len > 0 THEN Wrapped(head, len, cap) ELSE 0
FirstFromEnd == IF len > 0 THEN LastSlot ELSE 0

IterOpen(fwd) ==
  /\ Quiet
  /\ it' = [on |-> TRUE, fwd |-> fwd, next |-> IF fwd THEN head ELSE FirstFromEnd,
            cap |-> cap, remaining |-> len, seen |-> <<>>]
  /\ blocks' = blocks + 1
  /\ UNCHANGED <<queue, pc, feed, ret>>

IterNext ==
  /\ pc = "idle" /\ it.on
  /\ it.remaining > 0 /\ it.cap > 0
  /\ it' = [it EXCEPT !.seen = Append(@, buf[it.next]),
                      !.next = Wrapped(@, IF it.fwd THEN 1 ELSE it.cap - 1, it.cap),
                      !.remaining = @ - 1]
  /\ UNCHANGED <<queue, pc, feed, ret, blocks>>

IterDrop ==
  /\ pc = "idle" /\ it.on
  /\ it' = NoIter /\ blocks' = blocks - 1
  /\ UNCHANGED <<queue, pc, feed, ret>>

-----------------------------------------------------------------------------
ExtendStart == ~it.on /\ (\E s \in Sources : ExtendCall(s)) /\ UNCHANGED <<queue, it>>
ExtendStep ==
  \/ (ExtendRefused \/ ExtendScratch) /\ UNCHANGED <<queue, it>>
  \/ FeedOne(Pushed(Head(feed))) /\ UNCHANGED it
  \/ (FeedRefused(Full) \/ FeedDone) /\ UNCHANGED <<queue, it>>

(* queue_push is at the back and queue_pop in front.  *)
Call ==
  \/ asked' = <<"clear">> /\ Clear
  \/ asked' = <<"pop_front">> /\ Pop
  \/ asked' = <<"front">> /\ Front
  \/ asked' = <<"back">> /\ Back
  \/ \E e \in Elems : asked' = <<"push_back", e>> /\ (Push(e) \/ PushRefused)

Iterate == (\E fwd \in BOOLEAN : IterOpen(fwd)) \/ IterNext \/ IterDrop

Next ==
  \/ asked' = <<"create">> /\ Create
  \/ asked' = <<"destroy">> /\ Destroy
  \/ Call
  \/ (Iterate \/ ExtendStart) /\ UNCHANGED asked
  \/ ExtendStep /\ asked' = IF pc = "extend" THEN <<"extend", feed>> ELSE asked

Spec == Init /\ [][Next]_vars

-----------------------------------------------------------------------------
(* Types: every slot index is in bounds, and what is read is an element    *)
(* and never an unwritten slot.                                            *)
TypeOK ==
  /\ cap \in Nat /\ len \in 0 .. cap
  /\ IF cap = 0 THEN head = 0 ELSE head \in Slots(cap)
  /\ buf \in [Slots(cap) -> Elems \cup {Junk}]
  /\ it \in [on : BOOLEAN, fwd : BOOLEAN, next : Nat, cap : Nat, remaining : Nat,
             seen : Seq(Elems)]
  /\ pc \in {"none", "idle", "extend", "feeding"}
  /\ feed \in Seq(Elems)
  /\ ret \in Elems \cup {Nil, "OK", "OOM", "NOT_FOUND", "INVALID"}
  /\ blocks \in Int

Items == [n \in 1 .. len |-> buf[Wrapped(head, n - 1, cap)]]

(* No path of queue.c and collection.c loses a block or frees one twice.   *)
NothingLeaks ==
  blocks = (IF pc = "none" THEN 0 ELSE 1) + (IF cap = 0 THEN 0 ELSE 1)
             + (IF it.on THEN 1 ELSE 0) + ExtendBlocks

(* The elements an iterator has yielded and those it still counts on make  *)
(* up the whole queue, in order or in reverse, at every moment.            *)
IterInOrder ==
  it.on =>
    /\ Len(it.seen) + it.remaining = len
    /\ \A n \in 1 .. Len(it.seen) :
         it.seen[n] = Items[IF it.fwd THEN n ELSE len + 1 - n]
=============================================================================
