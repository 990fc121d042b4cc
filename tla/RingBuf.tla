------------------------------- MODULE RingBuf -------------------------------
(***************************************************************************)
(* ringbuf_t: the double-ended circular buffer of                          *)
(* src/src/ringbuf/ringbuf.c.                                              *)
(*                                                                         *)
(* A call is one step, its allocation granted or refused, except           *)
(* ringbuf_extend, which is the loop of module Extend around push_back.    *)
(***************************************************************************)
EXTENDS Extend

CONSTANTS
  Elems,
  InitCap,   (* RINGBUF_INITIAL_CAP: 8 in the code                          *)
  MaxCap,    (* a buffer of more elements than this is always refused       *)
  Junk       (* what a slot holds before it is written                      *)

ASSUME RingBufAssumption ==
  /\ InitCap \in Nat \ {0} /\ MaxCap \in Nat
  /\ Sources \subseteq Seq(Elems)
  /\ Nil \notin Elems /\ Junk \notin Elems

VARIABLES
  data, cap, len, head,   (* struct ringbuf_t                               *)
  it,                     (* an iterator over the buffer                    *)
  asked                   (* the last call, with its arguments              *)

buffer == <<data, cap, len, head>>
vars   == <<buffer, it, pc, feed, ret, blocks, asked>>

Slots(c) == 0 .. c - 1
NoData   == [s \in Slots(0) |-> Junk]
NoIter   == [on |-> FALSE, fwd |-> TRUE, pos |-> 0, seen |-> <<>>]

(* rb_slot: (head + logical) & (cap - 1), cap a power of two.  *)
SlotIn(h, n, c) == (h + n) % c
At(n) == data[SlotIn(head, n, cap)]

Init ==
  /\ data = NoData /\ cap = 0 /\ len = 0 /\ head = 0
  /\ it = NoIter /\ pc = "none" /\ feed = <<>> /\ ret = Nil /\ blocks = 0
  /\ asked = <<"nothing">>

(* Only the struct: the buffer comes with the first push.  *)
Create ==
  /\ pc = "none"
  /\ \/ ret' = "OK" /\ pc' = "idle" /\ blocks' = blocks + 1
     \/ ret' = "OOM" /\ UNCHANGED <<pc, blocks>>
  /\ UNCHANGED <<buffer, it, feed>>

Quiet == pc = "idle" /\ ~it.on

Destroy ==
  /\ Quiet
  /\ data' = NoData /\ cap' = 0 /\ len' = 0 /\ head' = 0
  /\ blocks' = blocks - (IF cap = 0 THEN 1 ELSE 2)
  /\ pc' = "none" /\ ret' = "OK"
  /\ UNCHANGED <<it, feed>>

-----------------------------------------------------------------------------
(* rb_grow.  The wrapped contents are copied in two pieces; a copy in one  *)
(* piece would leave the second unwritten.                                 *)

NewCap == IF cap = 0 THEN InitCap ELSE cap * 2

CopyUnwrapped(n) == IF head + n < cap THEN data[head + n] ELSE Junk
CopyLinear(n) ==
  IF head + len <= cap
  THEN data[head + n]
  ELSE LET first == cap - head IN IF n < first THEN data[head + n] ELSE data[n - first]

(* What a push finds: the buffer as it is, or a grown one.  *)
Full == len = cap
GrownHead == 0
GrownFreeing(n) == IF Full /\ cap = 0 THEN n + 1 ELSE n
Space ==
  IF ~Full THEN {[data |-> data, cap |-> cap, head |-> head]}
  ELSE IF NewCap <= MaxCap
  THEN {[data |-> [s \in Slots(NewCap) |-> IF s < len THEN CopyLinear(s) ELSE Junk],
         cap |-> NewCap, head |-> GrownHead]}
  ELSE {}

PushedBack(e) ==
  \E g \in Space :
    /\ data' = [g.data EXCEPT ![SlotIn(g.head, len, g.cap)] = e]
    /\ cap' = g.cap /\ head' = g.head /\ len' = len + 1
    /\ blocks' = GrownFreeing(blocks)

PushedFront(e) ==
  \E g \in Space :
    LET h == SlotIn(g.head, g.cap - 1, g.cap) IN
    /\ data' = [g.data EXCEPT ![h] = e]
    /\ cap' = g.cap /\ head' = h /\ len' = len + 1
    /\ blocks' = GrownFreeing(blocks)

Push(Pushed) == Quiet /\ Pushed /\ ret' = "OK" /\ UNCHANGED <<it, pc, feed>>

PushBack(e)  == Push(PushedBack(e))
PushFront(e) == Push(PushedFront(e))

PushRefused ==
  /\ Quiet /\ Full
  /\ ret' = "OOM"
  /\ UNCHANGED <<buffer, it, pc, feed, blocks>>

-----------------------------------------------------------------------------
PopFront ==
  /\ Quiet
  /\ IF len = 0
     THEN ret' = "NOT_FOUND" /\ UNCHANGED <<len, head>>
     ELSE /\ ret' = data[head]
          /\ head' = SlotIn(head, 1, cap) /\ len' = len - 1
  /\ UNCHANGED <<data, cap, it, pc, feed, blocks>>

PopBack ==
  /\ Quiet
  /\ IF len = 0
     THEN ret' = "NOT_FOUND" /\ UNCHANGED len
     ELSE ret' = At(len - 1) /\ len' = len - 1
  /\ UNCHANGED <<data, cap, head, it, pc, feed, blocks>>

(* ringbuf_get, and ringbuf_front and ringbuf_back through it.  *)
Lookup(n) == IF n < len THEN At(n) ELSE "NOT_FOUND"
Get(n) ==
  /\ pc = "idle"
  /\ ret' = Lookup(n)
  /\ UNCHANGED <<buffer, it, pc, feed, blocks>>
Back ==
  /\ pc = "idle"
  /\ ret' = IF len > 0 THEN Lookup(len - 1) ELSE "NOT_FOUND"
  /\ UNCHANGED <<buffer, it, pc, feed, blocks>>

Clear ==
  /\ Quiet
  /\ len' = 0 /\ head' = 0 /\ ret' = "OK"
  /\ UNCHANGED <<data, cap, it, pc, feed, blocks>>

-----------------------------------------------------------------------------
(* ringbuf_iter and ringbuf_iter_rev: a logical position, read through the *)
(* buffer at every step.                                                   *)

IterOpen(fwd) ==
  /\ Quiet
  /\ it' = [on |-> TRUE, fwd |-> fwd, pos |-> IF fwd THEN 0 ELSE len, seen |-> <<>>]
  /\ blocks' = blocks + 1
  /\ UNCHANGED <<buffer, pc, feed, ret>>

RevReads(p) == p - 1
IterNext ==
  /\ pc = "idle" /\ it.on
  /\ IF it.fwd THEN it.pos < len ELSE it.pos > 0
  /\ LET n == IF it.fwd THEN it.pos ELSE RevReads(it.pos) IN
     it' = [it EXCEPT !.pos = IF it.fwd THEN n + 1 ELSE n, !.seen = Append(@, At(n))]
  /\ UNCHANGED <<buffer, pc, feed, ret, blocks>>

IterDrop ==
  /\ pc = "idle" /\ it.on
  /\ it' = NoIter /\ blocks' = blocks - 1
  /\ UNCHANGED <<buffer, pc, feed, ret>>

-----------------------------------------------------------------------------
(* ringbuf_extend, from an iterator over something else.  *)

ExtendStart == ~it.on /\ (\E s \in Sources : ExtendCall(s)) /\ UNCHANGED <<buffer, it>>
ExtendStep ==
  \/ (ExtendRefused \/ ExtendScratch) /\ UNCHANGED <<buffer, it>>
  \/ FeedOne(PushedBack(Head(feed))) /\ UNCHANGED it
  \/ (FeedRefused(Full) \/ FeedDone) /\ UNCHANGED <<buffer, it>>

(* The caller's calls.  What it asked for is recorded, for DequeSpec, and  *)
(* read by no action; an extend takes its first step with all of feed.     *)
Call ==
  \/ asked' = <<"clear">> /\ Clear
  \/ asked' = <<"pop_front">> /\ PopFront
  \/ asked' = <<"pop_back">> /\ PopBack
  \/ asked' = <<"back">> /\ Back
  \/ \E e \in Elems : \/ asked' = <<"push_back", e>> /\ (PushBack(e) \/ PushRefused)
                      \/ asked' = <<"push_front", e>> /\ (PushFront(e) \/ PushRefused)
  \/ \E n \in 0 .. MaxCap : asked' = <<"get", n>> /\ Get(n)

Iterate == (\E fwd \in BOOLEAN : IterOpen(fwd)) \/ IterNext \/ IterDrop

Next ==
  \/ asked' = <<"create">> /\ Create
  \/ asked' = <<"destroy">> /\ Destroy
  \/ Call
  \/ (Iterate \/ ExtendStart) /\ UNCHANGED asked
  \/ ExtendStep /\ asked' = IF pc = "extend" THEN <<"extend", feed>> ELSE asked

Spec == Init /\ [][Next]_vars

-----------------------------------------------------------------------------
(* Types, and the buffer's shape: every slot index is in bounds, and what  *)
(* is read is an element and never an unwritten slot.                      *)
Ret == Elems \cup {Nil, "OK", "OOM", "NOT_FOUND", "INVALID"}

TypeOK ==
  /\ cap \in Nat /\ len \in 0 .. cap
  /\ IF cap = 0 THEN head = 0 ELSE head \in Slots(cap)
  /\ data \in [Slots(cap) -> Elems \cup {Junk}]
  /\ it \in [on : BOOLEAN, fwd : BOOLEAN, pos : Nat, seen : Seq(Elems)]
  /\ it.on => it.pos <= len
  /\ pc \in {"none", "idle", "extend", "feeding"}
  /\ feed \in Seq(Elems)
  /\ ret \in Ret
  /\ blocks \in Int

(* The elements from front to back.  *)
Items == [n \in 1 .. len |-> At(n - 1)]

(* No path of ringbuf.c and collection.c loses a block or frees one twice. *)
NothingLeaks ==
  blocks = (IF pc = "none" THEN 0 ELSE 1) + (IF cap = 0 THEN 0 ELSE 1)
             + (IF it.on THEN 1 ELSE 0) + ExtendBlocks

(* What an iterator has yielded, at every moment, is the front of the      *)
(* buffer in order, or its back in reverse, also across the wrap.          *)
IterInOrder ==
  it.on => it.seen = IF it.fwd THEN [n \in 1 .. it.pos |-> Items[n]]
                     ELSE [n \in 1 .. len - it.pos |-> Items[len + 1 - n]]
=============================================================================
