--------------------------------- MODULE Vec ---------------------------------
(***************************************************************************)
(* vec_t, the growing array of src/src/vec/vec.c, and seqc_stack_t of      *)
(* src/src/stack/stack.c, which is a handle on one.                        *)
(*                                                                         *)
(* A call is one step, its allocation granted or refused, except extend,   *)
(* which is the loop of module Extend around push.                         *)
(***************************************************************************)
EXTENDS Extend

CONSTANTS
  Elems,
  InitCap,   (* INITIAL_CAP: 16 in the code                                 *)
  MaxCap,    (* a buffer of more elements than this is always refused       *)
  Junk       (* what a slot holds before it is written                      *)

VARIABLES
  kind,                  (* "vec" or "stack"                                *)
  data, cap, len,        (* struct vec_t                                    *)
  it,                    (* an iterator over the slice it was opened on     *)
  asked                  (* the last call, with its arguments               *)

vec  == <<data, cap, len>>
vars == <<kind, vec, it, pc, feed, ret, blocks, asked>>

Slots(c) == 0 .. c - 1
NoData   == [s \in Slots(0) |-> Junk]
NoIter   == [on |-> FALSE, fwd |-> TRUE, len |-> 0, pos |-> 0, seen |-> <<>>]
(* A stack has its handle and the vec_t.  *)
Structs == IF kind = "stack" THEN 2 ELSE 1

Init ==
  /\ kind \in {"vec", "stack"}
  /\ data = NoData /\ cap = 0 /\ len = 0
  /\ it = NoIter /\ pc = "none" /\ feed = <<>> /\ ret = Nil /\ blocks = 0
  /\ asked = <<"nothing">>

(* A stack whose vec_t is refused frees its handle.  *)
Create ==
  /\ pc = "none"
  /\ \/ ret' = "OK" /\ pc' = "idle" /\ blocks' = blocks + Structs
     \/ ret' = "OOM" /\ UNCHANGED <<pc, blocks>>
  /\ UNCHANGED <<kind, vec, it, feed>>
CreateWithCap ==
  /\ pc = "none" /\ kind = "vec"
  /\ \/ \E c \in 1 .. MaxCap :
          /\ cap' = c /\ data' = [s \in Slots(c) |-> Junk]
          /\ ret' = "OK" /\ pc' = "idle" /\ blocks' = blocks + 2
     \/ ret' = "OOM" /\ UNCHANGED <<data, cap, pc, blocks>>
  /\ UNCHANGED <<kind, len, it, feed>>

Quiet == pc = "idle" /\ ~it.on
VecOnly == Quiet /\ kind = "vec"

StructFree(n) == n - 1
StructsFree(n) == n - Structs
Destroy ==
  /\ Quiet
  /\ blocks' = StructsFree(blocks) - (IF cap = 0 THEN 0 ELSE 1)
  /\ data' = NoData /\ cap' = 0 /\ len' = 0 /\ pc' = "none" /\ ret' = "OK"
  /\ UNCHANGED <<kind, it, feed>>

-----------------------------------------------------------------------------
(* mem_realloc to c elements, of which the len in use are copied.          *)
Realloc(d, c) == [s \in Slots(c) |-> IF s < len THEN d[s] ELSE Junk]

Full == len = cap
NewCap == IF cap = 0 THEN InitCap ELSE cap * 2
(* What a push or an insert finds: the buffer as it is, or a grown one.    *)
Space ==
  IF ~Full THEN {[data |-> data, cap |-> cap]}
  ELSE IF NewCap <= MaxCap THEN {[data |-> Realloc(data, NewCap), cap |-> NewCap]}
  ELSE {}

(* memmove of the n elements from slot `from` to slot `to`.                *)
Moved(d, from, to, n) ==
  [s \in DOMAIN d |-> IF to <= s /\ s < to + n THEN d[s - to + from] ELSE d[s]]

Stored(g, d) ==
  /\ data' = d /\ cap' = g.cap /\ len' = len + 1
  /\ blocks' = IF cap = 0 THEN blocks + 1 ELSE blocks
Pushed(e) == \E g \in Space : Stored(g, [g.data EXCEPT ![len] = e])
Inserted(i, e) == \E g \in Space : Stored(g, [Moved(g.data, i, i + 1, len - i) EXCEPT ![i] = e])

Push(e) == Quiet /\ Pushed(e) /\ ret' = "OK" /\ UNCHANGED <<kind, it, pc, feed>>
Insert(i, e) ==
  /\ VecOnly
  /\ IF i <= len THEN Inserted(i, e) /\ ret' = "OK"
                 ELSE ret' = "INVALID" /\ UNCHANGED <<vec, blocks>>
  /\ UNCHANGED <<kind, it, pc, feed>>
GrowRefused == Quiet /\ Full /\ ret' = "OOM" /\ UNCHANGED <<kind, vec, it, pc, feed, blocks>>
InsertRefused(i) == kind = "vec" /\ i <= len /\ GrowRefused

Reserve(c) ==
  /\ VecOnly
  /\ \/ c <= cap /\ ret' = "OK" /\ UNCHANGED <<data, cap, blocks>>
     \/ /\ c > cap /\ c <= MaxCap
        /\ data' = Realloc(data, c) /\ cap' = c
        /\ blocks' = IF cap = 0 THEN blocks + 1 ELSE blocks
        /\ ret' = "OK"
     \/ c > cap /\ ret' = "OOM" /\ UNCHANGED <<data, cap, blocks>>
  /\ UNCHANGED <<kind, len, it, pc, feed>>

-----------------------------------------------------------------------------
Changed(l) == len' = l /\ UNCHANGED <<kind, cap, it, pc, feed, blocks>>
Pop ==
  /\ Quiet
  /\ IF len = 0 THEN ret' = "NOT_FOUND" /\ Changed(len)
                ELSE ret' = data[len - 1] /\ Changed(len - 1)
  /\ UNCHANGED data
Remove(i) ==
  /\ VecOnly
  /\ IF i < len THEN data' = Moved(data, i + 1, i, len - i - 1) /\ Changed(len - 1)
                ELSE UNCHANGED data /\ Changed(len)
  /\ ret' = "OK"
SetAt(i, e) ==
  /\ VecOnly
  /\ data' = (IF i < len THEN [data EXCEPT ![i] = e] ELSE data)
  /\ Changed(len) /\ ret' = "OK"
Truncate(n) == VecOnly /\ Changed(IF n < len THEN n ELSE len) /\ ret' = "OK" /\ UNCHANGED data
Clear == Quiet /\ Changed(0) /\ ret' = "OK" /\ UNCHANGED data
(* qsort: some rearrangement of the elements in use.  *)
Sort ==
  /\ VecOnly
  /\ \E f \in [Slots(len) -> Slots(len)] :
       /\ \A i, j \in Slots(len) : f[i] = f[j] => i = j
       /\ data' = [s \in DOMAIN data |-> IF s < len THEN data[f[s]] ELSE data[s]]
  /\ Changed(len) /\ ret' = "OK"

Looked(r) == pc = "idle" /\ ret' = r /\ UNCHANGED <<kind, vec, it, pc, feed, blocks>>
Get(i) == kind = "vec" /\ Looked(IF i < len THEN data[i] ELSE "NOT_FOUND")
Peek == kind = "stack" /\ Looked(IF len = 0 THEN "NOT_FOUND" ELSE data[len - 1])
(* vec_find and vec_any, with a predicate that holds of the elements of P. *)
Find(P) ==
  LET hits == {i \in Slots(len) : data[i] \in P} IN
  /\ kind = "vec"
  /\ Looked(IF hits = {} THEN "NOT_FOUND" ELSE data[CHOOSE i \in hits : \A j \in hits : i <= j])

-----------------------------------------------------------------------------
(* vec_iter and vec_iter_rev: a slice of the buffer and a position.        *)
IterOpen(fwd) ==
  /\ Quiet
  /\ it' = [on |-> TRUE, fwd |-> fwd, len |-> len, pos |-> IF fwd THEN 0 ELSE len, seen |-> <<>>]
  /\ blocks' = blocks + 1
  /\ UNCHANGED <<kind, vec, pc, feed, ret>>
IterNext ==
  /\ pc = "idle" /\ it.on
  /\ IF it.fwd THEN it.pos < it.len ELSE it.pos > 0
  /\ LET p == IF it.fwd THEN it.pos ELSE it.pos - 1 IN
     it' = [it EXCEPT !.pos = IF it.fwd THEN p + 1 ELSE p, !.seen = Append(@, data[p])]
  /\ UNCHANGED <<kind, vec, pc, feed, ret, blocks>>
IterDrop ==
  /\ pc = "idle" /\ it.on
  /\ it' = NoIter /\ blocks' = blocks - 1
  /\ UNCHANGED <<kind, vec, pc, feed, ret>>

(* vec_extend, and stack_extend through seqc_extend.  *)
ExtendStart == ~it.on /\ (\E s \in Sources : ExtendCall(s)) /\ UNCHANGED <<kind, vec, it>>
ExtendStep ==
  \/ (ExtendRefused \/ ExtendScratch) /\ UNCHANGED <<kind, vec, it>>
  \/ FeedOne(Pushed(Head(feed))) /\ UNCHANGED <<kind, it>>
  \/ (FeedRefused(Full) \/ FeedDone) /\ UNCHANGED <<kind, vec, it>>

(* stack_push, stack_pop and stack_peek are at the back.  *)
Call ==
  \/ asked' = <<"clear">> /\ Clear
  \/ asked' = <<"pop_back">> /\ Pop
  \/ asked' = <<"back">> /\ Peek
  \/ asked' = <<"sort">> /\ Sort
  \/ \E e \in Elems : asked' = <<"push_back", e>> /\ (Push(e) \/ GrowRefused)
  \/ \E P \in SUBSET Elems : asked' = <<"find", P>> /\ Find(P)

CallAt(i) ==
  \/ asked' = <<"get", i>> /\ Get(i)
  \/ asked' = <<"remove", i>> /\ Remove(i)
  \/ asked' = <<"truncate", i>> /\ Truncate(i)
  \/ asked' = <<"reserve", i>> /\ Reserve(i)
  \/ \E e \in Elems :
       \/ asked' = <<"insert", i, e>> /\ (Insert(i, e) \/ InsertRefused(i))
       \/ asked' = <<"set", i, e>> /\ SetAt(i, e)

Iterate == (\E fwd \in BOOLEAN : IterOpen(fwd)) \/ IterNext \/ IterDrop

Next ==
  \/ asked' = <<"create">> /\ (Create \/ CreateWithCap)
  \/ asked' = <<"destroy">> /\ Destroy
  \/ Call \/ \E i \in 0 .. MaxCap : CallAt(i)
  \/ (Iterate \/ ExtendStart) /\ UNCHANGED asked
  \/ ExtendStep /\ asked' = IF pc = "extend" THEN <<"extend", feed>> ELSE asked

Spec == Init /\ [][Next]_vars

-----------------------------------------------------------------------------
(* Types: the buffer has cap slots, and every slot in use was written.     *)
TypeOK ==
  /\ kind \in {"vec", "stack"} /\ cap \in Nat /\ len \in 0 .. cap
  /\ data \in [Slots(cap) -> Elems \cup {Junk}] /\ \A s \in Slots(len) : data[s] # Junk
  /\ it.on => it.pos <= it.len /\ it.len = len
  /\ pc \in {"none", "idle", "extend", "feeding"} /\ feed \in Seq(Elems)

Items == [n \in 1 .. len |-> data[n - 1]]

(* No path of vec.c, stack.c and collection.c loses a block or frees one   *)
(* twice.                                                                  *)
NothingLeaks ==
  blocks = (IF pc = "none" THEN 0 ELSE Structs) + (IF cap = 0 THEN 0 ELSE 1)
             + (IF it.on THEN 1 ELSE 0) + ExtendBlocks

(* What an iterator has yielded is the front of the array in order, or its *)
(* back in reverse.                                                        *)
IterInOrder ==
  it.on => it.seen = IF it.fwd THEN SubSeq(Items, 1, it.pos)
                     ELSE [n \in 1 .. len - it.pos |-> Items[len + 1 - n]]
=============================================================================
