------------------------------- MODULE Extend -------------------------------
(***************************************************************************)
(* seqc_extend of src/src/collection.c, the loop behind list_extend,       *)
(* ringbuf_extend and the rest, and the identical one that vec_extend of   *)
(* src/src/vec/vec.c has for itself: an iterator handed over by the caller *)
(* is drained into a collection, whatever the outcome it is destroyed, and *)
(* the scratch element is freed.                                           *)
(*                                                                         *)
(* The collection extends this module and gives the loop its own push.     *)
(***************************************************************************)
EXTENDS Integers, Sequences

CONSTANTS Sources,   (* what the handed-over iterator may yield             *)
          Nil

VARIABLES pc,        (* "none" without a collection, else "idle" or in a call *)
          feed,      (* what the iterator has yet to yield                  *)
          ret,       (* the status of the last call                         *)
          blocks     (* allocator blocks not yet freed                      *)

(* iter_destroy frees the iterator's state; then the scratch element goes.  *)
IterDestroy(n) == n - 1
ScratchFree(n) == n - 1

(* The caller builds the iterator and hands it over.  *)
ExtendCall(s) ==
  /\ pc = "idle"
  /\ pc' = "extend" /\ feed' = s
  /\ blocks' = blocks + 1
  /\ UNCHANGED ret

(* The iterator yields elements of another size, or the scratch element is *)
(* refused.                                                                *)
ExtendRefused ==
  /\ pc = "extend"
  /\ ret' \in {"INVALID", "OOM"}
  /\ blocks' = IterDestroy(blocks)
  /\ pc' = "idle" /\ feed' = <<>>

ExtendScratch ==
  /\ pc = "extend"
  /\ blocks' = blocks + 1 /\ pc' = "feeding" /\ ret' = Nil
  /\ UNCHANGED feed

(* One turn of the loop, where Pushed is the collection's own push of the  *)
(* element and says what it does to blocks, and Refusable holds when that  *)
(* push may run out of memory.                                             *)
FeedOne(Pushed) ==
  /\ pc = "feeding" /\ feed # <<>>
  /\ Pushed
  /\ feed' = Tail(feed)
  /\ UNCHANGED <<pc, ret>>

FeedEnd(r) ==
  /\ pc = "feeding"
  /\ blocks' = ScratchFree(IterDestroy(blocks))
  /\ ret' = r /\ pc' = "idle" /\ feed' = <<>>
FeedRefused(Refusable) == feed # <<>> /\ Refusable /\ FeedEnd("OOM")
FeedDone == feed = <<>> /\ FeedEnd("OK")

Feeding == pc = "feeding"

(* The blocks an extend in progress holds.  *)
ExtendBlocks == CASE pc = "extend" -> 1 [] pc = "feeding" -> 2 [] OTHER -> 0
=============================================================================
