------------------------------- MODULE Deques -------------------------------
(***************************************************************************)
(* The five sequences side by side: ring buffer, queue, list_t or dlist_t, *)
(* and vec_t or stack, with what they have in common.  A behaviour is that *)
(* of one of them; variables that it does not have keep one value.         *)
(***************************************************************************)
EXTENDS RingBuf

CONSTANTS Addrs, NULL

ASSUME ListsAssumption == NULL \notin Addrs

VARIABLES which, kind, buf, tail, node, at

Q == INSTANCE Queue
L == INSTANCE Lists
V == INSTANCE Vec

all == <<which, vars, kind, buf, tail, node, at>>
InitAny ==
  \/ /\ which = "ringbuf" /\ Init
     /\ kind = which /\ buf = NoData /\ tail = NULL /\ node = <<>> /\ at = NULL
  \/ /\ which = "queue" /\ Q!Init
     /\ kind = which /\ data = NoData /\ tail = NULL /\ node = <<>> /\ at = NULL
  \/ /\ which = "list" /\ L!Init
     /\ data = NoData /\ buf = NoData /\ cap = 0
  \/ /\ which = "vec" /\ V!Init
     /\ buf = NoData /\ head = 0 /\ tail = NULL /\ node = <<>> /\ at = NULL
NextAny ==
  /\ UNCHANGED which
  /\ \/ which = "ringbuf" /\ Next /\ UNCHANGED <<kind, buf, tail, node, at>>
     \/ which = "queue" /\ Q!Next /\ UNCHANGED <<kind, data, tail, node, at>>
     \/ which = "list" /\ L!Next /\ UNCHANGED <<data, buf, cap>>
     \/ which = "vec" /\ V!Next /\ UNCHANGED <<buf, head, tail, node, at>>
SpecAny == InitAny /\ [][NextAny]_all

-----------------------------------------------------------------------------
(* Every slot index is in bounds, every pointer is NULL or to an allocated *)
(* node, and no slot is read before it is written.                         *)
DequeTypes ==
  /\ which = "ringbuf" => TypeOK
  /\ which = "queue" => Q!TypeOK
  /\ which = "list" => L!TypeOK
  /\ which = "vec" => V!TypeOK

(* The links of a list_t and a dlist_t run through every allocated node.   *)
ChainsOK == which = "list" => L!ChainOK

(* No path of the five, through seqc_extend, loses a block or frees one    *)
(* twice.                                                                  *)
NothingLeaked ==
  /\ which = "ringbuf" => NothingLeaks
  /\ which = "queue" => Q!NothingLeaks
  /\ which = "list" => L!NothingLeaks
  /\ which = "vec" => V!NothingLeaks

(* An iterator over any of the five has yielded the elements from its end  *)
(* in order, across a wrap and along the links.                            *)
ItersInOrder ==
  /\ which = "ringbuf" => IterInOrder
  /\ which = "queue" => Q!IterInOrder
  /\ which = "list" => L!IterInOrder
  /\ which = "vec" => V!IterInOrder

(* Each of the five implements DequeSpec: whatever wraps, grows, is        *)
(* unlinked, shifted or refused, a call has on the sequence the effect of  *)
(* that call with its own arguments (the end it pushes to, the index it    *)
(* removes, the room it is refused) and of no other, and an extend appends *)
(* the elements handed over in their order. So a queue is first in, first  *)
(* out, and a stack last in, first out.                                    *)
Contents == CASE which = "ringbuf" -> Items [] which = "queue" -> Q!Items
              [] which = "list" -> L!Items [] which = "vec" -> V!Items
Exists == pc \notin {"none", "destroy"}
Given  == IF Feeding THEN feed ELSE <<>>
Common == INSTANCE DequeSpec WITH items <- Contents, exists <- Exists, feed <- Given,
            extending <- Feeding, result <- ret, Indices <- 0 .. MaxCap
DequesImplemented == Common!Spec
=============================================================================
