------------------------------ MODULE MapExtend ------------------------------
(***************************************************************************)
(* hashmap_extend of src/src/hashmap/hashmap.c: a hashmap_t with the call  *)
(* that drains an iterator of entries into it, one hashmap_set after       *)
(* another, each of them in all the steps of HashMap, and destroys the     *)
(* iterator however it ends.                                               *)
(***************************************************************************)
EXTENDS HashMap

CONSTANTS Batches   (* what the handed-over iterator may yield              *)

ASSUME BatchesAssumption == Batches \subseteq Seq(Offered)

VARIABLES
  batch,    (* the entries of the extend in progress                        *)
  taken,    (* how many of them the iterator has yielded                    *)
  before,   (* the contents when it was called                              *)
  status,   (* what the loop knows of the last set, or the extend returned  *)
  handed    (* the iterator's block                                         *)

extend  == <<batch, taken, before, status, handed>>
extVars == <<vars, extend>>

Nothing == [k \in {} |-> Nil]

ExtendInit == Init /\ batch = <<>> /\ taken = 0 /\ before = Nothing /\ status = "none" /\ handed = 0

Extending == handed # 0

(* The iterator is destroyed with the call.  *)
ExtendReturn(r) ==
  /\ status' = r /\ handed' = 0
  /\ batch' = <<>> /\ taken' = 0 /\ before' = Nothing
  /\ UNCHANGED vars

(* An iterator of entries is handed over; one of other elements ends the   *)
(* call at once.                                                           *)
ExtendCall(es) ==
  /\ Quiet /\ ~Extending
  /\ batch' = es /\ taken' = 0 /\ before' = Contents /\ status' = "OK" /\ handed' = 1
  /\ UNCHANGED vars
ExtendInvalid == Extending /\ taken = 0 /\ pc = "idle" /\ ExtendReturn("INVALID")

(* What the set in progress has come to, once it has returned.             *)
Failed == taken > 0 /\ ret # "OK"
GoesOnAnyway == pc = "idle"
GoesOn == pc = "idle" /\ ~Failed

ExtendSet ==
  /\ Extending /\ GoesOn /\ taken < Len(batch)
  /\ SetCall(batch[taken + 1][1], batch[taken + 1][2])
  /\ taken' = taken + 1
  /\ UNCHANGED <<batch, before, status, handed>>
ExtendDone == Extending /\ GoesOn /\ taken = Len(batch) /\ ExtendReturn("OK")
ExtendFailed == Extending /\ pc = "idle" /\ Failed /\ ExtendReturn(ret)

ExtendTurn == ExtendSet \/ ExtendDone \/ ExtendFailed

ExtendNext ==
  \/ Step /\ UNCHANGED extend
  \/ ~Extending /\ Next /\ UNCHANGED extend
  \/ \E es \in Batches : ExtendCall(es)
  \/ ExtendInvalid \/ ExtendTurn

(* The loop is sequential code: it takes its turn when a set has returned. *)
ExtendSpec == /\ ExtendInit /\ [][ExtendNext]_extVars
              /\ WF_extVars((Step /\ UNCHANGED extend) \/ ExtendTurn)

-----------------------------------------------------------------------------
(* Between two sets of an extend the map holds what it held, overwritten   *)
(* by exactly the entries taken so far, later ones of a key over earlier   *)
(* ones; if the last set was refused, by all but that one.  So an extend   *)
(* that fails has added a prefix, through any rehash in between.           *)
Over(m, n) ==
  LET Latest(k) == {j \in 1 .. n : batch[j][1] = k /\ \A h \in j + 1 .. n : batch[h][1] # k}
      keys == DOMAIN m \cup {batch[j][1] : j \in 1 .. n}
  IN [k \in keys |-> IF Latest(k) = {} THEN m[k] ELSE batch[CHOOSE j \in Latest(k) : TRUE][2]]
ExtendsByPrefix ==
  (Extending /\ pc = "idle") => Contents = Over(before, IF Failed THEN taken - 1 ELSE taken)
=============================================================================
