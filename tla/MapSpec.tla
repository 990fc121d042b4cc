------------------------------- MODULE MapSpec -------------------------------
(***************************************************************************)
(* What a seqc map promises its caller, whatever its representation.       *)
(*                                                                         *)
(* The map is a partial function from keys to values, or NoMap when the    *)
(* caller holds none.  A call that runs in several steps takes effect at   *)
(* exactly one instant between its invocation and its return, and a set    *)
(* that fails for want of memory has no effect at all.                     *)
(***************************************************************************)
EXTENDS Naturals

CONSTANTS Keys, Vals,
          Nil         (* no argument, no result yet *)

VARIABLES map,        (* NoMap, or a function from the keys present to values *)
          phase,      (* "ready", "pending" or "done" *)
          call,       (* the call in progress: [op, key, value] *)
          result      (* what the last call returned *)

mapVars == <<map, phase, call, result>>

NoMap  == [exists |-> FALSE, at |-> [k \in {} |-> Nil]]
NoCall == [op |-> "none", key |-> Nil, value |-> Nil]
Calls  == [op : {"set"}, key : Keys, value : Vals]
            \cup [op : {"get", "remove"}, key : Keys, value : {Nil}]

Put(m, k, v) == [m EXCEPT !.at = [x \in (DOMAIN m.at) \cup {k} |->
                                    IF x = k THEN v ELSE m.at[x]]]
Drop(m, k)   == [m EXCEPT !.at = [x \in (DOMAIN m.at) \ {k} |-> m.at[x]]]

Init == map = NoMap /\ phase = "ready" /\ call = NoCall /\ result = Nil

(***************************************************************************)
(* Calls that the implementation performs without an observable middle.    *)
(***************************************************************************)
Create == /\ ~map.exists
          /\ phase = "ready"
          /\ \/ map' = [NoMap EXCEPT !.exists = TRUE] /\ result' = "OK"
             \/ UNCHANGED map /\ result' = "OOM"
          /\ UNCHANGED <<phase, call>>

Clear == /\ map.exists
         /\ phase = "ready"
         /\ map' = [NoMap EXCEPT !.exists = TRUE]
         /\ result' = "OK"
         /\ UNCHANGED <<phase, call>>

Destroy == /\ map.exists
           /\ phase = "ready"
           /\ map' = NoMap
           /\ result' = "OK"
           /\ UNCHANGED <<phase, call>>

(***************************************************************************)
(* Calls with an invocation, an effect and a return.  The effect may       *)
(* coincide with the return.                                               *)
(***************************************************************************)
Invoke == /\ map.exists
          /\ phase = "ready"
          /\ phase' = "pending"
          /\ call' \in Calls
          /\ result' = Nil
          /\ UNCHANGED map

SetEffect    == /\ call.op = "set"
                /\ \/ map' = Put(map, call.key, call.value) /\ result' = "OK"
                   \/ UNCHANGED map /\ result' = "OOM"

GetEffect    == /\ call.op = "get"
                /\ result' = IF call.key \in DOMAIN map.at
                             THEN map.at[call.key] ELSE "NOT_FOUND"
                /\ UNCHANGED map

RemoveEffect == /\ call.op = "remove"
                /\ IF call.key \in DOMAIN map.at
                   THEN map' = Drop(map, call.key) /\ result' = "OK"
                   ELSE UNCHANGED map /\ result' = "NOT_FOUND"

Effect == /\ phase = "pending"
          /\ SetEffect \/ GetEffect \/ RemoveEffect
          /\ \/ phase' = "done" /\ UNCHANGED call
             \/ phase' = "ready" /\ call' = NoCall

Return == /\ phase = "done"
          /\ phase' = "ready"
          /\ call' = NoCall
          /\ UNCHANGED <<map, result>>

Next == Create \/ Clear \/ Destroy \/ Invoke \/ Effect \/ Return

Spec == Init /\ [][Next]_mapVars
=============================================================================
