------------------------------- MODULE SetSpec -------------------------------
(***************************************************************************)
(* What set_t, avl_t and bstree_t promise: sets of keys, where a refused   *)
(* allocation changes nothing, and merges that add one key after another   *)
(* and stop, with those added so far, when memory runs out.                *)
(*                                                                         *)
(* A step is one of a call that was asked for, with its set and its key:   *)
(* asked records them, so a removal of another key than the caller's, or   *)
(* from another set, is none of this specification.                        *)
(***************************************************************************)
EXTENDS Integers

CONSTANTS Names, Keys

VARIABLES
  contents,    (* of each set                                               *)
  alive,       (* the sets between create and destroy                       *)
  busy, want,  (* a merge in progress: into which set, and what it is to hold *)
  result,      (* of the last call: its status                              *)
  found,       (* and the key it returned, NoKey if none                    *)
  asked        (* the last call, with its arguments                         *)

vars == <<contents, alive, busy, want, result, found, asked>>

NoKey == 0   (* ordered keys are positive numbers *)

Nobody == "nobody"

Init == /\ contents = [n \in Names |-> {}] /\ alive = {}
        /\ busy = Nobody /\ want = {} /\ result = "none" /\ found = NoKey
        /\ asked = <<"nothing">>

Says(r) == result' = r /\ found' = NoKey
Same == UNCHANGED <<contents, alive, busy, want>>
Leave(r) == Says(r) /\ Same
Change(n, ks, r) == /\ contents' = [contents EXCEPT ![n] = ks] /\ Says(r)
                    /\ UNCHANGED <<alive, busy, want>>

Create(n) ==
  /\ n \notin alive /\ busy = Nobody
  /\ \/ Leave("OOM")
     \/ alive' = alive \cup {n} /\ Says("OK") /\ UNCHANGED <<contents, busy, want>>

Ready(n) == n \in alive /\ busy = Nobody

Destroy(n) ==
  /\ Ready(n)
  /\ alive' = alive \ {n} /\ contents' = [contents EXCEPT ![n] = {}] /\ Says("OK")
  /\ UNCHANGED <<busy, want>>

Clear(n) == Ready(n) /\ Change(n, {}, "OK")

Add(n, k) ==
  /\ Ready(n)
  /\ \/ Leave("OOM")
     \/ Change(n, contents[n] \cup {k}, IF k \in contents[n] THEN "DUPLICATE" ELSE "OK")

Remove(n, k) ==
  /\ Ready(n)
  /\ Change(n, contents[n] \ {k}, IF k \in contents[n] THEN "OK" ELSE "NOT_FOUND")

Contains(n, k) == Ready(n) /\ Leave(IF k \in contents[n] THEN "yes" ELSE "no")

(* The least and the greatest key, of the ordered sets.  *)
Min(n) == /\ Ready(n) /\ found' \in contents[n] /\ \A k \in contents[n] : found' <= k
          /\ result' = "OK" /\ Same
Max(n) == /\ Ready(n) /\ found' \in contents[n] /\ \A k \in contents[n] : found' >= k
          /\ result' = "OK" /\ Same
None(n) == Ready(n) /\ contents[n] = {} /\ Leave("NOT_FOUND")

(* Merges: the set algebra, whose operands may be the destination itself,  *)
(* and extend, which may be refused before it has done anything.           *)
Algebra == {"union", "intersection", "difference"}
Combined(op, a, b) ==
  CASE op = "union"        -> contents[a] \cup contents[b]
    [] op = "intersection" -> contents[a] \cap contents[b]
    [] op = "difference"   -> contents[a] \ contents[b]

MergeCall(d, ks) ==
  /\ Ready(d)
  /\ busy' = d /\ want' = contents[d] \cup ks /\ Says("none")
  /\ UNCHANGED <<contents, alive>>
MergeRefused(d) == Ready(d) /\ \E r \in {"OOM", "INVALID"} : Leave(r)
MergeAdd ==
  /\ busy # Nobody
  /\ \E k \in want : contents' = [contents EXCEPT ![busy] = @ \cup {k}]
  /\ UNCHANGED <<alive, busy, want, result, found>>
MergeEnd ==
  /\ busy # Nobody
  /\ \/ contents[busy] = want /\ Says("OK")
     \/ Says("OOM")
  /\ busy' = Nobody /\ want' = {}
  /\ UNCHANGED <<contents, alive>>

Merges ==
  \/ \E op \in Algebra, d \in Names, a, b \in alive :
       asked' = <<op, d, a, b>> /\ MergeCall(d, Combined(op, a, b))
  \/ \E d \in Names, ks \in SUBSET Keys :
       asked' = <<"extend", d, ks>> /\ (MergeCall(d, ks) \/ MergeRefused(d))
  \/ (MergeAdd \/ MergeEnd) /\ UNCHANGED asked

Calls(n) ==
  \/ asked' = <<"create", n>> /\ Create(n)
  \/ asked' = <<"destroy", n>> /\ Destroy(n)
  \/ asked' = <<"clear", n>> /\ Clear(n)
  \/ asked' = <<"min", n>> /\ (Min(n) \/ None(n))
  \/ asked' = <<"max", n>> /\ (Max(n) \/ None(n))
  \/ \E k \in Keys : \/ asked' = <<"add", n, k>> /\ Add(n, k)
                     \/ asked' = <<"remove", n, k>> /\ Remove(n, k)
                     \/ asked' = <<"contains", n, k>> /\ Contains(n, k)

Next == (\E n \in Names : Calls(n)) \/ Merges

Spec == Init /\ [][Next]_vars
=============================================================================
