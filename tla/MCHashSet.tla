----------------------------- MODULE MCHashSet -----------------------------
(***************************************************************************)
(* The hash sets for TLC: two, which are interchangeable, of three keys    *)
(* that are all at home in the last bucket of the first array, two of them *)
(* also when it has doubled.                                               *)
(***************************************************************************)
EXTENDS HashSet, TLC

MCSources   == {<<2, 1, 2>>}
MCHash      == 1 :> 3 @@ 2 :> 7 @@ 3 :> 11
SetSymmetry == Permutations(Names)

(* asked says how a state was reached and not what it is. No guard reads   *)
(* it, and ImplementsSet is checked on every step, also on those into a    *)
(* state seen before; whether a step is one of the call made does not      *)
(* depend on the call before.                                              *)
AllButAsked == <<sets, alive, call, pc, feed, ret, blocks>>
=============================================================================
