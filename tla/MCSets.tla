------------------------------- MODULE MCSets -------------------------------
(***************************************************************************)
(* The trees and the ordered map for TLC: up to six keys in a tree and     *)
(* five in the map, in every shape they reach.                             *)
(***************************************************************************)
EXTENDS OrderedSets

MCSources    == {<<>>, <<4, 2, 4>>}
MCMapSources == {<<>>, <<<<1, "v">>, <<2, "w">>, <<1, "w">>>>}

(* asked says how a state was reached and not what it is. No guard reads   *)
(* it, and SetsImplemented is checked on every step, also on those into a  *)
(* state seen before; whether a step is one of the call made does not      *)
(* depend on the call before.                                              *)
AllButAsked == <<which, root, len, alive, pc, feed, ret, found, blocks, mapVars>>
=============================================================================
