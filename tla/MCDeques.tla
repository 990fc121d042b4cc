------------------------------ MODULE MCDeques ------------------------------
(***************************************************************************)
(* The five sequences for TLC: a ring buffer, a queue and a vec_t or stack *)
(* of up to four slots, which wrap and grow from two, and lists of up to   *)
(* five nodes at interchangeable addresses.                                *)
(***************************************************************************)
EXTENDS Deques, TLC

CONSTANTS e1, e2, e3

MCSources == {<<>>, <<e1, e2>>, <<e3, e1, e2>>}
Symmetry  == Permutations(Addrs)

(* asked says how a state was reached and not what it is. No guard reads   *)
(* it, and DequesImplemented is checked on every step, also on those into  *)
(* a state seen before; whether a step is one of the call made does not    *)
(* depend on the call before.                                              *)
AllButAsked == <<which, kind, buffer, buf, tail, node, at, it, pc, feed, ret, blocks>>
=============================================================================
