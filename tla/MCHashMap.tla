----------------------------- MODULE MCHashMap -----------------------------
(* A small map for TLC.  Four of the six keys collide in the last bucket   *)
(* of both arrays, so that runs wrap; the others are at home in the second *)
(* and third, where those runs reach them and swap them out.  One key has  *)
(* two values, so that it can be overwritten.                              *)
EXTENDS MapExtend, TLC

CONSTANTS k1, k2, k3, k4, k5, k6, v1, v2

MCHash == k1 :> 7 @@ k2 :> 7 @@ k3 :> 23 @@ k4 :> 15 @@ k5 :> 9 @@ k6 :> 10
MCCaps == <<4, 8>>
MCOffered == {<<k, v1>> : k \in Keys} \cup {<<k1, v2>>}
MCBatches == {<<>>, <<<<k1, v1>>, <<k5, v1>>, <<k1, v2>>>>}
=============================================================================
