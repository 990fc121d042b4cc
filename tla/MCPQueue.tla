------------------------------ MODULE MCPQueue ------------------------------
(* Heaps of up to eight elements for TLC, two of them of one priority.     *)
EXTENDS PQueue, TLC

CONSTANTS e1, e2, e2b, e3

MCPrio == e1 :> 1 @@ e2 :> 2 @@ e2b :> 2 @@ e3 :> 3
MCSources == {<<>>, <<e3, e1>>, <<e2, e2b, e1, e1>>, <<e2b, e3, e1, e2, e2>>}
=============================================================================
