----------------------------- MODULE MCPipeline -----------------------------
(* Short slices, scripts and ranges, and every adaptor, for TLC.  *)
EXTENDS Pipeline

MCSlices == {<<>>, <<1, 1, 2>>}
MCScripts == {<<3, Gap, 1>>}
MCRanges == {<<2, 0, 0 - 1>>, <<1, 2, 0>>}
Counted == {[k |-> k, arg |-> n] : k \in {"take", "skip", "window", "chunks"}, n \in {0, 2}}
Plain == {[k |-> k, arg |-> 0] : k \in {"filter", "map", "take_while", "skip_while",
                                        "enumerate", "peekable", "dedup"}}
Flattened == {[k |-> "flat_map", arg |-> f] : f \in {"twice", "refused"}}
MCAdaptors == Counted \cup Plain \cup Flattened

MCTerminals == LoopTerminals \cup {"collect", "sort"}

(* Ranges that reach the end of the numbers of Width bits, and take_while  *)
(* over elements of which some in the middle fail.                         *)
MCEdgeRanges == {<<a, b, c>> : a \in {0, 1, 2}, b \in {3}, c \in {1, 2}}
MCTakeWhile == {[k |-> "take_while", arg |-> 0]}
=============================================================================
