----------------------------- MODULE MCTreeIter -----------------------------
(* Every search tree over some of the keys, for TLC.  *)
EXTENDS TreeIter, FiniteSets

CONSTANTS MCKeys

(* The tree that bstree_add makes of keys that come at the given times: a  *)
(* node's subtree holds the neighbouring keys that came after it.          *)
TreeOf(S, time) ==
  LET Under(n) == {m \in S : \A k \in S : (k - n) * (k - m) <= 0 => time[k] >= time[n]}
      First(T) == IF T = {} THEN 0 ELSE CHOOSE n \in T : \A m \in T : time[n] <= time[m]
  IN [root  |-> First(S),
      left  |-> [n \in S |-> First({m \in Under(n) : m < n})],
      right |-> [n \in S |-> First({m \in Under(n) : m > n})],
      under |-> [n \in S \cup {0} |-> IF n = 0 THEN {} ELSE Under(n)]]

Orders(S) == {f \in [S -> 1 .. Cardinality(S)] : IsInjective(f)}
MCTrees == UNION {{TreeOf(S, time) : time \in Orders(S)} : S \in SUBSET MCKeys}
=============================================================================
