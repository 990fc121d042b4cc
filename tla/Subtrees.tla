------------------------------ MODULE Subtrees ------------------------------
(***************************************************************************)
(* Trees as values, which avl.c, bstree.c and omap.c have in common: a     *)
(* node holds its key and its subtrees, and NULL is a leaf, whose key is   *)
(* 0.  What the code computes by recursion on a node is here a function of *)
(* the subtrees of a tree.                                                 *)
(***************************************************************************)
EXTENDS Integers

IsLeaf(n) == n.key = 0
Children(S) == UNION {{n.left, n.right} : n \in {m \in S : ~IsLeaf(m)}}

(* A tree and all below it, level by level.                                *)
Subtrees(t) ==
  LET level[d \in Nat] == IF d = 0 THEN {t} ELSE Children(level[d - 1])
      from[d \in Nat]  == LET l == level[d] IN IF l = {} THEN {} ELSE l \cup from[d + 1]
  IN from[0]

Nodes(t)  == {n \in Subtrees(t) : ~IsLeaf(n)}
KeysOf(t) == {n.key : n \in Nodes(t)}

(* free_subtree frees every node it reaches.                               *)
Size(t) ==
  LET size[n \in Subtrees(t)] == IF IsLeaf(n) THEN 0 ELSE size[n.left] + 1 + size[n.right]
  IN size[t]

Higher(a, b) == IF a > b THEN a ELSE b
Height(t) ==
  LET high[n \in Subtrees(t)] == IF IsLeaf(n) THEN 0 ELSE 1 + Higher(high[n.left], high[n.right])
  IN high[t]

(* The loops of contains, get, min and max: the node of a key, or the leaf *)
(* where it would be; the leftmost and the rightmost node.                 *)
Find(t, k) ==
  LET at[n \in Subtrees(t)] ==
        IF IsLeaf(n) THEN n
        ELSE CASE k < n.key -> at[n.left]
               [] k > n.key -> at[n.right]
               [] OTHER     -> n
  IN at[t]
Holds(t, k) == ~IsLeaf(Find(t, k))

MinNode(t) ==
  LET least[n \in Subtrees(t)] == IF IsLeaf(n) \/ IsLeaf(n.left) THEN n ELSE least[n.left]
  IN least[t]
MaxNode(t) ==
  LET most[n \in Subtrees(t)] == IF IsLeaf(n) \/ IsLeaf(n.right) THEN n ELSE most[n.right]
  IN most[t]

(* A node with two children takes over what its successor holds: its key.  *)
(* Left undone, the successor would be the one that is removed.            *)
KeepKey(n, succ) == n
TakeKey(n, succ) == [n EXCEPT !.key = succ.key]

(* Search order: what a descent by cmp relies on.                          *)
Ordered(t) ==
  \A n \in Nodes(t) :
    /\ \A k \in KeysOf(n.left) : k < n.key
    /\ \A k \in KeysOf(n.right) : k > n.key
=============================================================================
