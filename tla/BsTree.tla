------------------------------- MODULE BsTree -------------------------------
(***************************************************************************)
(* The algorithms of src/src/bstree/bstree.c on trees as values.           *)
(***************************************************************************)
EXTENDS Subtrees

BsLeaf == [key |-> 0]
BsNode(k) == [key |-> k, left |-> BsLeaf, right |-> BsLeaf]

(* bstree_add: down to the link where the key belongs, which is replaced   *)
(* by the new node; a refused allocation writes back the NULL it held.     *)
BsInsert(t, k) ==
  LET ins[n \in Subtrees(t)] ==
        IF IsLeaf(n) THEN BsNode(k)
        ELSE CASE k < n.key -> [n EXCEPT !.left = ins[n.left]]
               [] k > n.key -> [n EXCEPT !.right = ins[n.right]]
               [] OTHER     -> n
  IN ins[t]

(* The successor is the least of the right subtree, not its root.          *)
RightChild(n) == n.right
Successor(n) == MinNode(n.right)
BsRemove(t, k) ==
  LET rem[n \in Subtrees(t)] == [j \in Nat |->
        IF IsLeaf(n) THEN n
        ELSE CASE j < n.key -> [n EXCEPT !.left = rem[n.left][j]]
               [] j > n.key -> [n EXCEPT !.right = rem[n.right][j]]
               [] OTHER ->
                    IF IsLeaf(n.left) THEN n.right
                    ELSE IF IsLeaf(n.right) THEN n.left
                    ELSE LET succ == Successor(n) IN
                         [TakeKey(n, succ) EXCEPT !.right = rem[n.right][succ.key]]]
  IN rem[t][k]
=============================================================================
