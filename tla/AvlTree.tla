------------------------------- MODULE AvlTree -------------------------------
(***************************************************************************)
(* The algorithms of src/src/avl/avl.c on trees as values: a node holds    *)
(* its key, its subtrees and its stored height.                            *)
(***************************************************************************)
EXTENDS Subtrees

Leaf == [key |-> 0, height |-> 0]
NewNode(k) == [key |-> k, left |-> Leaf, right |-> Leaf, height |-> 1]

UpdateHeight(n) == [n EXCEPT !.height = 1 + Higher(n.left.height, n.right.height)]
BalanceFactor(n) == n.left.height - n.right.height

(* The old root's height is computed before the new root's.  *)
RotateRight(y) ==
  LET x == y.left IN
  UpdateHeight([x EXCEPT !.right = UpdateHeight([y EXCEPT !.left = x.right])])
RotateLeft(x) ==
  LET y == x.right IN
  UpdateHeight([y EXCEPT !.left = UpdateHeight([x EXCEPT !.right = y.left])])

(* Without the double rotations a zigzag stays out of balance.  *)
RebalanceSingly(m) ==
  LET n == UpdateHeight(m) IN
  CASE BalanceFactor(n) > 1  -> RotateRight(n)
    [] BalanceFactor(n) < -1 -> RotateLeft(n)
    [] OTHER -> n
Rebalance(m) ==
  LET n  == UpdateHeight(m)
      bf == BalanceFactor(n)
  IN CASE bf > 1 /\ BalanceFactor(n.left) >= 0 -> RotateRight(n)
       [] bf > 1 /\ BalanceFactor(n.left) < 0 ->
            RotateRight([n EXCEPT !.left = RotateLeft(n.left)])
       [] bf < -1 /\ BalanceFactor(n.right) <= 0 -> RotateLeft(n)
       [] bf < -1 /\ BalanceFactor(n.right) > 0 ->
            RotateLeft([n EXCEPT !.right = RotateRight(n.right)])
       [] OTHER -> n

(* do_insert with its allocation granted; refused, it gives back the tree. *)
DoInsert(t, k) ==
  LET ins[n \in Subtrees(t)] ==
        IF IsLeaf(n) THEN NewNode(k)
        ELSE CASE k < n.key -> Rebalance([n EXCEPT !.left = ins[n.left]])
               [] k > n.key -> Rebalance([n EXCEPT !.right = ins[n.right]])
               [] OTHER     -> n
  IN ins[t]

(* do_remove, for each subtree and each key: a node with two children      *)
(* takes its successor's key, which is then removed below it.              *)
DoRemove(t, k) ==
  LET rem[n \in Subtrees(t)] == [j \in Nat |->
        IF IsLeaf(n) THEN n
        ELSE CASE j < n.key -> Rebalance([n EXCEPT !.left = rem[n.left][j]])
               [] j > n.key -> Rebalance([n EXCEPT !.right = rem[n.right][j]])
               [] OTHER ->
                    IF IsLeaf(n.left) THEN n.right
                    ELSE IF IsLeaf(n.right) THEN n.left
                    ELSE LET succ == MinNode(n.right) IN
                         Rebalance([TakeKey(n, succ) EXCEPT !.right = rem[n.right][succ.key]])]
  IN rem[t][k]
=============================================================================
