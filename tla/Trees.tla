-------------------------------- MODULE Trees --------------------------------
(***************************************************************************)
(* avl_t and bstree_t as sets: the calls of src/src/avl/avl.c and          *)
(* src/src/bstree/bstree.c over the algorithms of AvlTree and BsTree.      *)
(* A call is one step, its allocation granted or refused, except           *)
(* avl_extend and bstree_extend, the loop of module Extend around add.     *)
(***************************************************************************)
EXTENDS Extend, AvlTree, BsTree, FiniteSets, Functions

CONSTANTS Keys   (* positive numbers, which the caller's cmp orders         *)

ASSUME TreesAssumption == Keys \subseteq Nat \ {0} /\ Sources \subseteq Seq(Keys)

VARIABLES
  root, len,       (* struct avl_t and struct bstree_t                      *)
  alive,           (* the trees between create and destroy                  *)
  found,           (* the key the last call returned                        *)
  asked            (* the last call, with its arguments                     *)

vars == <<root, len, alive, pc, feed, ret, found, blocks, asked>>

Names   == {"avl", "bst"}
Null(n) == IF n = "avl" THEN Leaf ELSE BsLeaf
Nothing(n) == IsLeaf(root[n])

Inserted(n, k) == IF n = "avl" THEN DoInsert(root[n], k) ELSE BsInsert(root[n], k)
Removed(n, k)  == IF n = "avl" THEN DoRemove(root[n], k) ELSE BsRemove(root[n], k)
Has(n, k)      == Holds(root[n], k)
Least(n)       == MinNode(root[n]).key
Greatest(n)    == MaxNode(root[n]).key

Init ==
  /\ root = [n \in Names |-> Null(n)] /\ len = [n \in Names |-> 0] /\ alive = {}
  /\ pc = "idle" /\ feed = <<>> /\ ret = "none" /\ found = 0 /\ blocks = 0
  /\ asked = <<"nothing">>

Return(r) == ret' = r /\ found' = 0 /\ UNCHANGED <<pc, feed>>
Same == UNCHANGED <<root, len, alive, blocks>>
Ready(n) == n \in alive /\ pc = "idle"

(* One tree lives at a time: two would share nothing but the allocator.    *)
Create(n) ==
  /\ alive = {}
  /\ \/ alive' = alive \cup {n} /\ blocks' = blocks + 1 /\ Return("OK")
     \/ UNCHANGED <<alive, blocks>> /\ Return("OOM")
  /\ UNCHANGED <<root, len>>

Emptied(n) == root' = [root EXCEPT ![n] = Null(n)] /\ len' = [len EXCEPT ![n] = 0]
Clear(n) ==
  /\ Ready(n)
  /\ Emptied(n) /\ blocks' = blocks - Size(root[n])
  /\ Return("OK") /\ UNCHANGED alive
Destroy(n) ==
  /\ Ready(n)
  /\ Emptied(n) /\ blocks' = blocks - Size(root[n]) - 1
  /\ Return("OK") /\ alive' = alive \ {n}

Added(n, k) ==
  /\ root' = [root EXCEPT ![n] = Inserted(n, k)]
  /\ len' = [len EXCEPT ![n] = IF Has(n, k) THEN @ ELSE @ + 1]
  /\ blocks' = IF Has(n, k) THEN blocks ELSE blocks + 1

(* make_node is called, and may be refused, only for a key that is new; a  *)
(* caller's count goes up only then.                                       *)
Add(n, k) ==
  /\ Ready(n) /\ ~Has(n, k)
  /\ Added(n, k)
  /\ Return("OK") /\ UNCHANGED alive
AddRefused(n, k) == Ready(n) /\ ~Has(n, k) /\ Return("OOM") /\ Same
AddDuplicate(n, k) ==
  /\ Ready(n) /\ Has(n, k)
  /\ Added(n, k)
  /\ Return("DUPLICATE") /\ UNCHANGED alive

LenLess(l) == l - 1
Remove(n, k) ==
  /\ Ready(n)
  /\ root' = [root EXCEPT ![n] = Removed(n, k)]
  /\ IF Has(n, k)
     THEN len' = [len EXCEPT ![n] = LenLess(@)] /\ blocks' = blocks - 1 /\ Return("OK")
     ELSE UNCHANGED <<len, blocks>> /\ Return("NOT_FOUND")
  /\ UNCHANGED alive

Contains(n, k) == Ready(n) /\ Return(IF Has(n, k) THEN "yes" ELSE "no") /\ Same

Extreme(n, k) ==
  /\ Ready(n)
  /\ IF Nothing(n) THEN Return("NOT_FOUND") ELSE ret' = "OK" /\ found' = k /\ UNCHANGED <<pc, feed>>
  /\ Same
Min(n) == Extreme(n, IF Nothing(n) THEN 0 ELSE Least(n))
Max(n) == Extreme(n, IF Nothing(n) THEN 0 ELSE Greatest(n))

(* avl_extend and bstree_extend: a duplicate is no error, and a key that   *)
(* is new may be refused.                                                  *)
ExtendStart(n) == n \in alive /\ (\E s \in Sources : ExtendCall(s)) /\ UNCHANGED <<root, len, alive, found>>
ExtendStep(n) ==
  \/ (ExtendRefused \/ ExtendScratch) /\ found' = 0 /\ UNCHANGED <<root, len, alive>>
  \/ FeedOne(Added(n, Head(feed))) /\ UNCHANGED <<alive, found>>
  \/ (FeedRefused(~Has(n, Head(feed))) \/ FeedDone) /\ UNCHANGED <<root, len, alive, found>>

(* The caller's calls.  What it asked for is recorded, for SetSpec, and    *)
(* read by no action; an extend takes its first step with all of feed.     *)
Call(n) ==
  \/ asked' = <<"create", n>> /\ Create(n)
  \/ asked' = <<"clear", n>> /\ Clear(n)
  \/ asked' = <<"destroy", n>> /\ Destroy(n)
  \/ asked' = <<"min", n>> /\ Min(n)
  \/ asked' = <<"max", n>> /\ Max(n)
  \/ \E k \in Keys :
       \/ asked' = <<"add", n, k>> /\ (Add(n, k) \/ AddRefused(n, k) \/ AddDuplicate(n, k))
       \/ asked' = <<"remove", n, k>> /\ Remove(n, k)
       \/ asked' = <<"contains", n, k>> /\ Contains(n, k)

Next ==
  \E n \in Names :
    \/ Call(n)
    \/ ExtendStart(n) /\ UNCHANGED asked
    \/ /\ n \in alive /\ ExtendStep(n)
       /\ asked' = IF pc = "extend" THEN <<"extend", n, Range(feed)>> ELSE asked

Spec == Init /\ [][Next]_vars

-----------------------------------------------------------------------------
(* The trees stay search trees through rotations and through the copying   *)
(* of a successor's key, so a descent by cmp finds every key.              *)
SearchOrder == \A n \in Names : Ordered(root[n])

(* The AVL tree stays balanced, by the heights its nodes store, and those  *)
(* heights are the true ones: rebalance looks at no other.                 *)
AvlBalanced ==
  \A t \in Nodes(root["avl"]) :
    /\ t.height = Height(t)
    /\ BalanceFactor(t) \in -1 .. 1

(* len counts the nodes of a tree, and each node and each tree is one      *)
(* block: none is lost when a removal splices a node out.                  *)
CountsAgree ==
  /\ \A n \in Names : len[n] = Size(root[n])
  /\ blocks = Cardinality(alive) + Size(root["avl"]) + Size(root["bst"]) + ExtendBlocks

Busy == IF Feeding THEN CHOOSE n \in alive : TRUE ELSE "nobody"
=============================================================================
