-------------------------------- MODULE OMap --------------------------------
(***************************************************************************)
(* omap_t: the ordered map of src/src/omap/omap.c, an AVL tree whose nodes *)
(* hold a key and a value.  Heights, rotations and rebalance are, line for *)
(* line, those of avl.c.                                                   *)
(*                                                                         *)
(* A set, get or remove is an invocation and one step; omap_extend is a    *)
(* loop of sets, and stops at the first that is refused memory.            *)
(***************************************************************************)
EXTENDS AvlTree, Sequences, FiniteSets

CONSTANTS Keys, Vals,
          Sources,     (* the entries an iterator handed to omap_extend yields *)
          Nil

VARIABLES
  root, len,           (* struct omap_t                                     *)
  exists,
  phase, call,         (* "ready", or "pending" with a call                 *)
  feed,                (* what an extend has yet to set, or Nil             *)
  result,              (* of the last call, or set of an extend             *)
  found,               (* the entry the last min or max wrote               *)
  blocks

vars == <<root, len, exists, phase, call, feed, result, found, blocks>>

NoCall == [op |-> "none", key |-> Nil, value |-> Nil]
Init ==
  /\ root = Leaf /\ len = 0 /\ exists = FALSE /\ phase = "ready" /\ call = NoCall
  /\ feed = Nil /\ result = Nil /\ found = Nil /\ blocks = 0

-----------------------------------------------------------------------------
(* make_node: key, value, no children.  *)
MakeNode(k, v) == [key |-> k, val |-> v, left |-> Leaf, right |-> Leaf, height |-> 1]

(* do_set with its allocation granted.  *)
DoSet(t, k, v) ==
  LET set[n \in Subtrees(t)] ==
        IF IsLeaf(n) THEN MakeNode(k, v)
        ELSE CASE k < n.key -> Rebalance([n EXCEPT !.left = set[n.left]])
               [] k > n.key -> Rebalance([n EXCEPT !.right = set[n.right]])
               [] OTHER     -> [n EXCEPT !.val = v]
  IN set[t]

(* omap_get_ptr: the node of a key, or a leaf.  *)
At(k) == Find(root, k)
Contains(k) == ~IsLeaf(At(k))

(* do_remove: the successor's value goes with its key; left behind, it     *)
(* would be under another key.                                             *)
LeaveValue(n, succ) == TakeKey(n, succ)
TakeOver(n, succ) == [n EXCEPT !.key = succ.key, !.val = succ.val]
RemoveFrom(t, k) ==
  LET rem[n \in Subtrees(t)] == [j \in Nat |->
        IF IsLeaf(n) THEN n
        ELSE CASE j < n.key -> Rebalance([n EXCEPT !.left = rem[n.left][j]])
               [] j > n.key -> Rebalance([n EXCEPT !.right = rem[n.right][j]])
               [] OTHER ->
                    IF IsLeaf(n.left) THEN n.right
                    ELSE IF IsLeaf(n.right) THEN n.left
                    ELSE LET succ == MinNode(n.right) IN
                         Rebalance([TakeOver(n, succ) EXCEPT !.right = rem[n.right][succ.key]])]
  IN rem[t][k]

-----------------------------------------------------------------------------
Create ==
  /\ ~exists
  /\ \/ exists' = TRUE /\ result' = "OK" /\ blocks' = blocks + 1
     \/ result' = "OOM" /\ UNCHANGED <<exists, blocks>>
  /\ UNCHANGED <<root, len, phase, call, feed, found>>

Idle == exists /\ phase = "ready" /\ feed = Nil
Emptied(frees) ==
  /\ Idle
  /\ root' = Leaf /\ len' = 0 /\ blocks' = blocks - Size(root) - frees
  /\ result' = "OK" /\ found' = Nil /\ UNCHANGED <<phase, call, feed>>
Clear == Emptied(0) /\ UNCHANGED exists
Destroy == Emptied(1) /\ exists' = FALSE

Invoke(c) == phase' = "pending" /\ call' = c /\ result' = Nil /\ found' = Nil
Calls == [op : {"set"}, key : Keys, value : Vals]
           \cup [op : {"get", "remove"}, key : Keys, value : {Nil}]
CallMap == Idle /\ (\E c \in Calls : Invoke(c)) /\ UNCHANGED <<root, len, exists, feed, blocks>>

Pending(op) == phase = "pending" /\ call.op = op
Returned(r) == phase' = "ready" /\ call' = NoCall /\ result' = r /\ UNCHANGED <<exists, found>>

Set ==
  /\ Pending("set")
  /\ root' = DoSet(root, call.key, call.value)
  /\ IF Contains(call.key) THEN UNCHANGED <<len, blocks>> ELSE len' = len + 1 /\ blocks' = blocks + 1
  /\ Returned("OK") /\ UNCHANGED feed
(* Only a key that is new needs a node; the tree is left as it was, and an *)
(* extend breaks off.                                                      *)
BreakOff(f) == IF f = Nil THEN Nil ELSE <<>>
SetRefused ==
  /\ Pending("set") /\ ~Contains(call.key)
  /\ Returned("OOM") /\ feed' = BreakOff(feed) /\ UNCHANGED <<root, len, blocks>>

Get ==
  /\ Pending("get")
  /\ Returned(IF Contains(call.key) THEN At(call.key).val ELSE "NOT_FOUND")
  /\ UNCHANGED <<root, len, feed, blocks>>

Remove ==
  /\ Pending("remove")
  /\ root' = RemoveFrom(root, call.key)
  /\ IF Contains(call.key)
     THEN len' = len - 1 /\ blocks' = blocks - 1 /\ Returned("OK")
     ELSE UNCHANGED <<len, blocks>> /\ Returned("NOT_FOUND")
  /\ UNCHANGED feed

(* omap_min_entry and omap_max_entry, and the keys alone through them.  *)
Extreme(n) == found' = (IF IsLeaf(root) THEN "NOT_FOUND" ELSE <<n.key, n.val>>)
Ends == Idle /\ UNCHANGED <<root, len, exists, phase, call, feed, result, blocks>>
MinEntry == Ends /\ Extreme(IF IsLeaf(root) THEN root ELSE MinNode(root))
MaxEntry == Ends /\ Extreme(IF IsLeaf(root) THEN root ELSE MaxNode(root))

-----------------------------------------------------------------------------
(* omap_extend.  The iterator is destroyed on every path, and a refused    *)
(* set ends the loop with the entries before it set.                       *)
ExtendCall(s) ==
  /\ Idle
  /\ feed' = s /\ blocks' = blocks + 1 /\ found' = Nil
  /\ UNCHANGED <<root, len, exists, phase, call, result>>
(* A failed iterator, or one of elements of another size.  *)
ExtendInvalid == Idle /\ found' = "INVALID" /\ UNCHANGED <<root, len, exists, phase, call, feed, result, blocks>>
Extending == feed # Nil /\ phase = "ready"
FeedOne ==
  /\ Extending /\ feed # <<>>
  /\ Invoke([op |-> "set", key |-> feed[1][1], value |-> feed[1][2]])
  /\ feed' = Tail(feed) /\ UNCHANGED <<root, len, exists, blocks>>
IterDestroyed(n) == n - 1
FeedEnd ==
  /\ Extending /\ feed = <<>>
  /\ feed' = Nil /\ blocks' = IterDestroyed(blocks)
  /\ UNCHANGED <<root, len, exists, phase, call, result, found>>

Next ==
  \/ Create \/ Clear \/ Destroy \/ CallMap
  \/ Set \/ SetRefused \/ Get \/ Remove \/ MinEntry \/ MaxEntry
  \/ (\E s \in Sources : ExtendCall(s)) \/ ExtendInvalid \/ FeedOne \/ FeedEnd

Spec == Init /\ [][Next]_vars

-----------------------------------------------------------------------------
(* The tree is a search tree, balanced by true heights, and len and the    *)
(* blocks count its nodes and the iterator of an extend, on every path.    *)
TreeOK ==
  /\ Ordered(root)
  /\ \A t \in Nodes(root) : t.height = Height(t) /\ BalanceFactor(t) \in -1 .. 1
  /\ len = Size(root)
  /\ blocks = len + (IF exists THEN 1 ELSE 0) + (IF feed = Nil THEN 0 ELSE 1)

(* The map implements MapSpec, whose entries are those of the nodes: a set *)
(* and a remove change their own key only, although a remove moves another *)
(* key's entry; a set refused memory changes nothing; and an extend is a   *)
(* sequence of such sets.                                                  *)
Entries == [k \in KeysOf(root) |-> At(k).val]
Map == INSTANCE MapSpec WITH map <- [exists |-> exists, at |-> Entries]
ImplementsMap == Map!Spec
=============================================================================
