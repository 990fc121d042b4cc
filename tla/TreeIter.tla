------------------------------ MODULE TreeIter ------------------------------
(***************************************************************************)
(* The iterators over a search tree (src/src/avl/avl.c, and line for line  *)
(* bstree.c and omap.c): in order, in reverse and over a range, with a     *)
(* stack of nodes that grows on demand, one push a step.  The caller takes *)
(* elements one by one, or hands the iterator over to iter_collect of      *)
(* src/src/iter/iter.c.                                                    *)
(*                                                                         *)
(* A node is its key.  The tree does not change under an iterator.         *)
(***************************************************************************)
EXTENDS Integers, Sequences, Functions

CONSTANTS
  Trees,       (* [root, left, right]: search trees, with 0 for NULL, and   *)
               (* for the assumption the keys `under` each node, it included *)
  Bounds,      (* keys a range may be given                                 *)
  StackCap,    (* AVL_ITER_STACK_INIT_CAP                                   *)
  CollectCap,  (* the first capacity of iter_collect's buffer               *)
  None         (* a NULL bound, buffer or slice                             *)

(* What the tree modules guarantee: smaller keys are under the left child, *)
(* greater ones under the right, and every node is under the root.         *)
IsSearchTree(t) ==
  LET nodes == DOMAIN t.left IN
  /\ nodes \subseteq Nat \ {0}
  /\ t.left \in [nodes -> nodes \cup {0}] /\ t.right \in [nodes -> nodes \cup {0}]
  /\ t.under \in [nodes \cup {0} -> SUBSET nodes]
  /\ t.under[0] = {} /\ t.root \in nodes \cup {0} /\ t.under[t.root] = nodes
  /\ \A n \in nodes :
       /\ t.under[n] = {n} \cup t.under[t.left[n]] \cup t.under[t.right[n]]
       /\ \A m \in t.under[t.left[n]] : m < n
       /\ \A m \in t.under[t.right[n]] : n < m

(* iter_collect's buffer: what it holds, its room, its scratch block.      *)
Buffers(nodes) == [elems : Seq(nodes), cap : Nat \ {0}, scratch : {0, 1}]

(* NULL is no slice and no buffer.                                         *)
ASSUME TreeIterAssumption ==
  /\ \A t \in Trees : /\ IsSearchTree(t)
                      /\ None \notin Seq(DOMAIN t.left) \cup Buffers(DOMAIN t.left)
  /\ Bounds \subseteq Int /\ 0 \notin Bounds /\ None \notin Bounds
  /\ StackCap \in Nat \ {0} /\ CollectCap \in Nat \ {0}

VARIABLES
  tree,              (* the tree iterated                                   *)
  pc,                (* "none" without an iterator, "idle" with one, or     *)
                     (* where a call is                                     *)
  user,              (* who calls next: the "caller" or "collect"           *)
  dir, lo, hi,       (* what the iterator was opened with                   *)
  stack, cap, current,  (* struct avl_range_iter_state_t                    *)
  buf,               (* iter_collect's buffer, with its scratch element     *)
  slice,             (* the slice it returned: a sequence, or NULL          *)
  ret,               (* what the last call returned                         *)
  yielded,           (* the elements the iterator has yielded so far        *)
  short, refused,    (* push_lo ran out of memory; so did the last next     *)
  blocks             (* allocator blocks not yet freed                      *)

iterVars == <<dir, lo, hi, stack, cap, current, yielded, short>>
callVars == <<user, buf, slice>>
vars == <<tree, pc, iterVars, callVars, ret, refused, blocks>>

Keys == DOMAIN tree.left
(* The child an iterator goes to first, and the one it goes to after.  *)
Near(n) == IF dir = "rev" THEN tree.right[n] ELSE tree.left[n]
Far(n)  == IF dir = "rev" THEN tree.left[n] ELSE tree.right[n]

(* The blocks of an iterator: its state, its bound and its stack.  *)
HiBlocks(h) == IF h = None THEN 0 ELSE 1
StackBlocks == IF cap = 0 THEN 0 ELSE 1
(* The stack is easily forgotten: it comes only with the first push.      *)
AllButStack == 1 + HiBlocks(hi)
IterBlocks == 1 + HiBlocks(hi) + StackBlocks

Init ==
  /\ tree \in Trees
  /\ pc = "none" /\ user = "caller" /\ dir = "fwd" /\ lo = None /\ hi = None
  /\ stack = <<>> /\ cap = 0 /\ current = 0 /\ yielded = <<>> /\ short = FALSE
  /\ buf = None /\ slice = None /\ ret = "none" /\ refused = FALSE /\ blocks = 0

-----------------------------------------------------------------------------
(* Constructors.  With a lower bound push_lo primes the stack and the      *)
(* iterator starts without a current node.                                 *)
Opened(d, l, h) ==
  /\ pc = "none" /\ slice = None
  /\ dir' = d /\ lo' = l /\ hi' = h
  /\ stack' = <<>> /\ cap' = 0 /\ yielded' = <<>> /\ short' = FALSE
  /\ current' = tree.root
  /\ blocks' = blocks + 1 + HiBlocks(h)
  /\ pc' = IF l = None THEN "idle" ELSE "prime"
  /\ ret' = "none" /\ refused' = FALSE /\ UNCHANGED <<tree, callVars>>
Iter == \E d \in {"fwd", "rev"} : Opened(d, None, None)
IterRange == \E l, h \in Bounds \cup {None} : Opened("fwd", l, h)

(* The state or the copy of the upper bound is refused, and what was       *)
(* allocated is freed: an invalid iterator.                                *)
IterRefused ==
  /\ pc = "none" /\ slice = None /\ ret' = "invalid"
  /\ UNCHANGED <<tree, pc, iterVars, callVars, refused, blocks>>

-----------------------------------------------------------------------------
(* avl_stack_push; a refused realloc leaves the stack as it was.           *)
DoubledCap == IF cap = 0 THEN StackCap ELSE 2 * cap
Push(n) ==
  /\ stack' = Append(stack, n)
  /\ IF Len(stack) < cap
     THEN UNCHANGED <<cap, blocks>>
     ELSE cap' = DoubledCap /\ blocks' = blocks + 1 - StackBlocks
PushRefused == Len(stack) = cap /\ UNCHANGED <<stack, cap, blocks>>

(* avl_push_lo: from the root down, each node not below lo goes on the     *)
(* stack; out of memory it stops, and the iterator yields what it has.     *)
Above(n) == n > lo
NotBelow(n) == n >= lo
SameNode(n) == n
AfterSmaller(n) == tree.right[n]
PrimeRight ==
  /\ pc = "prime" /\ current # 0 /\ ~NotBelow(current)
  /\ current' = AfterSmaller(current)
  /\ UNCHANGED <<tree, pc, dir, lo, hi, stack, cap, yielded, short, callVars, ret, refused, blocks>>
PrimePush ==
  /\ pc = "prime" /\ current # 0 /\ NotBelow(current)
  /\ Push(current) /\ current' = tree.left[current]
  /\ UNCHANGED <<tree, pc, dir, lo, hi, yielded, short, callVars, ret, refused>>
PrimeRefused ==
  /\ pc = "prime" /\ current # 0 /\ NotBelow(current)
  /\ PushRefused
  /\ current' = 0 /\ short' = TRUE /\ pc' = "idle"
  /\ UNCHANGED <<tree, dir, lo, hi, yielded, callVars, ret, refused>>
PrimeDone ==
  /\ pc = "prime" /\ current = 0
  /\ pc' = "idle"
  /\ UNCHANGED <<tree, iterVars, callVars, ret, refused, blocks>>

-----------------------------------------------------------------------------
(* next, called by whoever holds the iterator.                             *)
NextCall ==
  /\ pc = "idle" /\ (user = "collect" => ret = "none")
  /\ pc' = "next" /\ ret' = "none" /\ refused' = FALSE
  /\ UNCHANGED <<tree, iterVars, callVars, blocks>>

(* The spine below current goes on the stack.  *)
Descend ==
  /\ pc = "next" /\ current # 0
  /\ Push(current) /\ current' = Near(current)
  /\ UNCHANGED <<tree, pc, dir, lo, hi, yielded, short, callVars, ret, refused>>
DescendRefused ==
  /\ pc = "next" /\ current # 0
  /\ PushRefused
  /\ ret' = "false" /\ refused' = TRUE /\ pc' = "idle"
  /\ UNCHANGED <<tree, dir, lo, hi, current, yielded, short, callVars>>

(* The node on top is next, unless it lies past the upper bound.  *)
Top == stack[Len(stack)]
Popped == SubSeq(stack, 1, Len(stack) - 1)
AtHi(n) == hi # None /\ n >= hi
PastHi(n) == hi # None /\ n > hi
NextYields ==
  /\ pc = "next" /\ current = 0 /\ stack # <<>> /\ ~PastHi(Top)
  /\ stack' = Popped /\ yielded' = Append(yielded, Top) /\ current' = Far(Top)
  /\ ret' = "true" /\ pc' = "idle"
  /\ UNCHANGED <<tree, dir, lo, hi, cap, short, callVars, refused, blocks>>
NextPastHi ==
  /\ pc = "next" /\ current = 0 /\ stack # <<>> /\ PastHi(Top)
  /\ stack' = <<>> /\ ret' = "false" /\ pc' = "idle"
  /\ UNCHANGED <<tree, dir, lo, hi, cap, current, yielded, short, callVars, refused, blocks>>
NextEnds ==
  /\ pc = "next" /\ current = 0 /\ stack = <<>>
  /\ ret' = "false" /\ pc' = "idle"
  /\ UNCHANGED <<tree, iterVars, callVars, refused, blocks>>

(* iter_destroy: the stack if there is one, the bound if there is one, and *)
(* the state.                                                              *)
Dropped == /\ pc' = "none" /\ stack' = <<>> /\ cap' = 0 /\ current' = 0
           /\ UNCHANGED <<dir, lo, hi, yielded, short>>
Drop ==
  /\ pc = "idle" /\ user = "caller"
  /\ Dropped /\ blocks' = blocks - IterBlocks
  /\ UNCHANGED <<tree, callVars, ret, refused>>

-----------------------------------------------------------------------------
(* iter_collect.  The scratch element is a block only when elements are    *)
(* big; a refusal at the start or while the buffer grows destroys the      *)
(* iterator and returns NULL, and nothing is left of the buffer.           *)
Collect(big) ==
  /\ pc = "idle" /\ user = "caller"
  /\ user' = "collect" /\ buf' = [elems |-> <<>>, cap |-> CollectCap, scratch |-> big]
  /\ blocks' = blocks + 1 + big
  /\ ret' = "none" /\ UNCHANGED <<tree, pc, iterVars, slice, refused>>
CollectRefused ==
  /\ pc = "idle" /\ user = "caller"
  /\ Dropped /\ blocks' = blocks - IterBlocks
  /\ ret' = "failed" /\ UNCHANGED <<tree, callVars, refused>>

(* What next yielded goes into the buffer, which doubles when it is full.  *)
Grown(c) == IF Len(buf.elems) = c THEN 2 * c ELSE c
CollectTakes ==
  /\ pc = "idle" /\ user = "collect" /\ ret = "true"
  /\ buf' = [buf EXCEPT !.elems = Append(@, yielded[Len(yielded)]), !.cap = Grown(@)]
  /\ ret' = "none" /\ UNCHANGED <<tree, pc, iterVars, user, slice, refused, blocks>>

CollectEnds(s, kept) ==
  /\ Dropped /\ blocks' = blocks - IterBlocks - buf.scratch - (1 - kept)
  /\ user' = "caller" /\ buf' = None /\ slice' = s
  /\ UNCHANGED <<tree, refused>>
CollectFails ==
  /\ pc = "idle" /\ user = "collect" /\ ret = "true" /\ Len(buf.elems) = buf.cap
  /\ CollectEnds(None, 0) /\ ret' = "failed"
(* The end, whether the tree ran out or next ran out of memory.  A buffer  *)
(* with room left over is shrunk, or stays as it is if that is refused.    *)
CollectDone ==
  /\ pc = "idle" /\ user = "collect" /\ ret = "false"
  /\ IF buf.elems = <<>> THEN CollectEnds(None, 0) ELSE CollectEnds(buf.elems, 1)
  /\ ret' = "collected"

FreeSlice ==
  /\ pc = "none" /\ slice # None
  /\ slice' = None /\ blocks' = blocks - 1
  /\ UNCHANGED <<tree, pc, iterVars, user, buf, ret, refused>>

-----------------------------------------------------------------------------
Prime == PrimeRight \/ PrimePush \/ PrimeRefused \/ PrimeDone
Step == Descend \/ DescendRefused \/ NextYields \/ NextPastHi \/ NextEnds
CollectStep == CollectTakes \/ CollectFails \/ CollectDone \/ (user = "collect" /\ NextCall)

Next ==
  \/ Iter \/ IterRange \/ IterRefused \/ Drop
  \/ Prime \/ Step \/ CollectStep \/ (user = "caller" /\ NextCall)
  \/ \E big \in {0, 1} : Collect(big)
  \/ CollectRefused \/ FreeSlice

Spec == Init /\ [][Next]_vars
(* A call runs until it returns; the caller need not make any.             *)
FairSpec == Spec /\ WF_vars(Prime \/ Step \/ CollectStep)

-----------------------------------------------------------------------------
InRange(k) == (lo # None => k >= lo) /\ (hi # None => k <= hi)
Before(a, b) == IF dir = "rev" THEN a > b ELSE a < b

(* What an iterator yields lies in its range and comes in order, and none  *)
(* is passed over -- also when next ran out of memory part way down a      *)
(* spine and was called again.  Only an iterator whose priming ran out of  *)
(* memory may pass elements over.                                          *)
InOrderNoGap ==
  LET y == yielded IN
  /\ \A i, j \in DOMAIN y : i < j => Before(y[i], y[j])
  /\ \A i \in DOMAIN y :
       /\ InRange(y[i])
       /\ ~short => \A k \in Keys : InRange(k) /\ Before(k, y[i]) => k \in Range(y)

(* next says that nothing is left only when nothing is left, or when a     *)
(* push was refused; once it has said so with memory it keeps saying so.   *)
EndsAtTheEnd ==
  ret = "false" /\ ~refused /\ ~short => \A k \in Keys : InRange(k) => k \in Range(yielded)

(* Every block belongs to the open iterator, to the collection under way   *)
(* or to the slice the caller was given, and what is kept in the stack and *)
(* in the buffer fits them.                                                *)
NothingLeaks ==
  /\ Len(stack) <= cap
  /\ buf # None => Len(buf.elems) <= buf.cap
  /\ blocks = (IF pc = "none" THEN 0 ELSE IterBlocks)
             + (IF buf = None THEN 0 ELSE 1 + buf.scratch)
             + (IF slice = None THEN 0 ELSE 1)

(* next, the constructor and iter_collect all return, on every shape of    *)
(* tree.                                                                   *)
CallsReturn == (pc \in {"prime", "next"} \/ user = "collect") ~> (pc \in {"none", "idle"} /\ user = "caller")

(* include/seqc/iter.h:158-160: "If an allocation fails the result is      *)
(* {NULL, 0} -- never a partial result".                                   *)
CollectNeverPartial ==
  slice # None => \A k \in Keys : InRange(k) => k \in Range(slice)
=============================================================================
