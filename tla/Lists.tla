-------------------------------- MODULE Lists --------------------------------
(***************************************************************************)
(* list_t and dlist_t: the linked lists of src/src/list/list.c and         *)
(* src/src/dlist/dlist.c, node by node.                                    *)
(*                                                                         *)
(* The two differ in what a node links to and in how a node is taken out;  *)
(* the rest is the same code.  A call is one step, except where it walks   *)
(* along the list (list_pop_back, clear, destroy) and extend, which is the *)
(* loop of module Extend around push_back.                                 *)
(***************************************************************************)
EXTENDS Extend, FiniteSets

CONSTANTS
  Elems,
  Addrs,     (* where the allocator may put a node; all taken, it refuses   *)
  NULL

VARIABLES
  kind,               (* "list" or "dlist"                                  *)
  head, tail, len,    (* struct list_t, struct dlist_t                      *)
  node,               (* the allocated nodes                                *)
  at,                 (* where a walking call is                            *)
  it,                 (* an iterator and what it has yielded                *)
  asked               (* the last call, with its arguments                  *)

list == <<head, tail, len, node>>
vars == <<kind, list, at, it, pc, feed, ret, blocks, asked>>

NoIter == [on |-> FALSE, fwd |-> TRUE, current |-> NULL, seen |-> <<>>]

Init ==
  /\ kind \in {"list", "dlist"}
  /\ head = NULL /\ tail = NULL /\ len = 0 /\ node = <<>> /\ at = NULL
  /\ it = NoIter /\ pc = "none" /\ feed = <<>> /\ ret = Nil /\ blocks = 0
  /\ asked = <<"nothing">>

Create ==
  /\ pc = "none"
  /\ \/ ret' = "OK" /\ pc' = "idle" /\ blocks' = blocks + 1
     \/ ret' = "OOM" /\ UNCHANGED <<pc, blocks>>
  /\ UNCHANGED <<kind, list, at, it, feed>>

Quiet == pc = "idle" /\ ~it.on

-----------------------------------------------------------------------------
Free == Addrs \ DOMAIN node
Without(f, a) == [b \in DOMAIN f \ {a} |-> f[b]]
Prev(p) == IF kind = "dlist" THEN p ELSE NULL
Linked(f, a, e, next, prev) ==
  [b \in DOMAIN f \cup {a} |-> IF b = a THEN [elem |-> e, next |-> next, prev |-> prev] ELSE f[b]]

(* The node before the new one, if any, is led to it.  *)
NextOf(p, a) == IF p = NULL THEN node ELSE [node EXCEPT ![p].next = a]
PrevOf(n, a) == IF n = NULL THEN node ELSE [node EXCEPT ![n].prev = Prev(a)]

Pushed(e) ==
  \E a \in Free :
    /\ node' = Linked(NextOf(tail, a), a, e, NULL, Prev(tail))
    /\ head' = IF tail = NULL THEN a ELSE head
    /\ tail' = a /\ len' = len + 1 /\ blocks' = blocks + 1
PushBack(e) == Quiet /\ Pushed(e) /\ ret' = "OK" /\ UNCHANGED <<kind, at, it, pc, feed>>

PushFront(e) ==
  /\ Quiet
  /\ \E a \in Free :
       /\ node' = Linked(PrevOf(head, a), a, e, head, NULL)
       /\ tail' = IF head = NULL THEN a ELSE tail
       /\ head' = a /\ len' = len + 1 /\ blocks' = blocks + 1
  /\ ret' = "OK" /\ UNCHANGED <<kind, at, it, pc, feed>>

PushRefused == Quiet /\ ret' = "OOM" /\ UNCHANGED <<kind, list, at, it, pc, feed, blocks>>

-----------------------------------------------------------------------------
(* Taking out the first node of a list: the tail goes with the last one.   *)
TailAfterPop(first) == IF first = NULL THEN NULL ELSE tail
ListPopFront ==
  /\ ret' = node[head].elem
  /\ head' = node[head].next /\ tail' = TailAfterPop(node[head].next)
  /\ node' = Without(node, head) /\ len' = len - 1 /\ blocks' = blocks - 1

(* unlink_and_free: each neighbour, or else the end of the list, is led    *)
(* past the node.                                                          *)
LedOnward(a, b) == [node[b] EXCEPT !.next = IF b = node[a].prev THEN node[a].next ELSE @]
LedPast(a, b) == [node[b] EXCEPT !.next = IF b = node[a].prev THEN node[a].next ELSE @,
                                 !.prev = IF b = node[a].next THEN node[a].prev ELSE @]
Unlink(a) ==
  /\ ret' = node[a].elem
  /\ node' = [b \in DOMAIN node \ {a} |-> LedPast(a, b)]
  /\ head' = (IF node[a].prev = NULL THEN node[a].next ELSE head)
  /\ tail' = (IF node[a].next = NULL THEN node[a].prev ELSE tail)
  /\ len' = len - 1 /\ blocks' = blocks - 1

Popped == UNCHANGED <<kind, at, it, pc, feed>>
PopNothing ==
  /\ Quiet /\ head = NULL
  /\ ret' = "NOT_FOUND" /\ UNCHANGED <<kind, list, at, it, pc, feed, blocks>>
PopFront ==
  /\ Quiet /\ head # NULL
  /\ IF kind = "list" THEN ListPopFront ELSE Unlink(head)
  /\ Popped
PopBackLinked == Quiet /\ kind = "dlist" /\ tail # NULL /\ Unlink(tail) /\ Popped
PopBackOnly == Quiet /\ kind = "list" /\ head # NULL /\ head = tail /\ ListPopFront /\ Popped

(* list_pop_back walks from the head to the node before the tail.          *)
PopBackWalk ==
  /\ Quiet /\ kind = "list" /\ head # tail
  /\ pc' = "seek" /\ at' = head
  /\ UNCHANGED <<kind, list, it, feed, ret, blocks>>
Seek ==
  /\ pc = "seek" /\ node[at].next # tail
  /\ at' = node[at].next
  /\ UNCHANGED <<kind, list, it, pc, feed, ret, blocks>>
OldTailElem == node[tail].elem
CutAfter(a) == [Without(node, tail) EXCEPT ![a].next = NULL]
SeekFound ==
  /\ pc = "seek" /\ node[at].next = tail
  /\ ret' = OldTailElem
  /\ node' = CutAfter(at) /\ tail' = at /\ len' = len - 1 /\ blocks' = blocks - 1
  /\ at' = NULL /\ pc' = "idle" /\ UNCHANGED <<kind, head, it, feed>>

-----------------------------------------------------------------------------
Front == /\ pc = "idle" /\ ret' = (IF head = NULL THEN "NOT_FOUND" ELSE node[head].elem)
         /\ UNCHANGED <<kind, list, at, it, pc, feed, blocks>>
Back == /\ pc = "idle" /\ ret' = (IF tail = NULL THEN "NOT_FOUND" ELSE node[tail].elem)
        /\ UNCHANGED <<kind, list, at, it, pc, feed, blocks>>

(* clear frees node after node, each only after its next has been read;    *)
(* destroy clears and frees the list itself.                               *)
ClearStart(call) ==
  /\ Quiet
  /\ pc' = call /\ at' = head /\ ret' = "OK"
  /\ UNCHANGED <<kind, list, it, feed, blocks>>
ClearNode ==
  /\ pc \in {"clear", "destroy"} /\ at # NULL
  /\ at' = node[at].next
  /\ node' = Without(node, at) /\ blocks' = blocks - 1
  /\ UNCHANGED <<kind, head, tail, len, it, pc, feed, ret>>
ListFree(n) == n - 1
ClearEnd ==
  /\ pc \in {"clear", "destroy"} /\ at = NULL
  /\ head' = NULL /\ tail' = NULL /\ len' = 0
  /\ pc' = IF pc = "clear" THEN "idle" ELSE "none"
  /\ blocks' = IF pc = "clear" THEN blocks ELSE ListFree(blocks)
  /\ UNCHANGED <<kind, node, at, it, feed, ret>>

-----------------------------------------------------------------------------
(* list_iter, dlist_iter and, of a dlist_t only, dlist_iter_rev.           *)
First(fwd) == IF fwd THEN head ELSE tail
IterOpen(fwd) ==
  /\ Quiet /\ (fwd \/ kind = "dlist")
  /\ it' = [on |-> TRUE, fwd |-> fwd, current |-> First(fwd), seen |-> <<>>]
  /\ blocks' = blocks + 1
  /\ UNCHANGED <<kind, list, at, pc, feed, ret>>
IterNext ==
  /\ pc = "idle" /\ it.on /\ it.current # NULL
  /\ it' = [it EXCEPT !.seen = Append(@, node[it.current].elem),
                      !.current = IF it.fwd THEN node[it.current].next
                                            ELSE node[it.current].prev]
  /\ UNCHANGED <<kind, list, at, pc, feed, ret, blocks>>
IterDrop ==
  /\ pc = "idle" /\ it.on
  /\ it' = NoIter /\ blocks' = blocks - 1
  /\ UNCHANGED <<kind, list, at, pc, feed, ret>>

ExtendStart == ~it.on /\ (\E s \in Sources : ExtendCall(s)) /\ UNCHANGED <<kind, list, at, it>>
ExtendStep ==
  \/ (ExtendRefused \/ ExtendScratch) /\ UNCHANGED <<kind, list, at, it>>
  \/ FeedOne(Pushed(Head(feed))) /\ UNCHANGED <<kind, at, it>>
  \/ (FeedRefused(TRUE) \/ FeedDone) /\ UNCHANGED <<kind, list, at, it>>

(* A call that walks is recorded at the step that takes effect: pop_back   *)
(* once it is at the end, clear and destroy before they free.              *)
Call ==
  \/ asked' = <<"pop_front">> /\ (PopNothing \/ PopFront)
  \/ asked' = <<"pop_back">> /\ (PopNothing \/ PopBackLinked \/ PopBackOnly \/ SeekFound)
  \/ asked' = <<"front">> /\ Front
  \/ asked' = <<"back">> /\ Back
  \/ \E e \in Elems : \/ asked' = <<"push_back", e>> /\ (PushBack(e) \/ PushRefused)
                      \/ asked' = <<"push_front", e>> /\ (PushFront(e) \/ PushRefused)

Walk == PopBackWalk \/ Seek \/ ClearNode \/ ClearEnd
Iterate == IterOpen(TRUE) \/ IterOpen(FALSE) \/ IterNext \/ IterDrop

Next ==
  \/ asked' = <<"create">> /\ Create
  \/ asked' = <<"clear">> /\ ClearStart("clear")
  \/ asked' = <<"destroy">> /\ ClearStart("destroy")
  \/ Call
  \/ (Walk \/ Iterate \/ ExtendStart) /\ UNCHANGED asked
  \/ ExtendStep /\ asked' = IF pc = "extend" THEN <<"extend", feed>> ELSE asked

Spec == Init /\ [][Next]_vars

-----------------------------------------------------------------------------
(* Types; every pointer is NULL or points to an allocated node, except     *)
(* that clear leaves head and tail dangling until it is done.              *)
TypeOK ==
  /\ node \in [DOMAIN node -> [elem : Elems, next : Addrs \cup {NULL}, prev : Addrs \cup {NULL}]]
  /\ DOMAIN node \subseteq Addrs
  /\ at \in DOMAIN node \cup {NULL} /\ it.current \in DOMAIN node \cup {NULL}
  /\ pc \notin {"clear", "destroy"} => {head, tail} \subseteq DOMAIN node \cup {NULL}
  /\ len \in Nat /\ blocks \in Nat
  /\ it.seen \in Seq(Elems) /\ feed \in Seq(Elems)

(* Node n of the chain of links that starts at a node, or NULL.  *)
Chain(a) ==
  LET c[n \in Nat] == IF n = 0 THEN a ELSE IF c[n - 1] = NULL THEN NULL ELSE node[c[n - 1]].next
  IN c
Nodes == [n \in 1 .. len |-> Chain(head)[n - 1]]

(* The links from head run through every allocated node once and end at    *)
(* tail, and those of a dlist_t run back the same way; while clear frees   *)
(* the nodes, those left are the ones it has yet to reach.                 *)
ChainOK ==
  IF pc \in {"clear", "destroy"}
  THEN LET n == Cardinality(DOMAIN node) IN
       /\ DOMAIN node = {Chain(at)[i] : i \in 0 .. n - 1}
       /\ Chain(at)[n] = NULL
  ELSE /\ len = Cardinality(DOMAIN node)
       /\ {Nodes[i] : i \in 1 .. len} = DOMAIN node
       /\ tail = (IF len = 0 THEN NULL ELSE Nodes[len])
       /\ Chain(head)[len] = NULL
       /\ \A i \in 1 .. len : kind = "dlist" =>
            node[Nodes[i]].prev = (IF i = 1 THEN NULL ELSE Nodes[i - 1])

(* No path of list.c, dlist.c and collection.c loses a block or frees one  *)
(* twice.                                                                  *)
NothingLeaks ==
  blocks = (IF pc = "none" THEN 0 ELSE 1) + Cardinality(DOMAIN node)
             + (IF it.on THEN 1 ELSE 0) + ExtendBlocks

Items == IF pc \in {"clear", "destroy"} THEN <<>>
         ELSE [n \in 1 .. len |-> node[Nodes[n]].elem]

(* An iterator has yielded the elements on one side of its current node,   *)
(* in order or in reverse, and all of them once it has none.               *)
IterInOrder ==
  it.on =>
    LET n == Len(it.seen)
        Nth(i) == IF it.fwd THEN i ELSE len + 1 - i
    IN /\ n <= len
       /\ \A i \in 1 .. n : it.seen[i] = Items[Nth(i)]
       /\ it.current = (IF n = len THEN NULL ELSE Nodes[Nth(n + 1)])
=============================================================================
