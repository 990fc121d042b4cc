------------------------------ MODULE PrioSpec ------------------------------
(***************************************************************************)
(* What pqueue_t promises: a bag of elements, of which pop and drain give  *)
(* back one of the least priority at a time.  A refused allocation changes *)
(* nothing, except that a drain refused its slice empties the queue and    *)
(* that a queue made from a vec_t may lack elements of it.                 *)
(***************************************************************************)
EXTENDS Integers, Sequences, Bags

CONSTANTS Elems, Prio, Sources, Nil

VARIABLES
  bag,        (* the elements                                              *)
  exists,     (* between create and destroy                                *)
  doing,      (* "nothing", "extend", "drain" or "build"                   *)
  feed,       (* what an extend or a build has yet to add                  *)
  out,        (* the slice of the last drain                               *)
  result      (* of the last call                                          *)

vars == <<bag, exists, doing, feed, out, result>>

Init == /\ bag = EmptyBag /\ ~exists /\ doing = "nothing"
        /\ feed = <<>> /\ out = <<>> /\ result = Nil

With(b, e) == b (+) SetToBag({e})
Without(b, e) == b (-) SetToBag({e})
Least(e) == BagIn(e, bag) /\ \A f \in BagToSet(bag) : Prio[e] <= Prio[f]

Ready == exists /\ doing = "nothing"
Leave(r) == result' = r /\ UNCHANGED <<bag, exists, doing, feed, out>>
Change(b, r) == bag' = b /\ result' = r /\ UNCHANGED <<exists, doing, feed, out>>

Create == /\ ~exists
          /\ \/ exists' /\ result' = "OK" /\ UNCHANGED <<bag, doing, feed, out>>
             \/ Leave("OOM")
Destroy == /\ Ready
           /\ bag' = EmptyBag /\ ~exists' /\ result' = "OK" /\ UNCHANGED <<doing, feed, out>>
Clear == Ready /\ Change(EmptyBag, "OK")

Push(e) == Ready /\ (Change(With(bag, e), "OK") \/ Leave("OOM") \/ Leave("INVALID"))
Pop == IF bag = EmptyBag THEN Ready /\ Leave("NOT_FOUND")
       ELSE Ready /\ \E e \in BagToSet(bag) : Least(e) /\ Change(Without(bag, e), e)
Peek == IF bag = EmptyBag THEN Ready /\ Leave("NOT_FOUND")
        ELSE Ready /\ \E e \in BagToSet(bag) : Least(e) /\ Leave(e)

Begin(what, s) == /\ doing' = what /\ feed' = s /\ result' = Nil
                  /\ UNCHANGED <<bag, out>>
Extend(s) == Ready /\ Begin("extend", s) /\ UNCHANGED exists
Build(s) == ~exists /\ Begin("build", s) /\ exists'
Feed == /\ doing \in {"extend", "build"} /\ feed # <<>>
        /\ bag' = With(bag, Head(feed)) /\ feed' = Tail(feed)
        /\ UNCHANGED <<exists, doing, out, result>>
Skip == /\ doing = "build" /\ feed # <<>>
        /\ feed' = Tail(feed) /\ UNCHANGED <<bag, exists, doing, out, result>>
End == /\ doing # "nothing"
       /\ result' = IF feed = <<>> THEN "OK" ELSE "OOM"
       /\ doing' = "nothing" /\ feed' = <<>> /\ UNCHANGED <<bag, exists, out>>

Drain == /\ Ready /\ doing' = "drain" /\ out' = <<>> /\ result' = Nil
         /\ UNCHANGED <<bag, exists, feed>>
DrainOne == /\ doing = "drain"
            /\ \E e \in BagToSet(bag) :
                 Least(e) /\ bag' = Without(bag, e) /\ out' = Append(out, e)
            /\ UNCHANGED <<exists, doing, feed, result>>
DrainRefused == Ready /\ Change(EmptyBag, "OOM")
FreeSlice == out' = <<>> /\ UNCHANGED <<bag, exists, doing, feed, result>>

Next ==
  \/ Create \/ Destroy \/ Clear \/ Pop \/ Peek
  \/ \E e \in Elems : Push(e)
  \/ \E s \in Sources : Extend(s) \/ Build(s)
  \/ Feed \/ Skip \/ End \/ Drain \/ DrainOne \/ DrainRefused \/ FreeSlice
  \/ \E r \in {"OOM", "INVALID"} : Ready /\ Leave(r)

Spec == Init /\ [][Next]_vars
=============================================================================
