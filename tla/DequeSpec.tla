------------------------------ MODULE DequeSpec ------------------------------
(***************************************************************************)
(* What ringbuf_t, queue_t, list_t, dlist_t, vec_t and seqc_stack_t        *)
(* promise, each with some of these calls: a sequence that is pushed and   *)
(* popped at its ends or changed by index, where a refused allocation      *)
(* changes nothing, and that an iterator's elements can be appended to one *)
(* by one (extend), keeping those appended before memory ran out.          *)
(*                                                                         *)
(* A step is one of a call that was asked for, with its arguments: asked   *)
(* records both, so a step that has the effect of another call, or of the  *)
(* same call with other arguments, is none of this specification.          *)
(***************************************************************************)
EXTENDS Integers, Sequences, SequencesExt

CONSTANTS Elems, Sources, Nil,
          Indices   (* those a caller gives *)

VARIABLES
  items,      (* the elements, from front to back                          *)
  exists,     (* between create and destroy                                *)
  feed,       (* what an extend in progress has yet to append              *)
  extending,
  result,     (* of the last call                                          *)
  asked       (* the last call, with its arguments                         *)

vars == <<items, exists, feed, extending, result, asked>>

Init ==
  /\ items = <<>> /\ ~exists /\ feed = <<>> /\ ~extending /\ result = Nil
  /\ asked = <<"nothing">>

Create ==
  /\ ~exists
  /\ exists' \in BOOLEAN
  /\ result' = IF exists' THEN "OK" ELSE "OOM"
  /\ UNCHANGED <<items, feed, extending>>

Destroy ==
  /\ exists /\ ~extending
  /\ ~exists' /\ items' = <<>> /\ result' = "OK"
  /\ UNCHANGED <<feed, extending>>

Ready == exists /\ ~extending

Leave(r) == result' = r /\ UNCHANGED <<items, exists, feed, extending>>
Change(s, r) == items' = s /\ result' = r /\ UNCHANGED <<exists, feed, extending>>

PushBack(e)  == Ready /\ (Change(Append(items, e), "OK") \/ Leave("OOM"))
PushFront(e) == Ready /\ (Change(<<e>> \o items, "OK") \/ Leave("OOM"))

PopFront ==
  /\ Ready
  /\ IF items = <<>> THEN Leave("NOT_FOUND")
                     ELSE Change(Tail(items), Head(items))
PopBack ==
  /\ Ready
  /\ IF items = <<>> THEN Leave("NOT_FOUND")
                     ELSE Change(SubSeq(items, 1, Len(items) - 1), items[Len(items)])

(* Element n, counted from 0 at the front.  *)
Get(n) == Ready /\ Leave(IF n < Len(items) THEN items[n + 1] ELSE "NOT_FOUND")
Back   == Ready /\ Leave(IF items = <<>> THEN "NOT_FOUND" ELSE items[Len(items)])

Clear == Ready /\ Change(<<>>, "OK")

(* By index, counted from 0.  Past the end nothing happens.  *)
InsertBefore(n, e) ==
  /\ Ready
  /\ IF n <= Len(items) THEN Change(InsertAt(items, n + 1, e), "OK") \/ Leave("OOM")
                         ELSE Leave("INVALID")
Delete(n)     == Ready /\ Change(IF n < Len(items) THEN RemoveAt(items, n + 1) ELSE items, "OK")
Overwrite(n, e) == Ready /\ Change(IF n < Len(items) THEN ReplaceAt(items, n + 1, e) ELSE items, "OK")
Truncate(n)   == Ready /\ Change(SubSeq(items, 1, IF n < Len(items) THEN n ELSE Len(items)), "OK")
(* The first element of a set that the caller's predicate describes.  *)
FindFirst(P) ==
  /\ Ready
  /\ \/ (\A i \in DOMAIN items : items[i] \notin P) /\ Leave("NOT_FOUND")
     \/ \E i \in DOMAIN items :
          items[i] \in P /\ (\A j \in 1 .. i - 1 : items[j] \notin P) /\ Leave(items[i])
(* A sort loses and repeats nothing; the order is the caller's cmp.        *)
Rearrange ==
  /\ Ready
  /\ items' \in {[i \in DOMAIN items |-> items[f[i]]] :
                   f \in {g \in [DOMAIN items -> DOMAIN items] : IsInjective(g)}}
  /\ result' = "OK" /\ UNCHANGED <<exists, feed, extending>>
(* Room for more elements is no change to those there are.                 *)
Reserve == Ready /\ \E r \in {"OK", "OOM"} : Leave(r)

(* An extend is refused at once, or appends one element after another.     *)
(* It returns OK once every element has been appended, and OOM before      *)
(* that, with those appended so far.                                       *)
Extend(s) ==
  /\ Ready
  /\ extending' /\ feed' = s /\ result' = Nil
  /\ UNCHANGED <<items, exists>>
Feed ==
  /\ extending /\ feed # <<>>
  /\ items' = Append(items, Head(feed)) /\ feed' = Tail(feed)
  /\ UNCHANGED <<exists, extending, result>>
EndExtend ==
  /\ extending
  /\ result' = IF feed = <<>> THEN "OK" ELSE "OOM"
  /\ ~extending' /\ feed' = <<>>
  /\ UNCHANGED <<items, exists>>
RefuseExtend == Ready /\ \E r \in {"OOM", "INVALID"} : Leave(r)

Next ==
  \/ asked' = <<"create">> /\ Create
  \/ asked' = <<"destroy">> /\ Destroy
  \/ asked' = <<"clear">> /\ Clear
  \/ asked' = <<"pop_front">> /\ PopFront
  \/ asked' = <<"pop_back">> /\ PopBack
  \/ asked' = <<"front">> /\ Get(0)
  \/ asked' = <<"back">> /\ Back
  \/ asked' = <<"sort">> /\ Rearrange
  \/ \E e \in Elems : \/ asked' = <<"push_back", e>> /\ PushBack(e)
                      \/ asked' = <<"push_front", e>> /\ PushFront(e)
  \/ \E n \in Indices :
       \/ asked' = <<"get", n>> /\ Get(n)
       \/ asked' = <<"remove", n>> /\ Delete(n)
       \/ asked' = <<"truncate", n>> /\ Truncate(n)
       \/ asked' = <<"reserve", n>> /\ Reserve
       \/ \E e \in Elems : \/ asked' = <<"insert", n, e>> /\ InsertBefore(n, e)
                           \/ asked' = <<"set", n, e>> /\ Overwrite(n, e)
  \/ \E P \in SUBSET Elems : asked' = <<"find", P>> /\ FindFirst(P)
  \/ \E s \in Sources : asked' = <<"extend", s>> /\ (Extend(s) \/ RefuseExtend)
  \/ (Feed \/ EndExtend) /\ UNCHANGED asked

Spec == Init /\ [][Next]_vars
=============================================================================
