------------------------------ MODULE ListProofs ------------------------------
(***************************************************************************)
(* Theorems of Lists, for every set of elements and of addresses: the      *)
(* links run through every node once, no node is lost, iterators keep the  *)
(* order, and list_t and dlist_t implement DequeSpec.  With those of       *)
(* DequeProofs and VecProofs, the theorems of Deques.                      *)
(***************************************************************************)
EXTENDS VecProofs

-----------------------------------------------------------------------------
(* A chain of nodes as a sequence of addresses.                            *)

Cell == [elem : Elems, next : Addrs \cup {NULL}, prev : Addrs \cup {NULL}]

(* The nodes nd are those of p, linked in that order from a on.            *)
Run(nd, p, l, a) ==
  /\ l \in Nat /\ DOMAIN nd \subseteq Addrs /\ nd \in [DOMAIN nd -> Cell]
  /\ p \in [1 .. l -> DOMAIN nd]
  /\ \A i, j \in 1 .. l : p[i] = p[j] => i = j
  /\ \A b \in DOMAIN nd : \E i \in 1 .. l : p[i] = b
  /\ a = IF l = 0 THEN NULL ELSE p[1]
  /\ \A i \in 1 .. l : nd[p[i]].next = IF i = l THEN NULL ELSE p[i + 1]

(* The tail is its last node, and a dlist_t links back.                    *)
Ends(nd, p, l, z, k) ==
  /\ z = IF l = 0 THEN NULL ELSE p[l]
  /\ k = "dlist" => \A i \in 1 .. l : nd[p[i]].prev = IF i = 1 THEN NULL ELSE p[i - 1]

Vals(nd, p, l) == [n \in 1 .. l |-> nd[p[n]].elem]

(* Where the links lead from a, node by node.                              *)
Walk(nd, a) ==
  CHOOSE c : c = [n \in Nat |-> IF n = 0 THEN a ELSE IF c[n - 1] = NULL THEN NULL ELSE nd[c[n - 1]].next]

LEMMA CellParts ==
  ASSUME NEW c \in Cell
  PROVE  c.elem \in Elems /\ c.next \in Addrs \cup {NULL} /\ c.prev \in Addrs \cup {NULL}
BY DEF Cell

LEMMA RunHolds ==
  ASSUME NEW nd, NEW p, NEW l, NEW a, Run(nd, p, l, a)
  PROVE  /\ l \in Nat /\ NULL \notin DOMAIN nd
         /\ \A i \in 1 .. l : /\ p[i] \in DOMAIN nd /\ p[i] \in Addrs /\ p[i] # NULL
                              /\ nd[p[i]] \in Cell /\ nd[p[i]].elem \in Elems
         /\ Vals(nd, p, l) \in Seq(Elems) /\ Len(Vals(nd, p, l)) = l
         /\ \A i \in 1 .. l : Vals(nd, p, l)[i] = nd[p[i]].elem
<1>1. l \in Nat /\ DOMAIN nd \subseteq Addrs /\ NULL \notin DOMAIN nd
  BY ListsAssumption DEF Run
<1>2. ASSUME NEW i \in 1 .. l
      PROVE  /\ p[i] \in DOMAIN nd /\ p[i] \in Addrs /\ p[i] # NULL
             /\ nd[p[i]] \in Cell /\ nd[p[i]].elem \in Elems
  <2>1. p[i] \in DOMAIN nd
    BY DEF Run
  <2>2. nd[p[i]] \in Cell
    BY <2>1 DEF Run
  <2>3. QED
    BY <1>1, <2>1, <2>2, CellParts
<1>3. Vals(nd, p, l) \in [1 .. l -> Elems]
  BY <1>2 DEF Vals
<1> PICK v : v = Vals(nd, p, l)
  OBVIOUS
<1>4. v \in Seq(Elems) /\ Len(v) = l
  <2>1. v \in [1 .. l -> Elems] /\ l \in Nat
    BY <1>1, <1>3
  <2>2. QED
    BY ONLY <2>1
<1>5. \A i \in 1 .. l : v[i] = nd[p[i]].elem
  BY DEF Vals
<1>6. QED
  BY <1>1, <1>2, <1>4, <1>5

LEMMA RunLinks ==
  ASSUME NEW nd, NEW p, NEW l, NEW a, Run(nd, p, l, a)
  PROVE  /\ a = (IF l = 0 THEN NULL ELSE p[1])
         /\ \A i \in 1 .. l : nd[p[i]].next = IF i = l THEN NULL ELSE p[i + 1]
         /\ \A i, j \in 1 .. l : p[i] = p[j] => i = j
         /\ \A b \in DOMAIN nd : \E i \in 1 .. l : p[i] = b
BY DEF Run

(* Walking the links visits the nodes of p, and then there is NULL.        *)
LEMMA WalkIs ==
  ASSUME NEW nd, NEW p, NEW l, NEW a, Run(nd, p, l, a)
  PROVE  (\A n \in 1 .. l : Walk(nd, a)[n - 1] = p[n]) /\ Walk(nd, a)[l] = NULL
<1> DEFINE f == [n \in Nat |-> IF n < l THEN p[n + 1] ELSE NULL]
           c == Walk(nd, a)
<1>1. /\ l \in Nat /\ a = (IF l = 0 THEN NULL ELSE p[1])
      /\ \A i \in 1 .. l : p[i] # NULL /\ nd[p[i]].next = IF i = l THEN NULL ELSE p[i + 1]
  BY RunHolds, RunLinks
<1>2. ASSUME NEW n \in Nat
      PROVE  f[n] = IF n = 0 THEN a ELSE IF f[n - 1] = NULL THEN NULL ELSE nd[f[n - 1]].next
  <2>1. CASE n = 0
    BY <1>1, <2>1
  <2>2. CASE n # 0 /\ n - 1 < l
    <3>1. n \in 1 .. l /\ n - 1 \in Nat /\ (n - 1) + 1 = n /\ (n = l <=> ~(n < l))
      BY <1>1, <2>2
    <3>2. f[n - 1] = p[n]
      BY <2>2, <3>1
    <3>3. f[n] = IF n = l THEN NULL ELSE p[n + 1]
      BY <3>1
    <3>4. QED
      BY <1>1, <2>2, <3>1, <3>2, <3>3
  <2>3. CASE n # 0 /\ ~(n - 1 < l)
    <3>1. n - 1 \in Nat /\ ~(n < l)
      BY <1>1, <2>3
    <3>2. f[n - 1] = NULL /\ f[n] = NULL
      BY <2>3, <3>1
    <3>3. QED
      BY <2>3, <3>2
  <2>4. QED
    BY <2>1, <2>2, <2>3
<1>3. f = [n \in Nat |-> f[n]]
  OBVIOUS
<1> HIDE DEF f
<1>4. f = [n \in Nat |-> IF n = 0 THEN a ELSE IF f[n - 1] = NULL THEN NULL ELSE nd[f[n - 1]].next]
  BY <1>2, <1>3
<1>5. c = [n \in Nat |-> IF n = 0 THEN a ELSE IF c[n - 1] = NULL THEN NULL ELSE nd[c[n - 1]].next]
  BY <1>4 DEF Walk
<1> HIDE DEF c
<1>6. \A n \in Nat : c[n] = IF n = 0 THEN a ELSE IF c[n - 1] = NULL THEN NULL ELSE nd[c[n - 1]].next
  BY <1>5
<1>7. \A n \in Nat : c[n] = f[n]
  <2> DEFINE T == {n \in Nat : c[n] # f[n]}
  <2>1. SUFFICES ASSUME T # {} PROVE FALSE
    OBVIOUS
  <2>2. PICK x \in T : \A y \in T : x <= y
    BY <2>1, Least
  <2>3. CASE x = 0
    BY <1>2, <1>6, <2>3
  <2>4. CASE x # 0
    <3>1. x - 1 \in Nat /\ ~(x <= x - 1)
      BY <2>4
    <3>2. c[x - 1] = f[x - 1]
      BY <2>2, <3>1
    <3>3. c[x] = f[x]
      BY <1>2, <1>6, <2>4, <3>2
    <3>4. QED
      BY <3>3
  <2>5. QED
    BY <2>3, <2>4
<1>8. ASSUME NEW n \in 1 .. l PROVE c[n - 1] = p[n]
  <2>1. n - 1 \in Nat /\ n - 1 < l /\ (n - 1) + 1 = n
    BY <1>1
  <2>2. QED
    BY <1>7, <2>1 DEF f
<1>9. c[l] = NULL
  BY <1>1, <1>7 DEF f
<1>10. QED
  BY <1>8, <1>9 DEF c

(* There are as many nodes as the chain is long.                           *)
LEMMA RunCount ==
  ASSUME NEW nd, NEW p, NEW l, NEW a, Run(nd, p, l, a)
  PROVE  IsFiniteSet(DOMAIN nd) /\ Cardinality(DOMAIN nd) = l
<1> PICK S : S = DOMAIN nd
  OBVIOUS
<1>1. /\ l \in Nat /\ p \in [1 .. l -> S] /\ (\A i, j \in 1 .. l : p[i] = p[j] => i = j)
      /\ \A b \in S : \E i \in 1 .. l : p[i] = b
  BY DEF Run
<1>2. p \in Bijection(1 .. l, S)
  BY <1>1 DEF Bijection, Injection, Surjection, IsInjective
<1>3. IsFiniteSet(1 .. l) /\ Cardinality(1 .. l) = l
  BY <1>1, FS_Interval
<1>4. ExistsBijection(1 .. l, S)
  BY <1>2 DEF ExistsBijection
<1>5. QED
  BY <1>3, <1>4, FS_Bijection

-----------------------------------------------------------------------------
(* Changes of a chain, for any nodes.  *)

(* A node x with the element e has come, and one is gone.                  *)
Grown(nd, nd1, x, e) ==
  /\ DOMAIN nd1 = DOMAIN nd \cup {x} /\ nd1 \in [DOMAIN nd1 -> Cell] /\ nd1[x].elem = e
  /\ \A b \in DOMAIN nd : nd1[b].elem = nd[b].elem
Shrunk(nd, nd1, x) ==
  /\ DOMAIN nd1 = DOMAIN nd \ {x} /\ nd1 \in [DOMAIN nd1 -> Cell]
  /\ \A b \in DOMAIN nd1 : nd1[b].elem = nd[b].elem

(* The links of the nodes that were there, but for the one that leads to x. *)
NextLed(nd, nd1, z, x) == \A b \in DOMAIN nd : nd1[b].next = IF b = z THEN x ELSE nd[b].next
PrevLed(nd, nd1, z, x) == \A b \in DOMAIN nd : nd1[b].prev = IF b = z THEN x ELSE nd[b].prev
(* The links of those that are left, but for the one led past.             *)
NextPast(nd, nd1, z, x) == \A b \in DOMAIN nd1 : nd1[b].next = IF b = z THEN x ELSE nd[b].next
PrevPast(nd, nd1, z, x) == \A b \in DOMAIN nd1 : nd1[b].prev = IF b = z THEN x ELSE nd[b].prev

LEMMA RunAppend ==
  ASSUME NEW nd, NEW p, NEW l, NEW a, Run(nd, p, l, a), NEW z, NEW k, Ends(nd, p, l, z, k),
         NEW x \in Addrs, x \notin DOMAIN nd, NEW e \in Elems, NEW nd1, Grown(nd, nd1, x, e),
         nd1[x].next = NULL, NextLed(nd, nd1, z, x),
         k = "dlist" => nd1[x].prev = z /\ PrevLed(nd, nd1, NULL, NULL),
         NEW a1, l = 0 => a1 = x, l # 0 => a1 = a
  PROVE  \E q : /\ Run(nd1, q, l + 1, a1) /\ Ends(nd1, q, l + 1, x, k)
                /\ Vals(nd1, q, l + 1) = Append(Vals(nd, p, l), e)
<1>1. /\ l \in Nat /\ NULL \notin DOMAIN nd
      /\ \A i \in 1 .. l : p[i] \in DOMAIN nd /\ p[i] # x
      /\ Vals(nd, p, l) \in Seq(Elems) /\ Len(Vals(nd, p, l)) = l
      /\ \A i \in 1 .. l : Vals(nd, p, l)[i] = nd[p[i]].elem
  BY RunHolds
<1> PICK m \in Nat : m = l + 1
  BY <1>1
<1> DEFINE q == [i \in 1 .. m |-> IF i = m THEN x ELSE p[i]]
<1>2. q[m] = x /\ m \in 1 .. m /\ \A i \in 1 .. l : q[i] = p[i] /\ i \in 1 .. m /\ i # m
  BY <1>1
<1>3. \A i \in 1 .. m : i = m \/ i \in 1 .. l
  BY <1>1
<1>4. q \in [1 .. m -> DOMAIN nd1]
  BY <1>1, <1>3 DEF Grown
<1> HIDE DEF q
<1>5. z = IF l = 0 THEN NULL ELSE p[l]
  BY DEF Ends
<1>6. Run(nd1, q, m, a1)
  <2>1. DOMAIN nd1 \subseteq Addrs /\ nd1 \in [DOMAIN nd1 -> Cell]
    BY DEF Grown, Run
  <2>2. ASSUME NEW i \in 1 .. m, NEW j \in 1 .. m, q[i] = q[j] PROVE i = j
    <3>1. CASE i \in 1 .. l /\ j \in 1 .. l
      BY <1>2, <2>2, <3>1, RunLinks
    <3>2. CASE i = m \/ j = m
      BY <1>1, <1>2, <1>3, <2>2, <3>2
    <3>3. QED
      BY <1>3, <3>1, <3>2
  <2>3. ASSUME NEW b \in DOMAIN nd1 PROVE \E i \in 1 .. m : q[i] = b
    <3>1. CASE b = x
      BY <1>2, <3>1
    <3>2. CASE b # x
      <4>1. b \in DOMAIN nd
        BY <3>2 DEF Grown
      <4>2. PICK i \in 1 .. l : p[i] = b
        BY <4>1, RunLinks
      <4>3. QED
        BY <1>2, <4>2
    <3>3. QED
      BY <3>1, <3>2
  <2>4. a1 = q[1] /\ m # 0
    <3>1. CASE l = 0
      BY <1>2, <3>1
    <3>2. CASE l # 0
      <4>1. 1 \in 1 .. l /\ a = p[1]
        BY <1>1, <3>2, RunLinks
      <4>2. QED
        BY <1>2, <3>2, <4>1
    <3>3. QED
      BY <1>1, <3>1, <3>2
  <2>5. ASSUME NEW i \in 1 .. m PROVE nd1[q[i]].next = IF i = m THEN NULL ELSE q[i + 1]
    <3>1. CASE i = m
      BY <1>2, <3>1
    <3>2. CASE i \in 1 .. l
      <4>1. p[i] \in DOMAIN nd /\ q[i] = p[i] /\ i # m
        BY <1>1, <1>2, <3>2
      <4>2. nd1[p[i]].next = IF p[i] = z THEN x ELSE nd[p[i]].next
        BY <4>1 DEF NextLed
      <4>3. CASE i = l
        <5>1. p[i] = z /\ q[i + 1] = x
          BY <1>1, <1>2, <1>5, <3>2, <4>3
        <5>2. QED
          BY <4>1, <4>2, <5>1
      <4>4. CASE i # l
        <5>1. i + 1 \in 1 .. l /\ l \in 1 .. l /\ l # 0
          BY <1>1, <3>2, <4>4
        <5>2. p[i] # z
          BY <1>5, <3>2, <4>4, <5>1, RunLinks
        <5>3. nd[p[i]].next = p[i + 1]
          BY <3>2, <4>4, RunLinks
        <5>4. QED
          BY <1>2, <4>1, <4>2, <5>1, <5>2, <5>3
      <4>5. QED
        BY <4>3, <4>4
    <3>3. QED
      BY <1>3, <3>1, <3>2
  <2>6. QED
    BY <1>4, <2>1, <2>2, <2>3, <2>4, <2>5 DEF Run
<1>7. Ends(nd1, q, m, x, k)
  <2>1. x = q[m] /\ m # 0
    BY <1>1, <1>2
  <2>2. ASSUME k = "dlist", NEW i \in 1 .. m
        PROVE  nd1[q[i]].prev = IF i = 1 THEN NULL ELSE q[i - 1]
    <3>1. CASE i = m
      <4>1. nd1[q[i]].prev = z
        BY <1>2, <2>2, <3>1
      <4>2. CASE l = 0
        BY <1>1, <1>5, <3>1, <4>1, <4>2
      <4>3. CASE l # 0
        <5>1. i # 1 /\ i - 1 = l /\ l \in 1 .. l
          BY <1>1, <3>1, <4>3
        <5>2. QED
          BY <1>2, <1>5, <4>1, <4>3, <5>1
      <4>4. QED
        BY <4>2, <4>3
    <3>2. CASE i \in 1 .. l
      <4>1. p[i] \in DOMAIN nd /\ q[i] = p[i] /\ p[i] # NULL
        BY <1>1, <1>2, <3>2
      <4>2. nd1[p[i]].prev = nd[p[i]].prev
        BY <2>2, <4>1 DEF PrevLed
      <4>3. nd[p[i]].prev = IF i = 1 THEN NULL ELSE p[i - 1]
        BY <2>2, <3>2 DEF Ends
      <4>4. i # 1 => q[i - 1] = p[i - 1]
        <5>1. i # 1 => i - 1 \in 1 .. l
          BY <1>1, <3>2
        <5>2. QED
          BY <1>2, <5>1
      <4>5. QED
        BY <4>1, <4>2, <4>3, <4>4
    <3>3. QED
      BY <1>3, <3>1, <3>2
  <2>3. QED
    BY <2>1, <2>2 DEF Ends
<1>8. Vals(nd1, q, m) = Append(Vals(nd, p, l), e)
  <2> PICK v, w : v = Vals(nd, p, l) /\ w = Vals(nd1, q, m)
    OBVIOUS
  <2>1. w \in Seq(Elems) /\ Len(w) = m /\ \A i \in 1 .. m : w[i] = nd1[q[i]].elem
    BY <1>6, RunHolds
  <2>2. /\ Append(v, e) \in Seq(Elems) /\ Len(Append(v, e)) = m
        /\ (\A i \in 1 .. l : Append(v, e)[i] = v[i]) /\ Append(v, e)[m] = e
    BY <1>1, AppendProperties
  <2>3. ASSUME NEW i \in 1 .. m PROVE w[i] = Append(v, e)[i]
    <3>1. CASE i = m
      BY <1>2, <2>1, <2>2, <3>1 DEF Grown
    <3>2. CASE i \in 1 .. l
      <4>1. p[i] \in DOMAIN nd /\ q[i] = p[i]
        BY <1>1, <1>2, <3>2
      <4>2. nd1[p[i]].elem = nd[p[i]].elem
        BY <4>1 DEF Grown
      <4>3. QED
        BY <1>1, <2>1, <2>2, <3>2, <4>1, <4>2
    <3>3. QED
      BY <1>3, <3>1, <3>2
  <2>4. QED
    BY <2>1, <2>2, <2>3, SeqEqual
<1>9. QED
  BY <1>6, <1>7, <1>8

LEMMA RunPrepend ==
  ASSUME NEW nd, NEW p, NEW l, NEW a, Run(nd, p, l, a), NEW z, NEW k, Ends(nd, p, l, z, k),
         NEW x \in Addrs, x \notin DOMAIN nd, NEW e \in Elems, NEW nd1, Grown(nd, nd1, x, e),
         nd1[x].next = a, NextLed(nd, nd1, NULL, NULL),
         k = "dlist" => nd1[x].prev = NULL /\ PrevLed(nd, nd1, a, x),
         NEW z1, l = 0 => z1 = x, l # 0 => z1 = z
  PROVE  \E q : /\ Run(nd1, q, l + 1, x) /\ Ends(nd1, q, l + 1, z1, k)
                /\ Vals(nd1, q, l + 1) = <<e>> \o Vals(nd, p, l)
<1>1. /\ l \in Nat /\ NULL \notin DOMAIN nd
      /\ \A i \in 1 .. l : p[i] \in DOMAIN nd /\ p[i] # x /\ p[i] # NULL
      /\ Vals(nd, p, l) \in Seq(Elems) /\ Len(Vals(nd, p, l)) = l
      /\ \A i \in 1 .. l : Vals(nd, p, l)[i] = nd[p[i]].elem
  BY RunHolds
<1> PICK m \in Nat : m = l + 1
  BY <1>1
<1> DEFINE q == [i \in 1 .. m |-> IF i = 1 THEN x ELSE p[i - 1]]
<1>2. /\ q[1] = x /\ 1 \in 1 .. m /\ m # 0
      /\ \A i \in 2 .. m : q[i] = p[i - 1] /\ i - 1 \in 1 .. l /\ i \in 1 .. m /\ i # 1
      /\ \A i \in 1 .. l : i + 1 \in 2 .. m /\ q[i + 1] = p[i]
  BY <1>1
<1>3. \A i \in 1 .. m : i = 1 \/ i \in 2 .. m
  BY <1>1
<1>4. q \in [1 .. m -> DOMAIN nd1]
  BY <1>1, <1>2, <1>3 DEF Grown
<1> HIDE DEF q
<1>5. a = IF l = 0 THEN NULL ELSE p[1]
  BY RunLinks
<1>6. Run(nd1, q, m, x)
  <2>1. DOMAIN nd1 \subseteq Addrs /\ nd1 \in [DOMAIN nd1 -> Cell]
    BY DEF Grown, Run
  <2>2. ASSUME NEW i \in 1 .. m, NEW j \in 1 .. m, q[i] = q[j] PROVE i = j
    <3>1. CASE i \in 2 .. m /\ j \in 2 .. m
      <4>1. i - 1 = j - 1
        BY <1>2, <2>2, <3>1, RunLinks
      <4>2. QED
        BY <1>1, <4>1
    <3>2. CASE i = 1 \/ j = 1
      BY <1>1, <1>2, <1>3, <2>2, <3>2
    <3>3. QED
      BY <1>3, <3>1, <3>2
  <2>3. ASSUME NEW b \in DOMAIN nd1 PROVE \E i \in 1 .. m : q[i] = b
    <3>1. CASE b = x
      BY <1>2, <3>1
    <3>2. CASE b # x
      <4>1. b \in DOMAIN nd
        BY <3>2 DEF Grown
      <4>2. PICK i \in 1 .. l : p[i] = b
        BY <4>1, RunLinks
      <4>3. QED
        BY <1>2, <4>2
    <3>3. QED
      BY <3>1, <3>2
  <2>4. ASSUME NEW i \in 1 .. m PROVE nd1[q[i]].next = IF i = m THEN NULL ELSE q[i + 1]
    <3>1. CASE i = 1
      <4>1. nd1[q[i]].next = IF l = 0 THEN NULL ELSE p[1]
        BY <1>2, <1>5, <3>1
      <4>2. l = 0 <=> i = m
        BY <1>1, <3>1
      <4>3. l # 0 => 1 \in 1 .. l
        BY <1>1
      <4>4. QED
        BY <1>2, <3>1, <4>1, <4>2, <4>3
    <3>2. CASE i \in 2 .. m
      <4>1. p[i - 1] \in DOMAIN nd /\ q[i] = p[i - 1] /\ p[i - 1] # NULL /\ i - 1 \in 1 .. l
        BY <1>1, <1>2, <3>2
      <4>2. nd1[p[i - 1]].next = nd[p[i - 1]].next
        BY <4>1 DEF NextLed
      <4>3. nd[p[i - 1]].next = IF i - 1 = l THEN NULL ELSE p[(i - 1) + 1]
        BY <4>1, RunLinks
      <4>4. (i - 1 = l <=> i = m) /\ (i - 1) + 1 = i /\ (i # m => i \in 1 .. l)
        <5>1. l \in Nat /\ m = l + 1 /\ i \in 2 .. m
          BY <1>1, <3>2
        <5>2. QED
          BY ONLY <5>1
      <4>5. QED
        BY <1>2, <4>1, <4>2, <4>3, <4>4
    <3>3. QED
      BY <1>3, <3>1, <3>2
  <2>5. QED
    BY <1>2, <1>4, <2>1, <2>2, <2>3, <2>4 DEF Run
<1>7. Ends(nd1, q, m, z1, k)
  <2>1. z1 = q[m]
    <3>1. CASE l = 0
      BY <1>2, <3>1
    <3>2. CASE l # 0
      <4>1. l \in 1 .. l /\ z = p[l]
        BY <1>1, <3>2 DEF Ends
      <4>2. QED
        BY <1>2, <3>2, <4>1
    <3>3. QED
      BY <3>1, <3>2
  <2>2. ASSUME k = "dlist", NEW i \in 1 .. m
        PROVE  nd1[q[i]].prev = IF i = 1 THEN NULL ELSE q[i - 1]
    <3>1. CASE i = 1
      BY <1>2, <2>2, <3>1
    <3>2. CASE i \in 2 .. m
      <4>1. p[i - 1] \in DOMAIN nd /\ q[i] = p[i - 1] /\ i - 1 \in 1 .. l /\ i # 1
        BY <1>1, <1>2, <3>2
      <4>2. nd1[p[i - 1]].prev = IF p[i - 1] = a THEN x ELSE nd[p[i - 1]].prev
        BY <2>2, <4>1 DEF PrevLed
      <4>3. nd[p[i - 1]].prev = IF i - 1 = 1 THEN NULL ELSE p[(i - 1) - 1]
        BY <2>2, <4>1 DEF Ends
      <4>4. CASE i - 1 = 1
        <5>1. p[i - 1] = a
          BY <1>1, <1>5, <4>1, <4>4
        <5>2. QED
          BY <1>2, <4>1, <4>2, <4>4, <5>1
      <4>5. CASE i - 1 # 1
        <5>1. i - 1 \in 2 .. m /\ 1 \in 1 .. l /\ l # 0
          BY <1>1, <3>2, <4>1, <4>5
        <5>2. p[i - 1] # a
          BY <1>5, <4>1, <4>5, <5>1, RunLinks
        <5>3. QED
          BY <1>2, <4>1, <4>2, <4>3, <4>5, <5>1, <5>2
      <4>6. QED
        BY <4>4, <4>5
    <3>3. QED
      BY <1>3, <3>1, <3>2
  <2>3. QED
    BY <1>2, <2>1, <2>2 DEF Ends
<1>8. Vals(nd1, q, m) = <<e>> \o Vals(nd, p, l)
  <2> PICK v, w, r : v = Vals(nd, p, l) /\ w = Vals(nd1, q, m) /\ r = <<e>> \o v
    OBVIOUS
  <2>1. w \in Seq(Elems) /\ Len(w) = m /\ \A i \in 1 .. m : w[i] = nd1[q[i]].elem
    BY <1>6, RunHolds
  <2>2. /\ r \in Seq(Elems) /\ Len(r) = m
        /\ \A i \in 1 .. m : r[i] = IF i <= 1 THEN e ELSE v[i - 1]
    <3>1. <<e>> \in Seq(Elems) /\ Len(<<e>>) = 1 /\ v \in Seq(Elems) /\ Len(v) = l /\ <<e>>[1] = e
      BY <1>1
    <3>2. /\ r \in Seq(Elems) /\ Len(r) = 1 + l
          /\ \A i \in 1 .. 1 + l : r[i] = IF i <= 1 THEN <<e>>[i] ELSE v[i - 1]
      BY <3>1, ConcatProperties
    <3>3. 1 + l = m /\ \A i \in 1 .. m : i <= 1 => i = 1
      BY <1>1
    <3>4. QED
      BY <3>1, <3>2, <3>3
  <2>3. ASSUME NEW i \in 1 .. m PROVE w[i] = r[i]
    <3>1. CASE i = 1
      BY <1>2, <2>1, <2>2, <3>1 DEF Grown
    <3>2. CASE i \in 2 .. m
      <4>1. p[i - 1] \in DOMAIN nd /\ q[i] = p[i - 1] /\ i - 1 \in 1 .. l /\ ~(i <= 1)
        BY <1>1, <1>2, <3>2
      <4>2. nd1[p[i - 1]].elem = nd[p[i - 1]].elem
        BY <4>1 DEF Grown
      <4>3. QED
        BY <1>1, <2>1, <2>2, <4>1, <4>2
    <3>3. QED
      BY <1>3, <3>1, <3>2
  <2>4. QED
    BY <2>1, <2>2, <2>3, SeqEqual
<1>9. QED
  BY <1>6, <1>7, <1>8

RestOf(p, l) == [i \in 1 .. l - 1 |-> p[i + 1]]

LEMMA RunRest ==
  ASSUME NEW nd, NEW p, NEW l, NEW a, Run(nd, p, l, a), l # 0,
         NEW nd1, Shrunk(nd, nd1, a), NextPast(nd, nd1, NULL, NULL)
  PROVE  /\ Run(nd1, RestOf(p, l), l - 1, nd[a].next)
         /\ Vals(nd1, RestOf(p, l), l - 1) = Tail(Vals(nd, p, l))
         /\ nd[a].elem = Vals(nd, p, l)[1] /\ a = p[1] /\ a \in DOMAIN nd
<1>1. /\ l \in Nat /\ NULL \notin DOMAIN nd /\ l # 0 /\ 1 \in 1 .. l
      /\ \A i \in 1 .. l : p[i] \in DOMAIN nd /\ p[i] # NULL
      /\ Vals(nd, p, l) \in Seq(Elems) /\ Len(Vals(nd, p, l)) = l
      /\ \A i \in 1 .. l : Vals(nd, p, l)[i] = nd[p[i]].elem
  BY RunHolds
<1>2. a = p[1] /\ a \in DOMAIN nd
  BY <1>1, RunLinks
<1> PICK m \in Nat : m = l - 1 /\ l = m + 1
  BY <1>1
<1> PICK q : q = RestOf(p, l)
  OBVIOUS
<1>3. /\ \A i \in 1 .. m : q[i] = p[i + 1] /\ i + 1 \in 1 .. l /\ i + 1 # 1 /\ i \in 1 .. l
      /\ DOMAIN q = 1 .. m
  BY <1>1 DEF RestOf
<1>4. \A i \in 1 .. l : i = 1 \/ (i - 1 \in 1 .. m /\ (i - 1) + 1 = i)
  BY <1>1
<1>5. \A i \in 1 .. m : q[i] \in DOMAIN nd1 /\ q[i] # NULL /\ q[i] # a
  <2> TAKE i \in 1 .. m
  <2>1. p[i + 1] # a
    BY <1>1, <1>2, <1>3, RunLinks
  <2>2. QED
    BY <1>1, <1>3, <2>1 DEF Shrunk
<1>6. q \in [1 .. m -> DOMAIN nd1]
  BY <1>3, <1>5 DEF RestOf
<1>7. nd[a].next = IF l = 1 THEN NULL ELSE p[2]
  <2>1. nd[p[1]].next = IF 1 = l THEN NULL ELSE p[1 + 1]
    BY <1>1, RunLinks
  <2>2. QED
    BY <1>2, <2>1
<1>8. nd[a].next = IF m = 0 THEN NULL ELSE q[1]
  <2>1. (l = 1 <=> m = 0) /\ (m # 0 => 1 \in 1 .. m /\ 1 + 1 = 2)
    BY <1>1
  <2>2. QED
    BY <1>3, <1>7, <2>1
<1>9. ASSUME NEW i \in 1 .. m PROVE nd1[q[i]].next = IF i = m THEN NULL ELSE q[i + 1]
  <2>1. nd1[q[i]].next = nd[q[i]].next
    BY <1>5 DEF NextPast
  <2>2. nd[p[i + 1]].next = IF i + 1 = l THEN NULL ELSE p[(i + 1) + 1]
    BY <1>3, RunLinks
  <2>3. (i + 1 = l <=> i = m) /\ (i # m => i + 1 \in 1 .. m)
    BY <1>1
  <2>4. QED
    BY <1>3, <2>1, <2>2, <2>3
<1>10. Run(nd1, q, m, nd[a].next)
  <2>1. DOMAIN nd1 \subseteq Addrs /\ nd1 \in [DOMAIN nd1 -> Cell]
    BY DEF Run, Shrunk
  <2>2. ASSUME NEW i \in 1 .. m, NEW j \in 1 .. m, q[i] = q[j] PROVE i = j
    <3>1. i + 1 = j + 1
      BY <1>3, <2>2, RunLinks
    <3>2. QED
      BY <3>1
  <2>3. ASSUME NEW b \in DOMAIN nd1 PROVE \E i \in 1 .. m : q[i] = b
    <3>1. b \in DOMAIN nd /\ b # a
      BY DEF Shrunk
    <3>2. PICK i \in 1 .. l : p[i] = b
      BY <3>1, RunLinks
    <3>3. i # 1
      BY <1>2, <3>1, <3>2
    <3>4. i - 1 \in 1 .. m /\ q[i - 1] = p[i]
      BY <1>3, <1>4, <3>3
    <3>5. QED
      BY <3>2, <3>4
  <2>4. QED
    BY <1>6, <1>8, <1>9, <2>1, <2>2, <2>3 DEF Run
<1>11. Vals(nd1, q, m) = Tail(Vals(nd, p, l))
  <2> PICK v, w, r : v = Vals(nd, p, l) /\ w = Vals(nd1, q, m) /\ r = Tail(v)
    OBVIOUS
  <2>1. w \in Seq(Elems) /\ Len(w) = m /\ \A i \in 1 .. m : w[i] = nd1[q[i]].elem
    BY <1>10, RunHolds
  <2>2. r \in Seq(Elems) /\ Len(r) = m /\ \A i \in 1 .. m : r[i] = v[i + 1]
    <3>1. v \in Seq(Elems) /\ Len(v) = l /\ v # <<>> /\ r = Tail(v) /\ l \in Nat /\ m = l - 1
      BY <1>1
    <3>2. QED
      BY ONLY <3>1, HeadTailProperties
  <2>3. \A i \in 1 .. m : w[i] = r[i]
    <3> TAKE i \in 1 .. m
    <3>1. nd1[q[i]].elem = nd[q[i]].elem
      BY <1>5 DEF Shrunk
    <3>2. v[i + 1] = nd[p[i + 1]].elem
      BY <1>1, <1>3
    <3>3. QED
      BY <1>3, <2>1, <2>2, <3>1, <3>2
  <2>4. QED
    BY <2>1, <2>2, <2>3, SeqEqual
<1>12. QED
  BY <1>1, <1>2, <1>10, <1>11

LEMMA EndsRest ==
  ASSUME NEW nd, NEW p, NEW l, NEW a, Run(nd, p, l, a), l # 0, NEW z, NEW k, Ends(nd, p, l, z, k),
         NEW nd1, Shrunk(nd, nd1, a),
         k = "dlist" => PrevPast(nd, nd1, nd[a].next, NULL),
         NEW z1, z1 = IF nd[a].next = NULL THEN NULL ELSE z
  PROVE  Ends(nd1, RestOf(p, l), l - 1, z1, k)
<1>1. /\ l \in Nat /\ NULL \notin DOMAIN nd /\ l # 0 /\ 1 \in 1 .. l /\ l \in 1 .. l
      /\ \A i \in 1 .. l : p[i] \in DOMAIN nd /\ p[i] # NULL
  BY RunHolds
<1>2. a = p[1] /\ a \in DOMAIN nd
  BY <1>1, RunLinks
<1> PICK m \in Nat : m = l - 1 /\ l = m + 1
  BY <1>1
<1> PICK q : q = RestOf(p, l)
  OBVIOUS
<1>3. \A i \in 1 .. m : q[i] = p[i + 1] /\ i + 1 \in 1 .. l /\ i + 1 # 1 /\ (i + 1) - 1 = i
  BY <1>1 DEF RestOf
<1>4. nd[a].next = IF l = 1 THEN NULL ELSE p[1 + 1]
  BY <1>1, <1>2, RunLinks
<1>5. (l = 1 <=> m = 0) /\ (m # 0 => m \in 1 .. m /\ 1 \in 1 .. m /\ 1 + 1 \in 1 .. l)
  BY <1>1
<1>6. z1 = IF m = 0 THEN NULL ELSE q[m]
  <2>1. CASE m = 0
    BY <1>4, <1>5, <2>1
  <2>2. CASE m # 0
    <3>1. z = p[l] /\ q[m] = p[l]
      BY <1>1, <1>3, <1>5, <2>2 DEF Ends
    <3>2. nd[a].next # NULL
      BY <1>1, <1>4, <1>5, <2>2
    <3>3. QED
      BY <2>2, <3>1, <3>2
  <2>3. QED
    BY <2>1, <2>2
<1>7. ASSUME k = "dlist", NEW i \in 1 .. m
      PROVE  nd1[q[i]].prev = IF i = 1 THEN NULL ELSE q[i - 1]
  <2>1. q[i] \in DOMAIN nd1
    <3>1. p[i + 1] # a /\ p[i + 1] \in DOMAIN nd
      BY <1>1, <1>2, <1>3, RunLinks
    <3>2. QED
      BY <1>3, <3>1 DEF Shrunk
  <2>2. nd1[q[i]].prev = IF q[i] = nd[a].next THEN NULL ELSE nd[q[i]].prev
    BY <1>7, <2>1 DEF PrevPast
  <2>3. CASE i = 1
    BY <1>3, <1>4, <1>5, <2>2, <2>3
  <2>4. CASE i # 1
    <3>1. i - 1 \in 1 .. m /\ (i - 1) + 1 = i /\ m # 0
      BY <2>4
    <3>2. p[i + 1] # p[1 + 1]
      <4>1. i + 1 # 1 + 1
        BY <2>4
      <4>2. QED
        BY <1>3, <1>5, <3>1, <4>1, RunLinks
    <3>3. nd[p[i + 1]].prev = p[i]
      <4>1. nd[p[i + 1]].prev = IF i + 1 = 1 THEN NULL ELSE p[(i + 1) - 1]
        BY <1>3, <1>7 DEF Ends
      <4>2. QED
        BY <1>3, <4>1
    <3>4. q[i - 1] = p[i]
      BY <1>3, <3>1
    <3>5. q[i] # nd[a].next
      BY <1>3, <1>4, <1>5, <3>1, <3>2
    <3>6. QED
      BY <1>3, <2>2, <2>4, <3>3, <3>4, <3>5
  <2>5. QED
    BY <2>3, <2>4
<1>8. QED
  BY <1>6, <1>7 DEF Ends

FrontOf(p, l) == [i \in 1 .. l - 1 |-> p[i]]

LEMMA RunFront ==
  ASSUME NEW nd, NEW p, NEW l, NEW a, Run(nd, p, l, a), l # 0, NEW z, NEW k, Ends(nd, p, l, z, k),
         NEW nd1, Shrunk(nd, nd1, z), NEW z1, z1 = IF l = 1 THEN NULL ELSE p[l - 1],
         NextPast(nd, nd1, z1, NULL), k = "dlist" => PrevPast(nd, nd1, NULL, NULL),
         NEW a1, l = 1 => a1 = NULL, l # 1 => a1 = a
  PROVE  /\ Run(nd1, FrontOf(p, l), l - 1, a1) /\ Ends(nd1, FrontOf(p, l), l - 1, z1, k)
         /\ Vals(nd1, FrontOf(p, l), l - 1) = SubSeq(Vals(nd, p, l), 1, l - 1)
         /\ nd[z].elem = Vals(nd, p, l)[l] /\ z = p[l] /\ z \in DOMAIN nd
<1>1. /\ l \in Nat /\ NULL \notin DOMAIN nd /\ l # 0 /\ l \in 1 .. l
      /\ \A i \in 1 .. l : p[i] \in DOMAIN nd /\ p[i] # NULL
      /\ Vals(nd, p, l) \in Seq(Elems) /\ Len(Vals(nd, p, l)) = l
      /\ \A i \in 1 .. l : Vals(nd, p, l)[i] = nd[p[i]].elem
  BY RunHolds
<1>2. z = p[l] /\ z \in DOMAIN nd
  BY <1>1 DEF Ends
<1> PICK m \in Nat : m = l - 1 /\ l = m + 1
  BY <1>1
<1> PICK q : q = FrontOf(p, l)
  OBVIOUS
<1>3. \A i \in 1 .. m : q[i] = p[i] /\ i \in 1 .. l /\ i # l
  BY <1>1 DEF FrontOf
<1>4. \A i \in 1 .. l : i = l \/ i \in 1 .. m
  BY <1>1
<1>5. \A i \in 1 .. m : q[i] \in DOMAIN nd1 /\ q[i] # NULL
  <2> TAKE i \in 1 .. m
  <2>1. p[i] # z
    BY <1>1, <1>2, <1>3, RunLinks
  <2>2. QED
    BY <1>1, <1>3, <2>1 DEF Shrunk
<1>6. q \in [1 .. m -> DOMAIN nd1]
  BY <1>3, <1>5 DEF FrontOf
<1>7. (l = 1 <=> m = 0) /\ (m # 0 => m \in 1 .. m /\ 1 \in 1 .. m)
  BY <1>1
<1>8. a1 = (IF m = 0 THEN NULL ELSE q[1]) /\ z1 = (IF m = 0 THEN NULL ELSE q[m])
  <2>1. a = p[1]
    BY <1>1, RunLinks
  <2>2. QED
    BY <1>3, <1>7, <2>1
<1>9. ASSUME NEW i \in 1 .. m PROVE nd1[q[i]].next = IF i = m THEN NULL ELSE q[i + 1]
  <2>1. nd1[q[i]].next = IF q[i] = z1 THEN NULL ELSE nd[q[i]].next
    BY <1>5 DEF NextPast
  <2>2. nd[p[i]].next = p[i + 1]
    BY <1>3, RunLinks
  <2>3. (i # m => i + 1 \in 1 .. m) /\ m # 0
    BY <1>1
  <2>4. i # m => q[i] # q[m]
    BY <1>3, <1>7, <2>3, RunLinks
  <2>5. QED
    BY <1>3, <1>8, <2>1, <2>2, <2>3, <2>4
<1>10. Run(nd1, q, m, a1)
  <2>1. DOMAIN nd1 \subseteq Addrs /\ nd1 \in [DOMAIN nd1 -> Cell]
    BY DEF Run, Shrunk
  <2>2. ASSUME NEW i \in 1 .. m, NEW j \in 1 .. m, q[i] = q[j] PROVE i = j
    BY <1>3, <2>2, RunLinks
  <2>3. ASSUME NEW b \in DOMAIN nd1 PROVE \E i \in 1 .. m : q[i] = b
    <3>1. b \in DOMAIN nd /\ b # z
      BY DEF Shrunk
    <3>2. PICK i \in 1 .. l : p[i] = b
      BY <3>1, RunLinks
    <3>3. i # l
      BY <1>2, <3>1, <3>2
    <3>4. QED
      BY <1>3, <1>4, <3>2, <3>3
  <2>4. QED
    BY <1>6, <1>8, <1>9, <2>1, <2>2, <2>3 DEF Run
<1>11. Ends(nd1, q, m, z1, k)
  <2>1. ASSUME k = "dlist", NEW i \in 1 .. m
        PROVE  nd1[q[i]].prev = IF i = 1 THEN NULL ELSE q[i - 1]
    <3>1. nd1[q[i]].prev = nd[p[i]].prev
      BY <1>3, <1>5, <2>1 DEF PrevPast
    <3>2. nd[p[i]].prev = IF i = 1 THEN NULL ELSE p[i - 1]
      BY <1>3, <2>1 DEF Ends
    <3>3. i # 1 => i - 1 \in 1 .. m
      OBVIOUS
    <3>4. QED
      BY <1>3, <3>1, <3>2, <3>3
  <2>2. QED
    BY <1>8, <2>1 DEF Ends
<1>12. Vals(nd1, q, m) = SubSeq(Vals(nd, p, l), 1, m)
  <2> PICK v, w, r : v = Vals(nd, p, l) /\ w = Vals(nd1, q, m) /\ r = SubSeq(v, 1, m)
    OBVIOUS
  <2>1. w \in Seq(Elems) /\ Len(w) = m /\ \A i \in 1 .. m : w[i] = nd1[q[i]].elem
    BY <1>10, RunHolds
  <2>2. r \in Seq(Elems) /\ Len(r) = m /\ \A i \in 1 .. m : r[i] = v[i]
    <3>1. v \in Seq(Elems) /\ Len(v) = l /\ r = SubSeq(v, 1, m) /\ m \in Nat /\ l = m + 1
      BY <1>1
    <3>2. QED
      BY ONLY <3>1
  <2>3. \A i \in 1 .. m : w[i] = r[i]
    <3> TAKE i \in 1 .. m
    <3>1. nd1[q[i]].elem = nd[q[i]].elem
      BY <1>5 DEF Shrunk
    <3>2. v[i] = nd[p[i]].elem
      BY <1>1, <1>3
    <3>3. QED
      BY <1>3, <2>1, <2>2, <3>1, <3>2
  <2>4. QED
    BY <2>1, <2>2, <2>3, SeqEqual
<1>13. QED
  BY <1>1, <1>2, <1>10, <1>11, <1>12

(* A chain without nodes.  *)
LEMMA RunNone == Run(<<>>, <<>>, 0, NULL) /\ Vals(<<>>, <<>>, 0) = <<>> /\ \A k : Ends(<<>>, <<>>, 0, NULL, k)
<1>1. 0 \in Nat /\ DOMAIN <<>> = {} /\ 1 .. 0 = {}
  OBVIOUS
<1>2. <<>> \in [{} -> Cell] /\ <<>> \in [1 .. 0 -> {}]
  OBVIOUS
<1>3. QED
  BY <1>1, <1>2 DEF Run, Vals, Ends

-----------------------------------------------------------------------------
(* What the assignments to links do to a set of nodes.                     *)
SetNext(nd, z, x) == [nd EXCEPT ![z].next = x]
SetPrev(nd, z, x) == [nd EXCEPT ![z].prev = x]

(* The nodes f are those of nd but for their links.                        *)
Relinked(nd, f) ==
  /\ DOMAIN f = DOMAIN nd
  /\ \A b \in DOMAIN nd : f[b] \in Cell /\ f[b].elem = nd[b].elem

LEMMA NextSet ==
  ASSUME NEW nd, nd \in [DOMAIN nd -> Cell], NEW z \in DOMAIN nd, NEW x \in Addrs \cup {NULL},
         NEW f, f = SetNext(nd, z, x)
  PROVE  /\ Relinked(nd, f) /\ NextLed(nd, f, z, x)
         /\ \A b \in DOMAIN nd : f[b].prev = nd[b].prev
<1>1. DOMAIN f = DOMAIN nd
  BY DEF SetNext
<1>2. ASSUME NEW b \in DOMAIN nd
      PROVE  /\ f[b] \in Cell /\ f[b].elem = nd[b].elem /\ f[b].prev = nd[b].prev
             /\ f[b].next = IF b = z THEN x ELSE nd[b].next
  <2>1. nd[b] \in Cell
    OBVIOUS
  <2>2. CASE b = z
    <3>1. f[b] = [nd[b] EXCEPT !.next = x]
      BY <2>2 DEF SetNext
    <3>2. QED
      BY <2>1, <2>2, <3>1 DEF Cell
  <2>3. CASE b # z
    <3>1. f[b] = nd[b]
      BY <2>3 DEF SetNext
    <3>2. QED
      BY <2>1, <2>3, <3>1
  <2>4. QED
    BY <2>2, <2>3
<1>3. QED
  BY <1>1, <1>2 DEF Relinked, NextLed

LEMMA PrevSet ==
  ASSUME NEW nd, nd \in [DOMAIN nd -> Cell], NEW z \in DOMAIN nd, NEW x \in Addrs \cup {NULL},
         NEW f, f = SetPrev(nd, z, x)
  PROVE  /\ Relinked(nd, f) /\ PrevLed(nd, f, z, x)
         /\ \A b \in DOMAIN nd : f[b].next = nd[b].next
<1>1. DOMAIN f = DOMAIN nd
  BY DEF SetPrev
<1>2. ASSUME NEW b \in DOMAIN nd
      PROVE  /\ f[b] \in Cell /\ f[b].elem = nd[b].elem /\ f[b].next = nd[b].next
             /\ f[b].prev = IF b = z THEN x ELSE nd[b].prev
  <2>1. nd[b] \in Cell
    OBVIOUS
  <2>2. CASE b = z
    <3>1. f[b] = [nd[b] EXCEPT !.prev = x]
      BY <2>2 DEF SetPrev
    <3>2. QED
      BY <2>1, <2>2, <3>1 DEF Cell
  <2>3. CASE b # z
    <3>1. f[b] = nd[b]
      BY <2>3 DEF SetPrev
    <3>2. QED
      BY <2>1, <2>3, <3>1
  <2>4. QED
    BY <2>2, <2>3
<1>3. QED
  BY <1>1, <1>2 DEF Relinked, PrevLed

LEMMA LinkedIs ==
  ASSUME NEW nd, nd \in [DOMAIN nd -> Cell], NEW f, Relinked(nd, f),
         NEW x \in Addrs, x \notin DOMAIN nd, NEW e \in Elems,
         NEW n \in Addrs \cup {NULL}, NEW r \in Addrs \cup {NULL},
         NEW nd1, nd1 = L!Linked(f, x, e, n, r)
  PROVE  /\ Grown(nd, nd1, x, e) /\ nd1[x].next = n /\ nd1[x].prev = r
         /\ \A b \in DOMAIN nd : nd1[b] = f[b]
<1> PICK c : c = [elem |-> e, next |-> n, prev |-> r]
  OBVIOUS
<1>1. c \in Cell /\ c.elem = e /\ c.next = n /\ c.prev = r
  BY DEF Cell
<1>2. /\ DOMAIN f = DOMAIN nd /\ nd1 = [b \in DOMAIN f \cup {x} |-> IF b = x THEN c ELSE f[b]]
      /\ \A b \in DOMAIN nd : f[b] \in Cell /\ f[b].elem = nd[b].elem
  BY DEF L!Linked, Relinked
<1>3. nd1 = [b \in DOMAIN nd \cup {x} |-> IF b = x THEN c ELSE f[b]]
  BY <1>2
<1>4. /\ DOMAIN nd1 = DOMAIN nd \cup {x} /\ nd1[x] = c
      /\ \A b \in DOMAIN nd : nd1[b] = f[b]
  BY <1>3
<1>5. nd1 \in [DOMAIN nd1 -> Cell]
  BY <1>1, <1>2, <1>3
<1>6. QED
  BY <1>1, <1>2, <1>4, <1>5 DEF Grown

LEMMA WithoutIs ==
  ASSUME NEW nd, nd \in [DOMAIN nd -> Cell], NULL \notin DOMAIN nd, NEW x, NEW nd1, nd1 = L!Without(nd, x)
  PROVE  Shrunk(nd, nd1, x) /\ NextPast(nd, nd1, NULL, NULL) /\ PrevPast(nd, nd1, NULL, NULL)
<1>1. nd1 = [b \in DOMAIN nd \ {x} |-> nd[b]]
  BY DEF L!Without
<1>2. DOMAIN nd1 = DOMAIN nd \ {x} /\ \A b \in DOMAIN nd1 : nd1[b] = nd[b] /\ b # NULL
  BY <1>1
<1>3. nd1 \in [DOMAIN nd1 -> Cell]
  BY <1>1
<1>4. QED
  BY <1>2, <1>3 DEF Shrunk, NextPast, PrevPast

-----------------------------------------------------------------------------
(* The calls of Lists that change the chain.                               *)
Kinds == kind \in {"list", "dlist"}
Chained(p) == Run(node, p, len, head) /\ Ends(node, p, len, tail, kind)
ChainedTo(q, s) == Run(node', q, len', head') /\ Ends(node', q, len', tail', kind') /\ Vals(node', q, len') = s

LEMMA ChainedHolds ==
  ASSUME NEW p, Chained(p)
  PROVE  /\ len \in Nat /\ NULL \notin DOMAIN node /\ DOMAIN node \subseteq Addrs
         /\ node \in [DOMAIN node -> Cell]
         /\ len = 0 => head = NULL /\ tail = NULL
         /\ len # 0 => /\ head = p[1] /\ tail = p[len] /\ 1 \in 1 .. len /\ len \in 1 .. len
                       /\ head \in DOMAIN node /\ tail \in DOMAIN node /\ head # NULL /\ tail # NULL
         /\ head \in Addrs \cup {NULL} /\ tail \in Addrs \cup {NULL}
         /\ \A i \in 1 .. len : p[i] \in DOMAIN node
<1> PICK nd, l, a : nd = node /\ l = len /\ a = head
  OBVIOUS
<1>0. Run(nd, p, l, a)
  BY DEF Chained
<1>1. /\ len \in Nat /\ NULL \notin DOMAIN node /\ DOMAIN node \subseteq Addrs
      /\ node \in [DOMAIN node -> Cell] /\ \A i \in 1 .. len : p[i] \in DOMAIN node
  <2>1. l \in Nat /\ NULL \notin DOMAIN nd /\ \A i \in 1 .. l : p[i] \in DOMAIN nd
    BY <1>0, RunHolds
  <2>2. DOMAIN nd \subseteq Addrs /\ nd \in [DOMAIN nd -> Cell]
    BY <1>0 DEF Run
  <2>3. QED
    BY <2>1, <2>2
<1>2. head = (IF len = 0 THEN NULL ELSE p[1]) /\ tail = (IF len = 0 THEN NULL ELSE p[len])
  BY DEF Chained, Run, Ends
<1>3. len # 0 => 1 \in 1 .. len /\ len \in 1 .. len
  BY <1>1
<1>4. len # 0 => head \in DOMAIN node /\ tail \in DOMAIN node /\ head # NULL /\ tail # NULL
  BY <1>1, <1>2, <1>3
<1>5. head \in Addrs \cup {NULL} /\ tail \in Addrs \cup {NULL}
  BY <1>1, <1>2, <1>4
<1>6. QED
  BY <1>1, <1>2, <1>3, <1>4, <1>5

LEMMA LPushed ==
  ASSUME NEW p, Chained(p), Kinds, kind' = kind, NEW e \in Elems, L!Pushed(e)
  PROVE  \E q : ChainedTo(q, Append(Vals(node, p, len), e))
<1> PICK x \in L!Free :
      /\ node' = L!Linked(L!NextOf(tail, x), x, e, NULL, L!Prev(tail))
      /\ head' = (IF tail = NULL THEN x ELSE head)
      /\ tail' = x /\ len' = len + 1
  BY DEF L!Pushed
<1>1. x \in Addrs /\ x \notin DOMAIN node
  BY DEF L!Free
<1>2. /\ len \in Nat /\ NULL \notin DOMAIN node /\ node \in [DOMAIN node -> Cell]
      /\ (len = 0 <=> tail = NULL) /\ tail \in Addrs \cup {NULL}
      /\ (tail # NULL => tail \in DOMAIN node)
  BY ChainedHolds
<1> PICK nd, nd1, f, r, z, a, a1, k, l :
      /\ nd = node /\ nd1 = node' /\ f = L!NextOf(tail, x) /\ r = L!Prev(tail) /\ z = tail
      /\ a = head /\ a1 = head' /\ k = kind /\ l = len
  OBVIOUS
<1>3. /\ Run(nd, p, l, a) /\ Ends(nd, p, l, z, k)
      /\ nd \in [DOMAIN nd -> Cell] /\ NULL \notin DOMAIN nd /\ x \in Addrs /\ x \notin DOMAIN nd
      /\ (z # NULL => z \in DOMAIN nd) /\ z \in Addrs \cup {NULL} /\ e \in Elems
      /\ (l = 0 <=> z = NULL) /\ a1 = (IF z = NULL THEN x ELSE a)
  BY <1>1, <1>2 DEF Chained
<1>4. /\ nd1 = L!Linked(f, x, e, NULL, r) /\ f = (IF z = NULL THEN nd ELSE SetNext(nd, z, x))
      /\ r \in Addrs \cup {NULL} /\ (k = "dlist" => r = z)
  BY <1>2 DEF L!NextOf, L!Prev, SetNext
<1>5. Relinked(nd, f) /\ NextLed(nd, f, z, x) /\ \A b \in DOMAIN nd : f[b].prev = nd[b].prev
  <2>1. CASE z = NULL
    <3>1. f = nd
      BY <1>4, <2>1
    <3>2. QED
      BY <1>3, <2>1, <3>1 DEF Relinked, NextLed
  <2>2. CASE z # NULL
    <3>1. f = SetNext(nd, z, x) /\ z \in DOMAIN nd /\ x \in Addrs \cup {NULL} /\ nd \in [DOMAIN nd -> Cell]
      BY <1>3, <1>4, <2>2
    <3>2. QED
      BY ONLY <3>1, NextSet
  <2>3. QED
    BY <2>1, <2>2
<1>6. /\ Grown(nd, nd1, x, e) /\ nd1[x].next = NULL /\ nd1[x].prev = r
      /\ \A b \in DOMAIN nd : nd1[b] = f[b]
  <2>1. NULL \in Addrs \cup {NULL}
    OBVIOUS
  <2>2. QED
    BY ONLY <1>3, <1>4, <1>5, <2>1, LinkedIs
<1>7. NextLed(nd, nd1, z, x) /\ PrevLed(nd, nd1, NULL, NULL)
  BY <1>3, <1>5, <1>6 DEF NextLed, PrevLed
<1>8. (k = "dlist" => nd1[x].prev = z /\ PrevLed(nd, nd1, NULL, NULL)) /\ (l = 0 => a1 = x) /\ (l # 0 => a1 = a)
  BY <1>3, <1>4, <1>6, <1>7
<1>9. \E q : /\ Run(nd1, q, l + 1, a1) /\ Ends(nd1, q, l + 1, x, k)
             /\ Vals(nd1, q, l + 1) = Append(Vals(nd, p, l), e)
  <2>1. /\ Run(nd, p, l, a) /\ Ends(nd, p, l, z, k) /\ x \in Addrs /\ x \notin DOMAIN nd /\ e \in Elems
        /\ Grown(nd, nd1, x, e) /\ nd1[x].next = NULL /\ NextLed(nd, nd1, z, x)
    BY <1>3, <1>6, <1>7
  <2>2. QED
    BY ONLY <2>1, <1>8, RunAppend
<1>10. QED
  BY <1>9 DEF ChainedTo

LEMMA LPushedFront ==
  ASSUME NEW p, Chained(p), Kinds, NEW e \in Elems, L!PushFront(e)
  PROVE  \E q : ChainedTo(q, <<e>> \o Vals(node, p, len))
<1> PICK x \in L!Free :
      /\ node' = L!Linked(L!PrevOf(head, x), x, e, head, NULL)
      /\ tail' = (IF head = NULL THEN x ELSE tail)
      /\ head' = x /\ len' = len + 1
  BY DEF L!PushFront
<1>1. x \in Addrs /\ x \notin DOMAIN node /\ kind' = kind
  BY DEF L!Free, L!PushFront
<1>2. /\ len \in Nat /\ NULL \notin DOMAIN node /\ node \in [DOMAIN node -> Cell]
      /\ (len = 0 <=> head = NULL) /\ head \in Addrs \cup {NULL}
      /\ (head # NULL => head \in DOMAIN node)
  BY ChainedHolds
<1> PICK nd, nd1, f, r, z, a, z1, k, l :
      /\ nd = node /\ nd1 = node' /\ f = L!PrevOf(head, x) /\ r = L!Prev(x) /\ z = tail
      /\ a = head /\ z1 = tail' /\ k = kind /\ l = len
  OBVIOUS
<1>3. /\ Run(nd, p, l, a) /\ Ends(nd, p, l, z, k)
      /\ nd \in [DOMAIN nd -> Cell] /\ NULL \notin DOMAIN nd /\ x \in Addrs /\ x \notin DOMAIN nd
      /\ (a # NULL => a \in DOMAIN nd) /\ a \in Addrs \cup {NULL} /\ e \in Elems
      /\ (l = 0 <=> a = NULL) /\ z1 = (IF a = NULL THEN x ELSE z)
  BY <1>1, <1>2 DEF Chained
<1>4. /\ nd1 = L!Linked(f, x, e, a, NULL) /\ f = (IF a = NULL THEN nd ELSE SetPrev(nd, a, r))
      /\ r \in Addrs \cup {NULL} /\ (k = "dlist" => r = x)
  BY <1>1, <1>2 DEF L!PrevOf, L!Prev, SetPrev
<1>5. Relinked(nd, f) /\ PrevLed(nd, f, a, r) /\ \A b \in DOMAIN nd : f[b].next = nd[b].next
  <2>1. CASE a = NULL
    <3>1. f = nd
      BY <1>4, <2>1
    <3>2. QED
      BY <1>3, <2>1, <3>1 DEF Relinked, PrevLed
  <2>2. CASE a # NULL
    <3>1. f = SetPrev(nd, a, r) /\ a \in DOMAIN nd /\ r \in Addrs \cup {NULL} /\ nd \in [DOMAIN nd -> Cell]
      BY <1>3, <1>4, <2>2
    <3>2. QED
      BY ONLY <3>1, PrevSet
  <2>3. QED
    BY <2>1, <2>2
<1>6. /\ Grown(nd, nd1, x, e) /\ nd1[x].next = a /\ nd1[x].prev = NULL
      /\ \A b \in DOMAIN nd : nd1[b] = f[b]
  <2>1. NULL \in Addrs \cup {NULL}
    OBVIOUS
  <2>2. QED
    BY ONLY <1>3, <1>4, <1>5, <2>1, LinkedIs
<1>7. NextLed(nd, nd1, NULL, NULL) /\ PrevLed(nd, nd1, a, r)
  BY <1>3, <1>5, <1>6 DEF NextLed, PrevLed
<1>8. (k = "dlist" => nd1[x].prev = NULL /\ PrevLed(nd, nd1, a, x)) /\ (l = 0 => z1 = x) /\ (l # 0 => z1 = z)
  BY <1>3, <1>4, <1>6, <1>7
<1>9. \E q : /\ Run(nd1, q, l + 1, x) /\ Ends(nd1, q, l + 1, z1, k)
             /\ Vals(nd1, q, l + 1) = <<e>> \o Vals(nd, p, l)
  BY ONLY <1>3, <1>6, <1>7, <1>8, RunPrepend
<1>10. QED
  BY <1>1, <1>9 DEF ChainedTo

LEMMA LPoppedFirst ==
  ASSUME NEW p, Chained(p), kind = "list", kind' = kind, head # NULL, L!ListPopFront
  PROVE  /\ \E q : ChainedTo(q, Tail(Vals(node, p, len)))
         /\ len # 0 /\ ret' = Vals(node, p, len)[1] /\ len' = len - 1
<1> PICK nd, nd1, z, a, z1, k, l :
      nd = node /\ nd1 = node' /\ z = tail /\ a = head /\ z1 = tail' /\ k = kind /\ l = len
  OBVIOUS
<1>1. /\ Run(nd, p, l, a) /\ Ends(nd, p, l, z, k) /\ l # 0
      /\ nd \in [DOMAIN nd -> Cell] /\ NULL \notin DOMAIN nd /\ nd1 = L!Without(nd, a)
      /\ z1 = (IF nd[a].next = NULL THEN NULL ELSE z) /\ (k = "dlist" => PrevPast(nd, nd1, nd[a].next, NULL))
  BY ChainedHolds DEF Chained, L!ListPopFront, L!TailAfterPop
<1>2. Shrunk(nd, nd1, a) /\ NextPast(nd, nd1, NULL, NULL)
  BY ONLY <1>1, WithoutIs
<1>3. /\ Run(nd1, RestOf(p, l), l - 1, nd[a].next)
      /\ Vals(nd1, RestOf(p, l), l - 1) = Tail(Vals(nd, p, l))
      /\ nd[a].elem = Vals(nd, p, l)[1]
  BY ONLY <1>1, <1>2, RunRest
<1>4. Ends(nd1, RestOf(p, l), l - 1, z1, k)
  BY ONLY <1>1, <1>2, EndsRest
<1>5. head' = nd[a].next /\ len' = l - 1 /\ kind' = k /\ ret' = nd[a].elem
  BY DEF L!ListPopFront
<1>6. ChainedTo(RestOf(p, l), Tail(Vals(node, p, len)))
  BY <1>3, <1>4, <1>5 DEF ChainedTo
<1>7. QED
  BY <1>1, <1>3, <1>5, <1>6

LEMMA Unlinked ==
  ASSUME node \in [DOMAIN node -> Cell], NEW a \in DOMAIN node, L!Unlink(a)
  PROVE  /\ Shrunk(node, node', a)
         /\ NextPast(node, node', node[a].prev, node[a].next)
         /\ PrevPast(node, node', node[a].next, node[a].prev)
<1> PICK nd, nd1, n, r : nd = node /\ nd1 = node' /\ n = node[a].next /\ r = node[a].prev
  OBVIOUS
<1>1. nd \in [DOMAIN nd -> Cell] /\ n \in Addrs \cup {NULL} /\ r \in Addrs \cup {NULL}
  BY CellParts
<1>2. nd1 = [b \in DOMAIN nd \ {a} |-> L!LedPast(a, b)]
  BY DEF L!Unlink
<1>3. ASSUME NEW b \in DOMAIN nd
      PROVE  /\ L!LedPast(a, b) \in Cell /\ L!LedPast(a, b).elem = nd[b].elem
             /\ L!LedPast(a, b).next = IF b = r THEN n ELSE nd[b].next
             /\ L!LedPast(a, b).prev = IF b = n THEN r ELSE nd[b].prev
  <2> PICK c, d, n1, r1 :
        /\ c = nd[b] /\ d = L!LedPast(a, b)
        /\ n1 = (IF b = r THEN n ELSE c.next) /\ r1 = (IF b = n THEN r ELSE c.prev)
    OBVIOUS
  <2>1. c \in Cell /\ c.next \in Addrs \cup {NULL} /\ c.prev \in Addrs \cup {NULL}
    BY <1>1, CellParts
  <2>2. d = [c EXCEPT !.next = n1, !.prev = r1]
    BY DEF L!LedPast
  <2>3. n1 \in Addrs \cup {NULL} /\ r1 \in Addrs \cup {NULL}
    BY <1>1, <2>1
  <2>4. d \in Cell /\ d.elem = c.elem /\ d.next = n1 /\ d.prev = r1
    BY ONLY <2>1, <2>2, <2>3 DEF Cell
  <2>5. QED
    BY <2>4
<1>4. DOMAIN nd1 = DOMAIN nd \ {a} /\ \A b \in DOMAIN nd1 : nd1[b] = L!LedPast(a, b) /\ b \in DOMAIN nd
  BY <1>2
<1>5. nd1 \in [DOMAIN nd1 -> Cell]
  BY <1>2, <1>3, <1>4
<1>6. QED
  BY <1>3, <1>4, <1>5 DEF Shrunk, NextPast, PrevPast

LEMMA LUnlinkedHead ==
  ASSUME NEW p, Chained(p), kind = "dlist", kind' = kind, head # NULL, L!Unlink(head)
  PROVE  /\ \E q : ChainedTo(q, Tail(Vals(node, p, len)))
         /\ len # 0 /\ ret' = Vals(node, p, len)[1] /\ len' = len - 1
<1> PICK nd, nd1, z, a, z1, k, l :
      nd = node /\ nd1 = node' /\ z = tail /\ a = head /\ z1 = tail' /\ k = kind /\ l = len
  OBVIOUS
<1>1. /\ Run(nd, p, l, a) /\ Ends(nd, p, l, z, k) /\ l # 0 /\ a = p[1] /\ 1 \in 1 .. l
      /\ a \in DOMAIN nd /\ nd \in [DOMAIN nd -> Cell] /\ NULL \notin DOMAIN nd
  BY ChainedHolds DEF Chained
<1>2. nd[a].prev = NULL
  <2>1. k = "dlist" => nd[p[1]].prev = NULL
    BY <1>1 DEF Ends
  <2>2. QED
    BY <1>1, <2>1
<1>3. /\ Shrunk(nd, nd1, a) /\ NextPast(nd, nd1, NULL, nd[a].next)
      /\ PrevPast(nd, nd1, nd[a].next, NULL)
  BY <1>1, <1>2, Unlinked
<1>4. NextPast(nd, nd1, NULL, NULL)
  BY <1>1, <1>3 DEF NextPast, Shrunk
<1>5. head' = nd[a].next /\ z1 = (IF nd[a].next = NULL THEN NULL ELSE z) /\ ret' = nd[a].elem
  BY <1>2 DEF L!Unlink
<1>6. /\ Run(nd1, RestOf(p, l), l - 1, nd[a].next)
      /\ Vals(nd1, RestOf(p, l), l - 1) = Tail(Vals(nd, p, l))
      /\ nd[a].elem = Vals(nd, p, l)[1]
  BY ONLY <1>1, <1>3, <1>4, RunRest
<1>7. Ends(nd1, RestOf(p, l), l - 1, z1, k)
  <2>1. k = "dlist" => PrevPast(nd, nd1, nd[a].next, NULL)
    BY <1>3
  <2>2. QED
    BY ONLY <1>1, <1>3, <1>5, <2>1, EndsRest
<1>8. len' = l - 1 /\ kind' = k
  BY DEF L!Unlink
<1>9. ChainedTo(RestOf(p, l), Tail(Vals(node, p, len)))
  BY <1>5, <1>6, <1>7, <1>8 DEF ChainedTo
<1>10. QED
  BY <1>1, <1>5, <1>6, <1>8, <1>9

LEMMA LUnlinkedTail ==
  ASSUME NEW p, Chained(p), kind = "dlist", kind' = kind, tail # NULL, L!Unlink(tail)
  PROVE  /\ \E q : ChainedTo(q, SubSeq(Vals(node, p, len), 1, len - 1))
         /\ len # 0 /\ ret' = Vals(node, p, len)[len] /\ len' = len - 1
<1> PICK nd, nd1, z, a, a1, z1, k, l :
      nd = node /\ nd1 = node' /\ z = tail /\ a = head /\ a1 = head' /\ z1 = tail' /\ k = kind /\ l = len
  OBVIOUS
<1>1. /\ Run(nd, p, l, a) /\ Ends(nd, p, l, z, k) /\ l # 0 /\ z = p[l] /\ l \in 1 .. l /\ l \in Nat
      /\ z \in DOMAIN nd /\ nd \in [DOMAIN nd -> Cell] /\ NULL \notin DOMAIN nd
      /\ \A i \in 1 .. l : p[i] \in DOMAIN nd
  BY ChainedHolds DEF Chained
<1>2. nd[z].next = NULL /\ nd[z].prev = IF l = 1 THEN NULL ELSE p[l - 1]
  <2>1. nd[p[l]].next = NULL
    BY <1>1, RunLinks
  <2>2. nd[p[l]].prev = IF l = 1 THEN NULL ELSE p[l - 1]
    BY <1>1 DEF Ends
  <2>3. QED
    BY <1>1, <2>1, <2>2
<1>3. /\ Shrunk(nd, nd1, z) /\ NextPast(nd, nd1, nd[z].prev, NULL) /\ PrevPast(nd, nd1, NULL, nd[z].prev)
  BY <1>1, <1>2, Unlinked
<1>4. PrevPast(nd, nd1, NULL, NULL)
  BY <1>1, <1>3 DEF PrevPast, Shrunk
<1>5. /\ z1 = nd[z].prev /\ a1 = (IF nd[z].prev = NULL THEN NULL ELSE a) /\ ret' = nd[z].elem
      /\ len' = l - 1 /\ kind' = k
  BY <1>2 DEF L!Unlink
<1>6. l # 1 => nd[z].prev # NULL
  <2>1. l # 1 => l - 1 \in 1 .. l
    BY <1>1
  <2>2. QED
    BY <1>1, <1>2, <2>1
<1>7. /\ z1 = (IF l = 1 THEN NULL ELSE p[l - 1]) /\ NextPast(nd, nd1, z1, NULL)
      /\ (k = "dlist" => PrevPast(nd, nd1, NULL, NULL)) /\ (l = 1 => a1 = NULL) /\ (l # 1 => a1 = a)
  BY <1>2, <1>3, <1>4, <1>5, <1>6
<1>8. /\ Run(nd1, FrontOf(p, l), l - 1, a1) /\ Ends(nd1, FrontOf(p, l), l - 1, z1, k)
      /\ Vals(nd1, FrontOf(p, l), l - 1) = SubSeq(Vals(nd, p, l), 1, l - 1)
      /\ nd[z].elem = Vals(nd, p, l)[l]
  BY ONLY <1>1, <1>3, <1>7, RunFront
<1>9. ChainedTo(FrontOf(p, l), SubSeq(Vals(node, p, len), 1, len - 1))
  BY <1>5, <1>8 DEF ChainedTo
<1>10. QED
  BY <1>1, <1>5, <1>8, <1>9

(* list_pop_back at the node before the tail.  *)
LEMMA LCut ==
  ASSUME NEW p, Chained(p), kind = "list", at \in DOMAIN node, tail # NULL, L!SeekFound
  PROVE  /\ \E q : ChainedTo(q, SubSeq(Vals(node, p, len), 1, len - 1))
         /\ len # 0 /\ ret' = Vals(node, p, len)[len] /\ len' = len - 1
<1> PICK nd, nd1, f, z, a, z1, k, l :
      /\ nd = node /\ nd1 = node' /\ f = L!Without(node, tail) /\ z = tail /\ a = head /\ z1 = at
      /\ k = kind /\ l = len
  OBVIOUS
<1>1. /\ Run(nd, p, l, a) /\ Ends(nd, p, l, z, k) /\ l # 0 /\ z = p[l] /\ l \in 1 .. l /\ l \in Nat
      /\ z \in DOMAIN nd /\ nd \in [DOMAIN nd -> Cell] /\ NULL \notin DOMAIN nd /\ z # NULL
      /\ z1 \in DOMAIN nd /\ k = "list" /\ \A i \in 1 .. l : p[i] \in DOMAIN nd
  BY ChainedHolds DEF Chained
<1>2. /\ nd1 = SetNext(f, z1, NULL) /\ nd[z1].next = z /\ ret' = nd[z].elem
      /\ head' = a /\ tail' = z1 /\ len' = l - 1 /\ kind' = k
  BY DEF L!SeekFound, L!CutAfter, L!OldTailElem, SetNext
<1>3. l # 1 /\ z1 = p[l - 1] /\ z1 # z
  <2>1. PICK i \in 1 .. l : p[i] = z1
    BY <1>1, RunLinks
  <2>2. nd[p[i]].next = IF i = l THEN NULL ELSE p[i + 1]
    BY <1>1, RunLinks
  <2>3. i # l /\ p[i + 1] = p[l]
    BY <1>1, <1>2, <2>1, <2>2
  <2>4. i + 1 \in 1 .. l
    BY <1>1, <2>1, <2>3
  <2>5. i + 1 = l
    BY <1>1, <2>3, <2>4, RunLinks
  <2>6. l - 1 = i /\ l # 1
    BY <1>1, <2>1, <2>5
  <2>7. p[i] # p[l]
    BY <1>1, <2>1, <2>3, RunLinks
  <2>8. QED
    BY <1>1, <2>1, <2>6, <2>7
<1>4. Shrunk(nd, f, z) /\ NextPast(nd, f, NULL, NULL)
  <2>1. f = L!Without(nd, z)
    OBVIOUS
  <2>2. QED
    BY ONLY <1>1, <2>1, WithoutIs
<1>5. Relinked(f, nd1) /\ NextLed(f, nd1, z1, NULL)
  <2>1. f \in [DOMAIN f -> Cell] /\ z1 \in DOMAIN f /\ NULL \in Addrs \cup {NULL}
    BY <1>1, <1>3, <1>4 DEF Shrunk
  <2>2. QED
    BY ONLY <1>2, <2>1, NextSet
<1>6. Shrunk(nd, nd1, z) /\ NextPast(nd, nd1, z1, NULL)
  <2>1. DOMAIN nd1 = DOMAIN f /\ \A b \in DOMAIN f : nd1[b] \in Cell /\ nd1[b].elem = f[b].elem
    BY <1>5 DEF Relinked
  <2>2. nd1 = [b \in DOMAIN f |-> nd1[b]]
    BY <1>2, <2>1 DEF SetNext
  <2>3. nd1 \in [DOMAIN nd1 -> Cell]
    BY <2>1, <2>2
  <2>4. QED
    BY <1>1, <1>4, <1>5, <2>1, <2>3 DEF Shrunk, NextPast, NextLed
<1>7. /\ z1 = (IF l = 1 THEN NULL ELSE p[l - 1]) /\ (k = "dlist" => PrevPast(nd, nd1, NULL, NULL))
      /\ (l = 1 => a = NULL) /\ (l # 1 => a = a)
  BY <1>1, <1>3
<1>8. /\ Run(nd1, FrontOf(p, l), l - 1, a) /\ Ends(nd1, FrontOf(p, l), l - 1, z1, k)
      /\ Vals(nd1, FrontOf(p, l), l - 1) = SubSeq(Vals(nd, p, l), 1, l - 1)
      /\ nd[z].elem = Vals(nd, p, l)[l]
  BY ONLY <1>1, <1>6, <1>7, RunFront
<1>9. ChainedTo(FrontOf(p, l), SubSeq(Vals(node, p, len), 1, len - 1))
  BY <1>2, <1>8 DEF ChainedTo
<1>10. QED
  BY <1>1, <1>2, <1>8, <1>9

LEMMA LPoppedFront ==
  ASSUME NEW p, Chained(p), Kinds, L!PopFront
  PROVE  /\ \E q : ChainedTo(q, Tail(Vals(node, p, len)))
         /\ len # 0 /\ ret' = Vals(node, p, len)[1] /\ len' = len - 1 /\ blocks' = blocks - 1
<1>1. head # NULL /\ kind' = kind /\ IF kind = "list" THEN L!ListPopFront ELSE L!Unlink(head)
  BY DEF L!PopFront, L!Popped
<1>2. CASE kind = "list"
  <2>1. L!ListPopFront /\ blocks' = blocks - 1
    BY <1>1, <1>2 DEF L!ListPopFront
  <2>2. QED
    BY <1>1, <1>2, <2>1, LPoppedFirst
<1>3. CASE kind = "dlist"
  <2>1. L!Unlink(head) /\ blocks' = blocks - 1
    BY <1>1, <1>3 DEF L!Unlink
  <2>2. QED
    BY <1>1, <1>3, <2>1, LUnlinkedHead
<1>4. QED
  BY <1>2, <1>3 DEF Kinds

(* Of one element, the rest after the first and the part before the last   *)
(* are the same.                                                           *)
LEMMA OneLeft ==
  ASSUME NEW s \in Seq(Elems), Len(s) = 1
  PROVE  Tail(s) = SubSeq(s, 1, 1 - 1)
<1>1. Tail(s) = <<>> /\ SubSeq(s, 1, 1 - 1) = <<>>
  <2>1. Tail(s) \in Seq(Elems) /\ Len(Tail(s)) = 0
    BY HeadTailProperties, EmptySeq
  <2>2. SubSeq(s, 1, 0) = <<>> /\ 1 - 1 = 0
    OBVIOUS
  <2>3. Tail(s) = <<>>
    BY <2>1, EmptySeq
  <2>4. QED
    BY <2>2, <2>3
<1>2. QED
  BY <1>1

(* list_pop_back and dlist_pop_back, where they take out a node.           *)
LPopBack == L!PopBackLinked \/ L!PopBackOnly \/ (L!SeekFound /\ kind = "list" /\ at \in DOMAIN node)

LEMMA LPoppedBack ==
  ASSUME NEW p, Chained(p), Kinds, LPopBack
  PROVE  /\ \E q : ChainedTo(q, SubSeq(Vals(node, p, len), 1, len - 1))
         /\ len # 0 /\ ret' = Vals(node, p, len)[len] /\ len' = len - 1 /\ blocks' = blocks - 1
<1>1. CASE L!PopBackLinked
  <2>1. kind = "dlist" /\ tail # NULL /\ L!Unlink(tail) /\ kind' = kind /\ blocks' = blocks - 1
    BY <1>1 DEF L!PopBackLinked, L!Popped, L!Unlink
  <2>2. QED
    BY <2>1, LUnlinkedTail
<1>2. CASE L!PopBackOnly
  <2>1. kind = "list" /\ head # NULL /\ head = tail /\ L!ListPopFront /\ kind' = kind /\ blocks' = blocks - 1
    BY <1>2 DEF L!PopBackOnly, L!Popped, L!ListPopFront
  <2>2. /\ \E q : ChainedTo(q, Tail(Vals(node, p, len)))
        /\ len # 0 /\ ret' = Vals(node, p, len)[1] /\ len' = len - 1
    BY <2>1, LPoppedFirst
  <2>3. len = 1
    <3>1. p[1] = p[len] /\ 1 \in 1 .. len /\ len \in 1 .. len
      BY <2>1, <2>2, ChainedHolds
    <3>2. QED
      BY <3>1, RunLinks DEF Chained
  <2>4. Tail(Vals(node, p, len)) = SubSeq(Vals(node, p, len), 1, len - 1)
    <3> PICK s : s = Vals(node, p, len)
      OBVIOUS
    <3>1. Run(node, p, len, head)
      BY DEF Chained
    <3>2. Vals(node, p, len) \in Seq(Elems) /\ Len(Vals(node, p, len)) = len
      BY <3>1, RunHolds
    <3>3. QED
      BY <2>3, <3>2, OneLeft, s = Vals(node, p, len)
  <2>5. QED
    BY <2>1, <2>2, <2>3, <2>4
<1>3. CASE L!SeekFound /\ kind = "list" /\ at \in DOMAIN node
  <2>1. tail # NULL
    <3>1. PICK i \in 1 .. len : p[i] = at
      BY <1>3, RunLinks DEF Chained
    <3>2. len # 0
      BY <3>1
    <3>3. QED
      BY <3>2, ChainedHolds
  <2>2. blocks' = blocks - 1
    BY <1>3 DEF L!SeekFound
  <2>3. QED
    BY <1>3, <2>1, <2>2, LCut
<1>4. QED
  BY <1>1, <1>2, <1>3 DEF LPopBack

-----------------------------------------------------------------------------
(* The elements and the nodes as Lists reads them off the links.           *)
Busy == {"clear", "destroy"}
Along(nd, l, a) == [n \in 1 .. l |-> nd[Walk(nd, a)[n - 1]].elem]
Reach(nd, l, a) == [n \in 1 .. l |-> Walk(nd, a)[n - 1]]

LEMMA ChainIs ==
  /\ L!Chain(head) = Walk(node, head) /\ L!Chain(head)' = Walk(node', head')
  /\ L!Chain(at) = Walk(node, at) /\ L!Chain(at)' = Walk(node', at')
BY DEF L!Chain, Walk

LEMMA NodesAre ==
  /\ L!Nodes = Reach(node, len, head) /\ L!Nodes' = Reach(node', len', head')
BY ChainIs DEF L!Nodes, Reach

LEMMA ReachIs ==
  ASSUME NEW nd, NEW p, NEW l, NEW a, Run(nd, p, l, a)
  PROVE  Reach(nd, l, a) = p /\ Along(nd, l, a) = Vals(nd, p, l)
<1>1. \A n \in 1 .. l : Walk(nd, a)[n - 1] = p[n]
  BY WalkIs
<1>2. p \in [1 .. l -> DOMAIN nd]
  BY DEF Run
<1>3. QED
  BY <1>1, <1>2 DEF Reach, Along, Vals

LEMMA LItemsAre ==
  /\ L!Items = (IF pc \in Busy THEN <<>> ELSE Along(node, len, head))
  /\ L!Items' = (IF pc' \in Busy THEN <<>> ELSE Along(node', len', head'))
<1>1. \A n \in 1 .. len : L!Nodes[n] = Walk(node, head)[n - 1]
  BY NodesAre DEF Reach
<1>2. \A n \in 1 .. len' : L!Nodes'[n] = Walk(node', head')[n - 1]
  BY NodesAre DEF Reach
<1>3. QED
  BY <1>1, <1>2 DEF L!Items, Busy, Along

LEMMA LKept ==
  ASSUME UNCHANGED <<node, len, head>>, pc \notin Busy, pc' \notin Busy
  PROVE  L!Items' = L!Items
BY LItemsAre

LEMMA LHeld ==
  ASSUME NEW p, Chained(p), pc \notin Busy
  PROVE  /\ L!Items = Vals(node, p, len) /\ L!Nodes = p
         /\ L!Items \in Seq(Elems) /\ Len(L!Items) = len
         /\ \A i \in 1 .. len : L!Items[i] = node[p[i]].elem /\ node[p[i]].elem \in Elems
<1>1. L!Items = Vals(node, p, len) /\ L!Nodes = p
  BY LItemsAre, NodesAre, ReachIs DEF Chained
<1>2. /\ Vals(node, p, len) \in Seq(Elems) /\ Len(Vals(node, p, len)) = len
      /\ \A i \in 1 .. len : /\ Vals(node, p, len)[i] = node[p[i]].elem
                             /\ node[p[i]].elem \in Elems
  BY RunHolds DEF Chained
<1>3. QED
  BY <1>1, <1>2

LEMMA LComes ==
  ASSUME NEW q, NEW s, ChainedTo(q, s), pc' \notin Busy
  PROVE  L!Items' = s
BY LItemsAre, ReachIs DEF ChainedTo

-----------------------------------------------------------------------------
(* The invariant of list_t and dlist_t.                                    *)

LIterators == [on : BOOLEAN, fwd : BOOLEAN, current : Addrs \cup {NULL}, seen : Seq(Elems)]

(* All the nodes are on the chain from head to tail, or on what clear has  *)
(* yet to free.                                                            *)
LChain ==
  /\ pc \notin Busy => \E p : Chained(p)
  /\ pc \in Busy => \E p, m : Run(node, p, m, at)

(* A walk towards the tail has not reached it.                             *)
LStanding ==
  /\ pc \in {"none", "idle", "seek", "extend", "feeding"} \cup Busy
  /\ it.on => pc = "idle"
  /\ pc = "seek" => kind = "list" /\ at \in DOMAIN node /\ at # tail
  /\ pc \notin {"seek"} \cup Busy => at = NULL
  /\ pc = "extend" => feed \in Sources
  /\ feed \in Seq(Elems) /\ len \in Nat

LInv ==
  /\ Kinds /\ LChain /\ LStanding
  /\ it \in LIterators /\ (~it.on => it = L!NoIter) /\ (it.on /\ ~it.fwd => kind = "dlist")
  /\ blocks \in Int /\ L!NothingLeaks /\ L!IterInOrder

(* Lists takes Cardinality from FiniteSets as these theorems do.           *)
LEMMA CardIs == \A S : L!Cardinality(S) = Cardinality(S)
BY DEF L!Cardinality, Cardinality

LEMMA InitL == L!Init => LInv
<1> SUFFICES ASSUME L!Init PROVE LInv
  OBVIOUS
<1>1. /\ kind \in {"list", "dlist"} /\ head = NULL /\ tail = NULL /\ len = 0 /\ node = <<>> /\ at = NULL
      /\ it = L!NoIter /\ pc = "none" /\ feed = <<>> /\ blocks = 0
  BY DEF L!Init
<1>2. <<>> \in Seq(Elems) /\ DOMAIN <<>> = {} /\ pc \notin Busy
  BY <1>1 DEF Busy
<1>3. Chained(<<>>)
  BY <1>1, RunNone DEF Chained
<1>4. Cardinality(DOMAIN node) = 0
  BY <1>1, <1>2, FS_EmptySet
<1>5. it \in LIterators /\ it.on = FALSE
  BY <1>1, <1>2 DEF LIterators, L!NoIter
<1>6. LStanding /\ L!IterInOrder
  BY <1>1, <1>2, <1>5 DEF LStanding, L!IterInOrder
<1>7. L!NothingLeaks
  BY <1>1, <1>4, <1>5, CardIs DEF L!NothingLeaks, L!ExtendBlocks
<1>8. QED
  BY <1>1, <1>2, <1>3, <1>5, <1>6, <1>7 DEF LInv, Kinds, LChain

(* The calls that leave all but the chain, ret and blocks alone.           *)
LCalls ==
  \/ L!PushRefused \/ L!Front \/ L!Back \/ L!PopNothing \/ L!PopFront
  \/ L!PopBackLinked \/ L!PopBackOnly
  \/ \E e \in Elems : L!PushBack(e) \/ L!PushFront(e)

LClears == L!ClearStart("clear") \/ L!ClearStart("destroy") \/ L!ClearNode \/ L!ClearEnd

LEMMA LNext ==
  ASSUME [L!Next]_(L!vars)
  PROVE  \/ UNCHANGED L!vars \/ LCalls \/ L!Create
         \/ L!PopBackWalk \/ L!Seek \/ L!SeekFound \/ LClears
         \/ (\E fwd \in BOOLEAN : L!IterOpen(fwd)) \/ L!IterNext \/ L!IterDrop
         \/ L!ExtendStart \/ L!ExtendStep
BY DEF L!Next, L!Call, L!Walk, L!Iterate, LCalls, LClears

LEMMA LCallsLeave ==
  ASSUME LCalls
  PROVE  pc = "idle" /\ UNCHANGED <<kind, at, it, pc, feed>>
<1>1. CASE L!PushRefused \/ L!Front \/ L!Back \/ L!PopNothing \/ L!PopFront
  BY <1>1 DEF L!PushRefused, L!Front, L!Back, L!PopNothing, L!PopFront, L!Popped, L!Quiet
<1>2. CASE L!PopBackLinked \/ L!PopBackOnly
  BY <1>2 DEF L!PopBackLinked, L!PopBackOnly, L!Popped, L!Quiet
<1>3. CASE \E e \in Elems : L!PushBack(e) \/ L!PushFront(e)
  BY <1>3 DEF L!PushBack, L!PushFront, L!Quiet
<1>4. QED
  BY <1>1, <1>2, <1>3 DEF LCalls

(* Every step leaves the chain alone, or is one of these.                  *)
LEMMA LStep ==
  ASSUME [L!Next]_(L!vars)
  PROVE  \/ UNCHANGED L!list
         \/ L!PopFront \/ L!PopBackLinked \/ L!PopBackOnly \/ L!SeekFound
         \/ (\E e \in Elems : (L!PushBack(e) \/ L!PushFront(e)))
         \/ L!ClearNode \/ L!ClearEnd
         \/ (L!FeedOne(L!Pushed(Head(feed))) /\ UNCHANGED <<kind, at, it>>)
<1>1. CASE UNCHANGED L!vars \/ L!Create \/ L!PushRefused \/ L!Front \/ L!Back \/ L!PopNothing
           \/ L!PopBackWalk \/ L!Seek
  BY <1>1 DEF L!vars, L!Create, L!PushRefused, L!Front, L!Back, L!PopNothing, L!PopBackWalk, L!Seek
<1>2. CASE L!ClearStart("clear") \/ L!ClearStart("destroy") \/ L!IterNext \/ L!IterDrop
           \/ \E fwd \in BOOLEAN : L!IterOpen(fwd)
  BY <1>2 DEF L!ClearStart, L!IterOpen, L!IterNext, L!IterDrop
<1>3. CASE L!ExtendStart \/ L!ExtendStep
  BY <1>3 DEF L!ExtendStart, L!ExtendStep
<1>4. QED
  BY <1>1, <1>2, <1>3, LNext DEF LCalls, LClears

LEMMA LStandingKept ==
  ASSUME LInv, [L!Next]_(L!vars)
  PROVE  LStanding' /\ Kinds' /\ UNCHANGED kind
<1>1. /\ LStanding /\ Kinds /\ Busy = {"clear", "destroy"} /\ len \in Nat /\ feed \in Seq(Elems)
      /\ <<>> \in Seq(Elems)
  BY DEF LInv, Busy, LStanding
<1>2. CASE UNCHANGED L!vars
  BY <1>1, <1>2 DEF L!vars, L!list, LStanding, Kinds, Busy
<1>3. CASE LCalls
  <2>1. pc = "idle" /\ UNCHANGED <<kind, at, it, pc, feed>>
    BY <1>3, LCallsLeave
  <2>2. PICK p : Chained(p)
    BY <1>1, <2>1 DEF LInv, LChain
  <2>3. len' \in Nat
    <3>1. CASE L!PushRefused \/ L!Front \/ L!Back \/ L!PopNothing
      BY <1>1, <3>1 DEF L!PushRefused, L!Front, L!Back, L!PopNothing, L!list
    <3>2. CASE L!PopFront
      BY <1>1, <2>2, <3>2, LPoppedFront
    <3>3. CASE L!PopBackLinked \/ L!PopBackOnly
      BY <1>1, <2>2, <3>3, LPoppedBack DEF LPopBack
    <3>4. CASE \E e \in Elems : L!PushBack(e) \/ L!PushFront(e)
      BY <1>1, <3>4 DEF L!PushBack, L!PushFront, L!Pushed
    <3>5. QED
      BY <1>3, <3>1, <3>2, <3>3, <3>4 DEF LCalls
  <2>4. QED
    BY <1>1, <2>1, <2>3 DEF LStanding, Kinds, Busy
<1>4. CASE L!Create \/ L!PopBackWalk \/ L!ClearStart("clear") \/ L!ClearStart("destroy")
  <2>1. /\ UNCHANGED <<kind, len, node, tail, it, feed>> /\ pc' \in {pc, "idle", "seek"} \cup Busy
        /\ (pc' \notin {"idle", "none"} => ~it.on)
        /\ (pc' \notin {"seek"} \cup Busy => at' = at) /\ pc \in {"none", "idle"}
    BY <1>4, <1>1 DEF L!Create, L!PopBackWalk, L!ClearStart, L!Quiet, L!list
  <2>2. pc' = "seek" => kind' = "list" /\ at' \in DOMAIN node' /\ at' # tail'
    <3>1. CASE L!PopBackWalk
      <4>1. PICK p : Chained(p)
        BY <1>1, <3>1 DEF LInv, LChain, L!PopBackWalk, L!Quiet
      <4>2. head # tail /\ at' = head /\ kind = "list" /\ UNCHANGED <<kind, node, tail>>
        BY <3>1 DEF L!PopBackWalk, L!list
      <4>3. head \in DOMAIN node
        BY <4>1, <4>2, ChainedHolds
      <4>4. QED
        BY <4>2, <4>3
    <3>2. CASE ~L!PopBackWalk
      BY <1>1, <1>4, <3>2 DEF L!Create, L!ClearStart, LStanding
    <3>3. QED
      BY <3>1, <3>2
  <2>3. (it.on => pc' = "idle") /\ pc' # "extend"
    BY <1>1, <1>4, <2>1 DEF LStanding, L!Create, L!PopBackWalk, L!ClearStart, L!Quiet
  <2>4. QED
    BY <1>1, <2>1, <2>2, <2>3 DEF LStanding, Kinds, Busy
<1>5. CASE L!Seek
  <2>1. /\ pc = "seek" /\ kind = "list" /\ at \in DOMAIN node /\ at # tail /\ node[at].next # tail
        /\ at' = node[at].next /\ UNCHANGED <<kind, len, node, tail, it, pc, feed>>
    BY <1>1, <1>5 DEF L!Seek, LStanding, L!list
  <2>2. PICK p : Chained(p)
    BY <1>1, <2>1 DEF LInv, LChain
  <2>3. PICK i \in 1 .. len : p[i] = at
    BY <2>1, <2>2, RunLinks DEF Chained
  <2>4. len # 0 /\ tail = p[len]
    BY <2>2, <2>3, ChainedHolds
  <2>5. i # len
    BY <2>1, <2>3, <2>4
  <2>6. node[at].next = p[i + 1]
    BY <2>2, <2>3, <2>5, RunLinks DEF Chained
  <2>7. i + 1 \in 1 .. len
    BY <1>1, <2>3, <2>5
  <2>8. at' \in DOMAIN node
    BY <2>1, <2>2, <2>6, <2>7, ChainedHolds
  <2>9. QED
    BY <1>1, <2>1, <2>8 DEF LStanding, Kinds, Busy
<1>6. CASE L!SeekFound
  <2>1. pc = "seek" /\ pc' = "idle" /\ at' = NULL /\ UNCHANGED <<kind, it, feed>>
    BY <1>6 DEF L!SeekFound
  <2>2. PICK p : Chained(p)
    BY <1>1, <2>1 DEF LInv, LChain
  <2>3. len' = len - 1 /\ len # 0
    BY <1>1, <1>6, <2>1, <2>2, LPoppedBack DEF LPopBack, LStanding
  <2>4. len' \in Nat
    BY <1>1, <2>3
  <2>5. QED
    BY <1>1, <2>1, <2>4 DEF LStanding, Kinds, Busy
<1>7. CASE L!ClearNode \/ L!ClearEnd
  BY <1>1, <1>7 DEF L!ClearNode, L!ClearEnd, LStanding, Kinds, Busy
<1>8. CASE (\E fwd \in BOOLEAN : L!IterOpen(fwd)) \/ L!IterNext \/ L!IterDrop
  BY <1>1, <1>8 DEF L!IterOpen, L!IterNext, L!IterDrop, L!Quiet, L!list, LStanding, Kinds, Busy
<1>9. CASE L!ExtendStart
  BY <1>1, <1>9, RingBufAssumption DEF L!ExtendStart, L!ExtendCall, L!list, LStanding, Kinds, Busy
<1>10. CASE L!ExtendStep
  <2>1. CASE (L!ExtendRefused \/ L!ExtendScratch \/ L!FeedRefused(TRUE) \/ L!FeedDone)
             /\ UNCHANGED <<kind, L!list, at, it>>
    <3>1. pc \in {"extend", "feeding"} /\ pc' \in {"idle", "feeding"} /\ feed' \in {feed, <<>>}
      BY <2>1 DEF L!ExtendRefused, L!ExtendScratch, L!FeedRefused, L!FeedDone, L!FeedEnd
    <3>2. UNCHANGED <<kind, len, at, it>>
      BY <2>1 DEF L!list
    <3>3. QED
      BY <1>1, <3>1, <3>2 DEF LStanding, Kinds, Busy
  <2>2. CASE L!FeedOne(L!Pushed(Head(feed))) /\ UNCHANGED <<kind, at, it>>
    <3>1. feed # <<>> /\ feed' = Tail(feed) /\ UNCHANGED <<kind, pc, at, it>> /\ len' = len + 1
          /\ pc = "feeding"
      BY <2>2 DEF L!FeedOne, L!Pushed
    <3>2. feed' \in Seq(Elems)
      BY <1>1, <3>1, HeadTailProperties
    <3>3. QED
      BY <1>1, <3>1, <3>2 DEF LStanding, Kinds, Busy
  <2>3. QED
    BY <1>10, <2>1, <2>2 DEF L!ExtendStep
<1>11. QED
  BY <1>2, <1>3, <1>4, <1>5, <1>6, <1>7, <1>8, <1>9, <1>10, LNext DEF LClears

(* The nodes clear has left, after one more.                               *)
LEMMA LFreed ==
  ASSUME NEW p, NEW m, Run(node, p, m, at), L!ClearNode
  PROVE  m # 0 /\ Run(node', RestOf(p, m), m - 1, at')
<1> PICK nd, nd1, a : nd = node /\ nd1 = node' /\ a = at
  OBVIOUS
<1>1. Run(nd, p, m, a) /\ a # NULL /\ nd1 = L!Without(nd, a) /\ at' = nd[a].next
  BY DEF L!ClearNode
<1>2. m # 0
  BY <1>1, RunLinks
<1>3. nd \in [DOMAIN nd -> Cell] /\ NULL \notin DOMAIN nd
  <2>1. NULL \notin DOMAIN nd
    BY <1>1, RunHolds
  <2>2. nd \in [DOMAIN nd -> Cell]
    BY <1>1 DEF Run
  <2>3. QED
    BY <2>1, <2>2
<1>4. Shrunk(nd, nd1, a) /\ NextPast(nd, nd1, NULL, NULL)
  BY ONLY <1>1, <1>3, WithoutIs
<1>5. Run(nd1, RestOf(p, m), m - 1, nd[a].next)
  BY ONLY <1>1, <1>2, <1>4, RunRest
<1>6. QED
  BY <1>1, <1>2, <1>5

LEMMA LAllFreed ==
  ASSUME NEW p, NEW m, Run(node, p, m, at), at = NULL
  PROVE  node = <<>> /\ DOMAIN node = {}
<1>1. m = 0
  <2>1. m # 0 => 1 \in 1 .. m /\ at = p[1]
    BY RunHolds, RunLinks
  <2>2. QED
    BY <2>1, RunHolds
<1>2. DOMAIN node = {}
  <2>1. \A b \in DOMAIN node : \E i \in 1 .. m : p[i] = b
    BY RunLinks
  <2>2. 1 .. m = {}
    BY <1>1
  <2>3. QED
    BY <2>1, <2>2
<1>3. node = [b \in DOMAIN node |-> node[b]]
  BY DEF Run
<1>4. QED
  BY <1>2, <1>3

LEMMA LChainKept ==
  ASSUME LInv, [L!Next]_(L!vars)
  PROVE  LChain'
<1>1. LChain /\ LStanding /\ Kinds /\ Busy = {"clear", "destroy"} /\ kind' = kind
  BY LStandingKept DEF LInv, Busy
<1>2. SUFFICES /\ (pc' \notin Busy => \E q : Run(node', q, len', head') /\ Ends(node', q, len', tail', kind'))
               /\ (pc' \in Busy => \E q, m : Run(node', q, m, at'))
  BY DEF LChain, Chained, Busy
<1>3. ASSUME NEW q, NEW s, ChainedTo(q, s)
      PROVE  \E r : Run(node', r, len', head') /\ Ends(node', r, len', tail', kind')
  BY <1>3 DEF ChainedTo
<1>4. CASE L!PopFront \/ L!PopBackLinked \/ L!PopBackOnly \/ L!SeekFound
  <2>1. pc \notin Busy /\ pc' = "idle"
    BY <1>1, <1>4, LCallsLeave DEF LCalls, L!SeekFound
  <2>2. PICK p : Chained(p)
    BY <1>1, <2>1 DEF LChain
  <2>3. CASE L!PopFront
    BY <1>1, <1>3, <2>1, <2>2, <2>3, LPoppedFront
  <2>4. CASE L!PopBackLinked \/ L!PopBackOnly \/ L!SeekFound
    <3>1. LPopBack
      BY <1>1, <2>4 DEF LPopBack, LStanding, L!SeekFound
    <3>2. QED
      BY <1>1, <1>3, <2>1, <2>2, <3>1, LPoppedBack
  <2>5. QED
    BY <1>4, <2>3, <2>4
<1>5. ASSUME NEW e \in Elems, L!PushBack(e) \/ L!PushFront(e)
      PROVE  pc' \notin Busy /\ \E r : Run(node', r, len', head') /\ Ends(node', r, len', tail', kind')
  <2>1. pc \notin Busy /\ pc' = "idle"
    BY <1>1, <1>5, LCallsLeave DEF LCalls
  <2>2. PICK p : Chained(p)
    BY <1>1, <2>1 DEF LChain
  <2>3. CASE L!PushBack(e)
    <3>1. L!Pushed(e)
      BY <2>3 DEF L!PushBack
    <3>2. \E q : ChainedTo(q, Append(Vals(node, p, len), e))
      BY <1>1, <2>2, <3>1, LPushed
    <3>3. QED
      BY <1>1, <1>3, <2>1, <3>2
  <2>4. CASE L!PushFront(e)
    <3>1. \E q : ChainedTo(q, <<e>> \o Vals(node, p, len))
      BY <1>1, <2>2, <2>4, LPushedFront
    <3>2. QED
      BY <1>1, <1>3, <2>1, <3>1
  <2>5. QED
    BY <1>5, <2>3, <2>4
<1>6. CASE L!FeedOne(L!Pushed(Head(feed))) /\ UNCHANGED <<kind, at, it>>
  <2>1. feed # <<>> /\ pc' = pc /\ pc = "feeding" /\ L!Pushed(Head(feed)) /\ feed \in Seq(Elems)
    BY <1>1, <1>6 DEF L!FeedOne, LStanding
  <2>2. Head(feed) \in Elems
    BY <2>1, HeadTailProperties
  <2>3. PICK p : Chained(p)
    BY <1>1, <2>1 DEF LChain
  <2>4. \E q : ChainedTo(q, Append(Vals(node, p, len), Head(feed)))
    BY <1>1, <2>1, <2>2, <2>3, LPushed
  <2>5. QED
    BY <1>1, <1>3, <2>1, <2>4
<1>7. CASE L!ClearNode
  <2>1. pc \in Busy /\ pc' = pc
    BY <1>1, <1>7 DEF L!ClearNode
  <2>2. PICK p, m : Run(node, p, m, at)
    BY <1>1, <2>1 DEF LChain
  <2>3. QED
    BY <1>7, <2>1, <2>2, LFreed
<1>8. CASE L!ClearEnd
  <2>1. /\ pc \in Busy /\ pc' \notin Busy /\ at = NULL /\ node' = node
        /\ head' = NULL /\ tail' = NULL /\ len' = 0
    BY <1>1, <1>8 DEF L!ClearEnd
  <2>2. PICK p, m : Run(node, p, m, at)
    BY <1>1, <2>1 DEF LChain
  <2>3. node' = <<>>
    BY <2>1, <2>2, LAllFreed
  <2>4. QED
    BY <2>1, <2>3, RunNone
<1>9. CASE UNCHANGED L!list
  <2>1. CASE pc \in Busy
    <3>1. (pc' \in Busy /\ at' = at) \/ L!ClearEnd \/ L!ClearNode
      BY <1>1, <2>1, LNext, LCallsLeave DEF LClears, L!vars, L!Create, L!PopBackWalk, L!Seek, L!SeekFound,
         L!ClearStart, L!Quiet, L!IterOpen, L!IterNext, L!IterDrop, L!ExtendStart, L!ExtendCall,
         L!ExtendStep, L!ExtendRefused, L!ExtendScratch, L!FeedOne, L!FeedRefused, L!FeedDone, L!FeedEnd
    <3>2. QED
      BY <1>1, <1>7, <1>8, <1>9, <2>1, <3>1 DEF LChain, L!list
  <2>2. CASE pc \notin Busy
    <3>1. PICK p : Chained(p)
      BY <1>1, <2>2 DEF LChain
    <3>2. Run(node', p, len', head') /\ Ends(node', p, len', tail', kind')
      BY <1>1, <1>9, <3>1 DEF Chained, L!list
    <3>3. pc' \in Busy => at' = head
      BY <1>1, <2>2, LNext, LCallsLeave DEF LClears, L!vars, L!Create, L!PopBackWalk, L!Seek, L!SeekFound,
         L!ClearStart, L!ClearNode, L!ClearEnd, L!IterOpen, L!IterNext, L!IterDrop, L!ExtendStart,
         L!ExtendCall, L!ExtendStep, L!ExtendRefused, L!ExtendScratch, L!FeedOne, L!FeedRefused,
         L!FeedDone, L!FeedEnd
    <3>4. QED
      BY <1>9, <3>2, <3>3 DEF L!list
  <2>3. QED
    BY <2>1, <2>2
<1>10. QED
  BY <1>4, <1>5, <1>6, <1>7, <1>8, <1>9, LStep

LEMMA LSize ==
  ASSUME LInv
  PROVE  Cardinality(DOMAIN node) \in Nat /\ (pc \notin Busy => Cardinality(DOMAIN node) = len)
<1>1. CASE pc \in Busy
  <2>1. PICK p, m : Run(node, p, m, at)
    BY <1>1 DEF LInv, LChain
  <2>2. Cardinality(DOMAIN node) = m /\ m \in Nat
    BY <2>1, RunCount, RunHolds
  <2>3. QED
    BY <1>1, <2>2
<1>2. CASE pc \notin Busy
  <2>1. PICK p : Chained(p)
    BY <1>2 DEF LInv, LChain
  <2>2. Cardinality(DOMAIN node) = len /\ len \in Nat
    BY <2>1, RunCount, RunHolds DEF Chained
  <2>3. QED
    BY <2>2
<1>3. QED
  BY <1>1, <1>2

LEMMA LSizeNext ==
  ASSUME LChain', pc' \notin Busy
  PROVE  Cardinality(DOMAIN node') = len'
<1>1. PICK q : Run(node', q, len', head')
  BY DEF LChain, Chained, Busy
<1>2. QED
  BY <1>1, RunCount

LEMMA LBlocksKept ==
  ASSUME LInv, [L!Next]_(L!vars)
  PROVE  L!NothingLeaks' /\ blocks' \in Int
<1> PICK c, d : c = Cardinality(DOMAIN node) /\ d = Cardinality(DOMAIN node')
  OBVIOUS
<1>1. /\ LStanding /\ Kinds /\ it.on \in BOOLEAN /\ blocks \in Int /\ c \in Nat /\ len \in Nat /\ len' \in Nat
      /\ Busy = {"clear", "destroy"} /\ (pc \notin Busy => c = len)
      /\ (UNCHANGED node => d = c) /\ (pc' \notin Busy => d = len')
      /\ pc \in {"none", "idle", "seek", "extend", "feeding", "clear", "destroy"}
  BY LSize, LSizeNext, LChainKept, LStandingKept DEF LInv, LIterators, LStanding, Busy
<1>2. blocks = (IF pc = "none" THEN 0 ELSE 1) + c + (IF it.on THEN 1 ELSE 0) + L!ExtendBlocks
  BY CardIs DEF LInv, L!NothingLeaks
<1>3. SUFFICES /\ blocks' = (IF pc' = "none" THEN 0 ELSE 1) + d + (IF it'.on THEN 1 ELSE 0) + (L!ExtendBlocks)'
               /\ blocks' \in Int
  BY CardIs DEF L!NothingLeaks
<1> USE DEF L!ExtendBlocks
<1>4. CASE UNCHANGED L!vars
  BY <1>1, <1>2, <1>4 DEF L!vars, L!list
<1>5. CASE LCalls
  <2>1. pc = "idle" /\ UNCHANGED <<it, pc>>
    BY <1>5, LCallsLeave
  <2>2. PICK p : Chained(p)
    BY <1>1, <2>1 DEF LInv, LChain
  <2>3. blocks' = blocks + (len' - len)
    <3>1. CASE L!PushRefused \/ L!Front \/ L!Back \/ L!PopNothing
      BY <1>1, <3>1 DEF L!PushRefused, L!Front, L!Back, L!PopNothing, L!list
    <3>2. CASE L!PopFront
      <4>1. len' = len - 1 /\ blocks' = blocks - 1
        BY <1>1, <2>2, <3>2, LPoppedFront
      <4>2. QED
        BY <1>1, <4>1
    <3>3. CASE L!PopBackLinked \/ L!PopBackOnly
      <4>1. len' = len - 1 /\ blocks' = blocks - 1
        BY <1>1, <2>2, <3>3, LPoppedBack DEF LPopBack
      <4>2. QED
        BY <1>1, <4>1
    <3>4. CASE \E e \in Elems : L!PushBack(e) \/ L!PushFront(e)
      <4>1. len' = len + 1 /\ blocks' = blocks + 1
        BY <3>4 DEF L!PushBack, L!PushFront, L!Pushed
      <4>2. QED
        BY <1>1, <4>1
    <3>5. QED
      BY <1>5, <3>1, <3>2, <3>3, <3>4 DEF LCalls
  <2>4. QED
    BY <1>1, <1>2, <2>1, <2>3
<1>6. CASE L!SeekFound
  <2>1. pc = "seek" /\ pc' = "idle" /\ UNCHANGED it /\ len' = len - 1 /\ blocks' = blocks - 1
    BY <1>6 DEF L!SeekFound
  <2>2. QED
    BY <1>1, <1>2, <2>1
<1>7. CASE L!Create \/ L!PopBackWalk \/ L!Seek \/ L!ClearStart("clear") \/ L!ClearStart("destroy")
  BY <1>1, <1>2, <1>7 DEF L!Create, L!PopBackWalk, L!Seek, L!ClearStart, L!Quiet, L!list
<1>8. CASE L!ClearNode
  <2>1. pc \in Busy /\ UNCHANGED <<pc, it>> /\ blocks' = blocks - 1
    BY <1>1, <1>8 DEF L!ClearNode
  <2>2. PICK p, m : Run(node, p, m, at)
    BY <2>1 DEF LInv, LChain
  <2>3. Run(node', RestOf(p, m), m - 1, at') /\ m \in Nat
    BY <1>8, <2>2, LFreed, RunHolds
  <2>4. c = m /\ d = m - 1
    BY <2>2, <2>3, RunCount
  <2>5. QED
    BY <1>1, <1>2, <2>1, <2>3, <2>4
<1>9. CASE L!ClearEnd
  BY <1>1, <1>2, <1>9 DEF L!ClearEnd, L!ListFree
<1>10. CASE (\E fwd \in BOOLEAN : L!IterOpen(fwd)) \/ L!IterDrop
  BY <1>1, <1>2, <1>10 DEF L!IterOpen, L!IterDrop, L!NoIter, L!Quiet, L!list
<1>11. CASE L!IterNext
  <2>1. it'.on = it.on /\ UNCHANGED <<node, pc, blocks>>
    BY <1>11 DEF L!IterNext, L!list, LInv, LIterators
  <2>2. QED
    BY <1>1, <1>2, <2>1
<1>12. CASE L!ExtendStart
  BY <1>1, <1>2, <1>12 DEF L!ExtendStart, L!ExtendCall, L!list
<1>13. CASE (L!ExtendRefused \/ L!ExtendScratch) /\ UNCHANGED <<kind, L!list, at, it>>
  BY <1>1, <1>2, <1>13 DEF L!ExtendRefused, L!ExtendScratch, L!IterDestroy, L!list
<1>14. CASE (L!FeedRefused(TRUE) \/ L!FeedDone) /\ UNCHANGED <<kind, L!list, at, it>>
  BY <1>1, <1>2, <1>14 DEF L!FeedRefused, L!FeedDone, L!FeedEnd, L!IterDestroy, L!ScratchFree, L!list
<1>15. CASE L!FeedOne(L!Pushed(Head(feed))) /\ UNCHANGED <<kind, at, it>>
  <2>1. pc = "feeding" /\ UNCHANGED <<pc, it>> /\ len' = len + 1 /\ blocks' = blocks + 1
    BY <1>15 DEF L!FeedOne, L!Pushed
  <2>2. QED
    BY <1>1, <1>2, <2>1
<1>16. QED
  BY <1>4, <1>5, <1>6, <1>7, <1>8, <1>9, <1>10, <1>11, <1>12, <1>13, <1>14, <1>15, LNext
     DEF L!ExtendStep, LClears

(* While an iterator is open the chain stays as it is.                     *)
LEMMA LNoChangeUnderIter ==
  ASSUME LInv, [L!Next]_(L!vars), it.on \/ it'.on
  PROVE  UNCHANGED L!list /\ pc \notin Busy /\ pc' \notin Busy
<1>1. (it.on => pc = "idle") /\ (it'.on => pc' = "idle") /\ (pc = "idle" => pc \notin Busy)
      /\ (pc' = "idle" => pc' \notin Busy)
  BY LStandingKept DEF LInv, LStanding, Busy
<1>2. CASE it.on
  <2>1. pc = "idle" /\ it.on
    BY <1>1, <1>2
  <2>2. UNCHANGED L!list
    BY <2>1, LStep DEF L!PopFront, L!PopBackLinked, L!PopBackOnly, L!SeekFound, L!PushBack, L!PushFront,
       L!ClearNode, L!ClearEnd, L!FeedOne, L!Quiet
  <2>3. pc' = pc
    BY <2>1, LNext, LCallsLeave DEF LClears, L!vars, L!Create, L!PopBackWalk, L!Seek, L!SeekFound,
       L!ClearStart, L!ClearNode, L!ClearEnd, L!Quiet, L!IterOpen, L!IterNext, L!IterDrop, L!ExtendStart,
       L!ExtendStep, L!ExtendRefused, L!ExtendScratch, L!FeedOne, L!FeedRefused, L!FeedDone, L!FeedEnd
  <2>4. QED
    BY <1>1, <2>1, <2>2, <2>3
<1>3. CASE ~it.on /\ it'.on
  <2>1. it' # it
    BY <1>3
  <2>2. UNCHANGED L!list
    BY <2>1, LStep DEF L!PopFront, L!PopBackLinked, L!PopBackOnly, L!SeekFound, L!PushBack, L!PushFront,
       L!Popped, L!ClearNode, L!ClearEnd
  <2>3. pc = "idle"
    BY <1>3, <2>1, LNext, LCallsLeave DEF LClears, L!vars, L!Create, L!PopBackWalk, L!Seek, L!SeekFound,
       L!ClearStart, L!ClearNode, L!ClearEnd, L!Quiet, L!IterOpen, L!IterNext, L!IterDrop, L!ExtendStart,
       L!ExtendStep
  <2>4. QED
    BY <1>1, <1>3, <2>2, <2>3
<1>4. QED
  BY <1>2, <1>3

(* What an iterator at the node c has yielded of the elements s of the     *)
(* nodes p.                                                                *)
Nth(f, l, i) == IF f THEN i ELSE l + 1 - i
LYields(t, s, p, l, c, f) ==
  /\ Len(t) <= l /\ \A i \in 1 .. Len(t) : t[i] = s[Nth(f, l, i)]
  /\ c = IF Len(t) = l THEN NULL ELSE p[Nth(f, l, Len(t) + 1)]

LEMMA LIterNow ==
  /\ L!IterInOrder <=> (it.on => LYields(it.seen, L!Items, L!Nodes, len, it.current, it.fwd))
  /\ L!IterInOrder' <=> (it'.on => LYields(it'.seen, L!Items', L!Nodes', len', it'.current, it'.fwd))
BY DEF L!IterInOrder, LYields, Nth

LEMMA LIteratorParts ==
  ASSUME NEW i \in LIterators
  PROVE  /\ i.on \in BOOLEAN /\ i.fwd \in BOOLEAN /\ i.current \in Addrs \cup {NULL}
         /\ i.seen \in Seq(Elems)
BY DEF LIterators

LEMMA LYieldsNone ==
  ASSUME NEW nd, NEW p, NEW l, NEW a, Run(nd, p, l, a), NEW z, NEW k, Ends(nd, p, l, z, k),
         NEW s, NEW f, NEW c, f => c = a, ~f => c = z
  PROVE  LYields(<<>>, s, p, l, c, f)
<1>1. l \in Nat /\ a = (IF l = 0 THEN NULL ELSE p[1]) /\ z = (IF l = 0 THEN NULL ELSE p[l])
  BY RunHolds, RunLinks DEF Ends
<1>2. Len(<<>>) = 0 /\ 1 .. 0 = {}
  OBVIOUS
<1>3. CASE f
  <2>1. Nth(f, l, 0 + 1) = 1 /\ c = (IF 0 = l THEN NULL ELSE p[1]) /\ 0 <= l
    BY <1>1, <1>3 DEF Nth
  <2>2. QED
    BY ONLY <1>2, <2>1 DEF LYields
<1>4. CASE ~f
  <2>1. Nth(f, l, 0 + 1) = l /\ c = (IF 0 = l THEN NULL ELSE p[l]) /\ 0 <= l
    BY <1>1, <1>4 DEF Nth
  <2>2. QED
    BY ONLY <1>2, <2>1 DEF LYields
<1>5. QED
  BY <1>3, <1>4

LEMMA LYieldsNext ==
  ASSUME NEW nd, NEW p, NEW l, NEW a, Run(nd, p, l, a), NEW z, NEW k, Ends(nd, p, l, z, k),
         NEW t \in Seq(Elems), NEW f, NEW c, LYields(t, Vals(nd, p, l), p, l, c, f), c # NULL,
         ~f => k = "dlist", NEW c1, f => c1 = nd[c].next, ~f => c1 = nd[c].prev
  PROVE  /\ nd[c].elem \in Elems /\ c1 \in Addrs \cup {NULL}
         /\ LYields(Append(t, nd[c].elem), Vals(nd, p, l), p, l, c1, f)
<1> PICK s, e, r, n : s = Vals(nd, p, l) /\ e = nd[c].elem /\ r = Append(t, e) /\ n = Len(t)
  OBVIOUS
<1>1. /\ l \in Nat /\ \A i \in 1 .. l : /\ p[i] \in Addrs /\ nd[p[i]].elem \in Elems
                                        /\ s[i] = nd[p[i]].elem /\ nd[p[i]] \in Cell
  BY RunHolds
<1>2. /\ n \in Nat /\ n <= l /\ n # l /\ c = p[Nth(f, l, n + 1)]
      /\ \A i \in 1 .. n : t[i] = s[Nth(f, l, i)]
  BY DEF LYields
<1>3. n + 1 \in 1 .. l /\ Nth(f, l, n + 1) \in 1 .. l
  BY <1>1, <1>2 DEF Nth
<1>4. e \in Elems /\ e = s[Nth(f, l, n + 1)] /\ nd[c] \in Cell
  BY <1>1, <1>2, <1>3
<1>5. c1 \in Addrs \cup {NULL}
  <2>1. nd[c].next \in Addrs \cup {NULL} /\ nd[c].prev \in Addrs \cup {NULL}
    BY <1>4, CellParts
  <2>2. QED
    BY <2>1
<1>6. c1 = IF n + 1 = l THEN NULL ELSE p[Nth(f, l, (n + 1) + 1)]
  <2>1. CASE f
    <3>1. nd[p[n + 1]].next = IF n + 1 = l THEN NULL ELSE p[(n + 1) + 1]
      BY <1>3, RunLinks
    <3>2. Nth(f, l, n + 1) = n + 1 /\ Nth(f, l, (n + 1) + 1) = (n + 1) + 1
      BY <2>1 DEF Nth
    <3>3. QED
      BY <1>2, <2>1, <3>1, <3>2
  <2>2. CASE ~f
    <3> PICK m \in 1 .. l : m = Nth(f, l, n + 1)
      BY <1>3
    <3>1. nd[p[m]].prev = IF m = 1 THEN NULL ELSE p[m - 1]
      BY <2>2 DEF Ends
    <3>2. m = l + 1 - (n + 1) /\ Nth(f, l, (n + 1) + 1) = l + 1 - ((n + 1) + 1)
      BY <2>2 DEF Nth
    <3>3. (m = 1 <=> n + 1 = l) /\ Nth(f, l, (n + 1) + 1) = m - 1
      BY <1>1, <1>2, <3>2
    <3>4. QED
      BY <1>2, <2>2, <3>1, <3>3
  <2>3. QED
    BY <2>1, <2>2
<1>7. /\ Len(r) = n + 1 /\ (\A i \in 1 .. n : r[i] = t[i]) /\ r[n + 1] = e
  <2>1. t \in Seq(Elems) /\ e \in Elems /\ r = Append(t, e) /\ n = Len(t)
    BY <1>4
  <2>2. QED
    BY ONLY <2>1, AppendProperties
<1>8. \A i \in 1 .. n + 1 : r[i] = s[Nth(f, l, i)]
  <2> TAKE i \in 1 .. n + 1
  <2>1. i \in 1 .. n \/ i = n + 1
    BY <1>2
  <2>2. QED
    BY <1>2, <1>4, <1>7, <2>1
<1>9. n + 1 <= l
  BY <1>1, <1>2
<1>10. LYields(r, s, p, l, c1, f)
  BY <1>6, <1>7, <1>8, <1>9 DEF LYields
<1>11. QED
  BY <1>4, <1>5, <1>10

LIterOK ==
  /\ it \in LIterators /\ (~it.on => it = L!NoIter) /\ (it.on /\ ~it.fwd => kind = "dlist")
  /\ L!IterInOrder

LEMMA LUnchangedSeen ==
  ASSUME UNCHANGED <<node, len, head>>, pc \notin Busy, pc' \notin Busy
  PROVE  L!Items' = L!Items /\ L!Nodes' = L!Nodes
BY LItemsAre, NodesAre

LEMMA LIterTakes ==
  ASSUME LInv, L!IterNext
  PROVE  LIterOK'
<1>1. /\ it \in LIterators /\ it.on /\ it.current # NULL /\ L!IterInOrder /\ pc = "idle" /\ pc' = "idle"
      /\ UNCHANGED <<kind, L!list>> /\ pc \notin Busy /\ pc' \notin Busy
  BY DEF LInv, L!IterNext, Busy
<1>2. PICK p : Chained(p)
  BY <1>1 DEF LInv, LChain
<1>3. L!Items = Vals(node, p, len) /\ L!Nodes = p /\ L!Items' = L!Items /\ L!Nodes' = L!Nodes
  BY <1>1, <1>2, LHeld, LUnchangedSeen DEF L!list
<1> PICK nd, l, a, z, k, t, c, f :
      /\ nd = node /\ l = len /\ a = head /\ z = tail /\ k = kind
      /\ t = it.seen /\ c = it.current /\ f = it.fwd
  OBVIOUS
<1> PICK e, c1, r : e = nd[c].elem /\ c1 = (IF f THEN nd[c].next ELSE nd[c].prev) /\ r = Append(t, e)
  OBVIOUS
<1>4. /\ Run(nd, p, l, a) /\ Ends(nd, p, l, z, k) /\ t \in Seq(Elems) /\ c # NULL
      /\ LYields(t, Vals(nd, p, l), p, l, c, f) /\ (f => c1 = nd[c].next) /\ (~f => c1 = nd[c].prev)
  BY <1>1, <1>2, <1>3, LIteratorParts, LIterNow DEF Chained
<1>5. ~f => k = "dlist"
  <2>1. it.on /\ ~it.fwd => kind = "dlist"
    BY DEF LInv
  <2>2. QED
    BY <1>1, <2>1
<1>6. e \in Elems /\ c1 \in Addrs \cup {NULL} /\ LYields(r, Vals(nd, p, l), p, l, c1, f)
  BY ONLY <1>4, <1>5, LYieldsNext, e = nd[c].elem, r = Append(t, e)
<1>7. it' = [it EXCEPT !.seen = r, !.current = c1]
  BY DEF L!IterNext
<1>8. r \in Seq(Elems)
  BY <1>4, <1>6
<1>9. it' \in LIterators
  BY <1>1, <1>6, <1>7, <1>8 DEF LIterators
<1>10. it'.on = it.on
  BY ONLY <1>1, <1>7 DEF LIterators
<1>11. it'.fwd = f
  BY ONLY <1>1, <1>7, f = it.fwd DEF LIterators
<1>12. it'.seen = r /\ it'.current = c1
  BY <1>1, <1>7 DEF LIterators
<1>13. len' = l /\ kind' = k
  BY <1>1 DEF L!list
<1>14. L!IterInOrder'
  BY <1>3, <1>6, <1>11, <1>12, <1>13, LIterNow
<1>15. QED
  BY <1>1, <1>5, <1>9, <1>10, <1>11, <1>13, <1>14 DEF LIterOK

LEMMA LIterKept ==
  ASSUME LInv, [L!Next]_(L!vars)
  PROVE  LIterOK'
<1>1. /\ it \in LIterators /\ (~it.on => it = L!NoIter) /\ (it.on /\ ~it.fwd => kind = "dlist")
      /\ L!IterInOrder /\ kind' = kind /\ (pc = "idle" => pc \notin Busy)
  BY LStandingKept DEF LInv, Busy
<1>2. CASE L!IterNext
  BY <1>2, LIterTakes
<1>3. ASSUME NEW f \in BOOLEAN, L!IterOpen(f) PROVE LIterOK'
  <2>1. /\ it' = [on |-> TRUE, fwd |-> f, current |-> L!First(f), seen |-> <<>>]
        /\ pc = "idle" /\ pc' = pc /\ UNCHANGED L!list /\ (f \/ kind = "dlist") /\ pc \notin Busy
    BY <1>1, <1>3 DEF L!IterOpen, L!Quiet
  <2>2. PICK p : Chained(p)
    BY <2>1 DEF LInv, LChain
  <2> PICK nd, l, a, z, k, c :
        nd = node /\ l = len /\ a = head /\ z = tail /\ k = kind /\ c = L!First(f)
    OBVIOUS
  <2>3. Run(nd, p, l, a) /\ Ends(nd, p, l, z, k) /\ (f => c = a) /\ (~f => c = z)
    BY <2>2 DEF Chained, L!First
  <2>4. LYields(<<>>, Vals(nd, p, l), p, l, c, f)
    BY ONLY <2>3, LYieldsNone
  <2>5. /\ L!Items' = Vals(nd, p, l) /\ L!Nodes' = p /\ len' = l
    BY <2>1, <2>2, LHeld, LUnchangedSeen DEF L!list
  <2>6. c \in Addrs \cup {NULL}
    BY <2>2, <2>3, ChainedHolds
  <2>7. <<>> \in Seq(Elems)
    OBVIOUS
  <2>8. it' \in LIterators
    BY <2>1, <2>6, <2>7 DEF LIterators
  <2>9. it'.on = TRUE /\ it'.fwd = f
    BY ONLY <2>1
  <2>10. it'.seen = <<>> /\ it'.current = c
    BY <2>1
  <2>11. L!IterInOrder'
    BY <2>4, <2>5, <2>9, <2>10, LIterNow
  <2>12. QED
    BY <1>1, <2>1, <2>8, <2>9, <2>11 DEF LIterOK
<1>4. CASE L!IterDrop
  <2>1. <<>> \in Seq(Elems) /\ it' = L!NoIter
    BY <1>4 DEF L!IterDrop
  <2>2. it' \in LIterators /\ it'.on = FALSE
    BY <2>1 DEF L!NoIter, LIterators
  <2>3. QED
    BY <2>1, <2>2, LIterNow DEF LIterOK, L!NoIter
<1>5. CASE UNCHANGED it
  <2>1. CASE it.on
    <3>1. UNCHANGED L!list /\ pc \notin Busy /\ pc' \notin Busy
      BY <2>1, LNoChangeUnderIter
    <3>2. L!Items' = L!Items /\ L!Nodes' = L!Nodes /\ len' = len
      BY <3>1, LUnchangedSeen DEF L!list
    <3>3. L!IterInOrder'
      BY <1>1, <1>5, <3>2, LIterNow
    <3>4. QED
      BY <1>1, <1>5, <3>3 DEF LIterOK, L!NoIter
  <2>2. CASE ~it.on
    <3>1. L!IterInOrder'
      BY <1>5, <2>2, LIterNow
    <3>2. QED
      BY <1>1, <1>5, <2>2, <3>1 DEF LIterOK, L!NoIter
  <2>3. QED
    BY <2>1, <2>2
<1>6. CASE \/ UNCHANGED L!vars \/ LCalls \/ L!Create \/ L!PopBackWalk \/ L!Seek \/ L!SeekFound \/ LClears
           \/ L!ExtendStart \/ L!ExtendStep
  <2>1. UNCHANGED it
    BY <1>6, LCallsLeave DEF LClears, L!vars, L!Create, L!PopBackWalk, L!Seek, L!SeekFound,
       L!ClearStart, L!ClearNode, L!ClearEnd, L!ExtendStart, L!ExtendStep
  <2>2. QED
    BY <1>5, <2>1
<1>7. QED
  BY <1>2, <1>3, <1>4, <1>6, LNext

LEMMA NextL == LInv /\ [L!Next]_(L!vars) => LInv'
<1> SUFFICES ASSUME LInv, [L!Next]_(L!vars) PROVE LInv'
  OBVIOUS
<1>1. LChain' /\ LStanding' /\ Kinds' /\ L!NothingLeaks' /\ blocks' \in Int /\ LIterOK'
  BY LChainKept, LStandingKept, LBlocksKept, LIterKept
<1>2. QED
  BY <1>1 DEF LInv, LIterOK

LEMMA LInductive == L!Spec => []LInv
BY InitL, NextL, PTL DEF L!Spec

LEMMA LTyped == LInv => L!TypeOK
<1> SUFFICES ASSUME LInv PROVE L!TypeOK
  OBVIOUS
<1>1. /\ LStanding /\ it \in LIterators /\ len \in Nat /\ feed \in Seq(Elems) /\ (~it.on => it = L!NoIter)
  BY DEF LInv, LStanding
<1>2. /\ node \in [DOMAIN node -> Cell] /\ DOMAIN node \subseteq Addrs
      /\ (pc \in Busy => at \in DOMAIN node \cup {NULL})
      /\ (pc \notin Busy => {head, tail} \subseteq DOMAIN node \cup {NULL})
  <2>1. CASE pc \in Busy
    <3>1. PICK p, m : Run(node, p, m, at)
      BY <2>1 DEF LInv, LChain
    <3>2. m \in Nat /\ at = (IF m = 0 THEN NULL ELSE p[1]) /\ \A i \in 1 .. m : p[i] \in DOMAIN node
      BY <3>1, RunHolds, RunLinks
    <3>3. at \in DOMAIN node \cup {NULL}
      BY <3>2
    <3>4. QED
      BY <2>1, <3>1, <3>3 DEF Run
  <2>2. CASE pc \notin Busy
    <3>1. PICK p : Chained(p)
      BY <2>2 DEF LInv, LChain
    <3>2. QED
      BY <2>2, <3>1, ChainedHolds
  <2>3. QED
    BY <2>1, <2>2
<1>3. at \in DOMAIN node \cup {NULL}
  BY <1>1, <1>2 DEF LStanding
<1>4. it.current \in DOMAIN node \cup {NULL} /\ it.seen \in Seq(Elems)
  <2>1. CASE it.on
    <3>1. pc \notin Busy
      BY <1>1, <2>1 DEF LStanding, Busy
    <3>2. PICK p : Chained(p)
      BY <3>1 DEF LInv, LChain
    <3>3. L!Nodes = p /\ \A i \in 1 .. len : p[i] \in DOMAIN node
      BY <3>1, <3>2, LHeld, ChainedHolds
    <3> PICK t, f : t = it.seen /\ f = it.fwd
      OBVIOUS
    <3>4. LYields(t, L!Items, p, len, it.current, f) /\ t \in Seq(Elems)
      BY <1>1, <2>1, <3>3, LIterNow, LIteratorParts DEF LInv
    <3>5. Len(t) # len => Nth(f, len, Len(t) + 1) \in 1 .. len
      BY <1>1, <3>4 DEF LYields, Nth
    <3>6. QED
      BY <3>3, <3>4, <3>5 DEF LYields
  <2>2. CASE ~it.on
    <3>1. it = [on |-> FALSE, fwd |-> TRUE, current |-> NULL, seen |-> <<>>] /\ <<>> \in Seq(Elems)
      BY <1>1, <2>2 DEF L!NoIter
    <3>2. it.current = NULL /\ it.seen = <<>>
      BY ONLY <3>1
    <3>3. QED
      BY <3>1, <3>2
  <2>3. QED
    BY <2>1, <2>2
<1>5. blocks \in Nat
  <2>1. /\ blocks = (IF pc = "none" THEN 0 ELSE 1) + Cardinality(DOMAIN node)
                      + (IF it.on THEN 1 ELSE 0) + L!ExtendBlocks
        /\ Cardinality(DOMAIN node) \in Nat
    BY LSize, CardIs DEF LInv, L!NothingLeaks
  <2>2. QED
    BY <2>1 DEF L!ExtendBlocks
<1>6. QED
  BY <1>1, <1>2, <1>3, <1>4, <1>5 DEF L!TypeOK, Cell, Busy

LEMMA LLinked == LInv => L!ChainOK
<1> SUFFICES ASSUME LInv PROVE L!ChainOK
  OBVIOUS
<1>1. CASE pc \in Busy
  <2>1. PICK p, m : Run(node, p, m, at)
    BY <1>1 DEF LInv, LChain
  <2>2. Cardinality(DOMAIN node) = m /\ m \in Nat
    BY <2>1, RunCount, RunHolds
  <2>3. (\A n \in 1 .. m : L!Chain(at)[n - 1] = p[n]) /\ L!Chain(at)[m] = NULL
    BY <2>1, WalkIs, ChainIs
  <2>4. ASSUME NEW b \in DOMAIN node PROVE \E i \in 0 .. m - 1 : L!Chain(at)[i] = b
    <3>1. PICK n \in 1 .. m : p[n] = b
      BY <2>1, RunLinks
    <3>2. n - 1 \in 0 .. m - 1
      BY <2>2
    <3>3. QED
      BY <2>3, <3>1, <3>2
  <2>5. ASSUME NEW i \in 0 .. m - 1 PROVE L!Chain(at)[i] \in DOMAIN node
    <3>1. i + 1 \in 1 .. m /\ (i + 1) - 1 = i
      BY <2>2
    <3>2. L!Chain(at)[i] = p[i + 1]
      BY <2>3, <3>1
    <3>3. QED
      BY <2>1, <3>1, <3>2, RunHolds
  <2>6. DOMAIN node = {L!Chain(at)[i] : i \in 0 .. m - 1}
    BY <2>4, <2>5
  <2>7. QED
    BY <1>1, <2>2, <2>3, <2>6, CardIs DEF L!ChainOK, Busy
<1>2. CASE pc \notin Busy
  <2>1. PICK p : Chained(p)
    BY <1>2 DEF LInv, LChain
  <2>2. L!Nodes = p /\ len \in Nat /\ Cardinality(DOMAIN node) = len /\ L!Chain(head)[len] = NULL
    BY <1>2, <2>1, LHeld, ChainedHolds, RunCount, WalkIs, ChainIs DEF Chained
  <2>3. {p[i] : i \in 1 .. len} = DOMAIN node
    BY <2>1, RunLinks, ChainedHolds DEF Chained
  <2>4. tail = (IF len = 0 THEN NULL ELSE p[len])
    BY <2>1 DEF Chained, Ends
  <2>5. \A i \in 1 .. len : kind = "dlist" => node[p[i]].prev = (IF i = 1 THEN NULL ELSE p[i - 1])
    BY <2>1 DEF Chained, Ends
  <2>6. QED
    BY <1>2, <2>2, <2>3, <2>4, <2>5, CardIs DEF L!ChainOK, Busy
<1>3. QED
  BY <1>1, <1>2

(* Every pointer of a list_t or dlist_t is NULL or to an allocated node,   *)
(* except head and tail while clear frees the nodes.                       *)
THEOREM ListTypes == L!Spec => []L!TypeOK
BY LTyped, LInductive, PTL

(* Whatever is pushed and popped at either end, the links run through      *)
(* every node once and end at the tail; clear loses none of them.          *)
THEOREM ListChains == L!Spec => []L!ChainOK
BY LLinked, LInductive, PTL

(* No path of list.c, dlist.c and seqc_extend loses a node or frees one    *)
(* twice.                                                                  *)
THEOREM ListBlocks == L!Spec => []L!NothingLeaks
<1>1. LInv => L!NothingLeaks
  BY DEF LInv
<1>2. QED
  BY <1>1, LInductive, PTL

(* An iterator over the links yields the elements in order, or in reverse. *)
THEOREM ListIterates == L!Spec => []L!IterInOrder
<1>1. LInv => L!IterInOrder
  BY DEF LInv
<1>2. QED
  BY <1>1, LInductive, PTL

-----------------------------------------------------------------------------
(* list_t and dlist_t implement DequeSpec.  *)
LDeque == INSTANCE DequeSpec WITH items <- L!Items, exists <- Exists, feed <- Given,
            extending <- Feeding, result <- ret, Indices <- 0 .. MaxCap

LEMMA InitLDeque == L!Init => LDeque!Init
<1> SUFFICES ASSUME L!Init PROVE LDeque!Init
  OBVIOUS
<1>1. LInv /\ len = 0 /\ pc = "none" /\ ret = Nil /\ asked = <<"nothing">>
  BY InitL DEF L!Init
<1>2. L!Items = <<>>
  <2>1. pc \notin Busy
    BY <1>1 DEF Busy
  <2>2. PICK p : Chained(p)
    BY <1>1, <2>1 DEF LInv, LChain
  <2>3. L!Items \in Seq(Elems) /\ Len(L!Items) = 0
    BY <1>1, <2>1, <2>2, LHeld
  <2>4. QED
    BY <2>3, EmptySeq
<1>3. ~Exists /\ ~Feeding /\ Given = <<>>
  BY <1>1 DEF Exists, Given, Feeding
<1>4. QED
  BY <1>1, <1>2, <1>3 DEF LDeque!Init

(* A call's last step, as DequeSpec sees it.                               *)
LEMMA LCallSeen ==
  ASSUME pc \in {"idle", "seek"}, pc' = "idle"
  PROVE  /\ LDeque!Ready /\ UNCHANGED <<Exists, Given, Feeding>>
         /\ pc \notin Busy /\ pc' \notin Busy
BY DEF Exists, Given, Feeding, LDeque!Ready, Busy

LEMMA LChangeSeen ==
  ASSUME pc \in {"idle", "seek"}, pc' = "idle", NEW q, NEW s, ChainedTo(q, s), NEW r, ret' = r
  PROVE  LDeque!Change(s, r)
BY LCallSeen, LComes DEF LDeque!Change

LEMMA LLeaveSeen ==
  ASSUME pc = "idle", pc' = "idle", UNCHANGED L!list, NEW r, ret' = r
  PROVE  LDeque!Leave(r)
BY LCallSeen, LKept DEF LDeque!Leave, L!list

LEMMA LPushRefines ==
  ASSUME LInv, NEW e \in Elems, L!PushBack(e) \/ L!PushFront(e)
  PROVE  /\ L!PushBack(e) => LDeque!PushBack(e)
         /\ L!PushFront(e) => LDeque!PushFront(e)
<1>1. pc = "idle" /\ pc' = "idle" /\ LDeque!Ready /\ pc \notin Busy /\ kind' = kind /\ Kinds /\ ret' = "OK"
  BY LCallSeen DEF L!PushBack, L!PushFront, L!Quiet, LInv
<1>2. PICK p : Chained(p)
  BY <1>1 DEF LInv, LChain
<1>3. L!Items = Vals(node, p, len)
  BY <1>1, <1>2, LHeld
<1>4. ASSUME L!PushBack(e) PROVE LDeque!PushBack(e)
  <2>1. L!Pushed(e)
    BY <1>4 DEF L!PushBack
  <2>2. PICK q : ChainedTo(q, Append(Vals(node, p, len), e))
    BY <1>1, <1>2, <2>1, LPushed
  <2>3. LDeque!Change(Append(L!Items, e), "OK")
    BY <1>1, <1>3, <2>2, LChangeSeen
  <2>4. QED
    BY <1>1, <2>3 DEF LDeque!PushBack
<1>5. ASSUME L!PushFront(e) PROVE LDeque!PushFront(e)
  <2>1. PICK q : ChainedTo(q, <<e>> \o Vals(node, p, len))
    BY <1>1, <1>2, <1>5, LPushedFront
  <2>2. LDeque!Change(<<e>> \o L!Items, "OK")
    BY <1>1, <1>3, <2>1, LChangeSeen
  <2>3. QED
    BY <1>1, <2>2 DEF LDeque!PushFront
<1>6. QED
  BY <1>4, <1>5

LEMMA LPopRefines ==
  ASSUME LInv, L!PopNothing \/ L!PopFront \/ L!PopBackLinked \/ L!PopBackOnly \/ L!SeekFound
  PROVE  /\ L!PopNothing \/ L!PopFront => LDeque!PopFront
         /\ L!PopNothing \/ L!PopBackLinked \/ L!PopBackOnly \/ L!SeekFound => LDeque!PopBack
<1>1. /\ pc \in {"idle", "seek"} /\ pc' = "idle" /\ LDeque!Ready /\ pc \notin Busy /\ Kinds
      /\ (pc = "seek" => L!SeekFound)
  BY LCallSeen DEF L!PopNothing, L!PopFront, L!PopBackLinked, L!PopBackOnly, L!SeekFound, L!Popped,
     L!Quiet, LInv
<1>2. PICK p : Chained(p)
  BY <1>1 DEF LInv, LChain
<1>3. L!Items = Vals(node, p, len) /\ L!Items \in Seq(Elems) /\ Len(L!Items) = len
  BY <1>1, <1>2, LHeld
<1>4. ASSUME L!PopNothing PROVE LDeque!PopFront /\ LDeque!PopBack
  <2>1. head = NULL /\ ret' = "NOT_FOUND" /\ UNCHANGED L!list /\ pc = "idle"
    BY <1>4 DEF L!PopNothing, L!Quiet
  <2>2. len = 0
    BY <1>2, <2>1, ChainedHolds
  <2>3. L!Items = <<>>
    BY <1>3, <2>2, EmptySeq
  <2>4. LDeque!Leave("NOT_FOUND")
    BY <1>1, <2>1, LLeaveSeen
  <2>5. QED
    BY <1>1, <2>3, <2>4 DEF LDeque!PopFront, LDeque!PopBack
<1>5. ASSUME L!PopFront PROVE LDeque!PopFront
  <2>1. PICK q : ChainedTo(q, Tail(L!Items)) /\ len # 0 /\ ret' = L!Items[1]
    BY <1>1, <1>2, <1>3, <1>5, LPoppedFront
  <2>2. L!Items # <<>> /\ Head(L!Items) = L!Items[1]
    BY <1>3, <2>1
  <2>3. LDeque!Change(Tail(L!Items), Head(L!Items))
    BY <1>1, <2>1, <2>2, LChangeSeen
  <2>4. QED
    BY <1>1, <2>2, <2>3 DEF LDeque!PopFront
<1>6. ASSUME L!PopBackLinked \/ L!PopBackOnly \/ L!SeekFound PROVE LDeque!PopBack
  <2>1. LPopBack
    BY <1>6 DEF LPopBack, LInv, LStanding, L!SeekFound
  <2>2. PICK q : /\ ChainedTo(q, SubSeq(L!Items, 1, len - 1)) /\ len # 0 /\ ret' = L!Items[len]
    BY <1>1, <1>2, <1>3, <2>1, LPoppedBack
  <2>3. L!Items # <<>>
    BY <1>3, <2>2
  <2>4. LDeque!Change(SubSeq(L!Items, 1, Len(L!Items) - 1), L!Items[Len(L!Items)])
    BY <1>1, <1>3, <2>2, LChangeSeen
  <2>5. QED
    BY <1>1, <2>3, <2>4 DEF LDeque!PopBack
<1>7. QED
  BY <1>4, <1>5, <1>6

LEMMA LLookRefines ==
  ASSUME LInv, L!PushRefused \/ L!Front \/ L!Back
  PROVE  /\ L!PushRefused => \A e \in Elems : LDeque!PushBack(e) /\ LDeque!PushFront(e)
         /\ L!Front => LDeque!Get(0)
         /\ L!Back => LDeque!Back
<1>1. pc = "idle" /\ pc' = "idle" /\ UNCHANGED L!list /\ LDeque!Ready /\ pc \notin Busy
  BY LCallSeen DEF L!PushRefused, L!Front, L!Back, L!Quiet
<1>2. PICK p : Chained(p)
  BY <1>1 DEF LInv, LChain
<1>3. /\ L!Items \in Seq(Elems) /\ Len(L!Items) = len /\ len \in Nat
      /\ \A i \in 1 .. len : L!Items[i] = node[p[i]].elem
  BY <1>1, <1>2, LHeld, ChainedHolds
<1>4. ASSUME L!PushRefused, NEW e \in Elems PROVE LDeque!PushBack(e) /\ LDeque!PushFront(e)
  <2>1. LDeque!Leave("OOM")
    BY <1>1, <1>4, LLeaveSeen DEF L!PushRefused
  <2>2. QED
    BY <1>1, <2>1 DEF LDeque!PushBack, LDeque!PushFront
<1>5. ASSUME L!Front PROVE LDeque!Get(0)
  <2>1. ret' = IF 0 < Len(L!Items) THEN L!Items[0 + 1] ELSE "NOT_FOUND"
    <3>1. CASE len = 0
      <4>1. head = NULL /\ ~(0 < Len(L!Items))
        BY <1>2, <1>3, <3>1, ChainedHolds
      <4>2. QED
        BY <1>5, <4>1 DEF L!Front
    <3>2. CASE len # 0
      <4>1. head # NULL /\ head = p[1] /\ 1 \in 1 .. len
        BY <1>2, <3>2, ChainedHolds
      <4>2. L!Items[1] = node[head].elem /\ 0 < Len(L!Items) /\ 0 + 1 = 1
        BY <1>3, <3>2, <4>1
      <4>3. QED
        BY <1>5, <4>1, <4>2 DEF L!Front
    <3>3. QED
      BY <3>1, <3>2
  <2>2. LDeque!Get(0)
    BY <1>1, <2>1, LLeaveSeen DEF LDeque!Get
  <2>3. QED
    BY <2>2
<1>6. ASSUME L!Back PROVE LDeque!Back
  <2>1. ret' = IF L!Items = <<>> THEN "NOT_FOUND" ELSE L!Items[Len(L!Items)]
    <3>1. CASE len = 0
      <4>1. tail = NULL /\ L!Items = <<>>
        BY <1>2, <1>3, <3>1, ChainedHolds, EmptySeq
      <4>2. QED
        BY <1>6, <4>1 DEF L!Back
    <3>2. CASE len # 0
      <4>1. tail # NULL /\ tail = p[len] /\ len \in 1 .. len
        BY <1>2, <3>2, ChainedHolds
      <4>2. L!Items[len] = node[tail].elem /\ L!Items # <<>>
        BY <1>3, <3>2, <4>1
      <4>3. QED
        BY <1>3, <1>6, <4>1, <4>2 DEF L!Back
    <3>3. QED
      BY <3>1, <3>2
  <2>2. LDeque!Back
    BY <1>1, <2>1, LLeaveSeen DEF LDeque!Back
  <2>3. QED
    BY <2>2
<1>7. QED
  BY <1>4, <1>5, <1>6

LEMMA LCreateRefines ==
  ASSUME LInv, L!Create
  PROVE  LDeque!Create
<1>1. pc = "none" /\ pc' \in {"none", "idle"} /\ UNCHANGED <<L!list, feed>>
      /\ ret' = IF pc' = "idle" THEN "OK" ELSE "OOM"
  BY DEF L!Create
<1>2. /\ ~Exists /\ Feeding = FALSE /\ Feeding' = FALSE /\ Given = <<>> /\ Given' = <<>>
      /\ Exists' \in BOOLEAN /\ (Exists' <=> pc' = "idle")
  BY <1>1 DEF Exists, Feeding, Given
<1>3. L!Items' = L!Items
  BY <1>1, LKept DEF L!list, Busy
<1>4. QED
  BY <1>1, <1>2, <1>3 DEF LDeque!Create

(* clear and destroy empty the list as soon as they are called: nobody     *)
(* sees it before they return.                                             *)
LEMMA LClearRefines ==
  ASSUME LInv
  PROVE  /\ L!ClearStart("clear") => LDeque!Clear
         /\ L!ClearStart("destroy") => LDeque!Destroy
         /\ L!ClearNode \/ L!ClearEnd => UNCHANGED <<L!Items, Exists, Given, Feeding, ret>>
<1>1. Busy = {"clear", "destroy"}
  BY DEF Busy
<1>2. ASSUME L!ClearStart("clear") PROVE LDeque!Clear
  <2>1. pc = "idle" /\ pc' = "clear" /\ ret' = "OK"
    BY <1>2 DEF L!ClearStart, L!Quiet
  <2>2. LDeque!Ready /\ UNCHANGED <<Exists, Given, Feeding>>
    BY <2>1 DEF Exists, Given, Feeding, LDeque!Ready
  <2>3. L!Items' = <<>>
    BY <1>1, <2>1, LItemsAre
  <2>4. LDeque!Clear
    BY <2>1, <2>2, <2>3 DEF LDeque!Clear, LDeque!Change
  <2>5. QED
    BY <2>4
<1>3. ASSUME L!ClearStart("destroy") PROVE LDeque!Destroy
  <2>1. pc = "idle" /\ pc' = "destroy" /\ ret' = "OK"
    BY <1>3 DEF L!ClearStart, L!Quiet
  <2>2. Exists /\ ~Exists' /\ ~Feeding /\ UNCHANGED <<Given, Feeding>>
    BY <2>1 DEF Exists, Given, Feeding
  <2>3. L!Items' = <<>>
    BY <1>1, <2>1, LItemsAre
  <2>4. LDeque!Destroy
    BY <2>1, <2>2, <2>3 DEF LDeque!Destroy
  <2>5. QED
    BY <2>4
<1>4. ASSUME L!ClearNode PROVE UNCHANGED <<L!Items, Exists, Given, Feeding, ret>>
  <2>1. pc \in Busy /\ pc' = pc /\ UNCHANGED <<feed, ret>>
    BY <1>1, <1>4 DEF L!ClearNode
  <2>2. L!Items = <<>> /\ L!Items' = <<>>
    BY <2>1, LItemsAre
  <2>3. QED
    BY <2>1, <2>2 DEF Exists, Given, Feeding
<1>5. ASSUME L!ClearEnd PROVE UNCHANGED <<L!Items, Exists, Given, Feeding, ret>>
  <2>1. /\ pc \in Busy /\ pc' = (IF pc = "clear" THEN "idle" ELSE "none") /\ len' = 0
        /\ UNCHANGED <<feed, ret>>
    BY <1>1, <1>5 DEF L!ClearEnd
  <2>2. L!Items = <<>>
    BY <2>1, LItemsAre
  <2>3. pc' \notin Busy
    BY <1>1, <2>1
  <2>4. Along(node', 0, head') = <<>>
    BY DEF Along
  <2>5. L!Items' = <<>>
    BY <2>1, <2>3, <2>4, LItemsAre
  <2>6. UNCHANGED <<Exists, Given, Feeding>>
    BY <1>1, <2>1 DEF Exists, Given, Feeding
  <2>7. QED
    BY <2>1, <2>2, <2>5, <2>6
<1>6. QED
  BY <1>2, <1>3, <1>4, <1>5

LEMMA LWalkRefines ==
  ASSUME LInv, UNCHANGED L!vars \/ ((L!Walk \/ L!Iterate) /\ UNCHANGED asked)
  PROVE  UNCHANGED LDeque!vars
<1>1. CASE L!ClearNode \/ L!ClearEnd
  BY <1>1, LClearRefines DEF LDeque!vars, L!vars
<1>2. CASE UNCHANGED L!vars \/ L!PopBackWalk \/ L!Seek \/ L!Iterate
  <2>1. UNCHANGED <<L!list, feed, ret, asked>> /\ (pc' = pc \/ (pc = "idle" /\ pc' = "seek"))
    BY <1>2 DEF L!vars, L!PopBackWalk, L!Seek, L!Quiet, L!Iterate, L!IterOpen, L!IterNext, L!IterDrop
  <2>2. UNCHANGED <<Exists, Given, Feeding>> /\ (pc \in Busy <=> pc' \in Busy)
    BY <2>1 DEF Exists, Given, Feeding, Busy
  <2>3. L!Items' = L!Items
    BY <2>1, <2>2, LItemsAre DEF L!list
  <2>4. QED
    BY <2>1, <2>2, <2>3 DEF LDeque!vars
<1>3. QED
  BY <1>1, <1>2 DEF L!Walk

LEMMA LExtendSeen ==
  ASSUME LInv,
         \/ L!ExtendStart /\ UNCHANGED asked
         \/ L!ExtendStep /\ asked' = IF pc = "extend" THEN <<"extend", feed>> ELSE asked
  PROVE  LDeque!Next \/ UNCHANGED LDeque!vars
<1>0. /\ pc = "extend" => asked' = <<"extend", feed>>
      /\ pc # "extend" => UNCHANGED asked
  BY DEF L!ExtendStart, L!ExtendCall
<1>1. /\ LStanding /\ Kinds /\ feed \in Seq(Elems) /\ (pc = "extend" => feed \in Sources)
      /\ Busy = {"clear", "destroy"}
  BY DEF LInv, LStanding, Busy
<1>2. ASSUME UNCHANGED L!list, pc \in {"idle", "extend", "feeding"}, pc' \in {"idle", "extend", "feeding"}
      PROVE  L!Items' = L!Items
  BY <1>1, <1>2, LKept DEF L!list
<1>3. CASE L!ExtendStart
  <2>1. UNCHANGED <<Exists, Feeding, Given, ret, asked>>
    BY <1>0, <1>3 DEF L!ExtendStart, L!ExtendCall, Exists, Feeding, Given
  <2>2. L!Items' = L!Items
    BY <1>2, <1>3 DEF L!ExtendStart, L!ExtendCall
  <2>3. QED
    BY <2>1, <2>2 DEF LDeque!vars
<1>4. CASE L!ExtendRefused /\ UNCHANGED <<kind, L!list, at, it>>
  <2>1. Exists /\ ~Feeding /\ UNCHANGED <<Exists, Feeding, Given>> /\ ret' \in {"OOM", "INVALID"}
        /\ asked' = <<"extend", feed>> /\ feed \in Sources
    BY <1>0, <1>1, <1>4 DEF L!ExtendRefused, Exists, Feeding, Given
  <2>2. L!Items' = L!Items
    BY <1>2, <1>4 DEF L!ExtendRefused
  <2>3. LDeque!RefuseExtend
    BY <2>1, <2>2 DEF LDeque!RefuseExtend, LDeque!Ready, LDeque!Leave
  <2>4. QED
    BY <2>1, <2>3 DEF LDeque!Next
<1>5. CASE L!ExtendScratch /\ UNCHANGED <<kind, L!list, at, it>>
  <2>1. Exists /\ ~Feeding /\ Feeding' /\ UNCHANGED Exists /\ Given' = feed /\ ret' = Nil
        /\ asked' = <<"extend", feed>> /\ feed \in Sources
    BY <1>0, <1>1, <1>5 DEF L!ExtendScratch, Exists, Feeding, Given
  <2>2. L!Items' = L!Items
    BY <1>2, <1>5 DEF L!ExtendScratch
  <2>3. LDeque!Extend(feed)
    BY <2>1, <2>2 DEF LDeque!Extend, LDeque!Ready
  <2>4. QED
    BY <2>1, <2>3 DEF LDeque!Next
<1>6. CASE L!FeedOne(L!Pushed(Head(feed))) /\ UNCHANGED <<kind, at, it>>
  <2>1. /\ feed # <<>> /\ Feeding /\ UNCHANGED <<Exists, Feeding, ret, asked>> /\ kind' = kind
        /\ Given = feed /\ Given' = Tail(feed) /\ L!Pushed(Head(feed))
        /\ pc \notin Busy /\ pc' \notin Busy
    BY <1>0, <1>1, <1>6 DEF L!FeedOne, Exists, Feeding, Given
  <2>2. Head(feed) \in Elems
    BY <1>1, <2>1, HeadTailProperties
  <2>3. PICK p : Chained(p)
    BY <2>1 DEF LInv, LChain
  <2>4. PICK q : ChainedTo(q, Append(Vals(node, p, len), Head(feed)))
    BY <1>1, <2>1, <2>2, <2>3, LPushed
  <2>5. L!Items' = Append(L!Items, Head(feed))
    BY <2>1, <2>3, <2>4, LHeld, LComes
  <2>6. LDeque!Feed
    BY <2>1, <2>5 DEF LDeque!Feed
  <2>7. QED
    BY <2>1, <2>6 DEF LDeque!Next
<1>7. CASE (L!FeedRefused(TRUE) \/ L!FeedDone) /\ UNCHANGED <<kind, L!list, at, it>>
  <2>1. /\ Feeding /\ ~Feeding' /\ UNCHANGED Exists /\ Given = feed /\ Given' = <<>>
        /\ ret' = (IF feed = <<>> THEN "OK" ELSE "OOM") /\ UNCHANGED asked
    BY <1>0, <1>7 DEF L!FeedRefused, L!FeedDone, L!FeedEnd, Exists, Feeding, Given
  <2>2. L!Items' = L!Items
    BY <1>2, <1>7 DEF L!FeedRefused, L!FeedDone, L!FeedEnd
  <2>3. LDeque!EndExtend
    BY <2>1, <2>2 DEF LDeque!EndExtend
  <2>4. QED
    BY <2>1, <2>3 DEF LDeque!Next
<1>8. QED
  BY <1>3, <1>4, <1>5, <1>6, <1>7 DEF L!ExtendStep

LEMMA LCallRefines ==
  ASSUME LInv, L!Call
  PROVE  LDeque!Next
<1>1. CASE asked' = <<"pop_front">> /\ (L!PopNothing \/ L!PopFront)
  BY <1>1, LPopRefines DEF LDeque!Next
<1>2. CASE asked' = <<"pop_back">> /\ (L!PopNothing \/ L!PopBackLinked \/ L!PopBackOnly \/ L!SeekFound)
  BY <1>2, LPopRefines DEF LDeque!Next
<1>3. CASE asked' = <<"front">> /\ L!Front
  BY <1>3, LLookRefines DEF LDeque!Next
<1>4. CASE asked' = <<"back">> /\ L!Back
  BY <1>4, LLookRefines DEF LDeque!Next
<1>5. ASSUME NEW e \in Elems, asked' = <<"push_back", e>>, L!PushBack(e) \/ L!PushRefused
      PROVE  LDeque!Next
  <2>1. LDeque!PushBack(e)
    BY <1>5, LPushRefines, LLookRefines
  <2>2. QED
    BY <1>5, <2>1 DEF LDeque!Next
<1>6. ASSUME NEW e \in Elems, asked' = <<"push_front", e>>, L!PushFront(e) \/ L!PushRefused
      PROVE  LDeque!Next
  <2>1. LDeque!PushFront(e)
    BY <1>6, LPushRefines, LLookRefines
  <2>2. QED
    BY <1>6, <2>1 DEF LDeque!Next
<1>7. QED
  BY <1>1, <1>2, <1>3, <1>4, <1>5, <1>6 DEF L!Call

LEMMA NextLDeque == LInv /\ [L!Next]_(L!vars) => [LDeque!Next]_(LDeque!vars)
<1> SUFFICES ASSUME LInv, [L!Next]_(L!vars) PROVE LDeque!Next \/ UNCHANGED LDeque!vars
  OBVIOUS
<1>1. CASE asked' = <<"create">> /\ L!Create
  BY <1>1, LCreateRefines DEF LDeque!Next
<1>2. CASE asked' = <<"clear">> /\ L!ClearStart("clear")
  BY <1>2, LClearRefines DEF LDeque!Next
<1>3. CASE asked' = <<"destroy">> /\ L!ClearStart("destroy")
  BY <1>3, LClearRefines DEF LDeque!Next
<1>4. QED
  BY <1>1, <1>2, <1>3, LCallRefines, LWalkRefines, LExtendSeen DEF L!Next

(* Every call of list.c and dlist.c has on the sequence of elements the    *)
(* effect of that call of DequeSpec with its own argument, at the end it   *)
(* names: no relinking, walk to the node before the tail, clear of the     *)
(* nodes one by one, refused node or broken-off extend loses, repeats or   *)
(* moves an element.                                                       *)
THEOREM ListRefines == L!Spec => LDeque!Spec
BY InitLDeque, NextLDeque, LInductive, PTL DEF L!Spec, LDeque!Spec

-----------------------------------------------------------------------------
(* The five side by side: each step is one of the sequence it is about,    *)
(* whose invariant it keeps.                                               *)

AnyInv ==
  /\ which \in {"ringbuf", "queue", "list", "vec"}
  /\ which = "ringbuf" => RingInv
  /\ which = "queue" => QInv
  /\ which = "list" => LInv
  /\ which = "vec" => VInv

LEMMA InitAnyInv == InitAny => AnyInv
<1> SUFFICES ASSUME InitAny PROVE AnyInv
  OBVIOUS
<1>1. CASE which = "ringbuf"
  BY <1>1, InitRing DEF InitAny, AnyInv
<1>2. CASE which = "queue"
  BY <1>2, InitQ DEF InitAny, AnyInv
<1>3. CASE which = "list"
  BY <1>3, InitL DEF InitAny, AnyInv
<1>4. CASE which = "vec"
  BY <1>4, InitV DEF InitAny, AnyInv
<1>5. QED
  BY <1>1, <1>2, <1>3, <1>4 DEF InitAny

LEMMA AnyStep ==
  ASSUME [NextAny]_all
  PROVE  /\ which' = which
         /\ which = "ringbuf" => [Next]_vars
         /\ which = "queue" => [Q!Next]_(Q!vars)
         /\ which = "list" => [L!Next]_(L!vars)
         /\ which = "vec" => [V!Next]_(V!vars)
<1>1. CASE UNCHANGED all
  BY <1>1 DEF all, vars, buffer, Q!vars, Q!queue, L!vars, L!list, V!vars, V!vec
<1>2. CASE NextAny
  BY <1>2 DEF NextAny
<1>3. QED
  BY <1>1, <1>2

LEMMA NextAnyInv == AnyInv /\ [NextAny]_all => AnyInv'
<1> SUFFICES ASSUME AnyInv, [NextAny]_all PROVE AnyInv'
  OBVIOUS
<1>1. which' = which /\ which \in {"ringbuf", "queue", "list", "vec"}
  BY AnyStep DEF AnyInv
<1>2. CASE which = "ringbuf"
  BY <1>1, <1>2, AnyStep, NextRing DEF AnyInv
<1>3. CASE which = "queue"
  BY <1>1, <1>3, AnyStep, NextQ DEF AnyInv
<1>4. CASE which = "list"
  BY <1>1, <1>4, AnyStep, NextL DEF AnyInv
<1>5. CASE which = "vec"
  BY <1>1, <1>5, AnyStep, NextV DEF AnyInv
<1>6. QED
  BY <1>1, <1>2, <1>3, <1>4, <1>5

LEMMA AnyInductive == SpecAny => []AnyInv
BY InitAnyInv, NextAnyInv, PTL DEF SpecAny

(* No slot index out of bounds, no dangling pointer, no slot read before   *)
(* it is written, in any of the five.                                      *)
THEOREM AnyTypes == SpecAny => []DequeTypes
<1>1. AnyInv => DequeTypes
  BY LTyped DEF AnyInv, DequeTypes, RingInv, QInv, VInv
<1>2. QED
  BY <1>1, AnyInductive, PTL

(* The links of list_t and dlist_t run through every allocated node once.  *)
THEOREM AnyChains == SpecAny => []ChainsOK
<1>1. AnyInv => ChainsOK
  BY LLinked DEF AnyInv, ChainsOK
<1>2. QED
  BY <1>1, AnyInductive, PTL

(* None of the five, with seqc_extend, loses a block or frees one twice.   *)
THEOREM AnyBlocks == SpecAny => []NothingLeaked
<1>1. AnyInv => NothingLeaked
  BY DEF AnyInv, NothingLeaked, RingInv, QInv, LInv, VInv
<1>2. QED
  BY <1>1, AnyInductive, PTL

(* Iterators over any of the five yield the elements in order.             *)
THEOREM AnyIterates == SpecAny => []ItersInOrder
<1>1. AnyInv => ItersInOrder
  BY DEF AnyInv, ItersInOrder, RingInv, QInv, LInv, VInv
<1>2. QED
  BY <1>1, AnyInductive, PTL

-----------------------------------------------------------------------------
(* A step that DequeSpec allows of one of the five, it allows of their     *)
(* common contents.                                                        *)

LEMMA RingCommon ==
  ASSUME Contents = Items, Contents' = Items', Deque!Next
  PROVE  Common!Next
<1>1. /\ (Deque!Create => Common!Create) /\ (Deque!Destroy => Common!Destroy)
      /\ (Deque!Clear => Common!Clear)
  BY DEF Deque!Create, Common!Create, Deque!Destroy, Common!Destroy,
     Deque!Clear, Common!Clear, Deque!Ready, Common!Ready, Deque!Change, Common!Change
<1>2. /\ (Deque!PopFront => Common!PopFront) /\ (Deque!PopBack => Common!PopBack)
      /\ (Deque!Back => Common!Back) /\ \A n : Deque!Get(n) => Common!Get(n)
  BY DEF Deque!PopFront, Common!PopFront, Deque!PopBack, Common!PopBack, Deque!Back, Common!Back,
     Deque!Get, Common!Get, Deque!Ready, Common!Ready, Deque!Change, Common!Change, Deque!Leave, Common!Leave
<1>3. \A e : (Deque!PushBack(e) => Common!PushBack(e)) /\ (Deque!PushFront(e) => Common!PushFront(e))
  BY DEF Deque!PushBack, Common!PushBack, Deque!PushFront, Common!PushFront,
     Deque!Ready, Common!Ready, Deque!Change, Common!Change, Deque!Leave, Common!Leave
<1>4. \A n : (Deque!Delete(n) => Common!Delete(n)) /\ (Deque!Truncate(n) => Common!Truncate(n))
  BY DEF Deque!Delete, Common!Delete, Deque!Truncate, Common!Truncate, Deque!RemoveAt, Common!RemoveAt,
     Deque!Ready, Common!Ready, Deque!Change, Common!Change
<1>5. \A n, e : /\ (Deque!InsertBefore(n, e) => Common!InsertBefore(n, e))
               /\ (Deque!Overwrite(n, e) => Common!Overwrite(n, e))
  BY DEF Deque!InsertBefore, Common!InsertBefore, Deque!Overwrite, Common!Overwrite,
     Deque!InsertAt, Common!InsertAt, Deque!ReplaceAt, Common!ReplaceAt, Deque!Ready, Common!Ready,
     Deque!Change, Common!Change, Deque!Leave, Common!Leave
<1>6. (\A P : Deque!FindFirst(P) => Common!FindFirst(P)) /\ (Deque!Reserve => Common!Reserve)
  BY DEF Deque!FindFirst, Common!FindFirst, Deque!Reserve, Common!Reserve,
     Deque!Ready, Common!Ready, Deque!Leave, Common!Leave
<1>7. Deque!Rearrange => Common!Rearrange
  BY DEF Deque!Rearrange, Common!Rearrange, Deque!Ready, Common!Ready, Deque!IsInjective, Common!IsInjective
<1>8. /\ \A s : Deque!Extend(s) => Common!Extend(s)
      /\ (Deque!RefuseExtend => Common!RefuseExtend) /\ (Deque!Feed => Common!Feed)
      /\ (Deque!EndExtend => Common!EndExtend)
  BY DEF Deque!Extend, Common!Extend, Deque!RefuseExtend, Common!RefuseExtend, Deque!Feed, Common!Feed,
     Deque!EndExtend, Common!EndExtend, Deque!Ready, Common!Ready, Deque!Leave, Common!Leave
<1>9. QED
  BY <1>1, <1>2, <1>3, <1>4, <1>5, <1>6, <1>7, <1>8 DEF Deque!Next, Common!Next

LEMMA QueueCommon ==
  ASSUME Contents = Q!Items, Contents' = Q!Items', QDeque!Next
  PROVE  Common!Next
<1>1. /\ (QDeque!Create => Common!Create) /\ (QDeque!Destroy => Common!Destroy)
      /\ (QDeque!Clear => Common!Clear)
  BY DEF QDeque!Create, Common!Create, QDeque!Destroy, Common!Destroy,
     QDeque!Clear, Common!Clear, QDeque!Ready, Common!Ready, QDeque!Change, Common!Change
<1>2. /\ (QDeque!PopFront => Common!PopFront) /\ (QDeque!PopBack => Common!PopBack)
      /\ (QDeque!Back => Common!Back) /\ \A n : QDeque!Get(n) => Common!Get(n)
  BY DEF QDeque!PopFront, Common!PopFront, QDeque!PopBack, Common!PopBack, QDeque!Back, Common!Back,
     QDeque!Get, Common!Get, QDeque!Ready, Common!Ready, QDeque!Change, Common!Change, QDeque!Leave, Common!Leave
<1>3. \A e : (QDeque!PushBack(e) => Common!PushBack(e)) /\ (QDeque!PushFront(e) => Common!PushFront(e))
  BY DEF QDeque!PushBack, Common!PushBack, QDeque!PushFront, Common!PushFront,
     QDeque!Ready, Common!Ready, QDeque!Change, Common!Change, QDeque!Leave, Common!Leave
<1>4. \A n : (QDeque!Delete(n) => Common!Delete(n)) /\ (QDeque!Truncate(n) => Common!Truncate(n))
  BY DEF QDeque!Delete, Common!Delete, QDeque!Truncate, Common!Truncate, QDeque!RemoveAt, Common!RemoveAt,
     QDeque!Ready, Common!Ready, QDeque!Change, Common!Change
<1>5. \A n, e : /\ (QDeque!InsertBefore(n, e) => Common!InsertBefore(n, e))
               /\ (QDeque!Overwrite(n, e) => Common!Overwrite(n, e))
  BY DEF QDeque!InsertBefore, Common!InsertBefore, QDeque!Overwrite, Common!Overwrite,
     QDeque!InsertAt, Common!InsertAt, QDeque!ReplaceAt, Common!ReplaceAt, QDeque!Ready, Common!Ready,
     QDeque!Change, Common!Change, QDeque!Leave, Common!Leave
<1>6. (\A P : QDeque!FindFirst(P) => Common!FindFirst(P)) /\ (QDeque!Reserve => Common!Reserve)
  BY DEF QDeque!FindFirst, Common!FindFirst, QDeque!Reserve, Common!Reserve,
     QDeque!Ready, Common!Ready, QDeque!Leave, Common!Leave
<1>7. QDeque!Rearrange => Common!Rearrange
  BY DEF QDeque!Rearrange, Common!Rearrange, QDeque!Ready, Common!Ready, QDeque!IsInjective, Common!IsInjective
<1>8. /\ \A s : QDeque!Extend(s) => Common!Extend(s)
      /\ (QDeque!RefuseExtend => Common!RefuseExtend) /\ (QDeque!Feed => Common!Feed)
      /\ (QDeque!EndExtend => Common!EndExtend)
  BY DEF QDeque!Extend, Common!Extend, QDeque!RefuseExtend, Common!RefuseExtend, QDeque!Feed, Common!Feed,
     QDeque!EndExtend, Common!EndExtend, QDeque!Ready, Common!Ready, QDeque!Leave, Common!Leave
<1>9. QED
  BY <1>1, <1>2, <1>3, <1>4, <1>5, <1>6, <1>7, <1>8 DEF QDeque!Next, Common!Next

LEMMA ListCommon ==
  ASSUME Contents = L!Items, Contents' = L!Items', LDeque!Next
  PROVE  Common!Next
<1>1. /\ (LDeque!Create => Common!Create) /\ (LDeque!Destroy => Common!Destroy)
      /\ (LDeque!Clear => Common!Clear)
  BY DEF LDeque!Create, Common!Create, LDeque!Destroy, Common!Destroy,
     LDeque!Clear, Common!Clear, LDeque!Ready, Common!Ready, LDeque!Change, Common!Change
<1>2. /\ (LDeque!PopFront => Common!PopFront) /\ (LDeque!PopBack => Common!PopBack)
      /\ (LDeque!Back => Common!Back) /\ \A n : LDeque!Get(n) => Common!Get(n)
  BY DEF LDeque!PopFront, Common!PopFront, LDeque!PopBack, Common!PopBack, LDeque!Back, Common!Back,
     LDeque!Get, Common!Get, LDeque!Ready, Common!Ready, LDeque!Change, Common!Change, LDeque!Leave, Common!Leave
<1>3. \A e : (LDeque!PushBack(e) => Common!PushBack(e)) /\ (LDeque!PushFront(e) => Common!PushFront(e))
  BY DEF LDeque!PushBack, Common!PushBack, LDeque!PushFront, Common!PushFront,
     LDeque!Ready, Common!Ready, LDeque!Change, Common!Change, LDeque!Leave, Common!Leave
<1>4. \A n : (LDeque!Delete(n) => Common!Delete(n)) /\ (LDeque!Truncate(n) => Common!Truncate(n))
  BY DEF LDeque!Delete, Common!Delete, LDeque!Truncate, Common!Truncate, LDeque!RemoveAt, Common!RemoveAt,
     LDeque!Ready, Common!Ready, LDeque!Change, Common!Change
<1>5. \A n, e : /\ (LDeque!InsertBefore(n, e) => Common!InsertBefore(n, e))
               /\ (LDeque!Overwrite(n, e) => Common!Overwrite(n, e))
  BY DEF LDeque!InsertBefore, Common!InsertBefore, LDeque!Overwrite, Common!Overwrite,
     LDeque!InsertAt, Common!InsertAt, LDeque!ReplaceAt, Common!ReplaceAt, LDeque!Ready, Common!Ready,
     LDeque!Change, Common!Change, LDeque!Leave, Common!Leave
<1>6. (\A P : LDeque!FindFirst(P) => Common!FindFirst(P)) /\ (LDeque!Reserve => Common!Reserve)
  BY DEF LDeque!FindFirst, Common!FindFirst, LDeque!Reserve, Common!Reserve,
     LDeque!Ready, Common!Ready, LDeque!Leave, Common!Leave
<1>7. LDeque!Rearrange => Common!Rearrange
  BY DEF LDeque!Rearrange, Common!Rearrange, LDeque!Ready, Common!Ready, LDeque!IsInjective, Common!IsInjective
<1>8. /\ \A s : LDeque!Extend(s) => Common!Extend(s)
      /\ (LDeque!RefuseExtend => Common!RefuseExtend) /\ (LDeque!Feed => Common!Feed)
      /\ (LDeque!EndExtend => Common!EndExtend)
  BY DEF LDeque!Extend, Common!Extend, LDeque!RefuseExtend, Common!RefuseExtend, LDeque!Feed, Common!Feed,
     LDeque!EndExtend, Common!EndExtend, LDeque!Ready, Common!Ready, LDeque!Leave, Common!Leave
<1>9. QED
  BY <1>1, <1>2, <1>3, <1>4, <1>5, <1>6, <1>7, <1>8 DEF LDeque!Next, Common!Next

LEMMA VecCommon ==
  ASSUME Contents = V!Items, Contents' = V!Items', VDeque!Next
  PROVE  Common!Next
<1>1. /\ (VDeque!Create => Common!Create) /\ (VDeque!Destroy => Common!Destroy)
      /\ (VDeque!Clear => Common!Clear)
  BY DEF VDeque!Create, Common!Create, VDeque!Destroy, Common!Destroy,
     VDeque!Clear, Common!Clear, VDeque!Ready, Common!Ready, VDeque!Change, Common!Change
<1>2. /\ (VDeque!PopFront => Common!PopFront) /\ (VDeque!PopBack => Common!PopBack)
      /\ (VDeque!Back => Common!Back) /\ \A n : VDeque!Get(n) => Common!Get(n)
  BY DEF VDeque!PopFront, Common!PopFront, VDeque!PopBack, Common!PopBack, VDeque!Back, Common!Back,
     VDeque!Get, Common!Get, VDeque!Ready, Common!Ready, VDeque!Change, Common!Change, VDeque!Leave, Common!Leave
<1>3. \A e : (VDeque!PushBack(e) => Common!PushBack(e)) /\ (VDeque!PushFront(e) => Common!PushFront(e))
  BY DEF VDeque!PushBack, Common!PushBack, VDeque!PushFront, Common!PushFront,
     VDeque!Ready, Common!Ready, VDeque!Change, Common!Change, VDeque!Leave, Common!Leave
<1>4. \A n : (VDeque!Delete(n) => Common!Delete(n)) /\ (VDeque!Truncate(n) => Common!Truncate(n))
  BY DEF VDeque!Delete, Common!Delete, VDeque!Truncate, Common!Truncate, VDeque!RemoveAt, Common!RemoveAt,
     VDeque!Ready, Common!Ready, VDeque!Change, Common!Change
<1>5. \A n, e : /\ (VDeque!InsertBefore(n, e) => Common!InsertBefore(n, e))
               /\ (VDeque!Overwrite(n, e) => Common!Overwrite(n, e))
  BY DEF VDeque!InsertBefore, Common!InsertBefore, VDeque!Overwrite, Common!Overwrite,
     VDeque!InsertAt, Common!InsertAt, VDeque!ReplaceAt, Common!ReplaceAt, VDeque!Ready, Common!Ready,
     VDeque!Change, Common!Change, VDeque!Leave, Common!Leave
<1>6. (\A P : VDeque!FindFirst(P) => Common!FindFirst(P)) /\ (VDeque!Reserve => Common!Reserve)
  BY DEF VDeque!FindFirst, Common!FindFirst, VDeque!Reserve, Common!Reserve,
     VDeque!Ready, Common!Ready, VDeque!Leave, Common!Leave
<1>7. VDeque!Rearrange => Common!Rearrange
  BY DEF VDeque!Rearrange, Common!Rearrange, VDeque!Ready, Common!Ready, VDeque!IsInjective, Common!IsInjective
<1>8. /\ \A s : VDeque!Extend(s) => Common!Extend(s)
      /\ (VDeque!RefuseExtend => Common!RefuseExtend) /\ (VDeque!Feed => Common!Feed)
      /\ (VDeque!EndExtend => Common!EndExtend)
  BY DEF VDeque!Extend, Common!Extend, VDeque!RefuseExtend, Common!RefuseExtend, VDeque!Feed, Common!Feed,
     VDeque!EndExtend, Common!EndExtend, VDeque!Ready, Common!Ready, VDeque!Leave, Common!Leave
<1>9. QED
  BY <1>1, <1>2, <1>3, <1>4, <1>5, <1>6, <1>7, <1>8 DEF VDeque!Next, Common!Next

LEMMA ContentsAre ==
  ASSUME which' = which
  PROVE  /\ which = "ringbuf" => Contents = Items /\ Contents' = Items'
         /\ which = "queue" => Contents = Q!Items /\ Contents' = Q!Items'
         /\ which = "list" => Contents = L!Items /\ Contents' = L!Items'
         /\ which = "vec" => Contents = V!Items /\ Contents' = V!Items'
BY DEF Contents

LEMMA ContentsNow ==
  /\ which = "ringbuf" => Contents = Items
  /\ which = "queue" => Contents = Q!Items
  /\ which = "list" => Contents = L!Items
  /\ which = "vec" => Contents = V!Items
BY DEF Contents

LEMMA InitCommon == InitAny => Common!Init
<1> SUFFICES ASSUME InitAny PROVE Common!Init
  OBVIOUS
<1>1. CASE which = "ringbuf"
  BY <1>1, InitDeque, ContentsNow DEF InitAny, Deque!Init, Common!Init
<1>2. CASE which = "queue"
  BY <1>2, InitQDeque, ContentsNow DEF InitAny, QDeque!Init, Common!Init
<1>3. CASE which = "list"
  BY <1>3, InitLDeque, ContentsNow DEF InitAny, LDeque!Init, Common!Init
<1>4. CASE which = "vec"
  BY <1>4, InitVDeque, ContentsNow DEF InitAny, VDeque!Init, Common!Init
<1>5. QED
  BY <1>1, <1>2, <1>3, <1>4 DEF InitAny

LEMMA NextCommon == AnyInv /\ [NextAny]_all => [Common!Next]_(Common!vars)
<1> SUFFICES ASSUME AnyInv, [NextAny]_all PROVE Common!Next \/ UNCHANGED Common!vars
  OBVIOUS
<1>1. which' = which /\ which \in {"ringbuf", "queue", "list", "vec"}
  BY AnyStep DEF AnyInv
<1>2. CASE which = "ringbuf"
  <2>1. /\ Deque!Next \/ UNCHANGED Deque!vars
        /\ Contents = Items /\ Contents' = Items'
    BY <1>1, <1>2, AnyStep, NextDeque, ContentsAre DEF AnyInv
  <2>2. UNCHANGED Deque!vars => UNCHANGED Common!vars
    BY <2>1 DEF Deque!vars, Common!vars
  <2>3. QED
    BY <2>1, <2>2, RingCommon
<1>3. CASE which = "queue"
  <2>1. /\ QDeque!Next \/ UNCHANGED QDeque!vars
        /\ Contents = Q!Items /\ Contents' = Q!Items'
    BY <1>1, <1>3, AnyStep, NextQDeque, ContentsAre DEF AnyInv
  <2>2. UNCHANGED QDeque!vars => UNCHANGED Common!vars
    BY <2>1 DEF QDeque!vars, Common!vars
  <2>3. QED
    BY <2>1, <2>2, QueueCommon
<1>4. CASE which = "list"
  <2>1. /\ LDeque!Next \/ UNCHANGED LDeque!vars
        /\ Contents = L!Items /\ Contents' = L!Items'
    BY <1>1, <1>4, AnyStep, NextLDeque, ContentsAre DEF AnyInv
  <2>2. UNCHANGED LDeque!vars => UNCHANGED Common!vars
    BY <2>1 DEF LDeque!vars, Common!vars
  <2>3. QED
    BY <2>1, <2>2, ListCommon
<1>5. CASE which = "vec"
  <2>1. /\ VDeque!Next \/ UNCHANGED VDeque!vars
        /\ Contents = V!Items /\ Contents' = V!Items'
    BY <1>1, <1>5, AnyStep, NextVDeque, ContentsAre DEF AnyInv
  <2>2. UNCHANGED VDeque!vars => UNCHANGED Common!vars
    BY <2>1 DEF VDeque!vars, Common!vars
  <2>3. QED
    BY <2>1, <2>2, VecCommon
<1>6. QED
  BY <1>1, <1>2, <1>3, <1>4, <1>5

(* Ring buffer, queue, list, doubly linked list, vector and stack: each    *)
(* call of each is the same call, with the same arguments, on the sequence *)
(* that DequeSpec promises.                                                *)
THEOREM AnyImplements == SpecAny => DequesImplemented
BY InitCommon, NextCommon, AnyInductive, PTL DEF SpecAny, DequesImplemented, Common!Spec
=============================================================================
