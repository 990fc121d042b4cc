----------------------------- MODULE DequeProofs -----------------------------
(***************************************************************************)
(* Theorems of RingBuf and of Queue, for every set of elements and every   *)
(* capacity: no slot out of bounds or unwritten is read, no block is lost, *)
(* iterators keep the order across the wrap, and both implement DequeSpec. *)
(***************************************************************************)
EXTENDS Deques, SequenceTheorems, TLAPS

-----------------------------------------------------------------------------
(* A circular buffer of capacity c that holds l elements from slot h on.   *)

Content(d, c, l, h) == [n \in 1 .. l |-> d[SlotIn(h, n - 1, c)]]

Shape(d, c, l, h) ==
  /\ c \in Nat /\ l \in 0 .. c
  /\ IF c = 0 THEN h = 0 ELSE h \in Slots(c)
  /\ d \in [Slots(c) -> Elems \cup {Junk}]
  /\ Content(d, c, l, h) \in Seq(Elems)

LEMMA WrapIs ==
  ASSUME NEW c \in Nat \ {0}, NEW h \in Slots(c), NEW n \in 0 .. c
  PROVE  /\ SlotIn(h, n, c) = IF h + n < c THEN h + n ELSE h + n - c
         /\ SlotIn(h, n, c) \in Slots(c)
<1>1. CASE h + n < c
  BY <1>1 DEF SlotIn, Slots
<1>2. CASE h + n >= c
  <2>1. (h + n - c) % c = h + n - c
    BY <1>2 DEF Slots
  <2>2. (h + n) % c = (h + n - c) % c
    BY <1>2 DEF Slots
  <2>3. QED
    BY <1>2, <2>1, <2>2 DEF SlotIn, Slots
<1>3. QED
  BY <1>1, <1>2 DEF Slots

LEMMA ContentSeq ==
  ASSUME NEW d, NEW c, NEW l \in Nat, NEW h
  PROVE  /\ Len(Content(d, c, l, h)) = l
         /\ DOMAIN Content(d, c, l, h) = 1 .. l
         /\ \A n \in 1 .. l : Content(d, c, l, h)[n] = d[SlotIn(h, n - 1, c)]
BY DEF Content

(* Nothing of a buffer but its elements decides what it holds.             *)
LEMMA ContentSame ==
  ASSUME NEW d, NEW c, NEW h, NEW d1, NEW c1, NEW h1, NEW l \in Nat,
         \A n \in 0 .. l - 1 : d1[SlotIn(h1, n, c1)] = d[SlotIn(h, n, c)]
  PROVE  Content(d1, c1, l, h1) = Content(d, c, l, h)
BY DEF Content

LEMMA SeqIs ==
  ASSUME NEW k \in Nat, NEW t, t = [n \in 1 .. k |-> t[n]],
         NEW s \in Seq(Elems), Len(s) = k, \A n \in 1 .. k : t[n] = s[n]
  PROVE  t = s
<1>1. s \in [1 .. k -> Elems]
  BY LenProperties
<1>2. QED
  BY <1>1

Holds(d, c, l, h, s) == Len(s) = l /\ \A n \in 1 .. l : d[SlotIn(h, n - 1, c)] = s[n]

LEMMA ContentIs ==
  ASSUME NEW d, NEW c, NEW l \in Nat, NEW h, NEW s \in Seq(Elems), Holds(d, c, l, h, s)
  PROVE  Content(d, c, l, h) = s
<1> DEFINE t == Content(d, c, l, h)
<1>1. t = [n \in 1 .. l |-> t[n]] /\ \A n \in 1 .. l : t[n] = s[n]
  BY DEF Content, Holds
<1> HIDE DEF t
<1>2. QED
  BY <1>1, SeqIs DEF t, Holds

LEMMA ContentAppend ==
  ASSUME NEW c \in Nat \ {0}, NEW l \in 0 .. c - 1, NEW h \in Slots(c), NEW e \in Elems,
         NEW d, Shape(d, c, l, h), NEW d1, d1 = [d EXCEPT ![SlotIn(h, l, c)] = e]
  PROVE  Shape(d1, c, l + 1, h) /\ Content(d1, c, l + 1, h) = Append(Content(d, c, l, h), e)
<1> PICK s : s = Content(d, c, l, h)
  OBVIOUS
<1>1. d \in [Slots(c) -> Elems \cup {Junk}] /\ s \in Seq(Elems) /\ l \in Nat /\ Len(s) = l
  BY ContentSeq DEF Shape
<1>2. \A n \in 1 .. l : s[n] = d[SlotIn(h, n - 1, c)]
  BY <1>1, ContentSeq
<1>3. d1 \in [Slots(c) -> Elems \cup {Junk}] /\ d1[SlotIn(h, l, c)] = e
  BY <1>1, WrapIs
<1>4. ASSUME NEW n \in 0 .. l - 1 PROVE d1[SlotIn(h, n, c)] = d[SlotIn(h, n, c)]
  <2>1. SlotIn(h, n, c) = (IF h + n < c THEN h + n ELSE h + n - c) /\ SlotIn(h, n, c) \in Slots(c)
    BY WrapIs
  <2>2. SlotIn(h, l, c) = IF h + l < c THEN h + l ELSE h + l - c
    BY WrapIs
  <2>3. SlotIn(h, n, c) # SlotIn(h, l, c)
    BY <2>1, <2>2 DEF Slots
  <2>4. QED
    BY <1>1, <2>1, <2>3
<1> PICK r : r = Append(s, e)
  OBVIOUS
<1>5. r \in Seq(Elems) /\ Len(r) = l + 1 /\ (\A n \in 1 .. l : r[n] = s[n]) /\ r[l + 1] = e
  BY <1>1, AppendProperties
<1>6. ASSUME NEW n \in 1 .. l + 1 PROVE d1[SlotIn(h, n - 1, c)] = r[n]
  <2>1. CASE n = l + 1
    BY <1>3, <1>5, <2>1
  <2>2. CASE n # l + 1
    <3>1. n - 1 \in 0 .. l - 1 /\ n \in 1 .. l
      BY <2>2
    <3>2. QED
      BY <1>2, <1>4, <1>5, <3>1
  <2>3. QED
    BY <2>1, <2>2
<1>7. Content(d1, c, l + 1, h) = r
  <2> PICK k \in Nat : k = l + 1
    BY <1>1
  <2>1. Holds(d1, c, k, h, r)
    BY <1>5, <1>6 DEF Holds
  <2>2. Content(d1, c, k, h) = r
    BY <1>5, <2>1, ContentIs
  <2>3. QED
    BY <2>2
<1>8. Shape(d1, c, l + 1, h)
  <2>1. c \in Nat /\ c # 0 /\ l + 1 \in 0 .. c
    OBVIOUS
  <2>2. Content(d1, c, l + 1, h) \in Seq(Elems)
    BY ONLY <1>5, <1>7, Zenon
  <2>3. QED
    BY ONLY <1>3, <2>1, <2>2, h \in Slots(c) DEF Shape
<1>9. QED
  BY <1>7, <1>8

Prepended(e, s) == <<e>> \o s
Behind(h, c)    == SlotIn(h, c - 1, c)

LEMMA ContentPrepend ==
  ASSUME NEW c \in Nat \ {0}, NEW l \in 0 .. c - 1, NEW h \in Slots(c), NEW e \in Elems,
         NEW d, Shape(d, c, l, h), NEW h1, h1 = Behind(h, c),
         NEW d1, d1 = [d EXCEPT ![h1] = e]
  PROVE  Shape(d1, c, l + 1, h1) /\ Content(d1, c, l + 1, h1) = Prepended(e, Content(d, c, l, h))
<1> PICK s : s = Content(d, c, l, h)
  OBVIOUS
<1>1. d \in [Slots(c) -> Elems \cup {Junk}] /\ s \in Seq(Elems) /\ l \in Nat /\ Len(s) = l
  BY ContentSeq DEF Shape
<1>2. \A n \in 1 .. l : s[n] = d[SlotIn(h, n - 1, c)]
  BY <1>1, ContentSeq
<1>3. h1 = (IF h = 0 THEN c - 1 ELSE h - 1) /\ h1 \in Slots(c)
  <2>1. h1 = (IF h + (c - 1) < c THEN h + (c - 1) ELSE h + (c - 1) - c) /\ h1 \in Slots(c)
    <3>1. c - 1 \in 0 .. c
      OBVIOUS
    <3>2. QED
      BY <3>1, WrapIs DEF Behind
  <2>2. QED
    BY <2>1 DEF Slots
<1>4. d1 \in [Slots(c) -> Elems \cup {Junk}] /\ d1[h1] = e
  BY <1>1, <1>3
<1>5. ASSUME NEW n \in 0 .. l - 1 PROVE d1[SlotIn(h1, n + 1, c)] = d[SlotIn(h, n, c)]
  <2>1. SlotIn(h, n, c) = (IF h + n < c THEN h + n ELSE h + n - c) /\ SlotIn(h, n, c) \in Slots(c)
    BY WrapIs
  <2>2. SlotIn(h1, n + 1, c) = IF h1 + (n + 1) < c THEN h1 + (n + 1) ELSE h1 + (n + 1) - c
    BY <1>3, WrapIs
  <2>3. SlotIn(h1, n + 1, c) = SlotIn(h, n, c) /\ SlotIn(h, n, c) # h1
    BY <1>3, <2>1, <2>2 DEF Slots
  <2>4. QED
    BY <1>1, <2>1, <2>3
<1> PICK r : r = <<e>> \o s
  OBVIOUS
<1>6. r \in Seq(Elems) /\ Len(r) = l + 1 /\ r[1] = e /\ (\A n \in 2 .. l + 1 : r[n] = s[n - 1])
  <2>1. <<e>> \in Seq(Elems) /\ Len(<<e>>) = 1 /\ <<e>>[1] = e
    OBVIOUS
  <2>2. QED
    BY <1>1, <2>1, ConcatProperties
<1>7. ASSUME NEW n \in 1 .. l + 1 PROVE d1[SlotIn(h1, n - 1, c)] = r[n]
  <2>1. CASE n = 1
    <3>1. 0 \in 0 .. c /\ h1 + 0 < c /\ h1 + 0 = h1
      BY <1>3 DEF Slots
    <3>2. SlotIn(h1, 0, c) = h1
      BY <1>3, <3>1, WrapIs
    <3>3. QED
      BY <1>4, <1>6, <2>1, <3>2
  <2>2. CASE n # 1
    <3> PICK m \in 0 .. l - 1 : n = m + 2
      BY <2>2
    <3>1. m + 1 \in 1 .. l /\ n \in 2 .. l + 1 /\ n - 1 = m + 1 /\ (m + 1) - 1 = m
      OBVIOUS
    <3>2. r[n] = s[m + 1] /\ s[m + 1] = d[SlotIn(h, m, c)]
      BY <1>2, <1>6, <3>1
    <3>3. QED
      BY <1>5, <3>1, <3>2
  <2>3. QED
    BY <2>1, <2>2
<1>8. Content(d1, c, l + 1, h1) = r
  <2> PICK k \in Nat : k = l + 1
    BY <1>1
  <2>1. Holds(d1, c, k, h1, r)
    BY <1>6, <1>7 DEF Holds
  <2>2. Content(d1, c, k, h1) = r
    BY ONLY <1>6, <2>1, k \in Nat, ContentIs
  <2>3. QED
    BY <2>2
<1>9. Shape(d1, c, l + 1, h1)
  <2>1. c \in Nat /\ c # 0 /\ l + 1 \in 0 .. c
    OBVIOUS
  <2>2. Content(d1, c, l + 1, h1) \in Seq(Elems)
    BY ONLY <1>6, <1>8, Zenon
  <2>3. QED
    BY ONLY <1>3, <1>4, <2>1, <2>2 DEF Shape
<1>10. QED
  BY <1>8, <1>9 DEF Prepended

LEMMA ContentTail ==
  ASSUME NEW c \in Nat \ {0}, NEW l \in 1 .. c, NEW h \in Slots(c), NEW d, Shape(d, c, l, h),
         NEW h1, h1 = SlotIn(h, 1, c)
  PROVE  /\ Shape(d, c, l - 1, h1) /\ Content(d, c, l - 1, h1) = Tail(Content(d, c, l, h))
         /\ Content(d, c, l, h) # <<>> /\ Head(Content(d, c, l, h)) = d[h]
<1> PICK s : s = Content(d, c, l, h)
  OBVIOUS
<1>1. d \in [Slots(c) -> Elems \cup {Junk}] /\ s \in Seq(Elems) /\ l \in Nat /\ Len(s) = l
  BY ContentSeq DEF Shape
<1>2. \A n \in 1 .. l : s[n] = d[SlotIn(h, n - 1, c)]
  BY <1>1, ContentSeq
<1>3. h1 = (IF h + 1 < c THEN h + 1 ELSE h + 1 - c) /\ h1 \in Slots(c)
  <2>1. 1 \in 0 .. c
    OBVIOUS
  <2>2. QED
    BY <2>1, WrapIs
<1> PICK k \in Nat : k = l - 1
  OBVIOUS
<1>4. ASSUME NEW n \in 0 .. k - 1 PROVE SlotIn(h1, n, c) = SlotIn(h, n + 1, c)
  <2>1. SlotIn(h, n + 1, c) = IF h + (n + 1) < c THEN h + (n + 1) ELSE h + (n + 1) - c
    BY WrapIs
  <2>2. SlotIn(h1, n, c) = IF h1 + n < c THEN h1 + n ELSE h1 + n - c
    BY <1>3, WrapIs
  <2>3. QED
    BY <1>3, <2>1, <2>2 DEF Slots
<1> PICK r : r = Tail(s)
  OBVIOUS
<1>5. s # <<>> /\ r \in Seq(Elems) /\ Len(r) = k /\ (\A n \in 1 .. k : r[n] = s[n + 1])
      /\ Head(s) = s[1]
  BY <1>1, HeadTailProperties
<1>6. ASSUME NEW n \in 1 .. k PROVE d[SlotIn(h1, n - 1, c)] = r[n]
  <2> PICK m \in 0 .. k - 1 : n = m + 1
    OBVIOUS
  <2>1. n + 1 \in 1 .. l /\ (n + 1) - 1 = m + 1 /\ n - 1 = m
    OBVIOUS
  <2>2. r[n] = d[SlotIn(h, m + 1, c)]
    BY <1>2, <1>5, <2>1
  <2>3. QED
    BY <1>4, <2>1, <2>2
<1>7. Content(d, c, k, h1) = r
  <2>1. Holds(d, c, k, h1, r)
    BY <1>5, <1>6 DEF Holds
  <2>2. QED
    BY <1>5, <2>1, ContentIs
<1>8. Head(s) = d[h]
  <2>1. SlotIn(h, 0, c) = h
    BY WrapIs DEF Slots
  <2>2. s[1] = d[SlotIn(h, 0, c)]
    <3>1. 1 \in 1 .. l /\ 1 - 1 = 0
      OBVIOUS
    <3>2. QED
      BY <1>2, <3>1
  <2>3. QED
    BY <1>5, <2>1, <2>2
<1>9. Shape(d, c, k, h1)
  <2>1. c \in Nat /\ c # 0 /\ k \in 0 .. c
    OBVIOUS
  <2>2. Content(d, c, k, h1) \in Seq(Elems)
    BY ONLY <1>5, <1>7, Zenon
  <2>3. QED
    BY ONLY <1>1, <1>3, <2>1, <2>2 DEF Shape
<1>10. QED
  BY <1>5, <1>7, <1>8, <1>9

LEMMA ContentFront ==
  ASSUME NEW c \in Nat \ {0}, NEW l \in 1 .. c, NEW h \in Slots(c), NEW d, Shape(d, c, l, h)
  PROVE  /\ Shape(d, c, l - 1, h)
         /\ Content(d, c, l - 1, h) = SubSeq(Content(d, c, l, h), 1, Len(Content(d, c, l, h)) - 1)
         /\ Content(d, c, l, h)[Len(Content(d, c, l, h))] = d[SlotIn(h, l - 1, c)]
<1> PICK s : s = Content(d, c, l, h)
  OBVIOUS
<1>1. d \in [Slots(c) -> Elems \cup {Junk}] /\ s \in Seq(Elems) /\ l \in Nat /\ Len(s) = l
  BY ContentSeq DEF Shape
<1>2. \A n \in 1 .. l : s[n] = d[SlotIn(h, n - 1, c)]
  BY <1>1, ContentSeq
<1> PICK k \in Nat : k = l - 1
  OBVIOUS
<1> PICK r : r = SubSeq(s, 1, k)
  OBVIOUS
<1>3. r \in Seq(Elems) /\ Len(r) = k /\ \A n \in 1 .. k : r[n] = s[n]
  <2>1. 1 \in 1 .. Len(s) + 1 /\ k \in 1 - 1 .. Len(s)
    BY <1>1
  <2>2. /\ r \in Seq(Elems) /\ Len(r) = k - 1 + 1
        /\ \A n \in 1 .. k - 1 + 1 : r[n] = s[1 + n - 1]
    BY <1>1, <2>1, SubSeqProperties
  <2>3. QED
    BY <2>2
<1>4. Holds(d, c, k, h, r)
  <2>1. \A n \in 1 .. k : n \in 1 .. l
    OBVIOUS
  <2>2. QED
    BY <1>2, <1>3, <2>1 DEF Holds
<1>5. Content(d, c, k, h) = r
  BY <1>3, <1>4, ContentIs
<1>6. Shape(d, c, k, h)
  <2>1. c \in Nat /\ c # 0 /\ k \in 0 .. c
    OBVIOUS
  <2>2. Content(d, c, k, h) \in Seq(Elems)
    BY ONLY <1>3, <1>5, Zenon
  <2>3. QED
    BY ONLY <1>1, h \in Slots(c), <2>1, <2>2 DEF Shape
<1>7. QED
  BY <1>1, <1>2, <1>5, <1>6

(* Nothing is left.  *)
LEMMA ContentNone ==
  ASSUME NEW c \in Nat, NEW d \in [Slots(c) -> Elems \cup {Junk}]
  PROVE  Shape(d, c, 0, 0) /\ Content(d, c, 0, 0) = <<>>
<1>1. Content(d, c, 0, 0) = <<>> /\ <<>> \in Seq(Elems)
  BY DEF Content
<1>2. QED
  BY <1>1 DEF Shape, Slots

(* Elements from slot 0 on, copied from a buffer that may be wrapped.      *)
LEMMA ContentMoved ==
  ASSUME NEW c \in Nat, NEW l \in Nat, NEW h, NEW d, Shape(d, c, l, h),
         NEW c1 \in Nat, l < c1, NEW d1 \in [Slots(c1) -> Elems \cup {Junk}],
         \A n \in 0 .. l - 1 : d1[n] = d[SlotIn(h, n, c)]
  PROVE  Shape(d1, c1, l, 0) /\ Content(d1, c1, l, 0) = Content(d, c, l, h)
<1>1. c1 \in Nat \ {0} /\ 0 \in Slots(c1)
  BY DEF Slots
<1>2. ASSUME NEW n \in 0 .. l - 1 PROVE d1[SlotIn(0, n, c1)] = d[SlotIn(h, n, c)]
  <2>1. SlotIn(0, n, c1) = n
    <3>1. n \in 0 .. c1 /\ 0 + n < c1 /\ 0 + n = n
      OBVIOUS
    <3>2. QED
      BY <1>1, <3>1, WrapIs
  <2>2. QED
    BY <2>1
<1>3. Content(d1, c1, l, 0) = Content(d, c, l, h)
  BY <1>2, ContentSame
<1>4. Content(d1, c1, l, 0) \in Seq(Elems)
  BY <1>3 DEF Shape
<1>5. QED
  BY <1>1, <1>3, <1>4 DEF Shape

-----------------------------------------------------------------------------
(* What the calls of ringbuf_t do to the buffer.                           *)

Ring == Shape(data, cap, len, head)

LEMMA ItemsAre == /\ Items = Content(data, cap, len, head)
                  /\ Items' = Content(data', cap', len', head')
BY DEF Items, Content, At

LEMMA RingItems ==
  Ring => /\ cap \in Nat /\ len \in 0 .. cap /\ Items \in Seq(Elems) /\ Len(Items) = len
          /\ \A n \in 0 .. len - 1 : At(n) = Items[n + 1] /\ At(n) \in Elems
<1> SUFFICES ASSUME Ring PROVE /\ cap \in Nat /\ len \in 0 .. cap /\ Items \in Seq(Elems)
                               /\ Len(Items) = len
                               /\ \A n \in 0 .. len - 1 : At(n) = Items[n + 1] /\ At(n) \in Elems
  OBVIOUS
<1>1. cap \in Nat /\ len \in 0 .. cap /\ Items \in Seq(Elems)
  BY ItemsAre DEF Ring, Shape
<1>2. Len(Items) = len
  BY <1>1 DEF Items
<1>3. ASSUME NEW n \in 0 .. len - 1 PROVE At(n) = Items[n + 1] /\ At(n) \in Elems
  <2>1. n + 1 \in 1 .. len /\ (n + 1) - 1 = n
    BY <1>1
  <2>2. At(n) = Items[n + 1]
    BY <2>1 DEF Items
  <2>3. QED
    BY <1>1, <1>2, <2>1, <2>2
<1>4. QED
  BY <1>1, <1>2, <1>3

(* The room a push finds or makes holds what the buffer held.              *)
LEMMA SpaceHolds ==
  ASSUME Ring, NEW g \in Space
  PROVE  /\ g.cap \in Nat \ {0} /\ len \in 0 .. g.cap - 1 /\ g.head \in Slots(g.cap)
         /\ Shape(g.data, g.cap, len, g.head)
         /\ Content(g.data, g.cap, len, g.head) = Items
         /\ cap # 0 => g.cap # 0
         /\ cap = 0 => Full
<1>1. /\ cap \in Nat /\ len \in 0 .. cap
      /\ IF cap = 0 THEN head = 0 ELSE head \in Slots(cap)
      /\ data \in [Slots(cap) -> Elems \cup {Junk}]
  BY DEF Ring, Shape
<1>2. CASE ~Full
  <2>1. g.data = data /\ g.cap = cap /\ g.head = head
    BY <1>2 DEF Space
  <2>2. cap # 0 /\ len # cap
    BY <1>1, <1>2 DEF Full
  <2>3. QED
    BY <1>1, <2>1, <2>2, ItemsAre DEF Ring
<1>3. CASE Full
  <2>1. /\ g.data = [s \in Slots(NewCap) |-> IF s < len THEN CopyLinear(s) ELSE Junk]
        /\ g.cap = NewCap /\ g.head = 0
    BY <1>3 DEF Space, GrownHead
  <2>2. NewCap \in Nat \ {0} /\ len < NewCap /\ len = cap /\ len \in Nat
    BY <1>1, <1>3, RingBufAssumption DEF NewCap, Full
  <2>3. ASSUME NEW n \in 0 .. len - 1
        PROVE  CopyLinear(n) = data[SlotIn(head, n, cap)] /\ SlotIn(head, n, cap) \in Slots(cap)
    <3>1. cap \in Nat \ {0} /\ head \in Slots(cap) /\ n \in 0 .. cap
      BY <1>1, <2>2
    <3>2. SlotIn(head, n, cap) = (IF head + n < cap THEN head + n ELSE head + n - cap)
          /\ SlotIn(head, n, cap) \in Slots(cap)
      BY <3>1, WrapIs
    <3>3. CASE head = 0
      BY <2>2, <3>1, <3>2, <3>3 DEF CopyLinear, Slots
    <3>4. CASE head # 0
      <4>1. head + len > cap
        BY <2>2, <3>1, <3>4 DEF Slots
      <4>2. CASE n < cap - head
        BY <2>2, <3>1, <3>2, <4>1, <4>2 DEF CopyLinear, Slots
      <4>3. CASE ~(n < cap - head)
        <5>1. n - (cap - head) = head + n - cap /\ ~(head + n < cap)
          BY <3>1, <4>3 DEF Slots
        <5>2. CopyLinear(n) = data[n - (cap - head)]
          BY <2>2, <3>1, <4>1, <4>3 DEF CopyLinear, Slots
        <5>3. QED
          BY <3>2, <5>1, <5>2
      <4>4. QED
        BY <4>2, <4>3
    <3>5. QED
      BY <3>3, <3>4
  <2>4. g.data \in [Slots(NewCap) -> Elems \cup {Junk}]
    <3>1. ASSUME NEW s \in Slots(NewCap)
          PROVE  (IF s < len THEN CopyLinear(s) ELSE Junk) \in Elems \cup {Junk}
      <4>1. CASE s < len
        <5>1. s \in 0 .. len - 1
          BY <2>2, <4>1 DEF Slots
        <5>2. QED
          BY <1>1, <2>3, <4>1, <5>1
      <4>2. QED
        BY <4>1
    <3>2. QED
      BY <2>1, <3>1
  <2>5. ASSUME NEW n \in 0 .. len - 1 PROVE g.data[n] = data[SlotIn(head, n, cap)]
    <3>1. n \in Slots(NewCap) /\ n < len
      BY <2>2 DEF Slots
    <3>2. QED
      BY <2>1, <2>3, <3>1
  <2>6. /\ Shape(g.data, NewCap, len, 0)
        /\ Content(g.data, NewCap, len, 0) = Content(data, cap, len, head)
    BY <1>1, <2>2, <2>4, <2>5, ContentMoved DEF Ring
  <2>7. QED
    BY <1>3, <2>1, <2>2, <2>6, ItemsAre DEF Slots
<1>4. QED
  BY <1>2, <1>3

LEMMA BufferKept ==
  ASSUME Ring, UNCHANGED buffer
  PROVE  Ring' /\ Items' = Items
BY ItemsAre DEF Ring, buffer

LEMMA BackPushed ==
  ASSUME Ring, NEW e \in Elems, PushedBack(e)
  PROVE  /\ Ring' /\ Items' = Append(Items, e) /\ cap' # 0
         /\ blocks' = blocks + (IF cap = 0 THEN 1 ELSE 0)
<1> PICK g \in Space : /\ data' = [g.data EXCEPT ![SlotIn(g.head, len, g.cap)] = e]
                       /\ cap' = g.cap /\ head' = g.head /\ len' = len + 1
                       /\ blocks' = GrownFreeing(blocks)
  BY DEF PushedBack
<1>1. /\ g.cap \in Nat \ {0} /\ len \in 0 .. g.cap - 1 /\ g.head \in Slots(g.cap)
      /\ Shape(g.data, g.cap, len, g.head)
      /\ Content(g.data, g.cap, len, g.head) = Items
      /\ cap = 0 => Full
  BY SpaceHolds
<1>2. /\ Shape(data', g.cap, len + 1, g.head)
      /\ Content(data', g.cap, len + 1, g.head) = Append(Items, e)
  <2> PICK d : d = g.data
    OBVIOUS
  <2> PICK d1 : d1 = data' /\ d1 = [d EXCEPT ![SlotIn(g.head, len, g.cap)] = e]
    OBVIOUS
  <2>1. Shape(d1, g.cap, len + 1, g.head)
        /\ Content(d1, g.cap, len + 1, g.head) = Append(Content(d, g.cap, len, g.head), e)
    BY <1>1, ContentAppend
  <2>2. QED
    BY <1>1, <2>1
<1>3. Ring' /\ Items' = Append(Items, e)
  <2>1. Items' = Content(data', g.cap, len + 1, g.head)
    BY ItemsAre
  <2>2. QED
    BY <1>2, <2>1 DEF Ring
<1>4. cap' # 0 /\ blocks' = blocks + (IF cap = 0 THEN 1 ELSE 0)
  BY <1>1 DEF GrownFreeing
<1>5. QED
  BY <1>3, <1>4

LEMMA FrontPushed ==
  ASSUME Ring, NEW e \in Elems, PushedFront(e)
  PROVE  /\ Ring' /\ Items' = <<e>> \o Items /\ cap' # 0
         /\ blocks' = blocks + (IF cap = 0 THEN 1 ELSE 0)
<1> PICK g \in Space : LET h == SlotIn(g.head, g.cap - 1, g.cap) IN
                       /\ data' = [g.data EXCEPT ![h] = e]
                       /\ cap' = g.cap /\ head' = h /\ len' = len + 1
                       /\ blocks' = GrownFreeing(blocks)
  BY DEF PushedFront
<1>1. /\ g.cap \in Nat \ {0} /\ len \in 0 .. g.cap - 1 /\ g.head \in Slots(g.cap)
      /\ Shape(g.data, g.cap, len, g.head)
      /\ Content(g.data, g.cap, len, g.head) = Items
      /\ cap = 0 => Full
  BY SpaceHolds
<1>2. /\ Shape(data', g.cap, len + 1, head')
      /\ Content(data', g.cap, len + 1, head') = <<e>> \o Items
  <2>1. head' = SlotIn(g.head, g.cap - 1, g.cap) /\ data' = [g.data EXCEPT ![head'] = e]
    OBVIOUS
  <2> PICK d, c, h, d1, h1 : d = g.data /\ c = g.cap /\ h = g.head /\ d1 = data' /\ h1 = head'
    OBVIOUS
  <2>2. /\ c \in Nat \ {0} /\ len \in 0 .. c - 1 /\ h \in Slots(c) /\ Shape(d, c, len, h)
        /\ h1 = Behind(h, c) /\ d1 = [d EXCEPT ![h1] = e]
    BY <1>1, <2>1 DEF Behind
  <2>3. Shape(d1, c, len + 1, h1) /\ Content(d1, c, len + 1, h1) = Prepended(e, Content(d, c, len, h))
    <3> PICK l : l = len
      OBVIOUS
    <3>1. \A r \in {[d EXCEPT ![h1] = e]} :
            Shape(r, c, l + 1, h1) /\ Content(r, c, l + 1, h1) = Prepended(e, Content(d, c, l, h))
      BY <2>2, ContentPrepend
    <3>2. QED
      BY <2>2, <3>1
  <2>4. QED
    BY <1>1, <2>3 DEF Prepended
<1>3. cap' = g.cap /\ len' = len + 1 /\ blocks' = GrownFreeing(blocks)
  OBVIOUS
<1>4. Ring' /\ Items' = <<e>> \o Items
  BY <1>2, <1>3, ItemsAre DEF Ring
<1>5. cap' # 0 /\ blocks' = blocks + (IF cap = 0 THEN 1 ELSE 0)
  BY <1>1, <1>3 DEF GrownFreeing
<1>6. QED
  BY <1>4, <1>5

LEMMA FrontPopped ==
  ASSUME Ring, PopFront, len # 0
  PROVE  Ring' /\ Items # <<>> /\ Items' = Tail(Items) /\ ret' = Head(Items) /\ ret' \in Elems
<1>1. cap \in Nat \ {0} /\ len \in 1 .. cap /\ head \in Slots(cap)
  BY DEF Ring, Shape
<1>2. ret' = data[head] /\ head' = SlotIn(head, 1, cap) /\ len' = len - 1 /\ UNCHANGED <<data, cap>>
  BY DEF PopFront
<1>3. /\ Shape(data, cap, len - 1, head') /\ Content(data, cap, len - 1, head') = Tail(Items)
      /\ Items # <<>> /\ Head(Items) = data[head]
  BY <1>1, <1>2, ContentTail, ItemsAre DEF Ring
<1>4. Items \in Seq(Elems)
  BY RingItems
<1>5. Head(Items) \in Elems
  BY <1>3, <1>4, HeadTailProperties
<1>6. QED
  BY <1>2, <1>3, <1>5, ItemsAre DEF Ring

LEMMA BackPopped ==
  ASSUME Ring, PopBack, len # 0
  PROVE  /\ Ring' /\ Items # <<>> /\ Items' = SubSeq(Items, 1, Len(Items) - 1)
         /\ ret' = Items[Len(Items)] /\ ret' \in Elems
<1>1. cap \in Nat \ {0} /\ len \in 1 .. cap /\ head \in Slots(cap)
  BY DEF Ring, Shape
<1>2. ret' = At(len - 1) /\ len' = len - 1 /\ UNCHANGED <<data, cap, head>>
  BY DEF PopBack
<1>3. /\ Shape(data, cap, len - 1, head)
      /\ Content(data, cap, len - 1, head) = SubSeq(Items, 1, Len(Items) - 1)
      /\ Items[Len(Items)] = data[SlotIn(head, len - 1, cap)]
  BY <1>1, ContentFront, ItemsAre DEF Ring
<1>4. Items \in Seq(Elems) /\ Len(Items) = len /\ At(len - 1) \in Elems
  BY <1>1, RingItems
<1>5. Items # <<>>
  BY <1>1, <1>4
<1>6. QED
  BY <1>2, <1>3, <1>4, <1>5, ItemsAre DEF Ring, At

LEMMA Emptied ==
  ASSUME Ring, Destroy \/ Clear
  PROVE  Ring' /\ Items' = <<>>
<1>1. len' = 0 /\ head' = 0 /\ cap' \in Nat /\ data' \in [Slots(cap') -> Elems \cup {Junk}]
  <2>1. CASE Destroy
    BY <2>1 DEF Destroy, NoData, Slots
  <2>2. CASE Clear
    BY <2>2 DEF Clear, Ring, Shape
  <2>3. QED
    BY <2>1, <2>2
<1>2. Shape(data', cap', 0, 0) /\ Content(data', cap', 0, 0) = <<>>
  BY <1>1, ContentNone
<1>3. QED
  BY <1>1, <1>2, ItemsAre DEF Ring

(* Every other step leaves the buffer alone.                               *)
LEMMA BufferStep ==
  ASSUME Ring, [Next]_vars
  PROVE  \/ UNCHANGED buffer
         \/ \E e \in Elems : PushBack(e) \/ PushFront(e)
         \/ (PopFront \/ PopBack) /\ len # 0
         \/ Destroy \/ Clear
         \/ FeedOne(PushedBack(Head(feed))) /\ UNCHANGED it
<1>1. CASE UNCHANGED vars
  BY <1>1 DEF vars
<1>2. CASE Create \/ Back \/ PushRefused \/ (\E n \in 0 .. MaxCap : Get(n)) \/ IterNext \/ IterDrop
           \/ \E fwd \in BOOLEAN : IterOpen(fwd)
  BY <1>2 DEF Create, Back, PushRefused, Get, IterOpen, IterNext, IterDrop
<1>3. CASE ExtendStart \/ ExtendStep
  BY <1>3 DEF ExtendStart, ExtendStep
<1>4. CASE (PopFront \/ PopBack) /\ len = 0
  BY <1>4 DEF PopFront, PopBack, buffer
<1>5. QED
  BY <1>1, <1>2, <1>3, <1>4 DEF Next, Call, Iterate

-----------------------------------------------------------------------------
(* The invariant of ringbuf_t.  TypeOK does not say that the slots in use  *)
(* were written: Ring does, by the sequence they hold.                     *)

Standing ==
  /\ it.on => pc = "idle"
  /\ pc = "none" => cap = 0
  /\ pc = "extend" => feed \in Sources

RingInv == Ring /\ TypeOK /\ Standing /\ NothingLeaks /\ IterInOrder

LEMMA InitRing == Init => RingInv
<1> SUFFICES ASSUME Init PROVE RingInv
  OBVIOUS
<1>1. cap = 0 /\ len = 0 /\ head = 0 /\ data \in [Slots(0) -> Elems \cup {Junk}] /\ it = NoIter
      /\ pc = "none" /\ feed = <<>> /\ ret = Nil /\ blocks = 0
  BY DEF Init, NoData, Slots
<1>2. Ring
  BY <1>1, ContentNone DEF Ring
<1>3. TypeOK
  <2>1. <<>> \in Seq(Elems)
    OBVIOUS
  <2>2. QED
    BY <1>1, <2>1 DEF TypeOK, NoIter, Ret
<1>4. QED
  BY <1>1, <1>2, <1>3 DEF RingInv, Standing, NothingLeaks, IterInOrder, NoIter, ExtendBlocks

LEMMA RingKept ==
  ASSUME RingInv, [Next]_vars
  PROVE  Ring'
<1>1. Ring
  BY DEF RingInv
<1>2. CASE UNCHANGED buffer
  BY <1>1, <1>2, BufferKept
<1>3. ASSUME NEW e \in Elems, PushBack(e) PROVE Ring'
  BY <1>1, <1>3, BackPushed DEF PushBack, Push
<1>4. ASSUME NEW e \in Elems, PushFront(e) PROVE Ring'
  BY <1>1, <1>4, FrontPushed DEF PushFront, Push
<1>5. CASE (PopFront \/ PopBack) /\ len # 0
  BY <1>1, <1>5, FrontPopped, BackPopped
<1>6. CASE Destroy \/ Clear
  BY <1>1, <1>6, Emptied
<1>7. CASE FeedOne(PushedBack(Head(feed))) /\ UNCHANGED it
  <2>1. feed # <<>> /\ feed \in Seq(Elems) /\ PushedBack(Head(feed))
    BY <1>7 DEF FeedOne, RingInv, TypeOK
  <2>2. Head(feed) \in Elems
    BY <2>1, HeadTailProperties
  <2>3. QED
    BY <1>1, <2>1, <2>2, BackPushed
<1>8. QED
  BY <1>1, <1>2, <1>3, <1>4, <1>5, <1>6, <1>7, BufferStep

(* While an iterator is open the buffer stays as it is.                    *)
LEMMA NoChangeUnderIter ==
  ASSUME RingInv, [Next]_vars, it.on \/ it'.on
  PROVE  UNCHANGED buffer
<1>1. it.on => pc = "idle"
  BY DEF RingInv, Standing
<1>2. CASE it.on
  BY <1>1, <1>2, BufferStep DEF RingInv, PushBack, PushFront, Push, PopFront, PopBack, Destroy, Clear,
     Quiet, FeedOne
<1>3. CASE ~it.on
  <2>1. it' # it
    BY <1>3
  <2>2. QED
    BY <2>1, BufferStep DEF RingInv, PushBack, PushFront, Push, PopFront, PopBack, Destroy, Clear
<1>4. QED
  BY <1>2, <1>3

LEMMA StandingKept ==
  ASSUME RingInv, [Next]_vars
  PROVE  Standing'
<1>1. Standing
  BY DEF RingInv
<1>2. CASE UNCHANGED vars
  BY <1>1, <1>2 DEF vars, buffer, Standing
<1>3. CASE Create \/ Destroy \/ Clear \/ PopFront \/ PopBack \/ Back \/ PushRefused
           \/ (\E n \in 0 .. MaxCap : Get(n)) \/ (\E fwd \in BOOLEAN : IterOpen(fwd))
           \/ IterNext \/ IterDrop \/ (\E e \in Elems : PushBack(e) \/ PushFront(e))
  BY <1>1, <1>3 DEF Standing, Create, Destroy, Clear, PopFront, PopBack, Back, PushRefused, Get,
     IterOpen, IterNext, IterDrop, NoIter, PushBack, PushFront, Push, Quiet, buffer
<1>4. CASE ExtendStart
  BY <1>1, <1>4 DEF Standing, ExtendStart, ExtendCall
<1>5. CASE ExtendStep
  BY <1>1, <1>5 DEF Standing, ExtendStep, ExtendRefused, ExtendScratch, FeedOne, FeedRefused,
     FeedDone, FeedEnd
<1>6. QED
  BY <1>2, <1>3, <1>4, <1>5 DEF Next, Call, Iterate

LEMMA BlocksKept ==
  ASSUME RingInv, [Next]_vars
  PROVE  NothingLeaks' /\ blocks' \in Int
<1>1. /\ Ring /\ Standing /\ NothingLeaks /\ blocks \in Int /\ it.on \in BOOLEAN /\ feed \in Seq(Elems)
      /\ pc \in {"none", "idle", "extend", "feeding"}
  BY DEF RingInv, TypeOK
<1>2. CASE UNCHANGED vars
  BY <1>1, <1>2 DEF vars, buffer, NothingLeaks, ExtendBlocks
<1>3. CASE Create \/ Clear \/ PopFront \/ PopBack \/ Back \/ PushRefused
           \/ \E n \in 0 .. MaxCap : Get(n)
  BY <1>1, <1>3 DEF Create, Clear, PopFront, PopBack, Back, PushRefused, Get, Standing, Quiet,
     buffer, NothingLeaks, ExtendBlocks
<1>4. CASE Destroy
  BY <1>1, <1>4 DEF Destroy, Quiet, NothingLeaks, ExtendBlocks
<1>5. CASE IterNext \/ IterDrop \/ \E fwd \in BOOLEAN : IterOpen(fwd)
  <2>1. CASE \E fwd \in BOOLEAN : IterOpen(fwd)
    BY <1>1, <2>1 DEF IterOpen, Quiet, buffer, NothingLeaks, ExtendBlocks
  <2>2. CASE IterDrop
    BY <1>1, <2>2 DEF IterDrop, NoIter, buffer, NothingLeaks, ExtendBlocks
  <2>3. CASE IterNext
    <3>1. it'.on = it.on /\ UNCHANGED <<cap, pc, blocks>>
      BY <2>3, RingInv DEF IterNext, buffer, RingInv, TypeOK
    <3>2. QED
      BY <1>1, <3>1 DEF NothingLeaks, ExtendBlocks
  <2>4. QED
    BY <1>5, <2>1, <2>2, <2>3
<1>6. ASSUME NEW e \in Elems, PushBack(e) \/ PushFront(e) PROVE NothingLeaks' /\ blocks' \in Int
  <2>1. cap' # 0 /\ blocks' = blocks + (IF cap = 0 THEN 1 ELSE 0) /\ UNCHANGED <<it, pc>> /\ pc = "idle"
    BY <1>1, <1>6, BackPushed, FrontPushed DEF PushBack, PushFront, Push, Quiet
  <2>2. QED
    BY <1>1, <2>1 DEF NothingLeaks, ExtendBlocks
<1>7. CASE ExtendStart
  BY <1>1, <1>7 DEF ExtendStart, ExtendCall, buffer, NothingLeaks, ExtendBlocks
<1>8. CASE (ExtendRefused \/ ExtendScratch) /\ UNCHANGED <<buffer, it>>
  BY <1>1, <1>8 DEF ExtendRefused, ExtendScratch, IterDestroy, buffer, NothingLeaks, ExtendBlocks
<1>9. CASE (FeedRefused(Full) \/ FeedDone) /\ UNCHANGED <<buffer, it>>
  BY <1>1, <1>9 DEF FeedRefused, FeedDone, FeedEnd, IterDestroy, ScratchFree, buffer,
     NothingLeaks, ExtendBlocks
<1>10. CASE FeedOne(PushedBack(Head(feed))) /\ UNCHANGED it
  <2>1. Head(feed) \in Elems
    BY <1>1, <1>10, HeadTailProperties DEF FeedOne
  <2>2. cap' # 0 /\ blocks' = blocks + (IF cap = 0 THEN 1 ELSE 0) /\ UNCHANGED <<it, pc>> /\ pc = "feeding"
    BY <1>1, <1>10, <2>1, BackPushed DEF FeedOne
  <2>3. QED
    BY <1>1, <2>2 DEF NothingLeaks, ExtendBlocks
<1>11. QED
  BY <1>2, <1>3, <1>4, <1>5, <1>6, <1>7, <1>8, <1>9, <1>10 DEF Next, Call, Iterate, ExtendStep

Iterators == [on : BOOLEAN, fwd : BOOLEAN, pos : Nat, seen : Seq(Elems)]

LEMMA IteratorParts ==
  ASSUME NEW i \in Iterators
  PROVE  i.on \in BOOLEAN /\ i.fwd \in BOOLEAN /\ i.pos \in Nat /\ i.seen \in Seq(Elems)
BY DEF Iterators

(* The iterator's next element is at its place in the sequence.            *)
LEMMA IterTakes ==
  ASSUME RingInv, IterNext
  PROVE  /\ it' \in Iterators /\ it'.pos <= len
         /\ it'.seen = IF it'.fwd THEN [n \in 1 .. it'.pos |-> Items[n]]
                       ELSE [n \in 1 .. len - it'.pos |-> Items[len + 1 - n]]
<1>1. /\ it \in Iterators /\ it.on /\ it.pos <= len /\ len \in Nat
      /\ it.seen = IF it.fwd THEN [n \in 1 .. it.pos |-> Items[n]]
                   ELSE [n \in 1 .. len - it.pos |-> Items[len + 1 - n]]
  BY RingItems DEF RingInv, TypeOK, IterNext, IterInOrder, Iterators
<1> PICK s, p : s = it.seen /\ p = it.pos
  OBVIOUS
<1>2. s \in Seq(Elems) /\ p \in Nat /\ p <= len /\ len \in Nat /\ it \in Iterators
  BY <1>1, IteratorParts
<1>3. /\ Items \in Seq(Elems) /\ Len(Items) = len
      /\ \A n \in 0 .. len - 1 : At(n) = Items[n + 1] /\ At(n) \in Elems
  BY RingItems DEF RingInv
<1>4. CASE it.fwd
  <2>1. /\ p < len /\ it' = [it EXCEPT !.pos = p + 1, !.seen = Append(s, At(p))]
    BY <1>4, <1>1 DEF IterNext
  <2>2. At(p) = Items[p + 1] /\ At(p) \in Elems
    BY <1>2, <1>3, <2>1
  <2>3. Append(s, At(p)) = [n \in 1 .. p + 1 |-> Items[n]]
    <3>1. s = [n \in 1 .. p |-> Items[n]]
      BY <1>1, <1>4
    <3>2. QED
      BY <1>2, <2>1, <2>2, <3>1
  <2>4. Append(s, At(p)) \in Seq(Elems)
    BY <1>2, <2>2, AppendProperties
  <2>5. /\ it' \in Iterators /\ it'.fwd = it.fwd /\ it'.pos = p + 1 /\ it'.seen = Append(s, At(p))
        /\ p + 1 <= len
    <3>1. p + 1 \in Nat /\ p + 1 <= len
      BY <1>2, <2>1
    <3> PICK q \in Nat : q = p + 1
      BY <3>1
    <3> PICK r \in Seq(Elems) : r = Append(s, At(p))
      BY <2>4
    <3>2. it' = [it EXCEPT !.pos = q, !.seen = r]
      BY <2>1
    <3>3. it' \in Iterators
      BY <1>2, <3>2 DEF Iterators
    <3>4. it'.fwd = it.fwd
      BY ONLY <1>2, <3>2 DEF Iterators
    <3>5. it'.pos = q /\ it'.seen = r
      BY <1>2, <3>2 DEF Iterators
    <3>6. QED
      BY <3>1, <3>3, <3>4, <3>5
  <2>6. QED
    BY <1>4, <2>3, <2>5
<1>5. CASE ~it.fwd
  <2>1. /\ p > 0 /\ it' = [it EXCEPT !.pos = p - 1, !.seen = Append(s, At(p - 1))]
    BY <1>5, <1>1 DEF IterNext, RevReads
  <2>2. At(p - 1) = Items[p] /\ At(p - 1) \in Elems
    <3>1. p - 1 \in 0 .. len - 1 /\ (p - 1) + 1 = p
      BY <1>2, <2>1
    <3>2. QED
      BY <1>3, <3>1
  <2>3. Append(s, At(p - 1)) = [n \in 1 .. len - (p - 1) |-> Items[len + 1 - n]]
    <3>1. s = [n \in 1 .. len - p |-> Items[len + 1 - n]]
      BY <1>1, <1>5
    <3>2. QED
      BY <1>1, <1>2, <2>1, <2>2, <3>1
  <2>4. Append(s, At(p - 1)) \in Seq(Elems)
    BY <1>2, <2>2, AppendProperties
  <2>5. /\ it' \in Iterators /\ it'.fwd = it.fwd /\ it'.pos = p - 1 /\ it'.seen = Append(s, At(p - 1))
        /\ p - 1 <= len
    <3>1. p - 1 \in Nat /\ p - 1 <= len
      BY <1>2, <2>1
    <3> PICK q \in Nat : q = p - 1
      BY <3>1
    <3> PICK r \in Seq(Elems) : r = Append(s, At(p - 1))
      BY <2>4
    <3>2. it' = [it EXCEPT !.pos = q, !.seen = r]
      BY <2>1
    <3>3. it' \in Iterators
      BY <1>2, <3>2 DEF Iterators
    <3>4. it'.fwd = it.fwd
      BY ONLY <1>2, <3>2 DEF Iterators
    <3>5. it'.pos = q /\ it'.seen = r
      BY <1>2, <3>2 DEF Iterators
    <3>6. QED
      BY <3>1, <3>3, <3>4, <3>5
  <2>6. QED
    BY <1>5, <2>3, <2>5
<1>6. QED
  BY <1>1, <1>4, <1>5

LEMMA IterKept ==
  ASSUME RingInv, [Next]_vars
  PROVE  it' \in Iterators /\ (it'.on => it'.pos <= len') /\ IterInOrder'
<1>1. Ring /\ it \in Iterators /\ (it.on => it.pos <= len) /\ IterInOrder /\ len \in Nat
  BY RingItems DEF RingInv, TypeOK, Iterators
<1>2. CASE IterNext
  <2>1. /\ it' \in Iterators /\ it'.pos <= len
        /\ it'.seen = IF it'.fwd THEN [n \in 1 .. it'.pos |-> Items[n]]
                      ELSE [n \in 1 .. len - it'.pos |-> Items[len + 1 - n]]
    BY <1>2, IterTakes
  <2>2. Items' = Items /\ len' = len
    BY <1>1, <1>2, BufferKept DEF IterNext, buffer
  <2>3. QED
    BY <2>1, <2>2 DEF IterInOrder
<1>3. ASSUME NEW fwd \in BOOLEAN, IterOpen(fwd)
      PROVE  it' \in Iterators /\ (it'.on => it'.pos <= len') /\ IterInOrder'
  <2>1. /\ it' = [on |-> TRUE, fwd |-> fwd, pos |-> IF fwd THEN 0 ELSE len, seen |-> <<>>]
        /\ len' = len
    BY <1>3 DEF IterOpen, buffer
  <2>2. <<>> \in Seq(Elems)
    OBVIOUS
  <2>3. it' \in Iterators /\ it'.pos <= len'
    BY <1>1, <2>1, <2>2 DEF Iterators
  <2>4. ASSUME fwd PROVE IterInOrder'
    <3>1. it'.fwd = TRUE /\ it'.pos = 0 /\ it'.seen = <<>>
      BY <2>1, <2>4
    <3>2. [n \in 1 .. 0 |-> Items'[n]] = <<>>
      OBVIOUS
    <3>3. QED
      BY <3>1, <3>2 DEF IterInOrder
  <2>5. ASSUME ~fwd PROVE IterInOrder'
    <3>1. it'.fwd = FALSE /\ it'.pos = len' /\ it'.seen = <<>> /\ len' - len' = 0
      BY <1>1, <2>1, <2>5
    <3>2. [n \in 1 .. 0 |-> Items'[len' + 1 - n]] = <<>>
      OBVIOUS
    <3>3. QED
      BY <3>1, <3>2 DEF IterInOrder
  <2>6. QED
    BY <2>3, <2>4, <2>5
<1>4. CASE IterDrop
  <2>1. <<>> \in Seq(Elems)
    OBVIOUS
  <2>2. QED
    BY <1>1, <1>4, <2>1 DEF IterDrop, NoIter, Iterators, IterInOrder
<1>5. CASE UNCHANGED it
  <2>1. CASE it.on
    <3>1. UNCHANGED buffer
      BY <2>1, NoChangeUnderIter
    <3>2. Items' = Items /\ len' = len
      BY <1>1, <3>1, BufferKept DEF buffer
    <3>3. QED
      BY <1>1, <1>5, <3>2 DEF IterInOrder
  <2>2. CASE ~it.on
    BY <1>1, <1>5, <2>2 DEF IterInOrder
  <2>3. QED
    BY <2>1, <2>2
<1>6. QED
  BY <1>2, <1>3, <1>4, <1>5 DEF Next, Call, Iterate, vars, Create, Destroy, Clear, PopFront, PopBack, Back, PushBack,
     PushFront, Push, PushRefused, Get, ExtendStart, ExtendStep

LEMMA CallKept ==
  ASSUME RingInv, [Next]_vars
  PROVE  pc' \in {"none", "idle", "extend", "feeding"} /\ feed' \in Seq(Elems) /\ ret' \in Ret
<1>1. /\ Ring /\ pc \in {"none", "idle", "extend", "feeding"} /\ feed \in Seq(Elems) /\ ret \in Ret
  BY DEF RingInv, TypeOK
<1>2. CASE UNCHANGED vars
  BY <1>1, <1>2 DEF vars
<1>3. CASE Create \/ Destroy \/ Clear \/ PushRefused \/ (\E fwd \in BOOLEAN : IterOpen(fwd))
           \/ IterNext \/ IterDrop \/ (\E e \in Elems : PushBack(e) \/ PushFront(e))
  BY <1>1, <1>3 DEF Create, Destroy, Clear, PushRefused, IterOpen, IterNext, IterDrop, PushBack,
     PushFront, Push, Ret
<1>4. CASE PopFront \/ PopBack
  <2>1. CASE len = 0
    BY <1>1, <1>4, <2>1 DEF PopFront, PopBack, Ret
  <2>2. CASE len # 0
    <3>1. ret' \in Elems
      BY <1>1, <1>4, <2>2, FrontPopped, BackPopped
    <3>2. QED
      BY <1>1, <1>4, <3>1 DEF PopFront, PopBack, Ret
  <2>3. QED
    BY <2>1, <2>2
<1>5. ASSUME NEW n \in Nat, n < len PROVE Lookup(n) \in Elems
  <2>1. n \in 0 .. len - 1
    BY <1>1, <1>5, RingItems
  <2>2. QED
    BY <1>1, <1>5, <2>1, RingItems DEF Lookup
<1>6. CASE Back
  <2>1. len > 0 => len - 1 \in Nat /\ len - 1 < len
    BY <1>1, RingItems
  <2>2. QED
    BY <1>1, <1>5, <1>6, <2>1 DEF Back, Ret
<1>7. ASSUME NEW n \in 0 .. MaxCap, Get(n)
      PROVE  pc' \in {"none", "idle", "extend", "feeding"} /\ feed' \in Seq(Elems) /\ ret' \in Ret
  <2>1. n \in Nat
    BY RingBufAssumption
  <2>2. Lookup(n) \in Ret
    BY <1>5, <2>1 DEF Lookup, Ret
  <2>3. QED
    BY <1>1, <1>7, <2>2 DEF Get
<1>8. CASE ExtendStart
  BY <1>1, <1>8, RingBufAssumption DEF ExtendStart, ExtendCall
<1>9. CASE ExtendStep
  <2>1. CASE FeedOne(PushedBack(Head(feed)))
    <3>1. feed # <<>> /\ feed' = Tail(feed) /\ UNCHANGED <<pc, ret>>
      BY <2>1 DEF FeedOne
    <3>2. QED
      BY <1>1, <3>1, HeadTailProperties
  <2>2. CASE ExtendRefused \/ ExtendScratch \/ FeedRefused(Full) \/ FeedDone
    <3>1. pc' \in {"idle", "feeding"} /\ feed' \in {feed, <<>>} /\ ret' \in {Nil, "OK", "OOM", "INVALID"}
      BY <2>2 DEF ExtendRefused, ExtendScratch, FeedRefused, FeedDone, FeedEnd
    <3>2. <<>> \in Seq(Elems)
      OBVIOUS
    <3>3. QED
      BY <1>1, <3>1, <3>2 DEF Ret
  <2>3. QED
    BY <1>9, <2>1, <2>2 DEF ExtendStep
<1>10. QED
  BY <1>2, <1>3, <1>4, <1>6, <1>7, <1>8, <1>9 DEF Next, Call, Iterate

LEMMA NextRing == RingInv /\ [Next]_vars => RingInv'
<1> SUFFICES ASSUME RingInv, [Next]_vars PROVE RingInv'
  OBVIOUS
<1>1. Ring' /\ Standing' /\ NothingLeaks' /\ IterInOrder'
  BY RingKept, StandingKept, BlocksKept, IterKept
<1>2. TypeOK'
  <2>1. /\ cap' \in Nat /\ len' \in 0 .. cap'
        /\ IF cap' = 0 THEN head' = 0 ELSE head' \in Slots(cap')
        /\ data' \in [Slots(cap') -> Elems \cup {Junk}]
    BY <1>1 DEF Ring, Shape
  <2>2. /\ it' \in Iterators /\ (it'.on => it'.pos <= len')
        /\ pc' \in {"none", "idle", "extend", "feeding"} /\ feed' \in Seq(Elems) /\ ret' \in Ret
        /\ blocks' \in Int
    BY IterKept, CallKept, BlocksKept
  <2>3. QED
    BY <2>1, <2>2 DEF TypeOK, Iterators, Ret
<1>3. QED
  BY <1>1, <1>2 DEF RingInv

LEMMA RingInductive == Spec => []RingInv
BY InitRing, NextRing, PTL DEF Spec

(* Every slot index of a ring buffer stays in bounds and every element     *)
(* read was written, whatever the capacities, across wraps and growth.     *)
THEOREM RingTypes == Spec => []TypeOK
<1>1. RingInv => TypeOK
  BY DEF RingInv
<1>2. QED
  BY <1>1, RingInductive, PTL

(* No path of ringbuf.c and seqc_extend loses a block or frees one twice.  *)
THEOREM RingBlocks == Spec => []NothingLeaks
<1>1. RingInv => NothingLeaks
  BY DEF RingInv
<1>2. QED
  BY <1>1, RingInductive, PTL

(* An iterator over a ring buffer yields the elements in order, or in      *)
(* reverse, also across the wrap.                                          *)
THEOREM RingIterates == Spec => []IterInOrder
<1>1. RingInv => IterInOrder
  BY DEF RingInv
<1>2. QED
  BY <1>1, RingInductive, PTL

-----------------------------------------------------------------------------
(* ringbuf_t implements DequeSpec.  *)

Deque  == INSTANCE DequeSpec WITH items <- Items, exists <- Exists, feed <- Given,
            extending <- Feeding, result <- ret, Indices <- 0 .. MaxCap

LEMMA InitDeque == Init => Deque!Init
BY ItemsAre, ContentNone DEF Init, Deque!Init, Exists, Given, Feeding, Items

(* A call between extends, as DequeSpec sees it.                           *)
LEMMA CallSeen ==
  pc = "idle" /\ pc' = "idle" =>
     /\ Exists = TRUE /\ Exists' = TRUE /\ Feeding = FALSE /\ Feeding' = FALSE
     /\ Given = <<>> /\ Given' = <<>> /\ Deque!Ready
     /\ UNCHANGED <<Exists, Given, Feeding>>
BY DEF Exists, Given, Feeding, Deque!Ready

LEMMA CallRefines ==
  ASSUME RingInv, Call
  PROVE  Deque!Next
<1>1. /\ Ring /\ Items \in Seq(Elems) /\ Len(Items) = len /\ len \in Nat
      /\ \A n \in 0 .. len - 1 : At(n) = Items[n + 1]
  BY RingItems DEF RingInv
<1>2. /\ pc = "idle" /\ pc' = "idle" /\ Deque!Ready /\ UNCHANGED <<Exists, Given, Feeding>>
  <2>1. pc = "idle" /\ pc' = "idle"
    BY DEF Call, PushBack, PushFront, Push, PushRefused, PopFront, PopBack, Clear, Back, Get, Quiet
  <2>2. QED
    BY <2>1, CallSeen
<1>3. ASSUME NEW e \in Elems, asked' = <<"push_back", e>>, PushBack(e) PROVE Deque!Next
  <2>1. Items' = Append(Items, e) /\ ret' = "OK"
    BY <1>1, <1>3, BackPushed DEF PushBack, Push
  <2>2. Deque!PushBack(e)
    BY <1>2, <2>1 DEF Deque!PushBack, Deque!Change, Deque!Ready
  <2>3. QED
    BY <1>3, <2>2 DEF Deque!Next
<1>4. ASSUME NEW e \in Elems, asked' = <<"push_front", e>>, PushFront(e) PROVE Deque!Next
  <2>1. Items' = <<e>> \o Items /\ ret' = "OK"
    BY <1>1, <1>4, FrontPushed DEF PushFront, Push
  <2>2. Deque!PushFront(e)
    BY <1>2, <2>1 DEF Deque!PushFront, Deque!Change, Deque!Ready
  <2>3. QED
    BY <1>4, <2>2 DEF Deque!Next
<1>5. ASSUME NEW e \in Elems, asked' \in {<<"push_back", e>>, <<"push_front", e>>}, PushRefused
      PROVE  Deque!Next
  <2>1. Items' = Items /\ ret' = "OOM"
    BY <1>1, <1>5, BufferKept DEF PushRefused
  <2>2. Deque!PushBack(e) /\ Deque!PushFront(e)
    BY <1>2, <2>1 DEF Deque!PushBack, Deque!PushFront, Deque!Leave
  <2>3. QED
    BY <1>5, <2>2 DEF Deque!Next
<1>6. CASE asked' = <<"pop_front">> /\ PopFront
  <2>1. CASE len = 0
    <3>1. Items' = Items /\ ret' = "NOT_FOUND" /\ Items = <<>>
      BY <1>1, <1>6, <2>1, BufferKept DEF PopFront, buffer
    <3>2. Deque!PopFront
      BY <1>2, <3>1 DEF Deque!PopFront, Deque!Leave
    <3>3. QED
      BY <1>6, <3>2 DEF Deque!Next
  <2>2. CASE len # 0
    <3>1. Items # <<>> /\ Items' = Tail(Items) /\ ret' = Head(Items)
      BY <1>1, <1>6, <2>2, FrontPopped
    <3>2. Deque!PopFront
      BY <1>2, <3>1 DEF Deque!PopFront, Deque!Change
    <3>3. QED
      BY <1>6, <3>2 DEF Deque!Next
  <2>3. QED
    BY <2>1, <2>2
<1>7. CASE asked' = <<"pop_back">> /\ PopBack
  <2>1. CASE len = 0
    <3>1. Items' = Items /\ ret' = "NOT_FOUND" /\ Items = <<>>
      BY <1>1, <1>7, <2>1, BufferKept DEF PopBack, buffer
    <3>2. Deque!PopBack
      BY <1>2, <3>1 DEF Deque!PopBack, Deque!Leave
    <3>3. QED
      BY <1>7, <3>2 DEF Deque!Next
  <2>2. CASE len # 0
    <3>1. /\ Items # <<>> /\ Items' = SubSeq(Items, 1, Len(Items) - 1)
          /\ ret' = Items[Len(Items)]
      BY <1>1, <1>7, <2>2, BackPopped
    <3>2. Deque!PopBack
      BY <1>2, <3>1 DEF Deque!PopBack, Deque!Change
    <3>3. QED
      BY <1>7, <3>2 DEF Deque!Next
  <2>3. QED
    BY <2>1, <2>2
<1>8. CASE asked' = <<"clear">> /\ Clear
  <2>1. Items' = <<>> /\ ret' = "OK"
    BY <1>1, <1>8, Emptied DEF Clear
  <2>2. Deque!Clear
    BY <1>2, <2>1 DEF Deque!Clear, Deque!Change
  <2>3. QED
    BY <1>8, <2>2 DEF Deque!Next
<1>9. CASE asked' = <<"back">> /\ Back
  <2>1. Items' = Items /\ ret' = IF len > 0 THEN Lookup(len - 1) ELSE "NOT_FOUND"
    BY <1>1, <1>9, BufferKept DEF Back
  <2>2. ret' = IF Items = <<>> THEN "NOT_FOUND" ELSE Items[Len(Items)]
    <3>1. CASE len = 0
      BY <1>1, <2>1, <3>1
    <3>2. CASE len # 0
      <4>1. len - 1 \in 0 .. len - 1 /\ (len - 1) + 1 = len /\ Items # <<>> /\ len > 0 /\ len - 1 < len
        BY <1>1, <3>2
      <4>2. QED
        BY <1>1, <2>1, <4>1 DEF Lookup
    <3>3. QED
      BY <3>1, <3>2
  <2>3. Deque!Back
    BY <1>2, <2>1, <2>2 DEF Deque!Back, Deque!Leave
  <2>4. QED
    BY <1>9, <2>3 DEF Deque!Next
<1>10. ASSUME NEW n \in 0 .. MaxCap, asked' = <<"get", n>>, Get(n) PROVE Deque!Next
  <2>1. Items' = Items /\ ret' = Lookup(n) /\ n \in Nat
    BY <1>1, <1>10, BufferKept, RingBufAssumption DEF Get
  <2>2. ret' = IF n < Len(Items) THEN Items[n + 1] ELSE "NOT_FOUND"
    <3>1. CASE n < len
      BY <1>1, <2>1, <3>1 DEF Lookup
    <3>2. CASE ~(n < len)
      BY <1>1, <2>1, <3>2 DEF Lookup
    <3>3. QED
      BY <3>1, <3>2
  <2>3. Deque!Get(n)
    BY <1>2, <2>1, <2>2 DEF Deque!Get, Deque!Leave
  <2>4. QED
    BY <1>10, <2>3 DEF Deque!Next
<1>11. QED
  BY <1>3, <1>4, <1>5, <1>6, <1>7, <1>8, <1>9, <1>10 DEF Call

LEMMA LifeRefines ==
  ASSUME RingInv,
         \/ asked' = <<"create">> /\ Create
         \/ asked' = <<"destroy">> /\ Destroy
  PROVE  Deque!Next
<1>1. Ring
  BY DEF RingInv
<1>2. CASE asked' = <<"create">> /\ Create
  <2>1. /\ ~Exists /\ ~Feeding /\ ~Feeding' /\ Given = <<>> /\ Given' = <<>>
    BY <1>2 DEF Create, Exists, Feeding, Given
  <2>2. Items' = Items
    BY <1>1, <1>2, BufferKept DEF Create
  <2>3. Exists' \in BOOLEAN /\ ret' = IF Exists' THEN "OK" ELSE "OOM"
    BY <1>2 DEF Create, Exists
  <2>4. Feeding = FALSE /\ Feeding' = FALSE
    BY <2>1 DEF Feeding
  <2>5. Deque!Create
    BY <2>1, <2>2, <2>3, <2>4 DEF Deque!Create
  <2>6. QED
    BY <1>2, <2>5 DEF Deque!Next
<1>3. CASE asked' = <<"destroy">> /\ Destroy
  <2>1. Exists /\ ~Exists' /\ Feeding = FALSE /\ Feeding' = FALSE /\ Given = <<>> /\ Given' = <<>>
        /\ ret' = "OK"
    BY <1>3 DEF Destroy, Quiet, Exists, Feeding, Given
  <2>2. Items' = <<>>
    BY <1>1, <1>3, Emptied
  <2>3. Deque!Destroy
    BY <2>1, <2>2 DEF Deque!Destroy
  <2>4. QED
    BY <1>3, <2>3 DEF Deque!Next
<1>4. QED
  BY <1>2, <1>3

LEMMA IterRefines ==
  ASSUME RingInv, UNCHANGED vars \/ (Iterate /\ UNCHANGED asked)
  PROVE  UNCHANGED Deque!vars
<1>1. UNCHANGED <<buffer, pc, feed, ret, asked>>
  BY DEF vars, Iterate, IterOpen, IterNext, IterDrop
<1>2. Items' = Items
  BY <1>1, BufferKept DEF RingInv
<1>3. QED
  BY <1>1, <1>2 DEF Deque!vars, Exists, Given, Feeding

LEMMA ExtendSeen ==
  ASSUME RingInv,
         \/ ExtendStart /\ UNCHANGED asked
         \/ ExtendStep /\ asked' = IF pc = "extend" THEN <<"extend", feed>> ELSE asked
  PROVE  Deque!Next \/ UNCHANGED Deque!vars
<1>0. /\ pc = "extend" => asked' = <<"extend", feed>>
      /\ pc # "extend" => UNCHANGED asked
  BY DEF ExtendStart, ExtendCall
<1>1. Ring /\ feed \in Seq(Elems) /\ (pc = "extend" => feed \in Sources)
  BY DEF RingInv, TypeOK, Standing
<1>2. CASE ExtendStart
  <2>1. UNCHANGED <<Exists, Feeding, Given, ret, asked>>
    BY <1>0, <1>2 DEF ExtendStart, ExtendCall, Exists, Feeding, Given
  <2>2. Items' = Items
    BY <1>1, <1>2, BufferKept DEF ExtendStart
  <2>3. QED
    BY <2>1, <2>2 DEF Deque!vars
<1>3. CASE ExtendRefused /\ UNCHANGED <<buffer, it>>
  <2>1. Exists /\ ~Feeding /\ UNCHANGED <<Exists, Feeding, Given>> /\ ret' \in {"OOM", "INVALID"}
        /\ asked' = <<"extend", feed>> /\ feed \in Sources
    BY <1>0, <1>1, <1>3 DEF ExtendRefused, Exists, Feeding, Given
  <2>2. Items' = Items
    BY <1>1, <1>3, BufferKept
  <2>3. Deque!RefuseExtend
    BY <2>1, <2>2 DEF Deque!RefuseExtend, Deque!Ready, Deque!Leave
  <2>4. QED
    BY <2>1, <2>3 DEF Deque!Next
<1>4. CASE ExtendScratch /\ UNCHANGED <<buffer, it>>
  <2>1. Exists /\ ~Feeding /\ Feeding' /\ UNCHANGED Exists /\ Given' = feed /\ ret' = Nil
        /\ asked' = <<"extend", feed>> /\ feed \in Sources
    BY <1>0, <1>1, <1>4 DEF ExtendScratch, Exists, Feeding, Given
  <2>2. Items' = Items
    BY <1>1, <1>4, BufferKept
  <2>3. Deque!Extend(feed)
    BY <2>1, <2>2 DEF Deque!Extend, Deque!Ready
  <2>4. QED
    BY <2>1, <2>3 DEF Deque!Next
<1>5. CASE FeedOne(PushedBack(Head(feed)))
  <2>1. /\ feed # <<>> /\ Feeding /\ UNCHANGED <<Exists, Feeding, ret, asked>>
        /\ Given = feed /\ Given' = Tail(feed) /\ PushedBack(Head(feed))
    BY <1>0, <1>5 DEF FeedOne, Exists, Feeding, Given
  <2>2. Items' = Append(Items, Head(feed))
    BY <1>1, <2>1, HeadTailProperties, BackPushed
  <2>3. Deque!Feed
    BY <2>1, <2>2 DEF Deque!Feed
  <2>4. QED
    BY <2>1, <2>3 DEF Deque!Next
<1>6. CASE (FeedRefused(Full) \/ FeedDone) /\ UNCHANGED <<buffer, it>>
  <2>1. /\ Feeding /\ ~Feeding' /\ UNCHANGED Exists /\ Given = feed /\ Given' = <<>>
        /\ ret' = (IF feed = <<>> THEN "OK" ELSE "OOM") /\ UNCHANGED asked
    BY <1>0, <1>6 DEF FeedRefused, FeedDone, FeedEnd, Exists, Feeding, Given
  <2>2. Items' = Items
    BY <1>1, <1>6, BufferKept
  <2>3. Deque!EndExtend
    BY <2>1, <2>2 DEF Deque!EndExtend
  <2>4. QED
    BY <2>1, <2>3 DEF Deque!Next
<1>7. QED
  BY <1>2, <1>3, <1>4, <1>5, <1>6 DEF ExtendStep

LEMMA NextDeque == RingInv /\ [Next]_vars => [Deque!Next]_(Deque!vars)
BY CallRefines, LifeRefines, IterRefines, ExtendSeen DEF Next

(* Every call of ringbuf.c has on the sequence of elements the effect of   *)
(* that call of DequeSpec with its own argument, at the end it names, or,  *)
(* refused memory, none: no wrap, growth or broken-off extend loses,       *)
(* repeats, overwrites or moves an element.                                *)
THEOREM RingRefines == Spec => Deque!Spec
BY InitDeque, NextDeque, RingInductive, PTL DEF Spec, Deque!Spec

-----------------------------------------------------------------------------
(* The queue: the same arithmetic, another growth, and iterators that walk *)
(* on copies of the fields.                                                *)

QRing == Shape(buf, cap, len, head)

LEMMA QItemsAre == /\ Q!Items = Content(buf, cap, len, head)
                   /\ Q!Items' = Content(buf', cap', len', head')
BY DEF Q!Items, Q!Wrapped, SlotIn, Content

LEMMA QItemsOf ==
  QRing => /\ cap \in Nat /\ len \in 0 .. cap /\ Q!Items \in Seq(Elems) /\ Len(Q!Items) = len
           /\ \A n \in 0 .. len - 1 : /\ buf[SlotIn(head, n, cap)] = Q!Items[n + 1]
                                      /\ Q!Items[n + 1] \in Elems
<1> SUFFICES ASSUME QRing
             PROVE  /\ cap \in Nat /\ len \in 0 .. cap /\ Q!Items \in Seq(Elems)
                    /\ Len(Q!Items) = len
                    /\ \A n \in 0 .. len - 1 : /\ buf[SlotIn(head, n, cap)] = Q!Items[n + 1]
                                               /\ Q!Items[n + 1] \in Elems
  OBVIOUS
<1>1. cap \in Nat /\ len \in 0 .. cap /\ Q!Items \in Seq(Elems)
  BY QItemsAre DEF QRing, Shape
<1>2. Len(Q!Items) = len
  BY <1>1 DEF Q!Items
<1>3. ASSUME NEW n \in 0 .. len - 1
      PROVE  buf[SlotIn(head, n, cap)] = Q!Items[n + 1] /\ Q!Items[n + 1] \in Elems
  <2>1. n + 1 \in 1 .. len /\ (n + 1) - 1 = n
    BY <1>1
  <2>2. buf[SlotIn(head, n, cap)] = Q!Items[n + 1]
    BY <2>1 DEF Q!Items, Q!Wrapped, SlotIn
  <2>3. QED
    BY <1>1, <1>2, <2>1, <2>2
<1>4. QED
  BY <1>1, <1>2, <1>3

LEMMA QKept ==
  ASSUME QRing, UNCHANGED Q!queue
  PROVE  QRing' /\ Q!Items' = Q!Items
BY QItemsAre DEF QRing, Q!queue

LEMMA QPushed ==
  ASSUME QRing, NEW e \in Elems, Q!Pushed(e)
  PROVE  /\ QRing' /\ Q!Items' = Append(Q!Items, e) /\ cap' # 0
         /\ blocks' = blocks + (IF cap = 0 THEN 1 ELSE 0)
<1>1. /\ cap \in Nat /\ len \in 0 .. cap
      /\ IF cap = 0 THEN head = 0 ELSE head \in Slots(cap)
      /\ buf \in [Slots(cap) -> Elems \cup {Junk}]
  BY DEF QRing, Shape
<1>2. ASSUME NEW d, NEW c \in Nat \ {0}, NEW h \in Slots(c), len < c, Shape(d, c, len, h),
             Content(d, c, len, h) = Q!Items,
             buf' = [d EXCEPT ![SlotIn(h, len, c)] = e], cap' = c, head' = h, len' = len + 1
      PROVE  QRing' /\ Q!Items' = Append(Q!Items, e) /\ cap' # 0
  <2> PICK d1 : d1 = buf' /\ d1 = [d EXCEPT ![SlotIn(h, len, c)] = e]
    BY <1>2
  <2>1. len \in 0 .. c - 1
    BY <1>1, <1>2
  <2>2. Shape(d1, c, len + 1, h) /\ Content(d1, c, len + 1, h) = Append(Content(d, c, len, h), e)
    <3> PICK l : l = len
      OBVIOUS
    <3>1. \A r \in {[d EXCEPT ![SlotIn(h, l, c)] = e]} :
            Shape(r, c, l + 1, h) /\ Content(r, c, l + 1, h) = Append(Content(d, c, l, h), e)
      BY <1>2, <2>1, ContentAppend
    <3>2. QED
      BY <3>1
  <2>3. QED
    BY <1>2, <2>2, QItemsAre DEF QRing
<1>3. cap = 0 => Q!Full
  BY <1>1 DEF Q!Full
<1>4. blocks' = blocks + (IF cap = 0 THEN 1 ELSE 0)
  BY <1>1, <1>3 DEF Q!Pushed, Q!AllocAtGrowth
<1>5. CASE ~Q!Full
  <2>1. cap \in Nat \ {0} /\ head \in Slots(cap) /\ len < cap
    BY <1>1, <1>3, <1>5 DEF Q!Full
  <2>2. /\ buf' = [buf EXCEPT ![SlotIn(head, len, cap)] = e]
        /\ cap' = cap /\ head' = head /\ len' = len + 1
    BY <1>5 DEF Q!Pushed, Q!Wrapped, SlotIn
  <2>3. Shape(buf, cap, len, head) /\ Content(buf, cap, len, head) = Q!Items
    BY QItemsAre DEF QRing
  <2>4. QED
    BY <1>2, <1>4, <2>1, <2>2, <2>3
<1>6. CASE Q!Full
  <2> DEFINE d == [s \in Q!Slots(Q!NewCap) |-> IF s < len THEN Q!CopyLogical(s) ELSE Junk]
  <2>1. Q!NewCap \in Nat \ {0} /\ len < Q!NewCap /\ len = cap /\ 0 \in Slots(Q!NewCap)
        /\ Q!Slots(Q!NewCap) = Slots(Q!NewCap)
    BY <1>1, <1>6, RingBufAssumption DEF Q!NewCap, Q!Full, Slots, Q!Slots
  <2>2. /\ buf' = [d EXCEPT ![SlotIn(0, len, Q!NewCap)] = e]
        /\ cap' = Q!NewCap /\ head' = 0 /\ len' = len + 1
    <3>1. PICK g : /\ g = [buf |-> d, cap |-> Q!NewCap, head |-> 0]
                   /\ buf' = [g.buf EXCEPT ![Q!Wrapped(g.head, len, g.cap)] = e]
                   /\ cap' = g.cap /\ head' = g.head /\ len' = len + 1
      BY <1>6 DEF Q!Pushed
    <3> HIDE DEF d
    <3>2. g.buf = d /\ g.cap = Q!NewCap /\ g.head = 0
      BY <3>1
    <3>3. QED
      BY <3>1, <3>2 DEF Q!Wrapped, SlotIn
  <2>3. ASSUME NEW n \in 0 .. len - 1
        PROVE  Q!CopyLogical(n) = buf[SlotIn(head, n, cap)] /\ SlotIn(head, n, cap) \in Slots(cap)
    <3>1. cap \in Nat \ {0} /\ head \in Slots(cap) /\ n \in 0 .. cap
      BY <1>1, <2>1
    <3>2. SlotIn(head, n, cap) \in Slots(cap)
      BY <3>1, WrapIs
    <3>3. Q!CopyLogical(n) = buf[SlotIn(head, n, cap)]
      BY <3>1 DEF Q!CopyLogical, Q!Wrapped, SlotIn
    <3>4. QED
      BY <3>2, <3>3
  <2>4. d \in [Slots(Q!NewCap) -> Elems \cup {Junk}]
    <3>1. ASSUME NEW s \in Slots(Q!NewCap)
          PROVE  (IF s < len THEN Q!CopyLogical(s) ELSE Junk) \in Elems \cup {Junk}
      <4>1. CASE s < len
        <5>1. s \in 0 .. len - 1
          BY <1>1, <2>1, <4>1 DEF Slots
        <5>2. QED
          BY <1>1, <2>3, <4>1, <5>1
      <4>2. QED
        BY <4>1
    <3>2. QED
      BY <2>1, <3>1
  <2>5. ASSUME NEW n \in 0 .. len - 1 PROVE d[n] = buf[SlotIn(head, n, cap)]
    <3>1. n \in Slots(Q!NewCap) /\ n < len
      BY <1>1, <2>1 DEF Slots
    <3>2. QED
      BY <2>1, <2>3, <3>1
  <2> HIDE DEF d
  <2>6. Shape(d, Q!NewCap, len, 0) /\ Content(d, Q!NewCap, len, 0) = Q!Items
    BY <1>1, <2>1, <2>4, <2>5, ContentMoved, QItemsAre DEF QRing
  <2>7. QED
    BY <1>2, <1>4, <2>1, <2>2, <2>6
<1>7. QED
  BY <1>5, <1>6

LEMMA QPopped ==
  ASSUME QRing, Q!Pop, len # 0
  PROVE  /\ QRing' /\ Q!Items # <<>> /\ Q!Items' = Tail(Q!Items) /\ ret' = Head(Q!Items)
         /\ ret' \in Elems
<1>1. cap \in Nat \ {0} /\ len \in 1 .. cap /\ head \in Slots(cap)
  BY DEF QRing, Shape
<1>2. ret' = buf[head] /\ head' = SlotIn(head, 1, cap) /\ len' = len - 1 /\ UNCHANGED <<buf, cap>>
  BY DEF Q!Pop, Q!HeadAfterPop, Q!Wrapped, SlotIn
<1>3. /\ Shape(buf, cap, len - 1, head') /\ Content(buf, cap, len - 1, head') = Tail(Q!Items)
      /\ Q!Items # <<>> /\ Head(Q!Items) = buf[head]
  BY <1>1, <1>2, ContentTail, QItemsAre DEF QRing
<1>4. Head(Q!Items) \in Elems
  BY <1>3, QItemsOf, HeadTailProperties
<1>5. QED
  BY <1>2, <1>3, <1>4, QItemsAre DEF QRing

LEMMA QFrontSeen ==
  ASSUME QRing, Q!Front
  PROVE  /\ ret' = IF 0 < Len(Q!Items) THEN Q!Items[0 + 1] ELSE "NOT_FOUND"
         /\ ret' \in Elems \cup {"NOT_FOUND"}
<1>1. /\ len \in 0 .. cap /\ cap \in Nat /\ Len(Q!Items) = len
      /\ \A n \in 0 .. len - 1 : /\ buf[SlotIn(head, n, cap)] = Q!Items[n + 1]
                                 /\ Q!Items[n + 1] \in Elems
  BY QItemsOf
<1>2. CASE len = 0
  BY <1>1, <1>2 DEF Q!Front
<1>3. CASE len # 0
  <2>1. cap \in Nat \ {0} /\ head \in Slots(cap) /\ 0 \in 0 .. cap /\ 0 \in 0 .. len - 1
    BY <1>1, <1>3 DEF QRing, Shape
  <2>2. SlotIn(head, 0, cap) = head
    BY <2>1, WrapIs DEF Slots
  <2>3. buf[head] = Q!Items[0 + 1] /\ Q!Items[0 + 1] \in Elems
    BY <1>1, <2>1, <2>2
  <2>4. QED
    BY <1>1, <1>3, <2>3 DEF Q!Front
<1>4. QED
  BY <1>2, <1>3

LEMMA QBackSeen ==
  ASSUME QRing, Q!Back
  PROVE  /\ ret' = IF Q!Items = <<>> THEN "NOT_FOUND" ELSE Q!Items[Len(Q!Items)]
         /\ ret' \in Elems \cup {"NOT_FOUND"}
<1>1. /\ len \in 0 .. cap /\ cap \in Nat /\ Q!Items \in Seq(Elems) /\ Len(Q!Items) = len
      /\ \A n \in 0 .. len - 1 : /\ buf[SlotIn(head, n, cap)] = Q!Items[n + 1]
                                 /\ Q!Items[n + 1] \in Elems
  BY QItemsOf
<1>2. CASE len = 0
  BY <1>1, <1>2 DEF Q!Back
<1>3. CASE len # 0
  <2>1. len - 1 \in 0 .. len - 1 /\ (len - 1) + 1 = len
    BY <1>1, <1>3
  <2>2. buf[SlotIn(head, len - 1, cap)] = Q!Items[len] /\ Q!Items[len] \in Elems /\ Q!Items # <<>>
    BY <1>1, <1>3, <2>1
  <2>3. ret' = Q!Items[len]
    BY <1>3, <2>2 DEF Q!Back, Q!LastSlot, Q!Wrapped, SlotIn
  <2>4. QED
    BY <1>1, <2>2, <2>3
<1>4. QED
  BY <1>2, <1>3

LEMMA QEmptied ==
  ASSUME QRing, Q!Destroy \/ Q!Clear
  PROVE  QRing' /\ Q!Items' = <<>>
<1>1. len' = 0 /\ head' = 0 /\ cap' \in Nat /\ buf' \in [Slots(cap') -> Elems \cup {Junk}]
  <2>1. CASE Q!Destroy
    BY <2>1 DEF Q!Destroy, Q!NoBuf, Q!Slots, Slots
  <2>2. CASE Q!Clear
    BY <2>2 DEF Q!Clear, QRing, Shape
  <2>3. QED
    BY <2>1, <2>2
<1>2. Shape(buf', cap', 0, 0) /\ Content(buf', cap', 0, 0) = <<>>
  BY <1>1, ContentNone
<1>3. QED
  BY <1>1, <1>2, QItemsAre DEF QRing

(* Every other step leaves the queue alone.                                *)
LEMMA QStep ==
  ASSUME QRing, [Q!Next]_(Q!vars)
  PROVE  \/ UNCHANGED Q!queue
         \/ \E e \in Elems : Q!Push(e)
         \/ Q!Pop /\ len # 0
         \/ Q!Destroy \/ Q!Clear
         \/ Q!FeedOne(Q!Pushed(Head(feed))) /\ UNCHANGED it
<1>1. CASE UNCHANGED Q!vars
  BY <1>1 DEF Q!vars
<1>2. CASE Q!Create \/ Q!Front \/ Q!Back \/ Q!PushRefused \/ Q!IterNext \/ Q!IterDrop
           \/ \E fwd \in BOOLEAN : Q!IterOpen(fwd)
  BY <1>2 DEF Q!Create, Q!Front, Q!Back, Q!PushRefused, Q!IterOpen, Q!IterNext, Q!IterDrop
<1>3. CASE Q!ExtendStart \/ Q!ExtendStep
  BY <1>3 DEF Q!ExtendStart, Q!ExtendStep
<1>4. CASE Q!Pop /\ len = 0
  BY <1>4 DEF Q!Pop, Q!queue
<1>5. QED
  BY <1>1, <1>2, <1>3, <1>4 DEF Q!Next, Q!Call, Q!Iterate

(* An iterator stands, while it has elements to yield, at the slot of the  *)
(* next one: the copies it made are still those of the queue.              *)
QPlace ==
  it.on => /\ pc = "idle"
           /\ it.cap = cap
           /\ it.remaining > 0 =>
                it.next = SlotIn(head, IF it.fwd THEN Len(it.seen) ELSE it.remaining - 1, cap)

QStanding == /\ pc = "none" => cap = 0
             /\ pc = "extend" => feed \in Sources

QInv == QRing /\ Q!TypeOK /\ QPlace /\ QStanding /\ Q!NothingLeaks /\ Q!IterInOrder

LEMMA InitQ == Q!Init => QInv
<1> SUFFICES ASSUME Q!Init PROVE QInv
  OBVIOUS
<1>1. cap = 0 /\ len = 0 /\ head = 0 /\ buf \in [Slots(0) -> Elems \cup {Junk}] /\ it = Q!NoIter
      /\ pc = "none" /\ feed = <<>> /\ ret = Nil /\ blocks = 0
  BY DEF Q!Init, Q!NoBuf, Q!Slots, Slots
<1>2. QRing
  BY <1>1, ContentNone DEF QRing
<1>3. Q!TypeOK
  <2>1. <<>> \in Seq(Elems)
    OBVIOUS
  <2>2. QED
    BY <1>1, <2>1 DEF Q!TypeOK, Q!NoIter, Q!Slots, Slots
<1>4. QED
  BY <1>1, <1>2, <1>3 DEF QInv, QPlace, QStanding, Q!NothingLeaks, Q!IterInOrder, Q!NoIter,
     Q!ExtendBlocks

LEMMA QRingKept ==
  ASSUME QInv, [Q!Next]_(Q!vars)
  PROVE  QRing'
<1>1. QRing
  BY DEF QInv
<1>2. CASE UNCHANGED Q!queue
  BY <1>1, <1>2, QKept
<1>3. ASSUME NEW e \in Elems, Q!Push(e) PROVE QRing'
  BY <1>1, <1>3, QPushed DEF Q!Push
<1>4. CASE Q!Pop /\ len # 0
  BY <1>1, <1>4, QPopped
<1>5. CASE Q!Destroy \/ Q!Clear
  BY <1>1, <1>5, QEmptied
<1>6. CASE Q!FeedOne(Q!Pushed(Head(feed))) /\ UNCHANGED it
  <2>1. feed # <<>> /\ feed \in Seq(Elems) /\ Q!Pushed(Head(feed))
    BY <1>6 DEF Q!FeedOne, QInv, Q!TypeOK
  <2>2. Head(feed) \in Elems
    BY <2>1, HeadTailProperties
  <2>3. QED
    BY <1>1, <2>1, <2>2, QPushed
<1>7. QED
  BY <1>1, <1>2, <1>3, <1>4, <1>5, <1>6, QStep

LEMMA QNoChangeUnderIter ==
  ASSUME QInv, [Q!Next]_(Q!vars), it.on \/ it'.on
  PROVE  UNCHANGED Q!queue
<1>1. it.on => pc = "idle"
  BY DEF QInv, QPlace
<1>2. CASE it.on
  BY <1>1, <1>2, QStep DEF QInv, Q!Push, Q!Pop, Q!Destroy, Q!Clear, Q!Quiet, Q!FeedOne
<1>3. CASE ~it.on
  <2>1. it' # it
    BY <1>3
  <2>2. QED
    BY <2>1, QStep DEF QInv, Q!Push, Q!Pop, Q!Destroy, Q!Clear
<1>4. QED
  BY <1>2, <1>3

LEMMA QStandingKept ==
  ASSUME QInv, [Q!Next]_(Q!vars)
  PROVE  QStanding' /\ (it'.on => pc' = "idle")
<1>1. QStanding /\ (it.on => pc = "idle")
  BY DEF QInv, QPlace
<1>2. CASE UNCHANGED Q!vars
  BY <1>1, <1>2 DEF Q!vars, Q!queue, QStanding
<1>3. CASE Q!Create \/ Q!Destroy \/ Q!Clear \/ Q!Pop \/ Q!Front \/ Q!Back \/ Q!PushRefused
           \/ (\E fwd \in BOOLEAN : Q!IterOpen(fwd)) \/ Q!IterNext \/ Q!IterDrop
           \/ \E e \in Elems : Q!Push(e)
  BY <1>1, <1>3 DEF QStanding, Q!Create, Q!Destroy, Q!Clear, Q!Pop, Q!Front, Q!Back, Q!PushRefused,
     Q!IterOpen, Q!IterNext, Q!IterDrop, Q!NoIter, Q!Push, Q!Quiet, Q!queue
<1>4. CASE Q!ExtendStart
  BY <1>1, <1>4 DEF QStanding, Q!ExtendStart, Q!ExtendCall
<1>5. CASE Q!ExtendStep
  BY <1>1, <1>5 DEF QStanding, Q!ExtendStep, Q!ExtendRefused, Q!ExtendScratch, Q!FeedOne,
     Q!FeedRefused, Q!FeedDone, Q!FeedEnd
<1>6. QED
  BY <1>2, <1>3, <1>4, <1>5 DEF Q!Next, Q!Call, Q!Iterate

LEMMA QBlocksKept ==
  ASSUME QInv, [Q!Next]_(Q!vars)
  PROVE  Q!NothingLeaks' /\ blocks' \in Int
<1>1. /\ QRing /\ QStanding /\ (it.on => pc = "idle") /\ Q!NothingLeaks /\ blocks \in Int
      /\ it.on \in BOOLEAN /\ feed \in Seq(Elems) /\ pc \in {"none", "idle", "extend", "feeding"}
  BY DEF QInv, QPlace, Q!TypeOK
<1>2. CASE UNCHANGED Q!vars
  BY <1>1, <1>2 DEF Q!vars, Q!queue, Q!NothingLeaks, Q!ExtendBlocks
<1>3. CASE Q!Create \/ Q!Clear \/ Q!Pop \/ Q!Front \/ Q!Back \/ Q!PushRefused
  BY <1>1, <1>3 DEF Q!Create, Q!Clear, Q!Pop, Q!Front, Q!Back, Q!PushRefused, QStanding, Q!Quiet,
     Q!queue, Q!NothingLeaks, Q!ExtendBlocks
<1>4. CASE Q!Destroy
  BY <1>1, <1>4 DEF Q!Destroy, Q!Quiet, Q!NothingLeaks, Q!ExtendBlocks
<1>5. CASE \E fwd \in BOOLEAN : Q!IterOpen(fwd)
  BY <1>1, <1>5 DEF Q!IterOpen, Q!Quiet, Q!queue, Q!NothingLeaks, Q!ExtendBlocks
<1>6. CASE Q!IterDrop
  BY <1>1, <1>6 DEF Q!IterDrop, Q!NoIter, Q!queue, Q!NothingLeaks, Q!ExtendBlocks
<1>7. CASE Q!IterNext
  <2>1. it'.on = it.on /\ UNCHANGED <<cap, pc, blocks>>
    BY <1>7 DEF Q!IterNext, Q!queue, QInv, Q!TypeOK
  <2>2. QED
    BY <1>1, <2>1 DEF Q!NothingLeaks, Q!ExtendBlocks
<1>8. ASSUME NEW e \in Elems, Q!Push(e) PROVE Q!NothingLeaks' /\ blocks' \in Int
  <2>1. cap' # 0 /\ blocks' = blocks + (IF cap = 0 THEN 1 ELSE 0) /\ UNCHANGED <<it, pc>> /\ pc = "idle"
    BY <1>1, <1>8, QPushed DEF Q!Push, Q!Quiet
  <2>2. QED
    BY <1>1, <2>1 DEF Q!NothingLeaks, Q!ExtendBlocks
<1>9. CASE Q!ExtendStart
  BY <1>1, <1>9 DEF Q!ExtendStart, Q!ExtendCall, Q!queue, Q!NothingLeaks, Q!ExtendBlocks
<1>10. CASE (Q!ExtendRefused \/ Q!ExtendScratch) /\ UNCHANGED <<Q!queue, it>>
  BY <1>1, <1>10 DEF Q!ExtendRefused, Q!ExtendScratch, Q!IterDestroy, Q!queue, Q!NothingLeaks,
     Q!ExtendBlocks
<1>11. CASE (Q!FeedRefused(Q!Full) \/ Q!FeedDone) /\ UNCHANGED <<Q!queue, it>>
  BY <1>1, <1>11 DEF Q!FeedRefused, Q!FeedDone, Q!FeedEnd, Q!IterDestroy, Q!ScratchFree, Q!queue,
     Q!NothingLeaks, Q!ExtendBlocks
<1>12. CASE Q!FeedOne(Q!Pushed(Head(feed))) /\ UNCHANGED it
  <2>1. Head(feed) \in Elems
    BY <1>1, <1>12, HeadTailProperties DEF Q!FeedOne
  <2>2. cap' # 0 /\ blocks' = blocks + (IF cap = 0 THEN 1 ELSE 0) /\ UNCHANGED <<it, pc>> /\ pc = "feeding"
    BY <1>1, <1>12, <2>1, QPushed DEF Q!FeedOne
  <2>3. QED
    BY <1>1, <2>2 DEF Q!NothingLeaks, Q!ExtendBlocks
<1>13. QED
  BY <1>2, <1>3, <1>4, <1>5, <1>6, <1>7, <1>8, <1>9, <1>10, <1>11, <1>12 DEF Q!Next, Q!Call, Q!Iterate, Q!ExtendStep

QIterators == [on : BOOLEAN, fwd : BOOLEAN, next : Nat, cap : Nat, remaining : Nat, seen : Seq(Elems)]

LEMMA StepOn ==
  ASSUME NEW c \in Nat \ {0}, NEW h \in Slots(c), NEW n \in 0 .. c - 1
  PROVE  SlotIn(SlotIn(h, n, c), 1, c) = SlotIn(h, n + 1, c)
<1> PICK k : k = SlotIn(h, n, c)
  OBVIOUS
<1>1. k = (IF h + n < c THEN h + n ELSE h + n - c) /\ k \in Slots(c)
  BY WrapIs
<1>2. SlotIn(k, 1, c) = IF k + 1 < c THEN k + 1 ELSE k + 1 - c
  BY <1>1, WrapIs
<1>3. SlotIn(h, n + 1, c) = IF h + (n + 1) < c THEN h + (n + 1) ELSE h + (n + 1) - c
  BY WrapIs
<1>4. QED
  BY <1>1, <1>2, <1>3 DEF Slots

LEMMA StepBack ==
  ASSUME NEW c \in Nat \ {0}, NEW h \in Slots(c), NEW n \in 1 .. c - 1
  PROVE  SlotIn(SlotIn(h, n, c), c - 1, c) = SlotIn(h, n - 1, c)
<1> PICK k : k = SlotIn(h, n, c)
  OBVIOUS
<1>1. k = (IF h + n < c THEN h + n ELSE h + n - c) /\ k \in Slots(c)
  BY WrapIs
<1>2. SlotIn(k, c - 1, c) = IF k + (c - 1) < c THEN k + (c - 1) ELSE k + (c - 1) - c
  BY <1>1, WrapIs
<1>3. SlotIn(h, n - 1, c) = IF h + (n - 1) < c THEN h + (n - 1) ELSE h + (n - 1) - c
  BY WrapIs
<1>4. QED
  BY <1>1, <1>2, <1>3 DEF Slots

LEMMA QIterTakes ==
  ASSUME QInv, Q!IterNext
  PROVE  it' \in QIterators /\ QPlace' /\ Q!IterInOrder'
<1>1. /\ it \in QIterators /\ it.on /\ it.remaining > 0 /\ it.cap = cap
      /\ it.next = SlotIn(head, IF it.fwd THEN Len(it.seen) ELSE it.remaining - 1, cap)
      /\ Len(it.seen) + it.remaining = len
      /\ \A n \in 1 .. Len(it.seen) : it.seen[n] = Q!Items[IF it.fwd THEN n ELSE len + 1 - n]
  BY DEF QInv, QPlace, Q!TypeOK, Q!IterInOrder, Q!IterNext, QIterators
<1> PICK s, r, x, f : s = it.seen /\ r = it.remaining /\ x = it.next /\ f = it.fwd
  OBVIOUS
<1>2. s \in Seq(Elems) /\ r \in Nat /\ x \in Nat /\ Len(s) \in Nat /\ r > 0 /\ Len(s) + r = len
      /\ it.cap = cap
  BY <1>1, LenProperties DEF QIterators
<1>3. f \in BOOLEAN
  BY ONLY <1>1, f = it.fwd DEF QIterators
<1>4. /\ x = SlotIn(head, IF f THEN Len(s) ELSE r - 1, cap)
      /\ \A n \in 1 .. Len(s) : s[n] = Q!Items[IF f THEN n ELSE len + 1 - n]
  BY <1>1
<1>5. /\ cap \in Nat \ {0} /\ len \in 1 .. cap /\ head \in Slots(cap)
  BY <1>2 DEF QInv, QRing, Shape
<1>6. \A n \in 0 .. len - 1 : buf[SlotIn(head, n, cap)] = Q!Items[n + 1] /\ Q!Items[n + 1] \in Elems
  BY QItemsOf DEF QInv
<1>7. /\ it' = [it EXCEPT !.seen = Append(s, buf[x]),
                          !.next = SlotIn(x, IF f THEN 1 ELSE cap - 1, cap), !.remaining = r - 1]
      /\ UNCHANGED <<Q!queue, pc>> /\ pc = "idle"
  BY <1>2 DEF Q!IterNext, Q!Wrapped, SlotIn
<1> PICK m : m = IF f THEN Len(s) ELSE r - 1
  OBVIOUS
<1>8. m \in 0 .. len - 1 /\ m \in 0 .. cap - 1 /\ x = SlotIn(head, m, cap) /\ x \in Slots(cap)
  <2>1. m \in 0 .. len - 1 /\ m \in 0 .. cap - 1
    BY <1>2, <1>5
  <2>2. x = SlotIn(head, m, cap)
    BY <1>4
  <2>3. QED
    BY <1>5, <2>1, <2>2, WrapIs
<1>9. buf[x] = Q!Items[m + 1] /\ buf[x] \in Elems
  BY <1>6, <1>8
<1> PICK t : t = Append(s, buf[x])
  OBVIOUS
<1>10. t \in Seq(Elems) /\ Len(t) = Len(s) + 1 /\ (\A n \in 1 .. Len(s) : t[n] = s[n])
       /\ t[Len(s) + 1] = buf[x]
  BY <1>2, <1>9, AppendProperties
<1> PICK y : y = SlotIn(x, IF f THEN 1 ELSE cap - 1, cap)
  OBVIOUS
<1>11. y \in Nat
  <2>1. 1 \in 0 .. cap /\ cap - 1 \in 0 .. cap
    BY <1>5
  <2>2. y \in Slots(cap)
    BY <1>5, <1>8, <2>1, WrapIs
  <2>3. QED
    BY <1>5, <2>2 DEF Slots
<1> PICK q \in Nat : q = r - 1
  BY <1>2
<1>12. it' = [it EXCEPT !.seen = t, !.next = y, !.remaining = q]
  BY <1>7
<1>13. it' \in QIterators
  BY <1>1, <1>10, <1>11, <1>12 DEF QIterators
<1>14. it'.seen = t /\ it'.next = y /\ it'.remaining = q /\ it'.cap = cap
  BY <1>1, <1>12 DEF QIterators
<1>15. it'.fwd = f
  BY ONLY <1>1, <1>12, f = it.fwd DEF QIterators
<1>16. UNCHANGED <<cap, len, head>> /\ pc' = "idle" /\ Q!Items' = Q!Items
  BY <1>7, QKept DEF Q!queue, QInv
<1>17. ASSUME q > 0 PROVE y = SlotIn(head, IF f THEN Len(t) ELSE q - 1, cap)
  <2>1. CASE f
    <3>1. y = SlotIn(SlotIn(head, m, cap), 1, cap) /\ m + 1 = Len(t)
      BY <1>8, <1>10, <2>1
    <3>2. y = SlotIn(head, m + 1, cap)
      BY <1>5, <1>8, <3>1, StepOn
    <3>3. QED
      BY <2>1, <3>1, <3>2
  <2>2. CASE ~f
    <3>1. y = SlotIn(SlotIn(head, m, cap), cap - 1, cap) /\ m = q
      BY <1>8, <2>2
    <3>2. y = SlotIn(head, m - 1, cap)
      <4>1. m \in 1 .. cap - 1
        BY <1>5, <1>8, <1>17, <3>1
      <4>2. QED
        BY <1>5, <3>1, <4>1, StepBack
    <3>3. QED
      BY <2>2, <3>1, <3>2
  <2>3. QED
    BY <1>3, <2>1, <2>2
<1>18. QPlace'
  BY <1>14, <1>15, <1>16, <1>17 DEF QPlace
<1>19. Len(t) + q = len
  <2>1. /\ Len(s) \in Nat /\ r \in Nat /\ Len(s) + r = len /\ Len(t) = Len(s) + 1 /\ q = r - 1
    BY <1>2, <1>10
  <2>2. QED
    BY ONLY <2>1
<1>20. ASSUME NEW n \in 1 .. Len(t) PROVE t[n] = Q!Items[IF f THEN n ELSE len + 1 - n]
  <2>1. CASE n = Len(s) + 1
    <3>1. m + 1 = IF f THEN n ELSE len + 1 - n
      BY <1>2, <1>3, <2>1
    <3>2. QED
      BY <1>9, <1>10, <2>1, <3>1
  <2>2. CASE n # Len(s) + 1
    <3>1. n \in 1 .. Len(s)
      BY <1>2, <1>10, <2>2
    <3>2. QED
      BY <1>4, <1>10, <3>1
  <2>3. QED
    BY <2>1, <2>2
<1>21. Q!IterInOrder'
  BY <1>14, <1>15, <1>16, <1>19, <1>20 DEF Q!IterInOrder
<1>22. QED
  BY <1>13, <1>18, <1>21

LEMMA QIterKept ==
  ASSUME QInv, [Q!Next]_(Q!vars)
  PROVE  it' \in QIterators /\ QPlace' /\ Q!IterInOrder'
<1>1. QRing /\ it \in QIterators /\ QPlace /\ Q!IterInOrder
  BY DEF QInv, Q!TypeOK, QIterators
<1>2. /\ cap \in Nat /\ len \in 0 .. cap
      /\ IF cap = 0 THEN head = 0 ELSE head \in Slots(cap)
  BY <1>1 DEF QRing, Shape
<1>3. ASSUME NEW fwd \in BOOLEAN, Q!IterOpen(fwd)
      PROVE  it' \in QIterators /\ QPlace' /\ Q!IterInOrder'
  <2>1. UNCHANGED <<Q!queue, pc>> /\ pc = "idle"
    BY <1>3 DEF Q!IterOpen, Q!Quiet
  <2>2. Q!Items' = Q!Items /\ UNCHANGED <<cap, len, head>>
    BY <1>1, <2>1, QKept DEF Q!queue
  <2> PICK x : x = IF fwd THEN head ELSE Q!FirstFromEnd
    OBVIOUS
  <2>3. ASSUME len > 0 PROVE x = SlotIn(head, IF fwd THEN 0 ELSE len - 1, cap) /\ x \in Nat
    <3>1. cap \in Nat \ {0} /\ head \in Slots(cap) /\ 0 \in 0 .. cap /\ len - 1 \in 0 .. cap
      BY <1>2, <2>3
    <3>2. SlotIn(head, 0, cap) = head
      BY <3>1, WrapIs DEF Slots
    <3>3. Q!FirstFromEnd = SlotIn(head, len - 1, cap)
      BY <2>3 DEF Q!FirstFromEnd, Q!LastSlot, Q!Wrapped, SlotIn
    <3>4. x = SlotIn(head, IF fwd THEN 0 ELSE len - 1, cap)
      BY <3>2, <3>3
    <3>5. x \in Slots(cap)
      BY <3>1, <3>4, WrapIs
    <3>6. QED
      BY <3>1, <3>4, <3>5 DEF Slots
  <2>4. x \in Nat
    <3>1. CASE len > 0
      BY <2>3, <3>1
    <3>2. CASE ~(len > 0)
      BY <1>2, <3>2 DEF Q!FirstFromEnd, Slots
    <3>3. QED
      BY <3>1, <3>2
  <2>5. it' = [on |-> TRUE, fwd |-> fwd, next |-> x, cap |-> cap, remaining |-> len, seen |-> <<>>]
    BY <1>3 DEF Q!IterOpen
  <2>6. <<>> \in Seq(Elems) /\ Len(<<>>) = 0 /\ len \in Nat
    BY <1>2
  <2>7. it' \in QIterators
    BY <1>2, <2>4, <2>5, <2>6 DEF QIterators
  <2>8. it'.next = x /\ it'.cap = cap /\ it'.remaining = len /\ it'.seen = <<>>
    BY <2>5
  <2>9. it'.fwd = fwd
    BY ONLY <2>5
  <2>10. QPlace'
    BY <2>1, <2>2, <2>3, <2>6, <2>8, <2>9 DEF QPlace
  <2>11. Q!IterInOrder'
    BY <2>2, <2>6, <2>8 DEF Q!IterInOrder
  <2>12. QED
    BY <2>7, <2>10, <2>11
<1>4. CASE Q!IterDrop
  <2>1. <<>> \in Seq(Elems)
    OBVIOUS
  <2>2. QED
    BY <1>4, <2>1 DEF Q!IterDrop, Q!NoIter, QIterators, QPlace, Q!IterInOrder
<1>5. CASE UNCHANGED it
  <2>1. CASE it.on
    <3>1. UNCHANGED Q!queue
      BY <2>1, QNoChangeUnderIter
    <3>2. Q!Items' = Q!Items /\ UNCHANGED <<cap, len, head>>
      BY <1>1, <3>1, QKept DEF Q!queue
    <3>3. pc' = "idle"
      BY <1>5, <2>1, QStandingKept
    <3>4. QED
      BY <1>1, <1>5, <3>2, <3>3 DEF QPlace, Q!IterInOrder
  <2>2. CASE ~it.on
    BY <1>1, <1>5, <2>2 DEF QPlace, Q!IterInOrder
  <2>3. QED
    BY <2>1, <2>2
<1>6. QED
  BY <1>3, <1>4, <1>5, QIterTakes DEF Q!Next, Q!Call, Q!Iterate, Q!vars, Q!Create, Q!Destroy, Q!Clear, Q!Pop, Q!Front,
     Q!Back, Q!Push, Q!PushRefused, Q!ExtendStart, Q!ExtendStep

LEMMA QCallKept ==
  ASSUME QInv, [Q!Next]_(Q!vars)
  PROVE  pc' \in {"none", "idle", "extend", "feeding"} /\ feed' \in Seq(Elems) /\ ret' \in Ret
<1>1. /\ QRing /\ pc \in {"none", "idle", "extend", "feeding"} /\ feed \in Seq(Elems) /\ ret \in Ret
  BY DEF QInv, Q!TypeOK, Ret
<1>2. CASE UNCHANGED Q!vars
  BY <1>1, <1>2 DEF Q!vars
<1>3. CASE Q!Create \/ Q!Destroy \/ Q!Clear \/ Q!PushRefused \/ (\E fwd \in BOOLEAN : Q!IterOpen(fwd))
           \/ Q!IterNext \/ Q!IterDrop \/ \E e \in Elems : Q!Push(e)
  BY <1>1, <1>3 DEF Q!Create, Q!Destroy, Q!Clear, Q!PushRefused, Q!IterOpen, Q!IterNext, Q!IterDrop,
     Q!Push, Ret
<1>4. CASE Q!Pop
  <2>1. CASE len = 0
    BY <1>1, <1>4, <2>1 DEF Q!Pop, Ret
  <2>2. CASE len # 0
    <3>1. ret' \in Elems
      BY <1>1, <1>4, <2>2, QPopped
    <3>2. QED
      BY <1>1, <1>4, <3>1 DEF Q!Pop, Ret
  <2>3. QED
    BY <2>1, <2>2
<1>5. CASE Q!Front \/ Q!Back
  <2>1. ret' \in Ret
    BY <1>1, <1>5, QFrontSeen, QBackSeen DEF Ret
  <2>2. QED
    BY <1>1, <1>5, <2>1 DEF Q!Front, Q!Back
<1>6. CASE Q!ExtendStart
  BY <1>1, <1>6, RingBufAssumption DEF Q!ExtendStart, Q!ExtendCall
<1>7. CASE Q!ExtendStep
  <2>1. CASE Q!FeedOne(Q!Pushed(Head(feed)))
    <3>1. feed # <<>> /\ feed' = Tail(feed) /\ UNCHANGED <<pc, ret>>
      BY <2>1 DEF Q!FeedOne
    <3>2. QED
      BY <1>1, <3>1, HeadTailProperties
  <2>2. CASE Q!ExtendRefused \/ Q!ExtendScratch \/ Q!FeedRefused(Q!Full) \/ Q!FeedDone
    <3>1. pc' \in {"idle", "feeding"} /\ feed' \in {feed, <<>>} /\ ret' \in {Nil, "OK", "OOM", "INVALID"}
      BY <2>2 DEF Q!ExtendRefused, Q!ExtendScratch, Q!FeedRefused, Q!FeedDone, Q!FeedEnd
    <3>2. <<>> \in Seq(Elems)
      OBVIOUS
    <3>3. QED
      BY <1>1, <3>1, <3>2 DEF Ret
  <2>3. QED
    BY <1>7, <2>1, <2>2 DEF Q!ExtendStep
<1>8. QED
  BY <1>2, <1>3, <1>4, <1>5, <1>6, <1>7 DEF Q!Next, Q!Call, Q!Iterate

LEMMA NextQ == QInv /\ [Q!Next]_(Q!vars) => QInv'
<1> SUFFICES ASSUME QInv, [Q!Next]_(Q!vars) PROVE QInv'
  OBVIOUS
<1>1. QRing' /\ QPlace' /\ QStanding' /\ Q!NothingLeaks' /\ Q!IterInOrder'
  BY QRingKept, QStandingKept, QBlocksKept, QIterKept
<1>2. Q!TypeOK'
  <2>1. /\ cap' \in Nat /\ len' \in 0 .. cap'
        /\ IF cap' = 0 THEN head' = 0 ELSE head' \in Q!Slots(cap')
        /\ buf' \in [Q!Slots(cap') -> Elems \cup {Junk}]
    BY <1>1 DEF QRing, Shape, Slots, Q!Slots
  <2>2. /\ it' \in QIterators /\ pc' \in {"none", "idle", "extend", "feeding"}
        /\ feed' \in Seq(Elems) /\ ret' \in Ret /\ blocks' \in Int
    BY QIterKept, QCallKept, QBlocksKept
  <2>3. QED
    BY <2>1, <2>2 DEF Q!TypeOK, QIterators, Ret
<1>3. QED
  BY <1>1, <1>2 DEF QInv

LEMMA QInductive == Q!Spec => []QInv
BY InitQ, NextQ, PTL DEF Q!Spec

(* The same for a queue: no slot out of bounds, none read unwritten.       *)
THEOREM QueueTypes == Q!Spec => []Q!TypeOK
<1>1. QInv => Q!TypeOK
  BY DEF QInv
<1>2. QED
  BY <1>1, QInductive, PTL

(* No path of queue.c and seqc_extend loses a block or frees one twice.    *)
THEOREM QueueBlocks == Q!Spec => []Q!NothingLeaks
<1>1. QInv => Q!NothingLeaks
  BY DEF QInv
<1>2. QED
  BY <1>1, QInductive, PTL

(* The iterator of a queue, which walks by itself from the fields it       *)
(* copied, yields every element in its place, in either direction.         *)
THEOREM QueueIterates == Q!Spec => []Q!IterInOrder
<1>1. QInv => Q!IterInOrder
  BY DEF QInv
<1>2. QED
  BY <1>1, QInductive, PTL

-----------------------------------------------------------------------------
(* queue_t implements DequeSpec, pushed at the back and popped in front.   *)

QDeque == INSTANCE DequeSpec WITH items <- Q!Items, exists <- Exists, feed <- Given,
            extending <- Feeding, result <- ret, Indices <- 0 .. MaxCap

LEMMA InitQDeque == Q!Init => QDeque!Init
BY QItemsAre, ContentNone DEF Q!Init, QDeque!Init, Exists, Given, Feeding, Q!Items

LEMMA QCallSeen ==
  pc = "idle" /\ pc' = "idle" =>
     /\ Exists = TRUE /\ Exists' = TRUE /\ Feeding = FALSE /\ Feeding' = FALSE
     /\ Given = <<>> /\ Given' = <<>> /\ QDeque!Ready
     /\ UNCHANGED <<Exists, Given, Feeding>>
BY DEF Exists, Given, Feeding, QDeque!Ready

LEMMA QCallRefines ==
  ASSUME QInv, Q!Call
  PROVE  QDeque!Next
<1>1. QRing /\ Q!Items \in Seq(Elems) /\ Len(Q!Items) = len /\ len \in Nat
  BY QItemsOf DEF QInv
<1>2. /\ pc = "idle" /\ pc' = "idle" /\ QDeque!Ready /\ UNCHANGED <<Exists, Given, Feeding>>
  <2>1. pc = "idle" /\ pc' = "idle"
    BY DEF Q!Call, Q!Push, Q!PushRefused, Q!Pop, Q!Clear, Q!Front, Q!Back, Q!Quiet
  <2>2. QED
    BY <2>1, QCallSeen
<1>3. ASSUME NEW e \in Elems, asked' = <<"push_back", e>>, Q!Push(e) PROVE QDeque!Next
  <2>1. Q!Items' = Append(Q!Items, e) /\ ret' = "OK"
    BY <1>1, <1>3, QPushed DEF Q!Push
  <2>2. QDeque!PushBack(e)
    BY <1>2, <2>1 DEF QDeque!PushBack, QDeque!Change, QDeque!Ready
  <2>3. QED
    BY <1>3, <2>2 DEF QDeque!Next
<1>4. ASSUME NEW e \in Elems, asked' = <<"push_back", e>>, Q!PushRefused PROVE QDeque!Next
  <2>1. Q!Items' = Q!Items /\ ret' = "OOM"
    BY <1>1, <1>4, QKept DEF Q!PushRefused
  <2>2. QDeque!PushBack(e)
    BY <1>2, <2>1 DEF QDeque!PushBack, QDeque!Leave
  <2>3. QED
    BY <1>4, <2>2 DEF QDeque!Next
<1>5. CASE asked' = <<"pop_front">> /\ Q!Pop
  <2>1. CASE len = 0
    <3>1. Q!Items' = Q!Items /\ ret' = "NOT_FOUND" /\ Q!Items = <<>>
      BY <1>1, <1>5, <2>1, QKept DEF Q!Pop, Q!queue
    <3>2. QDeque!PopFront
      BY <1>2, <3>1 DEF QDeque!PopFront, QDeque!Leave
    <3>3. QED
      BY <1>5, <3>2 DEF QDeque!Next
  <2>2. CASE len # 0
    <3>1. Q!Items # <<>> /\ Q!Items' = Tail(Q!Items) /\ ret' = Head(Q!Items)
      BY <1>1, <1>5, <2>2, QPopped
    <3>2. QDeque!PopFront
      BY <1>2, <3>1 DEF QDeque!PopFront, QDeque!Change
    <3>3. QED
      BY <1>5, <3>2 DEF QDeque!Next
  <2>3. QED
    BY <2>1, <2>2
<1>6. CASE asked' = <<"clear">> /\ Q!Clear
  <2>1. Q!Items' = <<>> /\ ret' = "OK"
    BY <1>1, <1>6, QEmptied DEF Q!Clear
  <2>2. QDeque!Clear
    BY <1>2, <2>1 DEF QDeque!Clear, QDeque!Change
  <2>3. QED
    BY <1>6, <2>2 DEF QDeque!Next
<1>7. CASE asked' = <<"front">> /\ Q!Front
  <2>1. Q!Items' = Q!Items
    BY <1>1, <1>7, QKept DEF Q!Front
  <2>2. ret' = IF 0 < Len(Q!Items) THEN Q!Items[0 + 1] ELSE "NOT_FOUND"
    BY <1>1, <1>7, QFrontSeen
  <2>3. QDeque!Get(0)
    BY <1>2, <2>1, <2>2 DEF QDeque!Get, QDeque!Leave
  <2>4. QED
    BY <1>7, <2>3 DEF QDeque!Next
<1>8. CASE asked' = <<"back">> /\ Q!Back
  <2>1. Q!Items' = Q!Items
    BY <1>1, <1>8, QKept DEF Q!Back
  <2>2. ret' = IF Q!Items = <<>> THEN "NOT_FOUND" ELSE Q!Items[Len(Q!Items)]
    BY <1>1, <1>8, QBackSeen
  <2>3. QDeque!Back
    BY <1>2, <2>1, <2>2 DEF QDeque!Back, QDeque!Leave
  <2>4. QED
    BY <1>8, <2>3 DEF QDeque!Next
<1>9. QED
  BY <1>3, <1>4, <1>5, <1>6, <1>7, <1>8 DEF Q!Call

LEMMA QLifeRefines ==
  ASSUME QInv,
         \/ asked' = <<"create">> /\ Q!Create
         \/ asked' = <<"destroy">> /\ Q!Destroy
  PROVE  QDeque!Next
<1>1. QRing
  BY DEF QInv
<1>2. CASE asked' = <<"create">> /\ Q!Create
  <2>1. /\ ~Exists /\ ~Feeding /\ ~Feeding' /\ Given = <<>> /\ Given' = <<>>
    BY <1>2 DEF Q!Create, Exists, Feeding, Given
  <2>2. Q!Items' = Q!Items
    BY <1>1, <1>2, QKept DEF Q!Create
  <2>3. Exists' \in BOOLEAN /\ ret' = IF Exists' THEN "OK" ELSE "OOM"
    BY <1>2 DEF Q!Create, Exists
  <2>4. Feeding = FALSE /\ Feeding' = FALSE
    BY <2>1 DEF Feeding
  <2>5. QDeque!Create
    BY <2>1, <2>2, <2>3, <2>4 DEF QDeque!Create
  <2>6. QED
    BY <1>2, <2>5 DEF QDeque!Next
<1>3. CASE asked' = <<"destroy">> /\ Q!Destroy
  <2>1. Exists /\ ~Exists' /\ Feeding = FALSE /\ Feeding' = FALSE /\ Given = <<>> /\ Given' = <<>>
        /\ ret' = "OK"
    BY <1>3 DEF Q!Destroy, Q!Quiet, Exists, Feeding, Given
  <2>2. Q!Items' = <<>>
    BY <1>1, <1>3, QEmptied
  <2>3. QDeque!Destroy
    BY <2>1, <2>2 DEF QDeque!Destroy
  <2>4. QED
    BY <1>3, <2>3 DEF QDeque!Next
<1>4. QED
  BY <1>2, <1>3

LEMMA QIterRefines ==
  ASSUME QInv, UNCHANGED Q!vars \/ (Q!Iterate /\ UNCHANGED asked)
  PROVE  UNCHANGED QDeque!vars
<1>1. UNCHANGED <<Q!queue, pc, feed, ret, asked>>
  BY DEF Q!vars, Q!Iterate, Q!IterOpen, Q!IterNext, Q!IterDrop
<1>2. Q!Items' = Q!Items
  BY <1>1, QKept DEF QInv
<1>3. QED
  BY <1>1, <1>2 DEF QDeque!vars, Exists, Given, Feeding

LEMMA QExtendSeen ==
  ASSUME QInv,
         \/ Q!ExtendStart /\ UNCHANGED asked
         \/ Q!ExtendStep /\ asked' = IF pc = "extend" THEN <<"extend", feed>> ELSE asked
  PROVE  QDeque!Next \/ UNCHANGED QDeque!vars
<1>0. /\ pc = "extend" => asked' = <<"extend", feed>>
      /\ pc # "extend" => UNCHANGED asked
  BY DEF Q!ExtendStart, Q!ExtendCall
<1>1. QRing /\ feed \in Seq(Elems) /\ (pc = "extend" => feed \in Sources)
  BY DEF QInv, Q!TypeOK, QStanding
<1>2. CASE Q!ExtendStart
  <2>1. UNCHANGED <<Exists, Feeding, Given, ret, asked>>
    BY <1>0, <1>2 DEF Q!ExtendStart, Q!ExtendCall, Exists, Feeding, Given
  <2>2. Q!Items' = Q!Items
    BY <1>1, <1>2, QKept DEF Q!ExtendStart
  <2>3. QED
    BY <2>1, <2>2 DEF QDeque!vars
<1>3. CASE Q!ExtendRefused /\ UNCHANGED <<Q!queue, it>>
  <2>1. Exists /\ ~Feeding /\ UNCHANGED <<Exists, Feeding, Given>> /\ ret' \in {"OOM", "INVALID"}
        /\ asked' = <<"extend", feed>> /\ feed \in Sources
    BY <1>0, <1>1, <1>3 DEF Q!ExtendRefused, Exists, Feeding, Given
  <2>2. Q!Items' = Q!Items
    BY <1>1, <1>3, QKept
  <2>3. QDeque!RefuseExtend
    BY <2>1, <2>2 DEF QDeque!RefuseExtend, QDeque!Ready, QDeque!Leave
  <2>4. QED
    BY <2>1, <2>3 DEF QDeque!Next
<1>4. CASE Q!ExtendScratch /\ UNCHANGED <<Q!queue, it>>
  <2>1. Exists /\ ~Feeding /\ Feeding' /\ UNCHANGED Exists /\ Given' = feed /\ ret' = Nil
        /\ asked' = <<"extend", feed>> /\ feed \in Sources
    BY <1>0, <1>1, <1>4 DEF Q!ExtendScratch, Exists, Feeding, Given
  <2>2. Q!Items' = Q!Items
    BY <1>1, <1>4, QKept
  <2>3. QDeque!Extend(feed)
    BY <2>1, <2>2 DEF QDeque!Extend, QDeque!Ready
  <2>4. QED
    BY <2>1, <2>3 DEF QDeque!Next
<1>5. CASE Q!FeedOne(Q!Pushed(Head(feed)))
  <2>1. /\ feed # <<>> /\ Feeding /\ UNCHANGED <<Exists, Feeding, ret, asked>>
        /\ Given = feed /\ Given' = Tail(feed) /\ Q!Pushed(Head(feed))
    BY <1>0, <1>5 DEF Q!FeedOne, Exists, Feeding, Given
  <2>2. Q!Items' = Append(Q!Items, Head(feed))
    BY <1>1, <2>1, HeadTailProperties, QPushed
  <2>3. QDeque!Feed
    BY <2>1, <2>2 DEF QDeque!Feed
  <2>4. QED
    BY <2>1, <2>3 DEF QDeque!Next
<1>6. CASE (Q!FeedRefused(Q!Full) \/ Q!FeedDone) /\ UNCHANGED <<Q!queue, it>>
  <2>1. /\ Feeding /\ ~Feeding' /\ UNCHANGED Exists /\ Given = feed /\ Given' = <<>>
        /\ ret' = (IF feed = <<>> THEN "OK" ELSE "OOM") /\ UNCHANGED asked
    BY <1>0, <1>6 DEF Q!FeedRefused, Q!FeedDone, Q!FeedEnd, Exists, Feeding, Given
  <2>2. Q!Items' = Q!Items
    BY <1>1, <1>6, QKept
  <2>3. QDeque!EndExtend
    BY <2>1, <2>2 DEF QDeque!EndExtend
  <2>4. QED
    BY <2>1, <2>3 DEF QDeque!Next
<1>7. QED
  BY <1>2, <1>3, <1>4, <1>5, <1>6 DEF Q!ExtendStep

LEMMA NextQDeque == QInv /\ [Q!Next]_(Q!vars) => [QDeque!Next]_(QDeque!vars)
BY QCallRefines, QLifeRefines, QIterRefines, QExtendSeen DEF Q!Next

(* A queue is first in, first out: queue_push is a push_back of its        *)
(* element and queue_pop a pop_front, as the recorded call demands,        *)
(* through every wrap, growth and broken-off extend.                       *)
THEOREM QueueRefines == Q!Spec => QDeque!Spec
BY InitQDeque, NextQDeque, QInductive, PTL DEF Q!Spec, QDeque!Spec
=============================================================================
