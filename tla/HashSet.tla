------------------------------- MODULE HashSet -------------------------------
(***************************************************************************)
(* set_t: the Robin Hood hash set of src/src/set/set.c, and its set        *)
(* algebra over sets that may be one and the same.                         *)
(*                                                                         *)
(* An add, a remove or a lookup is one step, with each of its allocations  *)
(* granted or refused; union, intersection, difference and extend are      *)
(* loops of such adds, one turn a step.  The loops inside a step are       *)
(* followed turn by turn by While (they are steps of their own in the      *)
(* model of hashmap_t, HashMap).                                           *)
(***************************************************************************)
EXTENDS Extend, FiniteSets, Functions

CONSTANTS
  Names,          (* the sets                                               *)
  Keys,
  Hash,           (* the caller's hash_fn                                   *)
  InitCap,        (* SET_INITIAL_CAP: 16 in the code                        *)
  MaxCap,         (* a larger array is always refused                       *)
  PslThreshold    (* SET_PSL_THRESHOLD                                      *)

(* An array of 4 or more that is not yet 3/4 full has two empty buckets.    *)
ASSUME HashSetAssumption ==
  /\ Hash \in [Keys -> Nat]
  /\ InitCap \in Nat /\ InitCap >= 4 /\ MaxCap \in Nat /\ PslThreshold \in Nat
  /\ Sources \subseteq Seq(Keys)
  /\ "nobody" \notin Names /\ Nil \notin {"OK", "OOM", "INVALID", "DUPLICATE", "NOT_FOUND", "yes", "no"}

VARIABLES
  sets,    (* the struct set_t of each set                                  *)
  alive,   (* the sets between create and destroy                           *)
  call,    (* the algebra or extend call in progress                        *)
  asked    (* the last call, with its arguments                             *)

vars == <<sets, alive, call, pc, feed, ret, blocks, asked>>

Slots(c)       == 0 .. c - 1
Entry(k, p)    == [key |-> k, psl |-> p]
Empty          == [key |-> Nil, psl |-> 0]
Table(b, c, n, m) == [buckets |-> b, cap |-> c, len |-> n, max_psl |-> m]
Blank(c)       == Table([s \in Slots(c) |-> Empty], c, 0, 0)
Occupied(t)    == {s \in Slots(t.cap) : t.buckets[s].psl # 0}
KeysIn(t)      == {t.buckets[s].key : s \in Occupied(t)}
NoCall == [op |-> "none", dest |-> Nil, srcs |-> <<>>, other |-> Nil, i |-> 0,
           keys |-> {}, want |-> {}]

HomeOf(k, c) == Hash[k] % c
Succ(s, c) == (s + 1) % c
MaxPsl(a, b) == IF a > b THEN a ELSE b

(* A loop from x on.  It must leave off within so many turns.              *)
While(Goes(_), Turn(_), x, most) ==
  LET once(y) == IF Goes(y) THEN Turn(y) ELSE y
      after[n \in Nat] == IF n = 0 THEN x ELSE once(after[n - 1])
  IN after[CHOOSE n \in 0 .. most : ~Goes(after[n])]

-----------------------------------------------------------------------------
(* set_insert_raw: carried past the buckets of other keys, the incoming    *)
(* bucket changes places with each that is nearer its home.  The new       *)
(* table, and whether the key was a duplicate. The uint8_t psl (and the    *)
(* probe count of set_contains and set_remove) is counted without its      *)
(* width here: it passes the threshold of 128 by at most the number of     *)
(* doublings, so 255 is out of reach. HashMap has the width.               *)
Poorer(p, q) == p > q
Further(e) == Entry(e.key, e.psl + 1)
Carry(b, m, e, s) == [b |-> b, max |-> m, in |-> e, at |-> s]
Here(x) == x.b[x.at]
Put(x) == [x.b EXCEPT ![x.at] = x.in]
PutMax(x) == MaxPsl(x.max, x.in.psl)
Carries(x) == Here(x).psl # 0 /\ Here(x).key # x.in.key
Carried(x, c) ==
  IF Poorer(x.in.psl, Here(x).psl)
  THEN Carry(Put(x), PutMax(x), Further(Here(x)), Succ(x.at, c))
  ELSE Carry(x.b, x.max, Further(x.in), Succ(x.at, c))
InsertRaw(t, k) ==
  LET turn(x) == Carried(x, t.cap)
      x == While(Carries, turn, Carry(t.buckets, t.max_psl, Entry(k, 1), HomeOf(k, t.cap)), t.cap)
      dup == Here(x).psl # 0
  IN [dup |-> dup,
      table |-> IF dup THEN Table(x.b, t.cap, t.len, x.max)
                ELSE Table(Put(x), t.cap, t.len, PutMax(x))]

(* set_resize: the array is doubled and the keys are put in it again;      *)
(* insert_raw does not count them, and cap must follow the array.           *)
Rehashed(t) ==
  LET goes(x) == x.i < t.cap
      turn(x) == [i |-> x.i + 1,
                  table |-> IF t.buckets[x.i].psl = 0 THEN x.table
                            ELSE InsertRaw(x.table, t.buckets[x.i].key).table]
  IN While(goes, turn, [i |-> 0, table |-> Blank(t.cap * 2)], t.cap).table
ResizedOldCap(t) == Table(Rehashed(t).buckets, t.cap, t.len, Rehashed(t).max_psl)
Resized(t) == Table(Rehashed(t).buckets, Rehashed(t).cap, t.len, Rehashed(t).max_psl)

(* The probe loop of set_contains and set_remove.  Without its comparison  *)
(* of keys it would find whatever key is at home in k's place.             *)
NoSlot == -1
AtHome(t, k) ==
  IF t.len = 0 THEN NoSlot
  ELSE IF t.buckets[HomeOf(k, t.cap)].psl = 0 THEN NoSlot ELSE HomeOf(k, t.cap)
InRun(t, x) == t.buckets[x.at].psl # 0 /\ t.buckets[x.at].psl >= x.probe
Find(t, k) ==
  LET goes(x) == InRun(t, x) /\ t.buckets[x.at].key # k
      turn(x) == [at |-> Succ(x.at, t.cap), probe |-> x.probe + 1]
      x == While(goes, turn, [at |-> HomeOf(k, t.cap), probe |-> 1], t.cap)
  IN IF t.len # 0 /\ InRun(t, x) THEN x.at ELSE NoSlot
Has(t, k) == Find(t, k) # NoSlot

(* The backward shift; without it a removal only empties the bucket.       *)
HoleOnly(t, s) == [t.buckets EXCEPT ![s] = Empty]
Nearer(e) == Entry(e.key, e.psl - 1)
CloseHole(t, s) ==
  LET next(x) == Succ(x.at, t.cap)
      goes(x) == x.b[next(x)].psl > 1
      turn(x) == [b |-> [x.b EXCEPT ![x.at] = Nearer(x.b[next(x)])], at |-> next(x)]
      x == While(goes, turn, [b |-> t.buckets, at |-> s], t.cap)
  IN [x.b EXCEPT ![x.at] = Empty]

-----------------------------------------------------------------------------
(* set_add.  What it may come to: the table left behind, the status and    *)
(* the blocks gained.  An array granted stays when the key is refused.     *)

Outcome(t, r, b) == [table |-> t, ret |-> r, gain |-> b]

WithArray(t) == IF t.cap = 0 THEN Blank(InitCap) ELSE t
ArrayGain(t) == IF t.cap = 0 THEN 1 ELSE 0
Crowded(t) == t.len * 4 >= t.cap * 3 \/ t.max_psl >= PslThreshold
Roomy(t) == IF Crowded(t) THEN Resized(t) ELSE t

(* A duplicate's copy of the key is freed by insert_raw.  *)
DupKept(n) == n + 1
DupFreed(n) == n
Inserted(t, k, g) ==
  LET res == InsertRaw(t, k) IN
  IF res.dup THEN Outcome(t, "DUPLICATE", DupFreed(g))
  ELSE Outcome(Table(res.table.buckets, res.table.cap, res.table.len + 1, res.table.max_psl),
               "OK", g + 1)

AddOutcomes(t, k) ==
  LET t1 == WithArray(t)
      g  == ArrayGain(t)
  IN (IF t.cap = 0 THEN {Outcome(t, "OOM", 0)} ELSE {})
       \cup (IF Crowded(t1) THEN {Outcome(t1, "OOM", g)} ELSE {})
       \cup (IF Crowded(t1) /\ t1.cap * 2 > MaxCap THEN {}
             ELSE {Outcome(Roomy(t1), "OOM", g), Inserted(Roomy(t1), k, g)})

-----------------------------------------------------------------------------
Init ==
  /\ sets = [n \in Names |-> Blank(0)] /\ alive = {}
  /\ call = NoCall /\ pc = "idle" /\ feed = <<>> /\ ret = "none" /\ blocks = 0
  /\ asked = <<"nothing">>

Quiet == pc = "idle"
Ready(n) == Quiet /\ n \in alive

Create(n) ==
  /\ Quiet /\ n \notin alive
  /\ \/ alive' = alive \cup {n} /\ ret' = "OK" /\ blocks' = blocks + 1
     \/ ret' = "OOM" /\ UNCHANGED <<alive, blocks>>
  /\ UNCHANGED <<sets, call, pc, feed>>

KeyBlocks(t) == Cardinality(Occupied(t))

Destroy(n) ==
  /\ Ready(n)
  /\ alive' = alive \ {n} /\ sets' = [sets EXCEPT ![n] = Blank(0)]
  /\ blocks' = blocks - KeyBlocks(sets[n]) - 1 - (IF sets[n].cap = 0 THEN 0 ELSE 1)
  /\ ret' = "OK"
  /\ UNCHANGED <<call, pc, feed>>

Clear(n) ==
  /\ Ready(n)
  /\ sets' = [sets EXCEPT ![n] = Blank(sets[n].cap)]
  /\ blocks' = blocks - KeyBlocks(sets[n])
  /\ ret' = "OK"
  /\ UNCHANGED <<alive, call, pc, feed>>

Applied(n, o) == sets' = [sets EXCEPT ![n] = o.table] /\ blocks' = blocks + o.gain

Add(n, k) ==
  /\ Ready(n)
  /\ \E o \in AddOutcomes(sets[n], k) : Applied(n, o) /\ ret' = o.ret
  /\ UNCHANGED <<alive, call, pc, feed>>

Remove(n, k) ==
  LET t == sets[n]
      s == Find(t, k)
  IN
  /\ Ready(n)
  /\ IF s = NoSlot
     THEN ret' = "NOT_FOUND" /\ UNCHANGED <<sets, blocks>>
     ELSE /\ sets' = [sets EXCEPT ![n] = Table(CloseHole(t, s), t.cap, t.len - 1, t.max_psl)]
          /\ ret' = "OK" /\ blocks' = blocks - 1
  /\ UNCHANGED <<alive, call, pc, feed>>

Contains(n, k) ==
  /\ Ready(n)
  /\ ret' = IF Has(sets[n], k) THEN "yes" ELSE "no"
  /\ UNCHANGED <<sets, alive, call, pc, feed, blocks>>

-----------------------------------------------------------------------------
(* set_union, set_intersection and set_difference add keys of the operands *)
(* to dest as they walk their arrays, bucket by bucket.  An operand may be *)
(* dest, whose array then changes under the walk.                          *)

Stored(n) == KeysIn(sets[n])

AlgebraCall(op, d, a, b) ==
  LET small == IF sets[a].len <= sets[b].len THEN a ELSE b
      large == IF sets[a].len <= sets[b].len THEN b ELSE a
  IN
  /\ Ready(d) /\ {a, b} \subseteq alive
  /\ call' = CASE op = "union" ->
                    [op |-> op, dest |-> d, srcs |-> <<a, b>>, other |-> Nil, i |-> 0, keys |-> {},
                     want |-> Stored(d) \cup Stored(a) \cup Stored(b)]
               [] op = "intersection" ->
                    [op |-> op, dest |-> d, srcs |-> <<small>>, other |-> large, i |-> 0, keys |-> {},
                     want |-> Stored(d) \cup (Stored(a) \cap Stored(b))]
               [] op = "difference" ->
                    [op |-> op, dest |-> d, srcs |-> <<a>>, other |-> b, i |-> 0, keys |-> {},
                     want |-> Stored(d) \cup (Stored(a) \ Stored(b))]
  /\ pc' = "algebra" /\ ret' = "none"
  /\ UNCHANGED <<sets, alive, feed, blocks>>

Wanted(k) == CASE call.op = "union"        -> TRUE
               [] call.op = "intersection" -> Has(sets[call.other], k)
               [] call.op = "difference"   -> ~Has(sets[call.other], k)

Walking == sets[Head(call.srcs)]
AtBucket == pc = "algebra" /\ call.srcs # <<>> /\ call.i < Walking.cap
End(r) == pc' = "idle" /\ ret' = r /\ call' = NoCall

AlgebraSkip ==
  /\ AtBucket
  /\ \/ Walking.buckets[call.i].psl = 0
     \/ Walking.buckets[call.i].psl # 0 /\ ~Wanted(Walking.buckets[call.i].key)
  /\ call' = [call EXCEPT !.i = @ + 1]
  /\ UNCHANGED <<sets, alive, pc, feed, ret, blocks>>

(* A duplicate is no error.  *)
Tolerated == {"OK", "DUPLICATE"}
AlgebraAdd ==
  /\ AtBucket
  /\ Walking.buckets[call.i].psl # 0
  /\ Wanted(Walking.buckets[call.i].key)
  /\ \E o \in AddOutcomes(sets[call.dest], Walking.buckets[call.i].key) :
       /\ Applied(call.dest, o)
       /\ IF o.ret \in Tolerated
          THEN call' = [call EXCEPT !.i = @ + 1] /\ UNCHANGED <<pc, ret>>
          ELSE End(o.ret)
  /\ UNCHANGED <<alive, feed>>

AlgebraNextSource ==
  /\ pc = "algebra" /\ call.srcs # <<>> /\ call.i >= Walking.cap
  /\ call' = [call EXCEPT !.srcs = Tail(@), !.i = 0]
  /\ UNCHANGED <<sets, alive, pc, feed, ret, blocks>>

AlgebraDone ==
  /\ pc = "algebra" /\ call.srcs = <<>>
  /\ End("OK")
  /\ UNCHANGED <<sets, alive, feed, blocks>>

AlgebraStep == AlgebraSkip \/ AlgebraAdd \/ AlgebraNextSource \/ AlgebraDone

-----------------------------------------------------------------------------
(* set_iter and set_iter_rev yield the keys in the order of the buckets.   *)
IterYields(t, fwd) ==
  LET goes(x) == x.i < t.cap
      at(x) == t.buckets[IF fwd THEN x.i ELSE t.cap - 1 - x.i]
      turn(x) == [i |-> x.i + 1, out |-> IF at(x).psl = 0 THEN x.out ELSE Append(x.out, at(x).key)]
  IN While(goes, turn, [i |-> 0, out |-> <<>>], t.cap).out

(* set_extend, from an iterator over something else or over another set:   *)
(* to want are the keys the iterator should yield.                         *)
ExtendFrom(n, s, ks) ==
  /\ ExtendCall(s)
  /\ call' = [NoCall EXCEPT !.op = "extend", !.dest = n, !.keys = ks, !.want = Stored(n) \cup ks]
ExtendStart(n) ==
  /\ n \in alive
  /\ \/ \E s \in Sources : ExtendFrom(n, s, Range(s))
     \/ \E m \in alive \ {n}, fwd \in BOOLEAN :
          ExtendFrom(n, IterYields(sets[m], fwd), Stored(m))
  /\ UNCHANGED <<sets, alive>>

FeedOutcomes == AddOutcomes(sets[call.dest], Head(feed))

ExtendEnd == call' = NoCall /\ UNCHANGED alive
ExtendStep ==
  \/ ExtendRefused /\ ExtendEnd /\ UNCHANGED sets
  \/ ExtendScratch /\ UNCHANGED <<sets, alive, call>>
  \/ /\ FeedOne(\E o \in FeedOutcomes : o.ret \in Tolerated /\ Applied(call.dest, o))
     /\ UNCHANGED <<alive, call>>
  \/ FeedDone /\ ExtendEnd /\ UNCHANGED sets
  \/ /\ pc = "feeding" /\ feed # <<>>
     /\ \E o \in FeedOutcomes :
          /\ o.ret \notin Tolerated
          /\ sets' = [sets EXCEPT ![call.dest] = o.table]
          /\ blocks' = ScratchFree(IterDestroy(blocks + o.gain))
          /\ ret' = o.ret
     /\ pc' = "idle" /\ feed' = <<>>
     /\ ExtendEnd

(* The caller's calls.  What it asked for is recorded, for SetSpec, and    *)
(* read by no action.                                                      *)
Call(n) ==
  \/ asked' = <<"create", n>> /\ Create(n)
  \/ asked' = <<"destroy", n>> /\ Destroy(n)
  \/ asked' = <<"clear", n>> /\ Clear(n)
  \/ \E k \in Keys : \/ asked' = <<"add", n, k>> /\ Add(n, k)
                     \/ asked' = <<"remove", n, k>> /\ Remove(n, k)
                     \/ asked' = <<"contains", n, k>> /\ Contains(n, k)
  \/ \E op \in {"union", "intersection", "difference"}, a, b \in Names :
       asked' = <<op, n, a, b>> /\ AlgebraCall(op, n, a, b)

Next ==
  \/ \E n \in Names : Call(n) \/ (ExtendStart(n) /\ UNCHANGED asked)
  \/ AlgebraStep /\ UNCHANGED asked
  \/ ExtendStep /\ asked' = IF pc = "extend" THEN <<"extend", call.dest, call.keys>> ELSE asked

Spec == Init /\ [][Next]_vars

-----------------------------------------------------------------------------
(* Types: every index is in bounds, no psl and no max_psl exceeds the      *)
(* array, and a call in progress walks sets that live.                      *)
Bucket(c) == {Empty} \cup [key : Keys, psl : 1 .. c]
TypeOK ==
  /\ \A n \in Names :
       LET t == sets[n] IN
       /\ t.cap \in Nat /\ t.len \in 0 .. t.cap /\ t.max_psl \in 0 .. t.cap
       /\ t.buckets \in [Slots(t.cap) -> Bucket(t.cap)]
  /\ alive \subseteq Names
  /\ pc \in {"idle", "algebra", "extend", "feeding"}
  /\ pc # "idle" => call.dest \in alive
  /\ pc = "algebra" => \A i \in 1 .. Len(call.srcs) : call.srcs[i] \in alive
  /\ ret \in {"none", "OK", "OOM", "INVALID", "DUPLICATE", "NOT_FOUND", "yes", "no", Nil}
  /\ blocks \in Nat

(* A probe finds every stored key and no other, and no key is stored       *)
(* twice, so len is the number of keys.                                    *)
LookupAgrees ==
  \A n \in Names :
    /\ \A k \in Keys : Has(sets[n], k) <=> k \in Stored(n)
    /\ sets[n].len = KeyBlocks(sets[n]) /\ sets[n].len = Cardinality(Stored(n))

(* One block for each struct, array and key, and those of an extend: none  *)
(* is lost or freed twice on any path, refused allocations included.       *)
Held(n) == IF n \notin alive THEN {}
           ELSE {<<"struct", n, 0>>}
                  \cup (IF sets[n].cap = 0 THEN {} ELSE {<<"array", n, 0>>})
                  \cup {<<"key", n, s>> : s \in Occupied(sets[n])}
NothingLeaks == blocks = Cardinality(UNION {Held(n) : n \in Names}) + ExtendBlocks

Merging == pc \in {"algebra", "feeding"}

(* set_t implements SetSpec: an add or a remove changes the set it was     *)
(* called on only, by exactly its own key, and a merge has exactly the     *)
(* result of its operation on its operands, also when dest is one of them  *)
(* or the iterator is over another set; a merge that runs out of memory    *)
(* has added nothing foreign.                                              *)
Abstract == INSTANCE SetSpec
              WITH contents <- [n \in Names |-> Stored(n)],
                   busy     <- IF Merging THEN call.dest ELSE "nobody",
                   want     <- IF Merging THEN call.want ELSE {},
                   result   <- IF ret = Nil THEN "none" ELSE ret,
                   found    <- 0
ImplementsSet == Abstract!Spec
=============================================================================
