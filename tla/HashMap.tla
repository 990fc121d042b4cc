------------------------------- MODULE HashMap -------------------------------
(***************************************************************************)
(* hashmap_t: the Robin Hood open-addressing table of                      *)
(* src/src/hashmap/hashmap.c.                                              *)
(*                                                                         *)
(* A call is a sequence of steps: one iteration of a loop of the code is   *)
(* one step, and so is each allocation, which may fail whenever it is      *)
(* asked.  Addresses and bytes are abstracted: a key or a value is the     *)
(* caller's datum, and the copies the map owns are counted in `blocks`.    *)
(***************************************************************************)
EXTENDS Integers, FiniteSets, Sequences

CONSTANTS
  Keys, Vals,      (* what the caller stores                                *)
  Offered,         (* the entries <<key, value>> it may set                 *)
  Hash,            (* the caller's hash_fn                                  *)
  InitCap,         (* hashmap_create's cap: 16 in the code                  *)
  MaxCap,          (* an array of more buckets than this is always refused  *)
  Caps,            (* the capacities an array can have: each twice the last *)
  PslThreshold,    (* HASH_PSL_THRESHOLD: 128 in the code                   *)
  PslWidth,        (* a uint8_t psl counts modulo this: 256 in the code     *)
  Nil

ASSUME HashMapAssumption ==
  /\ Offered \subseteq Keys \X Vals
  /\ Hash \in [Keys -> Nat]
  /\ InitCap \in Nat \ {0, 1}
  /\ MaxCap \in Nat
  /\ PslThreshold \in Nat \ {0}
  /\ PslWidth \in Nat \ {0, 1}
  /\ Nil \notin Keys \cup Vals

(* 16 buckets can be doubled some sixty times before the address space     *)
(* ends, and 128 + 60 is below 256.                                        *)
ASSUME CapsAssumption ==
  /\ Caps \in Seq(Nat) /\ Caps # <<>> /\ Caps[1] = InitCap
  /\ \A d \in 2 .. Len(Caps) : Caps[d] = 2 * Caps[d - 1]
  /\ 2 * Caps[Len(Caps)] > MaxCap
  /\ PslThreshold + Len(Caps) <= PslWidth

VARIABLES
  buckets, cap, len, max_psl,   (* struct hashmap_t                        *)
  old_buckets, old_cap, i,      (* the locals of hashmap_resize_and_rehash *)
  incoming,                     (* the bucket hashmap_insert_raw carries   *)
  slot, probe,                  (* the probe loops' locals                 *)
  it,                           (* an iterator over the map                *)
  pc, arg, ret,                 (* the call in progress and its result     *)
  blocks                        (* allocator blocks not yet freed          *)

table   == <<buckets, cap, len, max_psl>>
rehash  == <<old_buckets, old_cap, i>>
vars    == <<table, rehash, incoming, slot, probe, it, pc, arg, ret, blocks>>

Slots(c) == 0 .. c - 1
Entry    == [key : Keys, value : Vals, psl : 1 .. PslWidth - 1]
Empty    == [key |-> Nil, value |-> Nil, psl |-> 0]
Bucket   == Entry \cup {Empty}
WithPsl(e, p) == [key |-> e.key, value |-> e.value, psl |-> p]
WithValue(e, v) == [key |-> e.key, value |-> v, psl |-> e.psl]
NoBuckets(c) == [s \in Slots(c) |-> Empty]
Occupied(b, c) == {s \in Slots(c) : b[s].psl # 0}

NoArg == [op |-> "none", key |-> Nil, value |-> Nil]
SetArg(k, v) == [op |-> "set", key |-> k, value |-> v]
KeyArg(op, k) == [op |-> op, key |-> k, value |-> Nil]

NoIter == [on |-> FALSE, fwd |-> TRUE, slot |-> 0, seen |-> {}, yields |-> 0]

(* hashmap_get_slot: hash & (cap - 1), cap a power of two.  *)
HomeOf(k, c) == Hash[k] % c
(* (slot + 1) & (cap - 1), and the step of a loop that forgets the mask.  *)
SuccUnmasked(s) == s + 1
Succ(s) == (s + 1) % cap
(* psl++ and probe++ on a uint8_t. *)
IncPsl(p) == (p + 1) % PslWidth

-----------------------------------------------------------------------------
(* hashmap_create and the ends of a map's life.  *)

Init ==
  /\ buckets = NoBuckets(0) /\ cap = 0 /\ len = 0 /\ max_psl = 0
  /\ old_buckets = NoBuckets(0) /\ old_cap = 0 /\ i = 0
  /\ incoming = Empty /\ slot = 0 /\ probe = 0
  /\ it = NoIter
  /\ pc = "none" /\ arg = NoArg /\ ret = Nil
  /\ blocks = 0

(* Two allocations: the struct and the bucket array; the struct is freed   *)
(* again when the array is refused.                                        *)
Create ==
  /\ pc = "none"
  /\ \/ /\ ret' = "OK" /\ pc' = "idle"
        /\ buckets' = NoBuckets(InitCap) /\ cap' = InitCap
        /\ blocks' = blocks + 2
     \/ /\ ret' = "OOM"
        /\ UNCHANGED <<pc, buckets, cap, blocks>>
  /\ UNCHANGED <<len, max_psl, rehash, incoming, slot, probe, it, arg>>

EntryBlocks(b, c) == 2 * Cardinality(Occupied(b, c))

Quiet == pc = "idle" /\ ~it.on

Clear ==
  /\ Quiet
  /\ buckets' = NoBuckets(cap) /\ len' = 0 /\ max_psl' = 0
  /\ blocks' = blocks - EntryBlocks(buckets, cap)
  /\ ret' = "OK"
  /\ UNCHANGED <<cap, rehash, incoming, slot, probe, it, pc, arg>>

Destroy ==
  /\ Quiet
  /\ buckets' = NoBuckets(0) /\ cap' = 0 /\ len' = 0 /\ max_psl' = 0
  /\ blocks' = blocks - EntryBlocks(buckets, cap) - 2
  /\ ret' = "OK" /\ pc' = "none"
  /\ UNCHANGED <<rehash, incoming, slot, probe, it, arg>>

(* The locals are gone when a call returns.  *)
Return(r) == pc' = "idle" /\ arg' = NoArg /\ ret' = r /\ slot' = 0 /\ probe' = 0

-----------------------------------------------------------------------------
(* hashmap_get and hashmap_remove: the probe loop they share.  Reading is  *)
(* allowed while an iterator is open, changing the map is not.             *)

Find(op, k) ==
  /\ pc = "idle"
  /\ op = "remove" => ~it.on
  /\ pc' = "find" /\ arg' = KeyArg(op, k) /\ ret' = Nil
  /\ slot' = HomeOf(k, cap) /\ probe' = 1
  /\ UNCHANGED <<table, rehash, incoming, it, blocks>>

FindMiss ==
  /\ pc = "find"
  /\ buckets[slot].psl = 0 \/ buckets[slot].psl < probe
  /\ Return("NOT_FOUND")
  /\ UNCHANGED <<table, rehash, incoming, it, blocks>>

FindNext ==
  /\ pc = "find"
  /\ buckets[slot].psl # 0 /\ buckets[slot].psl >= probe
  /\ buckets[slot].key # arg.key
  /\ slot' = Succ(slot) /\ probe' = IncPsl(probe)
  /\ UNCHANGED <<table, rehash, incoming, it, pc, arg, ret, blocks>>

Found(op) ==
  /\ pc = "find" /\ arg.op = op
  /\ buckets[slot].psl # 0 /\ buckets[slot].psl >= probe
  /\ buckets[slot].key = arg.key

GetHit ==
  /\ Found("get")
  /\ Return(buckets[slot].value)
  /\ UNCHANGED <<table, rehash, incoming, it, blocks>>

RemoveHit ==
  /\ Found("remove")
  /\ buckets' = [buckets EXCEPT ![slot] = Empty]
  /\ len' = len - 1
  /\ blocks' = blocks - 2
  /\ pc' = "shift"
  /\ UNCHANGED <<cap, max_psl, rehash, incoming, slot, probe, it, arg, ret>>

(* The backward shift.  `slot` is the hole (prev in the code), the bucket  *)
(* after it the one that may move up.                                      *)
ShiftableLate(p) == p > 2
Shiftable(p) == p > 1
ShiftMove ==
  LET next == Succ(slot) IN
  /\ pc = "shift"
  /\ Shiftable(buckets[next].psl)
  /\ buckets' = [buckets EXCEPT
                   ![slot] = WithPsl(buckets[next], buckets[next].psl - 1),
                   ![next] = Empty]
  /\ slot' = next
  /\ UNCHANGED <<cap, len, max_psl, rehash, incoming, probe, it, pc, arg, ret, blocks>>

ShiftDone ==
  /\ pc = "shift"
  /\ ~Shiftable(buckets[Succ(slot)].psl)
  /\ Return("OK")
  /\ UNCHANGED <<table, rehash, incoming, it, blocks>>

-----------------------------------------------------------------------------
(* hashmap_set: grow if need be, copy key and value, insert.  *)

SetCall(k, v) ==
  /\ Quiet
  /\ pc' = "set" /\ arg' = SetArg(k, v) /\ ret' = Nil
  /\ UNCHANGED <<table, rehash, incoming, slot, probe, it, blocks>>

TooFullTooLate == len * 4 > cap * 3
TooFull == (len + 1) * 4 > cap * 3
NeverGrows == FALSE
NeedsGrow == TooFull \/ max_psl >= PslThreshold

NoGrow ==
  /\ pc = "set" /\ ~NeedsGrow
  /\ pc' = "alloc_key"
  /\ UNCHANGED <<table, rehash, incoming, slot, probe, it, arg, ret, blocks>>

Refused ==
  /\ \/ pc = "set" /\ NeedsGrow
     \/ pc = "alloc_key"
  /\ Return("OOM")
  /\ UNCHANGED <<table, rehash, incoming, it, blocks>>

Grow ==
  /\ pc = "set" /\ NeedsGrow
  /\ cap * 2 <= MaxCap
  /\ buckets' = NoBuckets(cap * 2) /\ cap' = cap * 2 /\ len' = 0 /\ max_psl' = 0
  /\ old_buckets' = buckets /\ old_cap' = cap /\ i' = 0
  /\ blocks' = blocks + 1
  /\ pc' = "rehash"
  /\ UNCHANGED <<incoming, slot, probe, it, arg, ret>>

RehashSkip ==
  /\ pc = "rehash" /\ i < old_cap
  /\ old_buckets[i].psl = 0
  /\ i' = i + 1
  /\ UNCHANGED <<table, old_buckets, old_cap, incoming, slot, probe, it, pc, arg, ret, blocks>>

RehashOne ==
  /\ pc = "rehash" /\ i < old_cap
  /\ old_buckets[i].psl # 0
  /\ incoming' = WithPsl(old_buckets[i], 1)
  /\ slot' = HomeOf(old_buckets[i].key, cap)
  /\ i' = i + 1
  /\ pc' = "reinsert"
  /\ UNCHANGED <<table, old_buckets, old_cap, probe, it, arg, ret, blocks>>

RehashDone ==
  /\ pc = "rehash" /\ i = old_cap
  /\ old_buckets' = NoBuckets(0) /\ old_cap' = 0 /\ i' = 0
  /\ blocks' = blocks - 1
  /\ pc' = "alloc_key"
  /\ UNCHANGED <<table, incoming, slot, probe, it, arg, ret>>

AllocKey ==
  /\ pc = "alloc_key"
  /\ blocks' = blocks + 1
  /\ pc' = "alloc_val"
  /\ UNCHANGED <<table, rehash, incoming, slot, probe, it, arg, ret>>

(* The value is refused: the key's copy is freed.  *)
KeepKeyCopy(n) == n
FreeKeyCopy(n) == n - 1
ValRefused ==
  /\ pc = "alloc_val"
  /\ blocks' = FreeKeyCopy(blocks)
  /\ Return("OOM")
  /\ UNCHANGED <<table, rehash, incoming, it>>

AllocVal ==
  /\ pc = "alloc_val"
  /\ blocks' = blocks + 1
  /\ incoming' = [key |-> arg.key, value |-> arg.value, psl |-> 1]
  /\ slot' = HomeOf(arg.key, cap)
  /\ pc' = "insert"
  /\ UNCHANGED <<table, rehash, probe, it, arg, ret>>

-----------------------------------------------------------------------------
(* The loop of hashmap_insert_raw, called by the rehash ("reinsert") and   *)
(* by hashmap_set ("insert").                                              *)

Inserting == pc \in {"insert", "reinsert"}

InsertReturn ==
  IF pc = "reinsert" THEN pc' = "rehash" /\ slot' = 0 /\ UNCHANGED <<probe, arg, ret>>
                     ELSE Return("OK")

RaiseAlways(p) == p
Raise(p) == IF p > max_psl THEN p ELSE max_psl

InsertEmpty ==
  /\ Inserting
  /\ buckets[slot].psl = 0
  /\ buckets' = [buckets EXCEPT ![slot] = incoming]
  /\ max_psl' = Raise(incoming.psl)
  /\ len' = len + 1
  /\ incoming' = Empty
  /\ InsertReturn
  /\ UNCHANGED <<cap, rehash, it, blocks>>

(* The key is there: its value is replaced, the incoming key's copy and    *)
(* the old value are freed.                                                *)
InsertReplace ==
  /\ Inserting
  /\ buckets[slot].psl # 0
  /\ buckets[slot].key = incoming.key
  /\ buckets' = [buckets EXCEPT ![slot] = WithValue(buckets[slot], incoming.value)]
  /\ blocks' = blocks - 2
  /\ incoming' = Empty
  /\ InsertReturn
  /\ UNCHANGED <<cap, len, max_psl, rehash, it>>

(* On to the next bucket; assert(incoming.psl != 0) stops the program if   *)
(* the uint8_t has wrapped.                                                *)
Carry(b) ==
  /\ incoming' = WithPsl(b, IncPsl(b.psl))
  /\ slot' = Succ(slot)
  /\ pc' = IF IncPsl(b.psl) = 0 THEN "abort" ELSE pc

RicherOrEqual(p, q) == p <= q
NeverRicher(p, q) == FALSE
Richer(p, q) == p < q
InsertSwap ==
  /\ Inserting
  /\ buckets[slot].psl # 0
  /\ buckets[slot].key # incoming.key
  /\ Richer(buckets[slot].psl, incoming.psl)
  /\ buckets' = [buckets EXCEPT ![slot] = incoming]
  /\ max_psl' = Raise(incoming.psl)
  /\ Carry(buckets[slot])
  /\ UNCHANGED <<cap, len, rehash, probe, it, arg, ret, blocks>>

InsertAdvance ==
  /\ Inserting
  /\ buckets[slot].psl # 0
  /\ buckets[slot].key # incoming.key
  /\ ~Richer(buckets[slot].psl, incoming.psl)
  /\ Carry(incoming)
  /\ UNCHANGED <<table, rehash, probe, it, arg, ret, blocks>>

-----------------------------------------------------------------------------
(* hashmap_iter and hashmap_iter_rev.  The state holds the map and the     *)
(* next slot to look at; the caller may not change the map meanwhile.  A   *)
(* refused allocation yields a failed iterator and changes nothing.        *)

IterOpen(fwd) ==
  /\ Quiet
  /\ it' = [on |-> TRUE, fwd |-> fwd, slot |-> IF fwd THEN 0 ELSE cap,
            seen |-> {}, yields |-> 0]
  /\ blocks' = blocks + 1
  /\ UNCHANGED <<table, rehash, incoming, slot, probe, pc, arg, ret>>

(* The slots the iterator has yet to visit, and the occupied one it meets  *)
(* first.                                                                  *)
Ahead == {s \in Occupied(buckets, cap) : IF it.fwd THEN s >= it.slot ELSE s < it.slot}
First(s) == \A t \in Ahead : IF it.fwd THEN s <= t ELSE t <= s
PastTwice(s) == IF it.fwd THEN s + 1 ELSE s - 1
Past(s) == IF it.fwd THEN s + 1 ELSE s

IterNext ==
  /\ pc = "idle" /\ it.on
  /\ \E s \in Ahead :
       /\ First(s)
       /\ it' = [on |-> TRUE, fwd |-> it.fwd, slot |-> Past(s),
                 seen |-> it.seen \cup {<<buckets[s].key, buckets[s].value>>},
                 yields |-> it.yields + 1]
  /\ UNCHANGED <<table, rehash, incoming, slot, probe, pc, arg, ret, blocks>>

IterDrop ==
  /\ pc = "idle" /\ it.on
  /\ it' = NoIter
  /\ blocks' = blocks - 1
  /\ UNCHANGED <<table, rehash, incoming, slot, probe, pc, arg, ret>>

-----------------------------------------------------------------------------
InsertStep == InsertEmpty \/ InsertReplace \/ InsertSwap \/ InsertAdvance
FindStep   == FindMiss \/ FindNext \/ GetHit
RemoveStep == RemoveHit \/ ShiftMove \/ ShiftDone
SetStep    == NoGrow \/ Refused \/ Grow \/ RehashSkip \/ RehashOne \/ RehashDone
                \/ AllocKey \/ ValRefused \/ AllocVal

(* A step of the code itself, once it has been called.  *)
Step == InsertStep \/ FindStep \/ RemoveStep \/ SetStep

Next ==
  \/ Step
  \/ Create \/ Clear \/ Destroy
  \/ \E e \in Offered : SetCall(e[1], e[2])
  \/ \E op \in {"get", "remove"}, k \in Keys : Find(op, k)
  \/ \E fwd \in BOOLEAN : IterOpen(fwd)
  \/ IterNext \/ IterDrop

Spec == Init /\ [][Next]_vars

(* A call, once made, runs: the code is sequential and waits for nothing.  *)
FairSpec == Spec /\ WF_vars(Step)

-----------------------------------------------------------------------------
(* Types: every index into the arrays is in bounds, an occupied bucket     *)
(* holds an entry, and what a loop works on is there.                      *)

InLoop == pc \in {"find", "shift", "insert", "reinsert"}

TypeOK ==
  /\ cap \in Nat /\ old_cap \in Nat /\ len \in Nat /\ i \in 0 .. old_cap
  /\ buckets \in [Slots(cap) -> Bucket]
  /\ old_buckets \in [Slots(old_cap) -> Bucket]
  /\ max_psl \in Nat
  /\ incoming \in [key : Keys \cup {Nil}, value : Vals \cup {Nil}, psl : 0 .. PslWidth - 1]
  /\ Inserting => incoming \in Entry
  /\ slot \in Nat /\ probe \in Nat
  /\ InLoop => slot \in Slots(cap)
  /\ it \in [on : BOOLEAN, fwd : BOOLEAN, slot : Nat,
             seen : SUBSET (Keys \X Vals), yields : Nat]
  /\ pc \in {"none", "idle", "find", "shift", "set", "rehash", "reinsert",
             "alloc_key", "alloc_val", "insert", "abort"}
  /\ arg \in {NoArg} \cup [op : {"set"}, key : Keys, value : Vals]
               \cup [op : {"get", "remove"}, key : Keys, value : {Nil}]
  /\ pc \in {"set", "rehash", "reinsert", "alloc_key", "alloc_val", "insert"}
       => arg.op = "set"
  /\ ret \in Vals \cup {Nil, "OK", "OOM", "NOT_FOUND"}
  /\ blocks \in Int

-----------------------------------------------------------------------------
(* The order of the table.  *)

(* How far slot s is from slot h, and the slot d before s, round the array *)
(* of c buckets.                                                           *)
Dist(h, s, c) == IF h <= s THEN s - h ELSE s + c - h
Back(s, d, c) == IF d <= s THEN s - d ELSE s + c - d

(* A bucket's psl tells how far it sits from its key's home.  *)
Aligned(b, s, c) == b.psl - 1 = Dist(HomeOf(b.key, c), s, c)

(* No bucket between a key's home and its place is poorer than the key     *)
(* would have been there; in particular none is empty, unless it is the    *)
(* hole a removal has yet to close.                                        *)
Run(b, c, hole, p, s) == \A d \in 1 .. p - 1 :
                           b[Back(s, d, c)].psl >= p - d \/ Back(s, d, c) = hole

Ordered(b, c, hole) == \A s \in Occupied(b, c) :
                         Aligned(b[s], s, c) /\ Run(b, c, hole, b[s].psl, s)

NoHole == -1
Hole == IF pc = "shift" THEN slot ELSE NoHole

(* Every occupied bucket, and the one insert_raw carries, is where the     *)
(* probe for its key passes: what makes it safe for a probe to stop at the *)
(* first bucket with a shorter psl, in hashmap_get_ptr (lines 345-358) and *)
(* in hashmap_remove, through every swap, shift and rehash.                *)
ProbeOrder ==
  /\ Ordered(buckets, cap, Hole)
  /\ Inserting => /\ Aligned(incoming, slot, cap)
                  /\ Run(buckets, cap, NoHole, incoming.psl, slot)

(* Where an entry may be: the table, the part of the old array that is not *)
(* yet rehashed, and the hands of insert_raw.                              *)
Places == {<<"new", s>> : s \in Occupied(buckets, cap)}
            \cup {<<"old", s>> : s \in {t \in Occupied(old_buckets, old_cap) : t >= i}}
            \cup (IF Inserting THEN {<<"carried", 0>>} ELSE {})
EntryAt(p) == CASE p[1] = "new" -> buckets[p[2]]
                [] p[1] = "old" -> old_buckets[p[2]]
                [] OTHER        -> incoming

(* No key has two entries, wherever the entries are, except that the entry *)
(* hashmap_set is inserting may find the one it replaces: insert_raw can   *)
(* only see that a key is present if it meets it before it swaps (lines    *)
(* 114-122 against 123).                                                   *)
KeysOnce ==
  \A p, q \in Places :
    /\ p # q
    /\ EntryAt(p).key = EntryAt(q).key
    => /\ pc = "insert" /\ incoming.key = arg.key
       /\ <<"carried", 0>> \in {p, q}

(* len counts the occupied buckets and the load factor stays at 3/4 or     *)
(* less, so that a probe always meets an empty bucket.                     *)
LenAndLoad ==
  /\ len = Cardinality(Occupied(buckets, cap))
  /\ pc # "none" => len * 4 <= cap * 3 /\ len < cap

(* Why the load holds: hashmap_set has made room for the entry it adds, a  *)
(* rehash puts at most one entry of each old bucket into an array twice as *)
(* large, and a shift starts from an empty bucket.                         *)
Room ==
  /\ pc = "none" => cap = 0 /\ len = 0
  /\ pc # "none" => cap >= 2
  /\ pc \in {"alloc_key", "alloc_val", "insert"} => (len + 1) * 4 <= cap * 3
  /\ pc \in {"rehash", "reinsert"} => old_cap >= 2 /\ cap = 2 * old_cap
  /\ pc = "rehash" => len <= i
  /\ pc = "reinsert" => len < i
  /\ pc = "shift" => buckets[slot].psl = 0

(* The allocator blocks in use are those the map can still reach: none is  *)
(* lost or freed twice on any path, refused allocations included.          *)
Owned ==
  (IF pc = "none" THEN 0 ELSE 2)
    + (IF pc \in {"rehash", "reinsert"} THEN 1 ELSE 0)
    + (IF pc = "alloc_val" THEN 1 ELSE 0)
    + (IF it.on THEN 1 ELSE 0)
    + 2 * Cardinality(Places)
NothingLeaks == pc # "abort" => blocks = Owned

(* The psl of a bucket passes HASH_PSL_THRESHOLD by at most one for each   *)
(* time the array was doubled, even when all the keys collide: an          *)
(* insertion raises the largest psl by one at most and a rehash into a     *)
(* larger array never raises it.  So the uint8_t cannot wrap before memory *)
(* is exhausted, and assert(incoming.psl != 0) never fires.                *)
PslHeadroom ==
  /\ pc # "abort"
  /\ \E d \in DOMAIN Caps :
       /\ cap \in {0, Caps[d]}
       /\ \A s \in Occupied(buckets, cap) : buckets[s].psl <= PslThreshold + (d - 1)

(* max_psl is never below the psl of a stored bucket, so hashmap_set       *)
(* cannot miss that the threshold is reached.  (It is not always the       *)
(* highest of them, which is how lines 24-25 describe it.)                 *)
MaxPslCovers == \A s \in Occupied(buckets, cap) : buckets[s].psl <= max_psl

(* An iterator that has come to its end has yielded every entry of the map *)
(* exactly once.                                                           *)
IterYieldsAll ==
  it.on /\ Ahead = {} =>
    /\ it.yields = len
    /\ it.seen = {<<buckets[s].key, buckets[s].value>> : s \in Occupied(buckets, cap)}

-----------------------------------------------------------------------------
(* The map implements MapSpec.  The entry hashmap_set adds counts from the *)
(* moment insert_raw puts it in a bucket; from then on, and while a        *)
(* removal shifts, the call has had its effect and has only to return.     *)

FreshCarried == pc = "insert" /\ incoming.key = arg.key
Stored == IF FreshCarried THEN Places \ {<<"carried", 0>>} ELSE Places
StoredKeys == {EntryAt(p).key : p \in Stored}
Contents == [k \in StoredKeys |->
               EntryAt(CHOOSE p \in Stored : EntryAt(p).key = k).value]

CallPhase == IF pc \in {"none", "idle"} THEN "ready"
             ELSE IF pc = "shift" \/ (pc = "insert" /\ ~FreshCarried) THEN "done"
             ELSE "pending"

Abstract == INSTANCE MapSpec
              WITH map    <- [exists |-> pc # "none", at |-> Contents],
                   phase  <- CallPhase,
                   call   <- arg,
                   result <- IF CallPhase = "done" THEN "OK" ELSE ret

(* Every call returns what MapSpec allows and has that effect on the       *)
(* contents, at one instant: a set that runs out of memory, before or      *)
(* after the table has grown, changes nothing, and no set, remove or       *)
(* rehash loses, alters or revives another key's entry.                    *)
ImplementsMap == Abstract!Spec

(* Every call returns: the probe loops, the shift and insert_raw end.      *)
CallsReturn == (pc \notin {"none", "idle"}) ~> (pc \in {"none", "idle"})
=============================================================================
