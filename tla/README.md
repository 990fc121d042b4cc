# seqc in TLA+

seqc is a C11 library of collections: two hash tables, two search trees and an
ordered map, two linked lists, a ring buffer, a queue, a vector, a stack, a
priority queue, iterators, slices and strings. It runs no thread and persists
nothing. What is hard in it is of another kind:

- **memory may run out at every allocation** (`mem_alloc`, `mem_realloc`), and a
  call that is refused memory part way must leave the collection as it was and
  lose no block;
- **long sequences of legal calls** reach states that a test seldom does: a table
  whose probe runs wrap around the end of the array, a buffer that grows while it
  is wrapped, a tree rebalanced on stored heights, a list emptied and refilled;
- **iterators and pointers** look into a collection, keep indices, nodes or copies
  of fields, and grow stacks of their own;
- **loops without a bound** (probe loops, shifts, walks) end only because the data
  structure has the right shape.

The modules here are translated from `src/src/**.c`; the headers, `docs/` and the
tests say what the code is meant to do. The allocator (the `arena` library,
fetched at build time) is external: every module lets a request be granted or
refused whenever it is made and counts the blocks that have not been freed.

## Inventory

| Component | State | Operations that change it | Used by / uses | What makes it correct |
|---|---|---|---|---|
| `hashmap` | bucket array, `cap`, `len`, `max_psl` | create, set (grow, rehash, insert), remove (backward shift), clear, destroy, extend; iterators | allocator; caller's hash and eq | it is a map; probe order; load below 1; no leak; the `uint8_t` psl does not wrap; loops end |
| `set` | the same, allocated lazily, keys only | add, remove, clear, destroy, extend, union, intersection, difference; iterators | allocator; iter | sets with exact results, also when `dest` is an operand |
| `ringbuf` | `data`, `cap`, `len`, `head` | push/pop at both ends (grow), clear, destroy, extend; iterators | `seqc_extend` | a deque across wraps and growth |
| `queue` | `buf`, `cap`, `len`, `head` | push (grow), pop, clear, destroy, extend; iterators that copy the fields | `seqc_extend` | first in, first out |
| `list`, `dlist` | nodes, `head`, `tail`, `len` | push/pop at both ends, clear, destroy, extend; iterators on a node | `seqc_extend` | one chain from head to tail, links that agree both ways |
| `avl`, `bstree` | nodes, `root`, `len` | add, remove, clear, destroy, extend; iterators with a growing stack | iter, `seqc_extend` | search order, balance, exact count, iteration in order without gaps |
| `omap` | an AVL tree of key/value nodes | set, remove, clear, destroy, extend; entry iterators | iter | a map in key order; a removal moves a key together with its value |
| `vec` | `data`, `len`, `cap` | push, pop, set, insert, remove, reserve, truncate, sort, extend, ... | stack, pqueue, string | a sequence |
| `stack` | a `vec_t` | push, pop | vec | last in, first out |
| `pqueue` | a `vec_t`, `cmp` | push, pop, clear, drain, from a vec, extend | vec, `seqc_extend` | heap order; a bag that gives back the least first |
| `collection` | none | `seqc_extend` | the `*_extend` functions but those of vec and the maps, which have loops of their own | the iterator and the scratch element are freed once on every path |
| `iter` | the state of each adaptor, its sources, a buffer | 4 sources, 14 adaptors, 10 terminals | all collections | a pipeline yields what it stands for; each source destroyed once; a failed terminal is not mistaken for an empty one |
| `string` | views; `strbuf_t`, a `vec_t` of bytes | append, truncate, clear, to_string; join, replace, split, search, compare, convert | vec, iter | a result is whole or nothing; tokenizers, searches, comparisons and hashes agree |
| `slice`, `string_io` | none | - | - | bounds |

Components meet by plain calls: a `*_extend` drains an iterator over one collection
into another one and destroys it, a terminal such as `iter_collect` drains and
destroys its iterator, `pqueue_t` and `stack_t` own a `vec_t`. Callbacks (`hash`,
`eq`, `cmp`) are pure functions of their arguments.

What the headers leave to the caller is not modelled as possible: changing a
collection while an iterator over it is open (`include/seqc/hashmap.h:11`, `:40`,
`omap.h:17`, `iter.h:114` say so of the maps; of the other collections nothing is promised, and the
same is taken to hold), extending a collection from an iterator over itself,
and using a pointer into a collection after it has changed.

`PROJECT.json` lists the hazards, each at its line, with the properties that would
catch it going wrong, or the reason why none does yet.

## Modules

| Module | Models | How |
|---|---|---|
| `MapSpec` | what a map promises | a partial function; a call takes effect at one instant between invocation and return; a set refused memory has no effect |
| `HashMap` | `hashmap/hashmap.c` | one loop iteration or allocation a step |
| `MapExtend` | `hashmap_extend` | the loop of sets, each of them in all the steps of `HashMap` |
| `HashMapProofs` | - | theorems about `HashMap` and `MapExtend` |
| `DequeSpec` | what ring buffer, queue, lists, vector and stack promise | a sequence; a step is one of the call recorded in `asked` |
| `Extend` | `collection.c` | the loop of `seqc_extend`; collections extend this module and give it their push |
| `RingBuf`, `Queue` | `ringbuf/ringbuf.c`, `queue/queue.c` | a call a step, slot by slot arithmetic |
| `Lists` | `list/list.c`, `dlist/dlist.c` | nodes, links and addresses; walks take a step a node |
| `Vec` | `vec/vec.c`, `stack/stack.c` | a call a step; extend an element a step |
| `Deques` | the five sequences side by side | a behaviour is that of one of them |
| `DequeProofs` | - | theorems about `RingBuf` and `Queue` |
| `VecProofs` | - | theorems about `Vec` |
| `ListProofs` | - | theorems about `Lists`, and with the two before about `Deques` |
| `SetSpec` | what sets promise | sets of keys; a step is one of the call recorded in `asked`; merges add one key at a time |
| `HashSet` | `set/set.c` | a call a step; the algebra and extend a turn a step |
| `HashSetProofs` | - | theorems about `HashSet` |
| `Subtrees` | what the three tree sources have in common: the descents, `free_subtree`, search order | functions of the subtrees of a tree |
| `AvlTree`, `BsTree` | `avl/avl.c`, `bstree/bstree.c`: algorithms | functions of the subtrees of a tree, a nested record |
| `Trees` | the calls on both trees | a call a step; extend an element a step |
| `OMap` | `omap/omap.c` over the rotations of `AvlTree` | a call a step; extend a set a step |
| `OrderedSets` | trees and ordered map side by side | a behaviour is that of one of them |
| `TreeProofs` | - | theorems about `OrderedSets`, and so about `Trees` and `OMap` |
| `TreeIter` | tree iterators, `iter_collect` | a push, pop, or turn of a loop a step |
| `TreeIterProofs` | - | theorems about `TreeIter` |
| `PrioSpec` | what a priority queue promises | a bag |
| `PQueue` | `pqueue/pqueue.c` in a `vec_t` of `vec/vec.c` | a call a step; extend, drain and the copy of a vec an element a step |
| `PQueueProofs` | - | theorems about `PQueue` |
| `Iters` | `iter/iter.c`: next, peek and destroy of every source and adaptor; what each stands for | recursive operators on nested records |
| `Pipeline` | constructors, terminals, and the caller who uses them | a call a step |
| `Strings` | `string/string.c`: the functions on views | operators on sequences of bytes |
| `Texts` | the builder, join, replace | a call a step; join and replace a token or an occurrence a step |
| `MC*` | - | small instances for TLC |

Names of variables are those of the struct fields and locals. `pc` says where the
call in progress is, `ret` is what the last call returned, `blocks` counts the
allocator blocks not yet freed, `it` is an open iterator with what it has yielded.

**The call that was made.** What a collection promises is about a call and its arguments: that
`queue_pop` returns the front, that `vec_remove(v, i)` takes out element `i`, that `avl_remove(t, k)` takes
out `k` and not its successor. So `RingBuf`, `Queue`, `Lists`, `Vec`, `HashSet` and `Trees` have a history variable
`asked`, the last call with its arguments, which `Next` sets beside the action at which the call takes
effect (`Call`, `CallAt`) and no action reads. `DequeSpec` and `SetSpec` have it too and allow a step with `asked = <<"remove", 2>>`
only what a removal at 2 does. A call done with another argument, at the other end, on another set, or
as another call altogether is no step of theirs; a ring buffer that writes over its oldest element when
full is not, nor is a push that is dropped and says OK. (The one thing that cannot be told from doing
nothing is a call that repeats the one before, returns the same and changes nothing; the
same fault after any other call can.) The sets of a merge are recorded by name, and its wanted result is `Combined`
of their contents when it is called; an extend is recorded with all that the iterator has to yield when
its loop sets out. An extend of the sequences appends exactly that, in order (`feed`). `DequeSpec` takes the
indices a caller may give as a constant, `Indices`. `MapSpec` records key and value of a call as `HashMap` and `OMap` have them in hand.
In `PrioSpec` no call needs telling apart: an element goes in, or a least one comes out.

**HashMap.** `SetCall` is the entry of `hashmap_set`; `NoGrow`, `Grow` and `Refused`
are its line 174-181; `RehashSkip`, `RehashOne` and `RehashDone` the loop of
`hashmap_resize_and_rehash`; `AllocKey`, `AllocVal` and `ValRefused` the two copies;
`InsertEmpty`, `InsertReplace`, `InsertSwap` and `InsertAdvance` the four outcomes of a
turn of `hashmap_insert_raw`, shared by the rehash. `Find*` is the probe loop that get and
remove share, `RemoveHit`, `ShiftMove` and `ShiftDone` the backward shift. A psl is a
number modulo `PslWidth`, the `uint8_t`, and `assert(incoming.psl != 0)` is the
state `"abort"`. Hash values are any natural numbers; `& (cap - 1)` is `% cap`, which
is the same for the powers of two that doubling 16 yields. `Caps` lists those capacities.

**RingBuf and Queue.** The arrays hold `Junk` where nothing was written, so reading an
unwritten slot is visible. Growth copies as the code does: two pieces of a wrapped
buffer in `rb_grow`, element by element in `queue_grow`. The queue's iterator keeps
copies of the fields and no pointer to the queue, as in the code; the ring buffer's
keeps the buffer and a logical position.

**Lists.** The allocator hands out any free address of `Addrs`, so a freed node is used
again at once and a stale link is a wrong link. `clear` and `destroy` leave `head` and
`tail` dangling until the loop is over, as the code does.

**MapExtend.** Adds to `HashMap` the iterator handed over (`batch`, `taken`, `handed`), the
status the loop looks at, and, as history, the contents `before`. A turn of the loop starts
a set; `Step` runs it.

**Vec.** `memmove` is `Moved`, the copy of a whole range; `Sort` is any rearrangement of
the elements in use. A stack is `kind = "stack"`: one more block, and the calls that index are
not offered.

**HashSet.** A set operation is atomic here. The loops inside one (the probe, the walk of
`insert_raw`, the rehash, the backward shift) are followed turn by turn by `While`, which has a value only if
the loop leaves off within as many turns as there are buckets; in `HashMap` they are steps of their own. What is modelled step by step is what set.c has of its own: the
lazily allocated array, growth before the duplicate is found, and union,
intersection and difference, which walk the array of an operand by index while they add to
`dest`, possibly that operand, whose array an add may replace; and extend from an iterator
over another set, in bucket order or against it (`IterYields`). `Further` counts the psl, and `Find` the
probe, without the width of the `uint8_t` that set.c:70-72, 134 and 200 step (with an assert that the psl does not come
round to 0): an add grows the array once a psl has reached the threshold, 128, and each of fewer than 60
doublings adds one at most, so both stay below 256, for the reason that `HeadroomCorrect` proves of
the same table in `HashMap`, where the width is modelled.

**Subtrees, AvlTree, BsTree, Trees.** A subtree is a record of key, height and subtrees, and
`Subtrees(t)` collects `t` and all below it, level by level. What the code computes by recursion on a node
is a recursive function on that set, and removal, which recurses on a node with now one key and now another, a
function of both. The heights are those of the code: `Rebalance` looks at stored heights only. `OMap` uses the same rotations (omap.c:81-143 repeats avl.c:57-143)
on nodes that also hold a value.

**TreeIter.** A state is a tree, an iterator with its stack (`cap`, `stack`, `current`),
the constructor's priming walk `push_lo`, and `iter_collect` with its buffer. Each push may find
the stack full and be refused. `short` and `refused` are history: priming, or the last
`next`, ran out of memory. A tree is given by its links, and by the keys `under` each node, which no
action reads: they state what a search tree is (`IsSearchTree`) and carry the proofs. AVL tree, binary tree and ordered map have the same iterators
line for line, so `map` gives the definitions of this module lines of all three.

**PQueue.** The `vec_t` appears as `data` and `cap`, and `hasVec` says whether
`pqueue_create` got one at all (it does not check). Ties are possible: `Prio` maps
elements to priorities. The loops of `sift_up`, `sift_down` and heapify are recursive functions of the array
and the position they have come to.

**Iters and Pipeline.** An iterator is a record of its kind, its arguments, the iterators it
owns, a number, a flag and a buffer, and `Pull`, `Peek` and `Destroy` do to it and to the heap what
the functions it points to do. A block is named by its owner, so a double free is visible. The caller
of `Pipeline` holds at most two iterators, combines them, and then uses the one
left; a constructor may be refused each of its allocations. The caller's functions
(`Pred`, `MapFn`, `Rank`, `SubOf`) are fixed; a generator follows a script in which it may say
false and go on. `Meaning` is the other reading of the same record, as operations on whole
sequences. Elements of windows, chunks and entries are views into buffers of the iterator: the header
tells the caller to copy what is kept, so adaptors that keep elements are not put above these.

**Strings and Texts.** A string is a flag (`ptr` is not `NULL`) and its bytes. FNV hashing is
abstracted to the bytes that are fed to it. In `Texts`, `Appended` is the set of outcomes of
pushing bytes one by one into the builder's vector.

## Runs

Every run lets every allocation be refused at any time; arrays above `MaxCap` are
always refused, which is how each state space is bounded. Capacities are scaled
down so that growth, wrap-around and the thresholds are all met.

`deques`, `hash_sets` and `sets` have a `VIEW` that leaves out `asked`: two states that differ only in the call
that led to them have the same steps, since no guard reads it, and satisfy the same invariants.
`DequesImplemented`, `ImplementsSet` and `SetsImplemented` are about steps, and TLC evaluates them on every step it
generates, into a state seen before too. Whether a step is one of the call in `asked'` does not depend on the `asked` before, but for
the repeated call that changes nothing; the proofs, which use no view, cover that one from every state.

| Run | Instance | Distinct states | Why this is enough |
|---|---|---|---|
| `hash_map` | 6 keys, of which 4 collide in the last bucket and the others are at home in the second and the third; one key with two values; cap 4 to 8, `PslThreshold` 2, `PslWidth` 5; extends of 0 and 3 entries, one key twice | 293,538 | runs wrap round the end of both arrays and push out an entry at home; the threshold forces a growth before the load does; the psl can wrap only if the threshold fails to prevent it; an extend may grow the table and be refused afterwards |
| `deques` | ring buffer, queue, vector and stack of 3 elements, cap 2 to 4; both lists with 5 addresses (symmetric); extends of 0, 2 and 3 elements | 359,697 | two growths, every head position, insertions and removals at every index, a middle node with neighbours on both sides, addresses reused, extends that end in every way |
| `hash_sets` | 2 hash sets (symmetric), 3 keys that collide in the last bucket, cap 4 to 8, threshold 3; extends from a sequence and from the other set | 231,103 | probes wrap; an add grows the array because of a psl; every choice of destination and operands, the same set included, so that `dest` grows while its old array is walked |
| `sets` | 6 keys in one AVL or one binary tree; an ordered map of 5 keys and 2 values; extends | 58,464 | all four rotations, at the root and below, and all cases of a removal |
| `tree_iter` | all 188 search trees over subsets of 5 keys, bounds at keys 2 and 4 (which a tree need not hold), stack cap 1 to 8, collect cap 1 to 8 | 186,516 | stack and buffer grow three times, every shape, every bound |
| `pqueue` | 4 elements, two of which tie, cap 2 to 8, vecs of 0, 2, 4 and 5 elements | 241,083 | a heap of three levels and a bit, nodes with one child |
| `pipelines` | slices of 0 and 3 numbers, a generator that says false in the middle, ranges down and empty, all adaptors (counts 0 and 2), up to `MaxIters` = 4 iterators, no two adaptors below another (`MaxDepth` = 2), `CollectCap` 2 | 96,778 | every adaptor above every source and above every other, both joins, counts below, at and above what a source has, a sub-iterator that is empty or refused |
| `texts` | strings of up to 4 bytes `a`, `b` searched for and split by up to 2; pairs of strings of up to 3 of the bytes `A`, `a`, `_`, blank; builder cap 2 to 8; `StackBuf` 2, `IntBuf` 5 with `IntMax` 127 | 29,990 | overlapping and adjacent occurrences, separators at both ends, `_` sorts between the cases; the longest number just fits its buffer, as the longest of 64 bits does in 24 |
| `collect_partial`, `from_vec_drops`, `range_edge`, `take_while` | the same modules; `range_edge` with ranges that end at the greatest number of `Width` bits | | each finds a statement of the documentation violated, see Findings |

What the runs show:

- **hash_map.** `ImplementsMap`: the table refines `MapSpec`, so a set, get or remove
  has its effect on exactly its own key, at one instant, and a set refused memory, also after
  it has grown the table, has none. `ProbeOrder`: every entry, the one
  `insert_raw` carries included, lies where a probe for its key passes, and no
  poorer bucket stops the probe before. `KeysOnce`: no key is stored twice although
  `insert_raw` stops looking for the key as soon as it swaps. `LenAndLoad`: `len` is exact and a probe meets an
  empty bucket. `PslHeadroom`: a psl passes the threshold by at most one for every doubling, so
  the `uint8_t` cannot wrap before memory is exhausted. `MaxPslCovers`: `max_psl`
  never falls below a stored psl. `IterYieldsAll`, `NothingLeaks`, `CallsReturn`. `ExtendsByPrefix`: between two sets
  of an extend the map is what it was, overwritten by exactly the entries taken so far.
- **deques.** `DequesImplemented`: one abstract sequence is implemented by all six, call by call and argument by
  argument: a queue gives back first what was pushed first, a stack last, an insertion or a removal is at its own
  index, a full buffer refuses and overwrites nothing;
  `ItersInOrder` in both directions; `NothingLeaked` on every path of a failed extend;
  `ChainsOK`: links, ends and count agree; `DequeTypes`.
- **hash_sets.** `ImplementsSet`: hash sets are sets, an add or a removal is of the key and on the set of the call; the algebra gives exactly the
  mathematical result of its own operands joined to what `dest` held, also when `dest` is an operand, and
  what was added before memory ran out is part of that result. `LookupAgrees`: a probe finds the
  stored keys and no other, and `len` counts them. `NothingLeaks`, `TypeOK`.
- **sets.** `SetsImplemented`: both trees are sets, and a removal takes out the key of the call, whichever node is freed. `MapImplemented`: a removal
  from the ordered map changes its own key only, although it moves another key's entry.
  `TreesOrdered`: search trees whose nodes `len` and the blocks count. `AvlBalanced`: stored heights are
  true and differ by one at most.
- **tree_iter.** `InOrderNoGap`: elements come in order, in range, and none is passed
  over, also when `next` ran out of memory half way down a spine and was called
  again. `EndsAtTheEnd`: `next` with memory says "no more" only at the end. `CallsReturn`.
- **pqueue.** `HeapOrder` also in a queue built from a vec whose copy was refused in part;
  `ImplementsPrio`. `NothingLeaks`.
- **pipelines.** `YieldsMeaning`: what `next` yields is, element by element, what the pipeline
  stands for. `OwnedOnce`: the live blocks are those of the iterators the caller holds, whatever
  was refused. `PeekShowsNext`, `EndIsFinal` (with the two exceptions it names),
  `TerminalsRight`: a terminal called after some elements were taken makes of the rest what it
  should, and of a refused scratch element or buffer nothing.
- **texts.** `CallsRight`: join and replace are substitution, or nothing when memory is refused.
  `TokenizersAgree`: three ways to split give the same pieces. `LooksAgree`: equality, comparison
  and hash fit together, with case and without; searches, trimming, and `string_to_int`
  against `strbuf_append_int`.

`PROJECT.json` also lists, for every property of a passing run, a plausible bug in the code
that breaks it.

Bounds of convenience: a caller frees the slice of a drain before the next call
(`PQueue`) and the result of a string call likewise (`Texts`), one tree lives at a time
(`Trees`), an iterator is open on a collection only between calls that do not change it.

## Fairness

The code is sequential: once called it runs, and waits for nobody. `HashMap` and
`TreeIter` state this as weak fairness of the code's own steps (`ExtendSpec`: `Step`
and the turns of an extend in the one; `FairSpec`: priming, `next` and `iter_collect` in
the other). Nothing is assumed of
the caller, who need not call again, nor of the allocator, which may refuse for ever.
Safety properties use no fairness.

## Proofs

Every theorem holds for all values of the constants that the named assumptions admit: all keys and
elements, all capacities, every hash function, every tree. TLC has checked each invariant first, as it
stands or as a part of the properties of a run. The modules are layered: what one proves the next
cites by name.

### The hash table

| Theorem in `HashMapProofs` | States |
|---|---|
| `TypeCorrect` | slot indices are in bounds, occupied buckets hold entries |
| `LoadCorrect` | `len` is exact, the load stays at 3/4 or below through growth, rehash and the window between the test and the insertion |
| `ProbeOrderCorrect` | the Robin Hood order |
| `KeysOnceCorrect` | no key has two entries |
| `MaxPslCorrect` | `max_psl` covers every bucket |
| `MissesCorrect` | a lookup that stops has missed nothing |
| `BlocksCorrect` | no path loses a block or frees one twice |
| `IterCorrect` | an iterator yields every entry once |
| `HeadroomCorrect` | the `uint8_t` psl never wraps |
| `RefinementCorrect` | the table implements `MapSpec` |
| `ExtendIsMap`, `ExtendRefines`, `ExtendCorrect` | an extend is a run of sets, so all of the above holds during it; it implements `MapSpec`; it has set a prefix of the batch |

The assumptions are those of the code: hash values are natural numbers, the first
capacity is at least 2 (it is 16), the threshold is positive (128), a psl has at least two
values, and `Nil` is no key or value. That the capacity is a power of two is not needed.
`CapsAssumption` is about the `uint8_t` only: `Caps` lists capacities each twice the one before, up to
the last one the allocator grants, and the threshold and their number fit a psl. With 16 buckets
doubled less than 60 times that is 128 + 60 < 256.

- **Order and load.** The invariant that is inductive is
  `IInv == TypeOK /\ LenAndLoad /\ Room /\ ProbeOrder`. None of its parts is inductive alone. An index
  stays in bounds only while the table has an empty slot, which `Room` says; the load stays
  below 3/4 after an insertion only because of what `hashmap_set` tested before it allocated, and during a
  rehash only because the new array is twice the old one and receives at most one entry of each old
  bucket (`Room` again); and `ProbeOrder` needs an empty bucket somewhere, so that what `insert_raw`
  carries never comes all the way round to its own home (`CarriedNotRound`). The order of a table
  under each change is a lemma of its own, independent of the program: placing an entry
  (`PlaceKeepsOrder`), carrying one on (`CarryKeepsRun`, `CarryKeepsAligned`), opening a hole
  (`RemoveKeepsOrder`), moving it (`ShiftKeepsOrder`) and closing it (`ShiftEndKeepsOrder`). The counting
  lemmas (`FillOne`, `SwapOne`, `EmptyOne`) rest on the library's facts about finite cardinalities.
- **Keys.** `KInv == Apart /\ FreshAhead /\ Chased /\ OldGone`. That the places have different keys is
  not enough: the entry a set brings must not be put down before the one it is to replace, and what it
  displaced must not displace it in turn. From the order (`KeyAhead`, `NoneAhead`, `FurtherAhead`) follows
  where a key can be, as seen from a probe.
- **Lookups.** `FindOK`: the key is absent, or at the probe's slot or beyond it. It holds also where
  `probe`, a `uint8_t`, wraps, for then no bucket has so large a psl.
- **Blocks.** Each place (new array, old array, carried) counts two blocks; the invariant says what
  each stage of a call holds besides.
- **Iterators.** `IterOK`: what was yielded is the set of entries in the slots passed, and as many.
- **Headroom.** `HInv`: after `d - 1` doublings no psl passes `AtMost(d)`. A set that finds a psl at the
  threshold grows the table first, so an insertion starts below it; a run that is pushed on
  reaches an empty bucket having gained one (`Untouched`). That the rehash stays below the bound takes
  the pigeonhole principle: entries at home in few buckets of the new array come from as few of the
  old one (`Origin`, `RehashBound`).
- **Refinement.** The contents, as a set of pairs (`Held`), change at one step of a call only; every
  other step, the rehash included, only moves what is held (`HeldMoved`). It needs `HeadroomCorrect`: a
  program that stops in an assert implements nothing.
- **Extend.** `EInv` says what the map holds also in the middle of a set, before its effect and after; what
  a set does is taken from the refinement (`SetEffects`).

### The hash set

| Theorem in `HashSetProofs` | States |
|---|---|
| `SetTypes` | `TypeOK`: every index is in bounds, no psl and no `max_psl` passes the array, and a call in progress works on sets that live |
| `LookupsCorrect` | `LookupAgrees`: a probe finds the stored keys and no other, no key is stored twice, `len` is exact |
| `BlocksCorrect` | `NothingLeaks`: no path loses a block or frees one twice |
| `SetRefines` | `ImplementsSet`: `set_t` implements `SetSpec`, each step as the call that was made with its set, key or operands, the algebra and extend included |

They hold of any number of sets, any hash into the natural numbers, any threshold (one of zero too, which
makes every add grow the array), and a first capacity of at least 4 (it is 16): an array of
4 or more that is not 3/4 full has two empty buckets, so one is left after an insertion. `Sources` are sequences of
keys, and `Nil` and `"nobody"` are no status and no set.

- **Loops.** `While` runs a loop as a recursive function of the number of turns. `RunExists` says that
  this function exists for a loop that stays in a set of states, `RunKeeps` is the rule for a loop
  invariant, and `RunEnds` says that with a count that goes down the loop ends within that count. Each loop of set.c has its closed set of states, its
  invariant and its end: `insert_raw` reaches an empty bucket before it comes round
  (`InsertEnds`, by `Approach`), the probe passes it only when the key is absent (`SeekEnds`), the rehash and
  the iterator walk the array once (`RehashEnds`, `YieldEnds`), the shift stops where a bucket is at home or
  empty (`ShiftEnds`).
- **Operations.** What each then returns is a lemma: `InsertIs`, `ResizedIs`, `FindIs`, `CloseHoleIs`,
  `IterYieldsIs`. They speak of one array in Robin Hood order (`Ordered`, the order that `HashMapProofs`
  proves step by step) and of its keys. `Sound` says of a table that it is in order, counts its keys and has
  room, and `AddIs` what `set_add` may come to: granted, a duplicate, or refused at one of three allocations with the keys as
  they were.
- **Algebra.** The walk reads an array that its own adds may replace. The invariant is `AlgebraOK`: a key
  belongs to the result if and only if it is `Due`, in `dest` already or in a bucket the walk has yet to come to and
  picked by the operation. `DueAdded` is the heart: if the operand is `dest`, every key that the walk has
  passed, or that a growth moved, is in `dest` and so due on the first ground, and a key that is put
  behind the walk was put in `dest`. The other operand of an intersection or a difference may be `dest` too and change under the walk, but it changes by
  the keys added, which are due on the first ground.
- **Extend.** `ExtendOK`: what the destination has and what is left to yield make up what is wanted.
- **Blocks.** `BlocksOK` counts the blocks that the sets own. What two sets own is disjoint, so a call that changes one
  set changes the count by what that set gained (`OneChanges`).
- **Refinement.** A skipped bucket and the next source are stutters, and an add of a merge is `MergeAdd` of a key
  that is wanted, because it was `Due`. At the end nothing is ahead, so `dest` is what is wanted.

### The trees and the ordered map

| Theorem in `TreeProofs` | States |
|---|---|
| `TreesAreOrdered` | `TreesOrdered`: the trees of avl.c, bstree.c and omap.c stay search trees, `len` counts their nodes, no block is lost or freed twice |
| `AvlIsBalanced` | `AvlBalanced`: every node stores its true height and is balanced to within one |
| `TreesRefineSet` | `SetsImplemented`: `avl_t` and `bstree_t` implement `SetSpec`, each step as the call that was made with its tree and key, min, max and extend included |
| `MapRefinesSpec` | `MapImplemented`: `omap_t` implements `MapSpec`, extend included |

They hold of any set of keys and values and of trees of any size and shape that the calls reach. The
assumptions (`TreesAssumption`, `OrderedSetsAssumption`) are that keys are positive numbers (the order of the
keys a tree holds at any time is one of those, and a key of 0 marks a leaf), that `Sources` are
sequences of keys or of entries, and that `Nil` is neither a status nor a sequence of entries.

- **Induction.** The library's induction theorems cannot be applied, but a set of numbers has a least one
  (`LeastOf`, from the library's fact that inclusion of finite sets is well-founded), so a *set* that
  holds 0 and with each number the next holds all (`Induct`). `Subtrees` is shown to be what it looks like: `t`
  and the subtrees of its two sides (`NodeIs`), for a tree whose levels come to an end (`Ends`). Below a tree
  levels end earlier (`DepthDown`), and that gives induction over trees (`TreeInduct`, `GoodInduct`).
- **Recursion.** The recursive functions of the model have a form in common, `Turn`: a value at a leaf, or one made of
  the node and the values of its two sides. Such a function exists on the subtrees of a tree (`Solution`) and there is
  one only (`OneSolution`), so each computes what its equation says (`ValueIs`, and `InsertIs`, `RemoveIs`,
  `FindIs`, ... for each operator).
- **One proof for three trees.** `q` is the kind of a tree: `"avl"`, `"bst"` or `"omap"`. `Good(q, t)` says of all nodes
  that they are nodes of that kind, in search order, and, but for a binary tree, balanced with the height that
  the stored heights below give. `Fit` is the same with the root excepted, what a node is on the way back
  up. `Labels` are the keys, in a map with their values.
- **Rotations.** `RebalanceIs`: of a root out of balance by at most 2, `rebalance` makes a good tree with the same
  labels, whose height is that of the root before or one less. `RotateRightIs` and
  `RotateLeftIs` say the same of a rotation, and what height is left on the side it turns to, which the
  double rotations need.
- **Operations.** `IsPut` and `IsDel` say what an insert and a removal make of a good tree: a good one, with the
  labels of before and the new one, or without the old one, at most one higher or lower. The second claim is why
  a parent is out of balance by at most 2. They are proved by induction, one lemma for each place of the
  key (`PutLeft`, `PutRight`, `PutHere`; `DelLeft`, `DelRight`, `DelHere`, and `DelTaking` for the successor, whose
  key is the least on the right, so that moving it up leaves search order and removing it below removes it once).
- **Invariants.** `TreesInv` and `MapInv`: the trees are good and hold keys, `len` is their size, which is the number
  of their keys (`SizeIn`), and the blocks are counted as `CountsAgree` and `TreeOK` do. `TreesOrdered` alone is not
  inductive: that a removal takes one node away needs that the descent finds it, and that balance is restored
  needs that the heights below were true.
- **Refinement.** `FindIn`: the descent finds a key if and only if it is there, at its label. So the entries of a map
  are its labels (`EntryIs`), and since an insert and a removal change the labels by one, the others keep
  their values, wherever their nodes have gone (`SameEntry`).

### Tree iterators

`TreeIterProofs` proves `OrderCorrect` (`InOrderNoGap`), `EndCorrect` (`EndsAtTheEnd`) and
`BlocksCorrect`. The assumption is that each tree is a search tree (`IsSearchTree`), of any shape and
size. The invariant `OrderInv` says what remains to be visited (`Remaining`: the nodes under `current`, and
each stacked node with its far side), that each stacked node comes after all that is stacked
above it (`Chain`), what was yielded before all that remains (`YieldedFirst`), that nothing below the bound
remains once the stack is primed (`NoneBelow`), and that every key in the range has been yielded or remains
unless priming ran short of memory (`Covered`). The blocks have an invariant of their own
(`LeakInv`).

### Ring buffer, queue, vector, stack and lists

| Theorem in `DequeProofs`, `VecProofs` and `ListProofs` | States |
|---|---|
| `RingTypes`, `QueueTypes`, `VecTypes`, `ListTypes` | indices are in bounds, pointers are to allocated nodes, what is read was written |
| `ListChains` | links, ends and count of a list agree, also while `clear` frees the nodes |
| `RingBlocks`, `QueueBlocks`, `VecBlocks`, `ListBlocks` | no block is lost or freed twice, in a broken-off extend neither |
| `RingIterates`, `QueueIterates`, `VecIterates`, `ListIterates` | an iterator has yielded the front of the sequence in order, or its back in reverse |
| `RingRefines`, `QueueRefines`, `VecRefines`, `ListRefines` | each step is a stutter, or the call that was made, with its arguments, as `DequeSpec` has it on the sequence |
| `AnyTypes`, `AnyChains`, `AnyBlocks`, `AnyIterates`, `AnyImplements` | the properties of the run `deques` |

All but those of the last row are stated of the components' own specifications. `Deques`, which the run
`deques` checks, is one of the components with the variables of the others at rest, so its invariant is
that of the component (`AnyInv`), and a step that `DequeSpec` allows of the component it allows of
the contents the run looks at (`RingCommon`, `QueueCommon`, `ListCommon`, `VecCommon`). The
assumptions are that the first capacity is positive, that elements differ from `Nil` and `Junk`, and that
`NULL` is no address. The set of addresses may be infinite: that a list has finitely many nodes follows
from the invariant.

`TypeOK` is not inductive: a slot may be unwritten, and only the position of the
elements says which. The invariant adds that the elements from `head` on are elements (`Content` is in
`Seq(Elems)`), and what a call in progress and an open iterator hold (`Standing`, `QPlace`). The queue's
iterator keeps a slot and a count instead of a position, so its invariant places the slot by
modular arithmetic (`StepOn`, `StepBack`). How a write, a push at either end and the copies of a growth
change the content is a lemma each (`ContentAppend`, `ContentPrepend`, `ContentTail`, `ContentFront`,
`ContentMoved`), true of any array, and both components share them.

For `Vec` the same is said of the slots from 0 on (`VShape`, `Front`), and there is one lemma for each
way its calls change an array: written at the end, opened and closed by a `memmove`, written over,
cut, rearranged (`FrontAppend`, `FrontInsert`, `FrontRemove`, `FrontSet`, `FrontCut`, `FrontSort`). Each is
stated with the operation of `DequeSpec` on the sequence (`InsertAt`, `RemoveAt`, `ReplaceAt` of the
community modules), so the refinement follows call by call. That `vec_find` returns the first hit
needs that a set of numbers has a least one (`Least`).

For `Lists` the invariant names what the code has only implicitly, the chain as a sequence `p` of
addresses: `Run` says that `p` has every allocated node once and that `next` leads from each to the
one after, `Ends` that `tail` is its last and that the links of a `dlist_t` lead back, `Vals` reads the
elements off it. Each way of relinking is a lemma about `p` alone: a node put behind or before it
(`RunAppend`, `RunPrepend`), its first or last taken out (`RunRest`, `EndsRest`, `RunFront`). While
`clear` runs, `p` is what it has yet to free, and `head`, `tail` and `len` say nothing (`LChain`). The
properties speak of the chain as the code walks it (`Chain`, a recursive function); that the walk meets
`p` node by node is `WalkIs`, by the least step at which it would not. `LStanding` says where
`list_pop_back` is on its walk, and that an iterator is never open during one.

### The priority queue

| Theorem in `PQueueProofs` | States |
|---|---|
| `PQueueTypes` | `TypeOK`: the vec is never past its capacity, and holds elements |
| `HeapOrderCorrect` | no element comes before its parent |
| `PQueueBlocks` | no block is lost or freed twice, in a drain or an extend neither |
| `PQueueRefines` | a step is a stutter or an operation of `PrioSpec` on the bag of the elements |

The assumptions are that priorities are integers (every order of finitely many elements that `cmp` may
impose, ties included, is one of those), that the first capacity is positive, and that `Nil` is no
sequence of elements.

What a recursive function returns is usually shown by induction, whose theorems the provers cannot
apply. The loops of this component are tail calls whose number is bounded, and for those a least
counterexample is enough: `LoopValue` says that a function which follows such a loop to its end
exists, so the definition has a value, and `LoopKeeps` is the rule for a loop invariant. Both are
stated of any set, any step and any count that goes down, and rest on `Least` (a set of numbers has a
least one).

The loop invariant of a sift is an order with one exception. `Rising(i)`: only position `i` may come before
its parent, and its children do not come before that parent. `Sinking(i, b)`: from position `b` on, only the
children of `i` may come before it, and they do not come before its parent. An exchange moves
the exception one level up or down (`RisesOn`, `SinksOn`), and where the loop stops there is none
(`RisenIs`, `SunkIs`). Heapify keeps `Ordered(n)`, the order below positions from `n` on. It starts at half
the length of the vec it was given, and there nothing is below, however many of the elements were copied
(`NothingBelow`).

That an exchange leaves the bag alone is a bijection between the positions of each element
(`BagSame`); an element put at the end is one more in it (`AppendBag`). The root is least because a
least position that held something smaller would have a parent that does (`RootLeast`).
`PInv` adds to the properties where a call in progress stands (`Standing`): in particular that a
copy under way never has more elements than the vec it copies.

### Only model-checked

- Liveness: `CallsReturn` of `HashMap` and `TreeIter`.
- Everything about `Iters`, `Pipeline`, `Strings` and `Texts`. They follow the recursion of the code with
  recursive operators, which the prover's back ends do not accept. What these compute takes induction over
  sequences, or over iterators that own iterators, of eighteen kinds and with a state that each call changes:
  the induction over trees of `TreeProofs` would have to be done again for `Pull`, `Peek` and `Destroy`.
- Of `TreeIter` and the trees together: `TreeIterProofs` assumes search trees of any shape, which `TreeProofs` proves
  the trees to be, but no module composes the two.

## Findings

1. `collect_partial`. `include/seqc/iter.h:159` promises "never a partial result" when an
   allocation fails. A tree iterator that cannot grow its stack ends early, and
   `iter_collect` returns what it has as if that were all.
2. `from_vec_drops`. `pqueue_create_from_vec` ignores the status of `vec_push` (and
   `pqueue_create` does not check `vec_create`): under memory pressure the result lacks
   elements of the vec, and the caller is not told (`docs/pqueue.md:64`).

3. `range_edge`. `range_next` adds the step before anything tells it that the range is over
   (`iter.c:168`). Within one step of the greatest `long long` the sum overflows; where that wraps,
   the range goes on with numbers outside it (`include/seqc/iter.h:79-80`).
4. `take_while`. `docs/iter.md:319-320` says `iter_take_while` "Stops permanently at the first
   element that fails". It keeps no flag: called again, it goes on.

Met while reading and not part of a run: `hashmap.c:24-25` calls `max_psl` the "highest PSL of any stored
bucket", but `hashmap_remove` leaves it alone, so it is only an upper bound (`MaxPslCovers`) and a growth may come
earlier than needed; `string_to_int` accepts leading blanks, and whatever
follows an embedded NUL (`string.c:541`, against `docs/string.md:349-351`); an element
size of zero is not refused by `queue_create`, `ringbuf_create` and `set_create`;
`pqueue_push` returns `SEQC_INVALID` on a queue whose `vec_t` was refused.

## Not modelled

- `slice` and `string_io`: stateless pointer arithmetic, and output. `string_to_double`, where
  `strtod` does all the work; the copies to and from C strings; `string_chars`, which is
  `iter_from_slice`.
- `iter_reduce`, one of the ten terminals: the fold over the sequence that `iter_foreach` is checked to visit.
- Extending a collection from an iterator over itself, and iterators used after a change: the
  headers forbid both.
- Bytes, alignment and sizes: an element is copied whole. `size_t` overflow of a
  capacity is cut off by `MaxCap`, which stands for memory running out long before.
- Read-only audits (`hashmap_audit`, `set_audit`, `*_height`).

## Plan

Built, in this order: `HashMap` with `MapSpec` and the proofs (the most intricate
component), `RingBuf`, `Queue`, `Lists` over `DequeSpec` and `Extend`, `HashSet` and the
trees over `SetSpec`, `TreeIter`, `PQueue` over `PrioSpec`; then `Iters` and `Pipeline`, `Vec`
with the stack, `OMap`, `MapExtend`, the extends of trees and sets, `Strings` and `Texts`.
Components that implement one abstract specification share a run, but for the hash sets, which
have one to themselves so that their proofs and their run speak of the same module.

What is left: the pipelines of iterators, whose operators would have to become functions of the iterators that an
iterator owns, as those of the trees are of subtrees. The builder of `Texts` could be proved leak-free as `Vec`
was, once its operators are free of recursion.
