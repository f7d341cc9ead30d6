# A TLA+ verification of dlht

`dlht` is a concurrent in-memory hash map for Go: open bins with a packed header word, bounded
chains of link buckets, double-word CAS on slots and a cooperative resize.  This directory holds a
TLA+ model of its concurrent protocol, the TLC configurations that check it on small instances,
and theorems about it whose proofs TLAPS checks.

- [Inventory](#inventory)
- [Plan](#plan)
- [Modules and the code](#modules-and-the-code)
- [Granularity](#granularity)
- [Runs](#runs)
- [Bounds](#bounds)
- [Fairness](#fairness)
- [Proofs](#proofs)
- [Where text and code differ](#where-text-and-code-differ)
- [Not modelled](#not-modelled)

## Inventory

| Component | State | Operations | Modelled by |
|---|---|---|---|
| Operations, `allocator/{get,insert,put,delete}.go` | per bin a 64-bit header (version, bin state, 15 slot states), a LinkMeta word, slots (hash, entry pointer) | `Get`, `Insert`, `Put`, `Delete` | `AllocatorMap` |
| Link arena, `allocator/link.go`, `linkmeta.go` | `linkNext`, `linkCapacity` of every index; two link references per bin | `allocateLink`, `allocateLinkPair`, `attachSingle`, `attachPair` | `AllocatorMap` |
| Cooperative resize, `allocator/resize.go` | `Map.active`, `Map.resizeCtx`, `index.indexNext`; chunk counters and `linkNextResize` of a context | `triggerResize`, `helpResize`, `transferBin`, completion | `AllocatorMap` |
| What callers are promised, `map.go`, `README.md`, `design.md` | a map from keys to values | the four operations, atomically | `AtomicMap` |
| Range, `allocator/iter.go` | a buffer of entries of one bin | `Range`, `All`, `Keys`, `Values` | `RangeScan` |
| Size and Stats, `map.go` | none of their own | read-only walks | `Size` in `RangeScan`, the link counters of `Stats` in `AllocatorMap` |
| Inline variant, `inline/` | as the allocator variant, with integer key and value in the slot | as above, `Delete` by one CAS on the header | `InlineMap`, `InlineRange` |
| Reserve of links for a transfer, `resize.go` | both ends of the arena of the new index | `triggerResize`, `next...ForResize`, `allocateLink` | `LinkBudget` |
| Bit layout, `header.go`, `linkmeta.go` | two words per bin | packing, masks | `HeaderWord` |
| Aligned allocation, `index.go` | memory from Go's `make` | `makePrimaryAlignedSlice`, `makeLinkAlignedSlice` | `BucketLayout` |
| `internal/asm`, `internal/cpu` | | DWCAS, barriers, prefetch, yield | DWCAS by its contract |

**How the parts interact.**  There are no messages and no locks: goroutines share memory.  All
operations run the same lookup: load the header of the key's bin, scan the Valid slots, load the
header again and accept the result only if the whole word, its version included, is unchanged (a
seqlock without a writer's lock).  `Put` and `Delete` then replace the entry by a DWCAS on (hash,
entry), which does not involve the header; `Insert` reserves an Invalid slot by a CAS on the
header (`Trying`), fills it, and makes it `Valid` by a second CAS on the same header word: that
CAS fails if anything in the bin changed, and `Insert` looks for its key again.  An `Insert` that finds
no slot and no link starts or helps a resize.  The resize publishes the next index, hands out chunks
of bins, and moves a bin by marking its header `InTransfer`, storing a sentinel in the hash word of each
Valid slot (which makes any later DWCAS fail), copying the entry, and marking the header
`DoneTransfer`.  Operations that meet `DoneTransfer` go to the next index; those that meet
`InTransfer` start again from the active index.

**What is hard.**

* `Put` and `Delete` hold an entry pointer and a slot address while the slot is deleted, reserved
  by another key's `Insert`, filled and made Valid again.
* Two `Insert`s of one key reserve different slots, and both have looked before either is Valid.
* An `Insert` holds a reservation across bins being transferred, in which case the slot must be given
  up in the old bin or forgotten.
* The transfer snapshots the header once, while DWCASes that were validated earlier are still
  under way.
* New bins are filled with plain stores; their privacy depends on nobody following `indexNext` before
  `DoneTransfer`.
* Links are handed out from the bottom by `Insert`s (in an index that is already reachable)
  and from the top by transfers into it; `linkCapacity` separates them.
* `triggerResize` may act on an observation that is already stale, so that an index which has become
  roomy is resized again.
* Helpers, pollers of `active` and spinners on a placeholder context all wait for somebody else.

**What makes it correct.**  The four operations are linearizable.  In memory terms: a key has at
most one copy and the memory, read through the generation that is responsible for the bin, is the
abstract map at every moment (`MemoryHoldsMap`, `NoDuplicateKeys`); reservations and transfers have
one owner (`ReservationOwned`, `TransferOwned`); new bins are private and successors are published
(`NewBinPrivate`, `SuccessorPublished`); links are exclusive and slots in use are backed
(`LinksDisjoint`, `SlotsBacked`); the transfer always finds room (`TransferFits`); an index becomes
active only when all bins moved (`ActiveComplete`); calls return (`CallsReturn`).  `Range` yields a key
that stays exactly once and only values the key had (`YieldedOnce`, `StayedYielded`, `YieldedTrue`); `Size` is exact
when nothing runs (`QuiescentSize`).  A header never comes back (`HeaderNeverRepeats`), on which all
validation rests, and the packed words mean what the protocol takes them for (`HeaderDecodes`,
`MasksFindSlots`, `LinksDecode`).  The links reserved for a transfer are enough and nobody else's
(`TransferNeverFails`, `EndsApart`, `CapacityGrows`).  The collector sees every entry, and slots are aligned for
the DWCAS (`PointersTracked`, `SlotsAligned`, `WithinBuffer`).

**The inline variant** has the same protocol on different data, and three hazards of its own: a `Delete`
leaves key and value in the slot and a slot may get the same words again, so that the DWCAS of a `Put`
cannot tell a recycled slot; the sentinel of a transfer is an ordinary key; and `Range` pairs
two words that it loads separately.  Its correctness is `LinearizableHistory`, `EntryInOnePlace` and
`TransferFreezes`.

## Plan

1. `AtomicMap`, `AllocatorMap` and its runs: the operations, the link arena and the resize, with
   linearizability as a refinement.  *Done.*
2. `AllocatorMapProofs`: the inductive invariant that gives type correctness, published successors
   and backed slots.  *Done.*
3. `RangeScan`: extends `AllocatorMap` with an iterating goroutine; a key present throughout is
   yielded exactly once, across resizes; `Size` beside it.  *Done.*
4. `InlineMap` and `InlineRange`: the variant with integer keys and values in the slots, its sentinels and its
   iteration.  *Done.*
5. `LinkBudget`: the reserve of `4U/3 + 1` links with the real bucket sizes; the link counters of `Stats`.
   `HeaderWord`: masks and shifts against the records used elsewhere.  `BucketLayout`: alignment and pointers.  *Done.*
6. `ResizeProofs`: who owns a bin in transfer, and when an index is complete.  `LinkProofs`: who owns a
   link bucket, and why the reserve of a transfer is enough.  `BucketLayoutProofs`: alignment for every length.  *Done.*
7. `SlotProofs`: headers never come back and reservations have one owner, as long as no version wraps.  *Done.*
8. `ContentProofs`, under the same assumption: a key is in one slot, the memory holds the map, and every step of
   `AllocatorMap` is a step of `AtomicMap` or a stutter.  *Done.*
9. `RangeProofs`: what an iteration yields, on top of 8.  *Done.*
10. `QuiescentSize`, on top of 8 and 9; `InlineProofs`: types, the resize and `TransferFreezes` of `InlineMap`, by the layers
    of 2 and 6, whose lemmas both variants share.  *Done.*
11. `EntryInOnePlace` of `InlineMap`, by the layers of 7 and 8.  *Left: see the end of Proofs.*

`AllocatorMap` instantiates `AtomicMap`; `RangeScan`, `InlineMap` and `AllocatorMapProofs` extend
`AllocatorMap`; `InlineRange` extends `InlineMap` and `RangeScan`.  The proofs are in layers: `ResizeProofs` extends
`AllocatorMapProofs` and `LinkProofs` extends `ResizeProofs`, `SlotProofs` extends `LinkProofs`,
`ContentProofs` extends `SlotProofs`, and `RangeProofs` extends `ContentProofs` and `RangeScan`;
`InlineProofs` extends `InlineMap` and `ResizeProofs`, and `BucketLayoutProofs` extends `BucketLayout`.  Every `MC` module extends the
module it gives constants to.  `LinkBudget`, `HeaderWord` and `BucketLayout` stand by themselves.

## Modules and the code

**`AtomicMap`** is the promise.  `map` is the abstract map; a call that changes it is answered in the
step that changes it (`Update`), one that does not is answered from some value that its key had
since the call began (`Observe`, over the history variable `seen`).  The second form allows `Get`
and failing calls any linearization point within the call, without a prophecy variable.

**`AllocatorMap`** is the code.

| Variable | Code |
|---|---|
| `header`, `linkMeta` | `PrimaryBucket.Header`, `.LinkMeta`, by bin `<<generation, number>>` |
| `slotKey`, `slotVal` | `Slot.Key` (the hash), `Slot.Val` (the entry pointer), by address |
| `active`, `resizeCtx` | the fields of `Map`; the placeholder context is `ReservedCtx` |
| `indexNext`, `linkNext`, `linkCapacity` | the fields of `index` |
| `ctx` | the `resizeContext` of the resize of a generation |
| `scan`, `ins`, `xfer`, `pc` | locals and program counter of a goroutine |
| `call`, `res`, `calls`, `map`, `seen` | history: calls, answers, abstract map |

Indexes are numbered by generation; `indexNext[g]` is `NoGen` or `g + 1`.  The actions, by file:

* lookup (all four operations): `LoadActive`, `LoadHeader`, `Follow`, `MatchKeys`, `Probe`,
  `LoadLinks`, then `CheckStale`/`CheckAnswer`/`CheckTarget`, the second header load;
* `put.go`, `delete.go`: `DWCASHit`, `DWCASMiss`; after a miss the revalidation loop
  `LoopHeader`, `LoopKey`, `LoopVal`, `LoopCheck`, `LoopTTAS`; `markSlotInvalid` after a `Delete`;
* `insert.go`: `ChooseHeader`, `ChooseLinks`, `allocateLink`, `allocateLinkPair`, `attachSingle`,
  `attachPair`, `reserveSlot`, `FillKey`, `FillVal`, `finalizeSlot`, `LoadHeader2`,
  `UnreserveLoad`, `UnreserveClear`, `UnreserveCAS`;
* `resize.go`: `TriggerResize`, `PublishNext`, `SetResizeContext`, `HelpResize`, `HelpActive`,
  `ClaimChunk`, `TransferBin`, `TransferLinks`, `StoreSentinel`, `MoveEntry`, `FinishBin`,
  `ChunkDone`, `FinishCapacity`, `FinishActive`, `FinishInactive`, `FinishCtx`.

Entries are records `[key, val]` with a value unique to the call: an entry is allocated by each call
and the garbage collector does not reuse an address while somebody holds it, so pointer equality is
equality of these records.  Headers are records with the fields of the packed word; a CAS on the word is
equality of records, so the version matters exactly as in the code.  A slot is reached through
the bin's current LinkMeta (`SlotLoc`), or through a loaded copy where the code keeps one.

Operators named `...Off`, `...Lost` and so on, with the comment *mutant*, are plausible errors. They are used
by no definition; each property is known to fail when one of them takes the place of the
definition below it.

**`RangeScan`** adds one iterating goroutine (`rng`).  The recursion of `scanBin` and `scanShards` is the
sequence of bins still to scan.  `RangeCall` loads the active index, `RangeHeader` loads h0 and dispatches
on the bin state, `scanShards` replaces a done bin by the bins it was split into, `RangeRead` loads
the entry of one slot (an empty slot is passed over there; the code does so when it calls back), `RangeLinks` the LinkMeta, and `RangeYield`, `RangeStop` and `RangeRetry` are the
three outcomes of the validation: the callback takes all entries, stops at one of them, or the bin is
scanned again.  `MapStep` is a step of `AllocatorMap` together with the history that the properties
refer to: the keys present since the call began, and the values every key had.  The call begins in
the model with the load of the active index, which makes the call shorter and the properties stronger.

**`InlineMap`** is the variant in `inline/`.  The state is that of `AllocatorMap`, with `slotKey` the key and
`slotVal` the value; `InitVal` is the word 0, the value of prefilled keys and of an empty slot.  Where the two
variants have the same code, the actions of `AllocatorMap` are used (headers, links, reservation, chunks); operators with
the names of the Go functions group them.  The module's own actions are:

* `MatchKey`, `LoadVal`: keys are compared directly and the first match ends the scan;
* `AnswerCheck`, `TargetCheck`: the second header load; `DeleteCAS`: the whole of `Delete`'s effect;
* `PutHit`, `PutMiss`, `PutLoopKey`, `PutLoopVal`: `Put` and its loop;
* `StoreKey`, `StoreVal`, `PublishSlot`, `ClearSlot`: `Insert` and `unreserveSlot`;
* `SwapSentinel`, `insertIntoNewIndex`: the transfer, which passes over slots that hold the sentinel.
  `sentinel(parity)` is `findSentinels`: the largest key with that parity of the hash.

Values are not unique to a call here, so a step does not show whether a `Put` that hits a slot takes effect
there or before an overlapping `Delete`.  Linearizability is therefore not stated by a refinement mapping but
by a monitor: `hist[k]` is the set of all states (value of the key, answers already due to running calls) that an atomic map
can be in, given the calls and answers so far.  `Extensions` lets any running calls take effect in any order
and an answer keeps the states that agree with it.  `LinearizableHistory` says that the
set is never empty, which is linearizability of the calls on that key; since keys are
independent objects, that is linearizability of the map.  `map` is kept as in `AllocatorMap` for `EntryInOnePlace`
and the properties of `Range`.

**`InlineRange`** replaces the entry load of `RangeScan` by `ReadKey` and `ReadVal`, two steps, and runs over
`InlineMap`.  It does not record `hist`, which its properties do not use.

**`LinkBudget`** models the arena of the new index during a resize with the code's bucket sizes (3 and 4 slots), which
the other modules scale down to 1.  `transferBin` takes up any old bin (no link, a single, or a single
and a pair, as long as the old arena had that many links), `insertIntoNewIndex` puts one of its entries into any of
the bins it is split into, `allocate` is an `Insert` at the other end.  Entries are counted and not named.

**`HeaderWord`** computes the packed words as the code does, a word being the set of its 1 bits, next to
the records that stand for them in the other modules.  Both variants have the same functions.

**`BucketLayout`** computes where the slices of buckets begin in the buffers that `make` returns, in words of 8 bytes, with
the code's constants (512 bytes, 32 KiB, 128 spare bytes), for the four slices of both variants.  Where Go puts a
buffer is external: any address modulo 128 bytes, as the code tests the address it got.

**`MCAllocatorMap`**, **`MCRangeScan`**, **`MCInlineMap`**, **`MCInlineRange`** and **`MCLinkBudget`** hold the constants of the
runs.  **`MCBinMemory`** puts `BucketLayout` and `HeaderWord` together: an index is laid out and then the words of one of its
bins change.  **`AllocatorMapProofs`**, **`ResizeProofs`**, **`LinkProofs`**, **`SlotProofs`** and **`ContentProofs`** hold the theorems about
`AllocatorMap`, **`RangeProofs`** those about `RangeScan`, **`InlineProofs`** those about `InlineMap` and **`BucketLayoutProofs`**
those about `BucketLayout`.

## Granularity

A step is one access to shared memory plus the local computation behind it.  Merged into one step are:

* the plain hash-word loads of one bucket (runs with one slot per bucket make each its own step);
* the load of LinkMeta and the CAS of `attachSingle`/`attachPair`, whose loop has no other exit or
  effect than the load would show;
* the fetch-and-add on `linkNext` and the read of `linkCapacity` after it, which changes only
  before the index is active;
* stores into a new bin with the load of the entry they copy: the bin is private until `DoneTransfer`
  (that is `NewBinPrivate`, which is checked); likewise the load of the hash and the store of the
  sentinel over it, since nobody else writes the hash word of a Valid slot in a bin in transfer;
* `newIndex`, its `linkCapacity` and the store of `indexNext`: the placeholder context excludes other
  publishers and the new index is unreachable before the store;
* the placeholder context and its immutable `active` field;
* the two stores of `unreserveSlot` (`ClearSlot` in the inline variant): the slot is Trying, so only the DWCAS of a
  stale `Put` looks at it; that the words (0, old value) between the stores match such a `Put` needs a value used for two
  keys, which is the kind of reuse that `inline_put` is about.

The second header load while waiting on `InTransfer` only decides whether to yield, and is left
out.  Memory is sequentially consistent: header, LinkMeta, entry and root accesses are Go atomics, and the plain
hash loads are validated by the second header load.  On arm64 the code adds barriers for the
latter; they are outside of the model.

## Runs

| Run | Instance | Question |
|---|---|---|
| `recycle` | 3 goroutines, one key, one bin of three slots, no resize | deletes, re-inserts, give-ups and Puts on stale slots: `NoDuplicateKeys`, `ReservationOwned`, `Linearizable`, `HeaderNeverRepeats` |
| `resize` | 3 goroutines, four keys, bins 2/4/8 with one slot, no link at first, chunks of one bin | inserts that resize, twice in a row too, and share the chunks, with Get, Put, Delete, Insert in the moving bins: `MemoryHoldsMap`, `NewBinPrivate`, `SuccessorPublished`, `TransferOwned`, `ActiveComplete`, `Linearizable` |
| `chain` | 2 goroutines with two calls each, six keys, three prefilled, bins 2/4/8, links 3/7/11 | two bins compete for single and paired links, chains are split and links allocated from the top: `TypeOK`, `LinksDisjoint`, `SlotsBacked`, `MemoryHoldsMap`, `TransferFits`, `StatsCountLinks`, `Linearizable` |
| `progress` | 2 goroutines, bins 1/2/4, chunks of one bin | `CallsReturn` under fairness |
| `range` | 2 goroutines and Range, five keys, four of them in one bin and its links, bins 1/2/4 | a chain is split and extended under the iteration, a key deleted and inserted again: `YieldedOnce`, `StayedYielded`, `YieldedTrue`, `QuiescentSize` |
| `inline_recycle` | 3 goroutines, one bin of three slots, no resize | deletes, re-inserts, give-ups and stale Puts: `LinearizableHistory`, and `CallsReturn` under fairness |
| `inline_resize` | 3 goroutines, six keys, both sentinels among them, bins 2/4/8 with one slot, links 3/6/10 | all operations in moving bins and in their links: `InlineTypeOK`, `LinearizableHistory`, `EntryInOnePlace`, `TransferFreezes` |
| `inline_range` | 2 goroutines and Range, four keys, both sentinels among them, bins 2/4/8, links 1/4/8 | bins and a link split under the iteration: `YieldedOnce`, `StayedYielded`, `YieldedTrue` |
| `link_budget` | 32 old bins with 4 links, growth 2, two movers | every way to split full chains: `TransferNeverFails`, `EndsApart`, `CapacityGrows` |
| `bin_memory` | 13 lengths around the size classes, lines of 64 and 128 bytes, all addresses; five slots that change, fields of 2 bits | `WithinBuffer`, `SlotsAligned`, `PointersTracked`, `HeaderDecodes`, `MasksFindSlots`, `LinksDecode` |
| `stalled` | as `progress`, t1 may stop anywhere | fails: see below |
| `inline_put` | 2 goroutines, one slot, Inserts may use the former value | fails: see below |

The first ten pass.  Together they take every disjunct of their next-state relations.  Deadlock is checked in those about
goroutines: the only state without another step is the one in which all calls have returned (`Finished`).  `link_budget`
and `bin_memory` are about data and may stop (a full arena, a bin that is done, slices that are made).

`Linearizable` is `A!Spec`, the abstract specification under the mapping that is the identity on the
history variables.  It is not true by construction: `DWCASHit` answers with the value the entry it
replaced had and sets `map`, and `AtomicMap` demands that this is what the map holds at that step; `finalizeSlot`
demands that the key is absent; all others demand that the answer was true within the call.
`MemoryHoldsMap` connects the history variable to the memory.

## Bounds

* *Geometry.*  The code has 3 primary and 4 link slots, bins a power of two, an eighth as many links,
  growth 8, 4 or 2 and chunks of 1024 bins.  Runs use one slot per bucket (three in `recycle`), so that one
  or two keys fill a bin and a chain of all three links needs four keys; the code treats the slots
  of one bucket alike.  Bins double; links satisfy the inequality `GrowthAssumption` that the
  code's sizes satisfy.
* *Calls.*  `MaxCalls` is one each, two for `t2` in `recycle`, `inline_recycle` and the Range runs, two each in `chain`; the kinds and keys of a goroutine's calls
  are chosen by TLC from a set.  One call per goroutine meets the hazards here because each of them
  needs two or three overlapping calls; prefilled keys stand for calls made earlier.
* *Generations.*  `MaxGen` = 2.  A resize of the last generation is not in the model (`PublishNext` and
  `TriggerResize` would have no successor); that would show as a deadlock, and none is
  found: the Inserts of a run start at most two resizes, the second often unneeded and started by a
  stale trigger; in `chain`, where there may be four Inserts, the links of the last index are enough for all.
* *Counters.*  `chunkClaimed` only matters up to the number of chunks and is held there; `linkNext` is held one above
  the length of the arena, so that an overshoot can be seen but not its size.
  `VersionMod` = 1000 stands for 2^32: no run comes near it, so a wrap of the version within
  one lookup is not explored; the theorems hold for every modulus, those of `SlotProofs` and `ContentProofs`
  until a version wraps.
* *Hashes.*  They are distinct from the sentinel of their bin (`SentinelAssumption`).  `allocator/hash.go` arranges that by parity
  for two and more bins; for a single bin see below.  In the inline runs the sentinels are keys that the
  callers use, as they may.
* *Values (inline).*  A call carries a value never used before, and a `Put` in the runs of `InlineMap` also the value
  the key began with.  An `Insert` does not bring back a value its key had before: `inline_put` shows what happens if it does.
* *`LinkBudget`.*  The thresholds at which growth changes (4 Ki and 4 Mi bins) are scaled to 8 and 16, so that 32 bins grow
  by 2, which leaves the least room: the new arena is twice the old one.  Four links hold one full chain (three
  links) and one single, the mixture for which the rounding in `4U/3 + 1` is tight.
* *`HeaderWord`.*  Versions and link numbers have `FieldBits` = 2 bits instead of 32, so that both wrap within the
  run, and they are followed in one small table (`Followed`), as they do not depend on where it lies; the positions of all fields are the code's.  The slots that change (0, 2, 3, 6, 14) are the first and the last of the
  primary bucket, of the single and the last of the word, next to the bin state.
* *`BucketLayout`.*  The lengths lie on both sides of the three boundaries at which the runtime's classes change (6/7, 509/510)
  and of `largeBufferSize`.  Addresses are complete.

## Fairness

`FairSpec` gives each goroutine weak fairness of `Step(t)`, that is, of being scheduled while it is in a
call (`progress`, with a resize); `InlineFairSpec` does the same for the inline variant (`inline_recycle`, without one: the
steps that wait in a resize are those of `AllocatorMap`).  The Go scheduler preempts goroutines and the spin loops yield.  Making a call is not required to
happen.  No fairness is assumed of any single CAS.

## Proofs

For any sets of threads and keys, any hash function, any calls, any geometry and any number of generations
that satisfy the assumptions in `AllocatorMap`:

| Theorem | Module | Says |
|---|---|---|
| `TypeCorrect` | `AllocatorMapProofs` | `Spec => []TypeOK`: every word and every local variable has its type; no step applies an index outside of the table |
| `SuccessorAlwaysPublished` | | `Spec => []SuccessorPublished`: a bin that is marked has a published successor, and no goroutine follows a nil index |
| `SlotsAlwaysBacked` | | `Spec => []SlotsBacked`: a slot that is Trying or Valid has a bucket inside of the arrays of its index |
| `Inductive` | | `Spec => [](IInv /\ EntryType)`, from which these follow |
| `TransferAlwaysOwned` | `ResizeProofs` | `Spec => []TransferOwned`: a marked bin has one goroutine that moves it, and it is there |
| `ActiveAlwaysComplete` | | `Spec => []ActiveComplete`: when an index is active all bins before it are done |
| `NewBinAlwaysPrivate` | | `Spec => []NewBinPrivate`: no operation touches a new bin before it is handed over |
| `ResizeInductive` | | `Spec => [](IInv /\ RInv)`, from which these follow |
| `LinksAlwaysDisjoint` | `LinkProofs` | `Spec => []LinksDisjoint`: a link bucket has one owner |
| `TransferAlwaysFits` | | `Spec => []TransferFits`: the transfer finds a slot for every entry, so the code's panic is unreachable |
| `StatsAlwaysCountLinks` | | `Spec => []StatsCountLinks`: `Stats` covers every link of the active index, those of the transfer once each |
| `LinksInductive` | | `Spec => [](IInv /\ RInv /\ LInv)`, from which these follow |
| `HeaderNeverComesBack` | `SlotProofs` | `Spec /\ []NoWrap => HeaderNeverRepeats`: every change of a header goes one way |
| `ReservationAlwaysOwned` | | `Spec /\ []NoWrap => []ReservationOwned`: a slot that is Trying has one `Insert` |
| `SlotsInductive` | | `Spec /\ []NoWrap => []SInv`, from which these follow |
| `AlwaysLinearizable` | `ContentProofs` | `Spec /\ []NoWrap => Linearizable`: the calls and answers are those of `AtomicMap` |
| `MemoryAlwaysHoldsMap` | | `Spec /\ []NoWrap => []MemoryHoldsMap`: the memory is the abstract map at every moment |
| `KeysNeverDuplicate` | | `Spec /\ []NoWrap => []NoDuplicateKeys`: a key has one copy |
| `ContentsInductive` | | `Spec /\ []NoWrap => []CInv`, from which these follow |
| `RangeYieldsOnce` | `RangeProofs` | `RangeSpec /\ []NoWrap => []YieldedOnce`: no key is yielded twice |
| `RangeYieldsAll` | | `RangeSpec /\ []NoWrap => []StayedYielded`: a key that stays is yielded if `Range` ends by itself |
| `RangeYieldsTrue` | | `RangeSpec /\ []NoWrap => []YieldedTrue`: every value yielded was that of its key during the call |
| `WalkInductive` | | `RangeSpec /\ []NoWrap => []WalkInv`, from which these follow |
| `QuietSizeTrue` | | `RangeSpec /\ []NoWrap => []QuiescentSize`: while no call runs, `Size` is the number of keys |
| `TransferAlwaysFreezes` | `InlineProofs` | `InlineSpec => TransferFreezes`: no CAS changes a bin that is in transfer or done |
| `InlineTypeCorrect` | | `InlineSpec => []InlineTypeOK`: slots hold keys and values, and the history has its type |
| `InlineTransferOwned` | | `InlineSpec => [](TransferOwned /\ ActiveComplete /\ NewBinPrivate)` |
| `InlineAlwaysBacked` | | `InlineSpec => [](SuccessorPublished /\ SlotsBacked)` |
| `InlineInductive` | | `InlineSpec => []InlineInv`, from which these four follow |
| `BucketsWithinBuffer`, `SlotsAlwaysAligned`, `PointersAlwaysTracked` | `BucketLayoutProofs` | `LayoutSpec => []WithinBuffer`, `[]SlotsAligned`, `[]PointersTracked`, for every length and every address |

*Assumptions.*  `SizeAssumption` (types and non-zero sizes), `GrowthAssumption` (the number of bins is multiplied and the
new arena is large enough for the links reserved), `LinkAssumption` (a link has at most one slot more than a primary
bucket, 4 and 3 in the code, and an arena with links grows by more than the reserve), `CallsAssumption`,
`PrefillAssumption` (prefilled keys are distinct and fit),
`SentinelAssumption` (no key of a bin hashes to the sentinel of that bin: true of every key when the number of bins is even, as the
parity of the hash is that of its bin; with one bin it excludes one hash of 2^64, see below), and
`MarkerAssumption` (nil, "absent" and "pending" are no values); for the inline variant also `InlineAssumption` (keys are words, so
there is a largest one, 0 is one, and there are keys with hashes of both parities, among which `findSentinels` finds its
two; the threads are finitely many, which `hist` counts on).  The value of prefilled keys is not one that a call brings.  TLC evaluates all of them in every run.

### Types and addresses (`AllocatorMapProofs`)

None of the three is inductive alone.  A typed step needs an address to exist: a goroutine that
loads or stores slot `i` needs the bin to have that slot now, which `SlotsBacked` gives only
for slots of the current header, while the goroutine works from a header loaded earlier.
`IInv` therefore consists of

* `BaseType`: `TypeOK` but for what a slot holds, which may be an entry, a value or nil (`Content`).  That slots and lookups have
  entries is `EntryType`, an invariant of its own beside `IInv`, so that `IInv` and the lemmas about it serve the
  inline variant as well;
* `SharedInv`: every bin's header is backed by its LinkMeta, LinkMeta refers to links of the arena, a
  marked bin has a published successor (`BinInv`); the link counters lie between the two ends
  of the arena and the context in use belongs to a published index (`ArenaInv`);
* `ThreadInv(t)`, for each goroutine: the header it loaded is backed by the *present* LinkMeta (links are
  never detached, so what was backed stays backed: `ScanInv`, `InsInv`), the link it allocated and has not
  attached lies in the arena, and the transfer's snapshot, bin and generation belong to the
  context it is helping (`XferInv`).

Each action has a lemma that it preserves `SharedInv` and the `ThreadInv` of the goroutine that takes it, and
a common lemma carries the `ThreadInv` of the others, which depends on shared state only
through facts that never become false: attached links stay, published indexes stay.  `InitInv`
and `NextInv` join them.

### The resize (`ResizeProofs`)

`TransferOwned` is not inductive: that two goroutines are not in one bin follows from the counter of chunks, and that the
index is complete from the counter of finished chunks.  `RInv` consists of

* `RolesInv`: what a goroutine inside of the resize code may assume of `active`, `resizeCtx` and the context it helps
  (`RoleInv`); there is one installer of the placeholder and one finisher at a time;
* `MoversInv`: the chunks claimed are the chunks done plus the *set* of goroutines that hold one (`ChunksInv`), and the
  state of every bin is a function of its chunk: not marked if unclaimed, done if the chunk is done, otherwise given by
  the position of the goroutine that holds the chunk (`ProgressInv`);
* `PrivateInv(t)`: an operation that uses an index has passed a `DoneTransfer` bin of its key in every index before.

The last of these gives `NewBinPrivate`, since the bin that is done cannot be the one that somebody is moving.

### The arenas (`LinkProofs`)

Links are taken at the bottom with a counter that overshoots and at the top with another; disjointness needs that the
two ends do not meet, and that is a question of how many links the transfer can need.  `LInv` has two halves.

* *Ownership.*  Every link attached to a bin or held by a goroutine comes from below `linkNext` or from above
  `linkNextResize` (`LinksInv`, `HeldInv`), the two ends do not meet (`EndsInv`, `FinInv`), and no two bins, no two
  goroutines and no bin and goroutine have the same link.
* *Counting.*  A new bin is empty until its old bin is marked, and while that is moved it gets a bucket only when those
  before are full (`NewBinInv`); a key that is written belongs to its bin (`OwnerInv`, `KeysInv`); the entries that a mover has
  copied and those it has yet to copy are no more than the slots of the old bin (`MoverInv`, `CountInv`).  With
  `LINK_SLOTS <= PRIMARY_SLOTS + 1` a bin with a single splits into bins with at most one link, and a bin with
  all three into bins with at most four (`TopInv`; lemmas `CountLinks`, `TakeMore`, `EntryFits`).  Summed over the bins of an
  index, as the cardinality of the set of links at the top (`TopCount`), this is the reserve of `triggerResize`.

The argument uses that a slot which the transfer copies was Valid in its snapshot, and that the old links are disjoint too: the
invariant speaks of all generations at once.

`StatsCountLinks` follows from the ends of the arena: above `linkCapacity` the active index has exactly the links from the last
`linkNextResize` to the top, all of them attached (`EndsInv`), and the first index has none, as nothing ever moves the end of
its arena (`FirstEnd`).  Below, `linkNext` also counts the links that Inserts allocated and lost, so `Stats` is an upper
bound there and exact only for the transfer's part.

### Headers and slots (`SlotProofs`)

A goroutine that has found a header unchanged concludes that the slots it describes are as they were.  That is only true
if the header has not gone and come back, which 2^32 changes of its version could bring about: the theorems of this module
assume `NoWrap`, that no version has reached its last value (`VersionMod - 1`), and conclude nothing about behaviours in
which one does.  `SInv` consists of

* `HeadInv`: the present header of the bin comes after the one in hand, in the order `Before` (version, then bin state, then
  the set of Valid slots, which the AND of `Delete` makes smaller without counting the version up);
* `PickInv`: the slot an `Insert` is about to reserve is free in the header it compares with;
* `CallInv`, `EntryInv`: the values in Valid slots are those of calls that have been answered, so that a running call cannot
  mistake its own entry for one it has found (`Settled`);
* `TargetInv`: the slot at which a `Put` or `Delete` aims a DWCAS is Valid if it still holds the entry; the slot that a
  `Delete` is about to mark is Valid and empty;
* `OwnInv`, `TryInv`, `ApartInv`: an `Insert` that has a slot finds it Trying with its own hash and entry, a slot that is
  Trying has such an `Insert` while its bin is not in transfer, and no two goroutines have the same slot;
* `SnapInv`: the header of a bin in transfer differs from the mover's snapshot in slots deleted meanwhile, which are empty.

What one step may do to headers and slots is stated once (`Change`: slots change state only by the goroutine that owns,
marks or moves them); `OtherHeads`, `OtherTargets`, `OtherOwners`, `OtherSnaps` and `OtherBins` carry what all other goroutines
know over such a step, and each action has a lemma that it is one and keeps what its goroutine knows.  `RInv` tells the bins
that are being filled from those in use, `LInv` that a store to one slot is not a store to another.

### Contents (`ContentProofs`)

`NoDuplicateKeys` and `MemoryHoldsMap` look at the memory through the generation that is responsible for a key.  Their
inductive form follows a key through the generations, and a lookup through the buckets of a bin.  `CInv` consists of

* `PlaceInv`: a slot that is Valid and not empty holds a key of its bin; it has that key's hash before the transfer and the
  sentinel after it;
* `CurrentInv`: for a key, one bin is *current*: it is not done and the key's bin in the index before is (`CurrentOne`).  The entries of a
  current bin are those of the map, each once;
* `FrozenInv`: of the slots of a bin in transfer, those already taken have the sentinel and the others their hash, so that
  a `Put` or `Delete` can still change exactly the entries that are not copied yet;
* `CopyInv`: the copied entries are in the new bins, those are all that is there, and no key is there twice;
* `SeenInv`: a running call has seen the present value of its key;
* `LookInv`: while the header of a lookup is unchanged, its key, if it is in the bin at all, is in the part of the bin that
  the lookup has yet to read; and an entry that was found has a value seen within the call.

`LookInv` is what makes an `Insert` safe: at the CAS to Valid the header is that of its completed lookup, which had found
nothing, so the key is in no slot of the current bin, and being in no other it is absent.  A `Put` or `Delete` hits the slot
of its key in the current bin (`HitCurrent`), since a bin that was moved has the sentinel there.  With these, the simulation
takes one lemma per step that a caller can see: `CheckAnswerA`, `DWCASHitA` and `finalizeSlotA` are steps of
`AtomicMap`, and by `SilentA` all others leave map, calls and answers alone.

### Iteration (`RangeProofs`)

`RangeSpec` implies `Spec`, since the steps of an iteration leave every variable of the map alone (`RangeIsMap`): all
invariants above hold while it runs.  The three properties are about what is yielded in the end, and need to know in between
what of the map is dealt with and what is not.  `WalkInv` consists of

* `TodoInv`: the bins still to be scanned have disjoint sets of keys, and the bins of the indexes before them are done, so
  that a bin of them is current unless it is done itself.  The bins an old bin was split into have just its keys, each of
  one of them (`ShardBins`, by the arithmetic of `NumBins`);
* `YieldInv`: no key that was yielded is a key of one of these bins, and a key that stayed was yielded or is;
* `StayInv`: the history means what it says: a key that stayed is in the map, and the present value of a key is one it had;
* `ReadInv`: a LinkMeta word that was loaded leads to the same slots as the present one (`WayInv`); *if the header is still
  that of h0*, each entry that was read has a key of the bin, once, which is in no slot still to be read, and a key that stayed was
  read or is in one of those slots (`BufInv`).

The last of these is the reason why the buffer can be handed over when h1 = h0, and why it has to be thrown away otherwise.
A step of another goroutine keeps it (`BufKept`): headers go forward, so one that equals h0 now equalled it before the step;
under such a header no step puts a key into a slot in which it was not (`FindsNoMore`, proved for every action of the map in
`ContentProofs`); and a key that is in the map before and after is in the current bin before and after (`CurrentInv`), hence in
the same slot.

`QuiescentSize` is about the moments at which no call runs; a transfer may be half done at such a moment only in theory,
since the goroutines that move bins are in a call.  `IdleInv`, which is inductive beside `CInv`, says that a slot which is Valid and
empty belongs to a `Delete` that has yet to mark it (`EmptyInv`), and that a placeholder or a context which is not
retired has a goroutine that will retire it (`AliveInv`).  So while no call runs, `active` is the last index in use, none of its
bins is marked, no slot is Trying (`OwnInv` of `SlotProofs`) or empty, and by `CurrentInv` its Valid slots are in a
bijection with the keys of the map.

### The inline variant (`InlineProofs`)

Most actions of `InlineMap` are those of `AllocatorMap`, and their lemmas about `IInv` and `RInv` are cited as they are.  The
others have lemmas of their own; the `Delete`, which is one CAS, and the stale `Put`, which may write to a slot that is
no longer its key's, keep `IInv` since a link is never detached.  `MoveInv` of `AllocatorMapProofs` is the common part of the two
transfers.  `InlineInv` adds to `IInv` and `RInv`

* `ValueType`: a slot holds a key and a value, always: an empty one has 0 and 0, a sentinel is a key;
* `FreezeInv`: a header in the hands of a call, from the validation of its lookup to its CAS, says that its bin is in no transfer
  (`CallFreeze`); and the slots and the version of a bin in transfer are those of its mover's snapshot (`MoveFreeze`).

`TransferFreezes` follows, since a CAS succeeds only if the bin has the header in hand, which says that it is in no transfer;
and the store of `DoneTransfer` writes what the bin has.  The new bins, to which the mover stores freely, are in no
transfer because their index is not active (`NewBinFree`, by `RInv`).  Nothing here needs `NoWrap`: a version that
comes back does not bring back a bin state.

The type of the history is a statement about the recursive function in `Extensions`.  That such a function exists for
every number of threads, and that all its values are sound, is proved with sets of counterexamples, which have a
least member (`MoreFcn`, `ExtensionsSound`, by `HasLeast`).

### Slices (`BucketLayoutProofs`)

`LayoutInv` says of each slice made so far that it is inside of its buffer, on a line and typed; `GoodSlice` is proved for
each of the allocations that the code tries in turn, by case distinction on the address modulo a line.

*Only model-checked*: `LinearizableHistory`, which is stated by a monitor over sets of histories; `EntryInOnePlace`, which
needs what `SlotProofs` and `ContentProofs` do for `AllocatorMap` done for values that are not unique; `InlineRange`; `LinkBudget`, whose sum over all bins is proved in another form by
`TransferAlwaysFits`; `HeaderWord`, whose words are sets of bits of arbitrary width; and liveness, which is beyond the prover.

## Where text and code differ

* `stalled`: `design.md:7` says that no thread can block others and `README.md:7` that all operations are
  lock-free.  A goroutine that stops between the OR and `DoneTransfer` of a bin, or while its
  placeholder context is installed, keeps others spinning for ever, `Get` included.
* `inline_put`: `README.md:7` says that all operations are linearizable.  In the inline variant a `Put` that has
  validated its header compares only key and value (`inline/put.go:69`).  If the key is deleted and inserted again with the
  value it had, the DWCAS hits the slot while the `Insert` still has it Trying.  `Put` answers true, a `Get`
  after it "not found", and later the map holds the value of that `Put`: no order of the calls explains
  these answers.  Without values that come back, `inline_recycle` and `inline_resize` pass.

Noted while reading, without a run of their own:

* The comments at `allocator/resize.go:151` and `:159` say that nothing is deleted and no link added after the OR.  A `Delete`
  validated before the OR may clear the entry until the sentinel is stored, and `Insert` attaches links without
  looking at the bin state.  The transfer copes with both (`resize` and `chain` pass): it loads the entry after the
  sentinel and skips nil, and the slots of such a link are not Valid in its snapshot.
* `inline/hash.go:27-28` and `allocator/hash.go:21-23` say that the sentinel cannot collide with a key or hash of its bin.
  In a table of one bin (`InitialSize` 1) both parities share bin 0.  A key of the inline variant equal to the sentinel would be
  taken for a slot that was moved already, and lost; an entry of the other variant whose hash is 2^64 - 1 would be
  copied, but a `Put` after the copy would not be stopped.
* `tests/pbt/size_stats_bounds_test.go:70` asserts `Links <= LinkCapacity`.  Failed allocations are counted in `linkNext` too, so
  `Links` may exceed it while the resize that they cause is running.
* `design.md:953` puts the linearization point of `Get` at its first header load.  A `Put`, or the DWCAS of a `Delete`,
  before the load of the entry changes the answer without changing the header.  The answer is linearizable all the
  same, at the load of the entry.

## Not modelled

* *Version wrap* (2^32 changes of one bin within one lookup): out of TLC's reach.  *`linkNext` wrap*: an `Insert` that fails
  to allocate waits in `helpResize` before it tries again, so the counter passes the end of the arena by a few per goroutine.
* *Weak memory* and the assembly of DWCAS, barriers and prefetch: the model is sequentially consistent and
  takes DWCAS by its contract.
* *The Go runtime*: garbage collection and allocation classes are external; `BucketLayout` takes from them where pointers are
  looked for and which addresses may come.
* *Conversion of values* in the inline variant: `uint64(value)` and `V(raw)` are inverse to each other for every integer type.
* *The rest of `Stats`* (`Capacity`, `LoadFactor`, `Resizing`): local arithmetic on one load each.
* *Tests, benchmarks and the Quint specification* under `src/spec`: not part of the program.
