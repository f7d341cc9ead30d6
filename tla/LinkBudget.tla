----------------------------- MODULE LinkBudget -----------------------------
(***************************************************************************)
(* The link arena of the index that a resize fills (src/allocator and      *)
(* src/inline): Inserts in bins that are done take links from the bottom,  *)
(* below linkCapacity, while the transfer takes them from the top.  The    *)
(* question is whether the budget that triggerResize sets aside is enough, *)
(* with the buckets of the code (3 slots and 4).  Entries are counted, not *)
(* told apart: an old bin has at most as many as its buckets have slots,   *)
(* and they go to its shards, the bins it is split into, in any way.       *)
(* Slots that a Delete frees in a new bin only help, and are left out.     *)
(***************************************************************************)
EXTENDS Integers, FiniteSets, FiniteSetsExt

CONSTANTS OldBins,            \* len(oldIdx.bins), a power of 2
          SmallSize, LargeSize,   \* 4 * 1024 and 4 * 1024 * 1024: where growth changes
          Mover               \* the goroutines that transfer bins

PRIMARY_SLOTS == 3
LINK_SLOTS == 4
NO_LINK == 0

growth == IF OldBins < SmallSize THEN 8 ELSE IF OldBins < LargeSize THEN 4 ELSE 2
OldLinks == OldBins \div 8
NewLinks == (OldBins * growth) \div 8
resLinkBudgetTight == OldLinks + 1                     \* mutant: a link for a link
resLinkBudgetEven == (OldLinks * 4) \div 3             \* mutant: one less
resLinkBudget == (OldLinks * 4) \div 3 + 1

ASSUME BudgetAssumption ==
  /\ OldBins \in Nat \ {0} /\ SmallSize \in Nat /\ LargeSize \in Nat
  /\ OldBins < 8 \/ OldBins % 8 = 0
  /\ OldBins < 8 => OldBins < SmallSize

VARIABLES linkNext, linkCapacity,   \* of the new index
          linkNextResize,           \* of the resizeContext
          oldLeft,                  \* links of the old index that no bin has had so far
          bin,                      \* [Mover -> the bin it transfers and its shards]
          active                    \* the new index is active: the resize is over
vars == <<linkNext, linkCapacity, linkNextResize, oldLeft, bin, active>>

Shard == 0..(growth - 1)
\* Entries in a shard of which links many link buckets are attached
Room(links) == PRIMARY_SLOTS + links * LINK_SLOTS
EmptyShard == [n |-> 0, links |-> 0]
NoBin == [links |-> 0, shard |-> [s \in Shard |-> EmptyShard], lost |-> FALSE]
Moved(b) == MapThenSumSet(LAMBDA s : b.shard[s].n, Shard)

\* triggerResize
Init ==
  /\ linkNext = 0
  /\ linkCapacity = NewLinks - resLinkBudget
  /\ linkNextResize = NewLinks
  /\ oldLeft = OldLinks
  /\ bin = [m \in Mover |-> NoBin]
  /\ active = FALSE

\* The next bin: its LinkMeta has nothing, a single, or a single and a pair
transferBin(m) ==
  /\ ~active
  /\ \E links \in {0, 1, 3} :
       /\ links <= oldLeft
       /\ oldLeft' = oldLeft - links
       /\ bin' = [bin EXCEPT ![m] = [NoBin EXCEPT !.links = links]]
  /\ UNCHANGED <<linkNext, linkCapacity, linkNextResize, active>>

\* The buckets that a shard has when findFreeSlotOrChain is done with it, and the
\* links taken from the top: none for a free slot, else a single, then a pair
findFreeSlotOrSingle(sh) ==                            \* mutant: pairs are never attached
  IF sh.n < Room(sh.links) \/ sh.links > 0 THEN [links |-> sh.links, take |-> 0]
  ELSE [links |-> 1, take |-> 1]
findFreeSlotOrChain(sh) ==
  IF sh.n < Room(sh.links) \/ sh.links = 3 THEN [links |-> sh.links, take |-> 0]
  ELSE IF sh.links = 0 THEN [links |-> 1, take |-> 1] ELSE [links |-> 3, take |-> 2]

\* insertIntoNewIndex for an entry of the bin.  lost: there was no slot or no link
insertIntoNewIndex(m, s) ==
  LET sh == bin[m].shard[s]
      new == findFreeSlotOrChain(sh)
      next == linkNextResize - new.take
      found == sh.n < Room(new.links) /\ next > new.take - 1
  IN  /\ ~active /\ ~bin[m].lost
      /\ Moved(bin[m]) < Room(bin[m].links)
      /\ linkNextResize' = next
      /\ bin' = [bin EXCEPT ![m] =
                   IF found THEN [@ EXCEPT !.shard[s].n = sh.n + 1, !.shard[s].links = new.links]
                   ELSE [@ EXCEPT !.lost = TRUE]]
      /\ UNCHANGED <<linkNext, linkCapacity, oldLeft, active>>

\* The end of the last chunk: what is left of the budget is given back
helpWithChunks ==
  /\ ~active
  /\ linkCapacity' = linkNextResize - 1
  /\ active' = TRUE
  /\ bin' = [m \in Mover |-> NoBin]
  /\ UNCHANGED <<linkNext, linkNextResize, oldLeft>>

\* allocateLink and allocateLinkPair by Inserts in bins that are done.  A failed
\* one counts linkNext up too; that is bounded by the first failure
allocate(n) ==
  /\ linkNext <= linkCapacity
  /\ linkNext' = linkNext + n
  /\ UNCHANGED <<linkCapacity, linkNextResize, oldLeft, bin, active>>
allocateLink == allocate(1)
allocateLinkPair == allocate(2)

Next == \/ \E m \in Mover : transferBin(m) \/ \E s \in Shard : insertIntoNewIndex(m, s)
        \/ helpWithChunks \/ allocateLink \/ allocateLinkPair
Spec == Init /\ [][Next]_vars

-----------------------------------------------------------------------------
\* "In the current implementation this can never fail": every entry of every
\* old bin finds a slot, however the entries split, for there are links for it.
TransferNeverFails == \A m \in Mover : ~bin[m].lost

\* No link is handed out at both ends: what the transfer takes lies above all
\* that an Insert can get, also when the transfer's part is as large as it can be.
EndsApart == linkNextResize > linkCapacity

\* "we can only see monotonically increasing linkCapacity values" (allocateLink,
\* which loads it without a barrier): the capacity set when the resize ends is
\* not below the one that it began with.
CapacityGrows == [][linkCapacity' >= linkCapacity]_vars
=============================================================================
