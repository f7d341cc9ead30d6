---------------------------- MODULE ResizeProofs ----------------------------
(***************************************************************************)
(* Theorems about the cooperative resize of AllocatorMap: who may be where *)
(* in a resize, which bins are moved, and that nobody works in a new bin   *)
(* before it is handed over.  The invariant RInv is inductive relative to  *)
(* IInv of AllocatorMapProofs.                                             *)
(***************************************************************************)
EXTENDS AllocatorMapProofs

-----------------------------------------------------------------------------
(* The inductive invariant of the resize.                                  *)

InstallPC == {"publish", "setCtx"}
FinishPC == {"finCapacity", "finActive", "finInactive", "finCtx"}
HoldPC == TransferPC \cup {"chunkDone"}
UsesPC == ScanPC \cup SlotPC \cup InsertPC

chunkOf(b) == b \div CHUNK_SIZE

\* The resize of generation g has begun: its context is or was installed.
Started(g) == g < active \/ g = resizeCtx

\* The goroutines that hold a chunk of g which they have not counted yet
Holders(g) == {t \in Thread : pc[t] \in HoldPC /\ xfer[t].gen = g}
\* t moves bins of chunk c of g
Moves(t, g, c) == pc[t] \in TransferPC /\ xfer[t].gen = g /\ chunkOf(xfer[t].bin) = c

RoleInv(t) ==
  /\ pc[t] \in InstallPC => resizeCtx = ReservedCtx
  /\ pc[t] = "setCtx" => xfer[t].gen = active
  /\ pc[t] \in ContextPC \ {"setCtx"} => Started(xfer[t].gen)
  /\ pc[t] \in FinishPC => /\ resizeCtx = xfer[t].gen
                           /\ ctx[xfer[t].gen].chunksDone = NumChunks(xfer[t].gen)
  /\ pc[t] \in {"finCapacity", "finActive"} => active = xfer[t].gen
  /\ pc[t] \in {"finInactive", "finCtx"} => active = xfer[t].gen + 1
\* One goroutine installs a context, and one retires it
RolesInv ==
  /\ \A t \in Thread : RoleInv(t)
  /\ \A t, u \in Thread : pc[t] \in InstallPC /\ pc[u] \in InstallPC => t = u
  /\ \A t, u \in Thread : pc[t] \in FinishPC /\ pc[u] \in FinishPC => t = u
  /\ resizeCtx \in Gen => active \in {resizeCtx, resizeCtx + 1}

\* The chunks claimed are those counted as done and those in somebody's hands
ChunksInv(g) ==
  /\ Started(g) => /\ ctx[g].chunkClaimed <= NumChunks(g)
                   /\ IsFiniteSet(Holders(g))
                   /\ ctx[g].chunkClaimed = ctx[g].chunksDone + Cardinality(Holders(g))
  /\ g < active => ctx[g].chunksDone = NumChunks(g)

\* How far the transfer of bin <<g, b>> is, by its chunk and the mover's bin
MoverState(t, b) == IF xfer[t].bin > b THEN BinDoneTransfer
                    ELSE IF xfer[t].bin = b /\ pc[t] # "or" THEN BinInTransfer
                    ELSE BinNoTransfer
ProgressInv(bin) ==
  LET g == bin[1]
      c == chunkOf(bin[2])
      claimed == Started(g) /\ c < ctx[g].chunkClaimed
  IN  /\ ~claimed => header[bin].bs = BinNoTransfer /\ \A t \in Thread : ~Moves(t, g, c)
      /\ claimed /\ (\A t \in Thread : ~Moves(t, g, c)) => header[bin].bs = BinDoneTransfer
      /\ \A t \in Thread : Moves(t, g, c) => header[bin].bs = MoverState(t, bin[2])
      /\ \A t, u \in Thread : Moves(t, g, c) /\ Moves(u, g, c) => t = u

\* The bins of a call's key in the generations before its index are done
PrivateInv(t) ==
  /\ pc[t] \in UsesPC => \A f \in 0..(scan[t].idx - 1) : header[getBin(f, hash(t))].bs = BinDoneTransfer
  /\ pc[t] = "follow" \/ ins[t].cont = "follow" => header[Bin(t)].bs = BinDoneTransfer

MoversInv == /\ \A g \in 0..(MaxGen - 1) : ChunksInv(g)
             /\ \A bin \in BinId : ProgressInv(bin)

RInv == RolesInv /\ MoversInv /\ \A t \in Thread : PrivateInv(t)

-----------------------------------------------------------------------------
(* Chunks of bins.                                                         *)

\* Division with remainder, by any positive number.
LEMMA DivMod ==
  ASSUME NEW b \in Nat, NEW k \in Nat \ {0}
  PROVE  \E q, r \in Nat : /\ q = b \div k /\ r = b % k
                           /\ b = k * q + r /\ k * q <= b /\ r < k /\ b < k * q + k
<1>1. /\ b \div k \in Nat /\ b % k \in Nat /\ b % k < k
      /\ b = k * (b \div k) + (b % k)
  OBVIOUS
<1>2. PICK q, r \in Nat : q = b \div k /\ r = b % k
  BY <1>1
<1>3. r < k /\ b = k * q + r
  BY <1>1, <1>2
<1>4. k * q \in Nat
  OBVIOUS
<1>5. k * q <= b /\ b < k * q + k
  BY <1>3, <1>4
<1> QED BY <1>2, <1>3, <1>5

\* A quotient is determined by its bounds.
LEMMA DivUnique ==
  ASSUME NEW b \in Nat, NEW k \in Nat \ {0}, NEW q \in Nat, k * q <= b, b < k * q + k
  PROVE  b \div k = q
<1>1. PICK p \in Nat : p = b \div k /\ k * p <= b /\ b < k * p + k
  BY DivMod, Zenon
<1>2. ~(p < q)
  <2> SUFFICES ASSUME p < q PROVE FALSE
    OBVIOUS
  <2>1. p + 1 <= q
    BY <1>1
  <2>2. k * (p + 1) <= k * q
    BY <1>1, <2>1
  <2>3. k * (p + 1) = k * p + k
    BY <1>1
  <2> QED BY <1>1, <2>2, <2>3
<1>3. ~(q < p)
  <2> SUFFICES ASSUME q < p PROVE FALSE
    OBVIOUS
  <2>1. q + 1 <= p
    BY <1>1
  <2>2. k * (q + 1) <= k * p
    BY <1>1, <2>1
  <2>3. k * (q + 1) = k * q + k
    BY <1>1
  <2> QED BY <1>1, <2>2, <2>3
<1> QED BY <1>1, <1>2, <1>3

\* The bins of a chunk, as claimChunk numbers them: it begins at c * CHUNK_SIZE, the
\* chunks are numbered without a gap up to NumChunks, and the last bin of a
\* chunk is the last.
LEMMA Chunks ==
  ASSUME NEW g \in Gen, NEW b \in Nat, b < NumBins[g]
  PROVE  /\ chunkOf(b) \in Nat /\ chunkOf(b) < NumChunks(g)
         /\ chunkOf(b) * CHUNK_SIZE <= b
         /\ chunkOf(chunkOf(b) * CHUNK_SIZE) = chunkOf(b)
         /\ ~lastOfChunk(g, b) => chunkOf(b + 1) = chunkOf(b)
         /\ lastOfChunk(g, b) => \A a \in Nat : a < NumBins[g] /\ chunkOf(a) = chunkOf(b) => a <= b
<1> DEFINE k == CHUNK_SIZE
           n == NumBins[g]
<1>1. k \in Nat \ {0} /\ n \in Nat \ {0} /\ b + 1 \in Nat
  BY SizeAssumption
<1>2. PICK c \in Nat : c = b \div k /\ k * c <= b /\ b < k * c + k
  BY <1>1, DivMod, Zenon
<1>3. c < (n + k - 1) \div k
  <2>1. n + k - 1 \in Nat
    BY <1>1
  <2>2. PICK q \in Nat : q = (n + k - 1) \div k /\ n + k - 1 < k * q + k
    BY <1>1, <2>1, DivMod, Zenon
  <2>3. k * c < k * q
    BY <1>1, <1>2, <2>2
  <2>4. ~(q <= c)
    <3> SUFFICES ASSUME q <= c PROVE FALSE
      OBVIOUS
    <3>1. k * q <= k * c
      BY <1>1, <1>2, <2>2
    <3> QED BY <1>1, <1>2, <2>2, <2>3, <3>1
  <2> QED BY <1>2, <2>2, <2>4
<1>4. (c * k) \div k = c
  <2>1. c * k \in Nat /\ k * c <= c * k /\ c * k < k * c + k
    BY <1>1, <1>2
  <2> QED BY <1>1, <1>2, <2>1, DivUnique
<1>5. ASSUME (b + 1) % k # 0 PROVE (b + 1) \div k = c
  <2>1. PICK p, s \in Nat : /\ p = (b + 1) \div k /\ s = (b + 1) % k
                           /\ b + 1 = k * p + s /\ s < k
    BY <1>1, DivMod, Zenon
  <2>2. k * p <= b /\ b < k * p + k
    <3>1. k * p \in Nat /\ s # 0
      BY <1>1, <1>5, <2>1
    <3> QED BY <1>1, <2>1, <3>1
  <2>3. b \div k = p
    BY <1>1, <2>1, <2>2, DivUnique, Zenon
  <2> QED BY <1>2, <2>1, <2>3
<1>6. ASSUME (b + 1) % k = 0, NEW a \in Nat, a \div k = c PROVE a <= b
  <2>1. PICK p, s \in Nat : /\ p = (b + 1) \div k /\ s = (b + 1) % k
                           /\ b + 1 = k * p + s /\ s < k
    BY <1>1, DivMod, Zenon
  <2>2. b + 1 = k * p
    BY <1>1, <1>6, <2>1
  <2>3. a < k * c + k
    BY <1>1, <1>6, DivMod, Zenon
  <2>4. k * c < k * p
    BY <1>1, <1>2, <2>1, <2>2
  <2>5. ~(p <= c)
    <3> SUFFICES ASSUME p <= c PROVE FALSE
      OBVIOUS
    <3>1. k * p <= k * c
      BY <1>1, <1>2, <2>1
    <3> QED BY <1>1, <1>2, <2>1, <2>4, <3>1
  <2>6. k * (c + 1) <= k * p /\ k * (c + 1) = k * c + k
    BY <1>1, <1>2, <2>1, <2>5
  <2> QED BY <1>1, <1>2, <2>1, <2>2, <2>3, <2>6
<1>7. c * k <= b
  BY <1>1, <1>2
<1> QED BY <1>1, <1>2, <1>3, <1>4, <1>5, <1>6, <1>7 DEF chunkOf, NumChunks, lastOfChunk

-----------------------------------------------------------------------------
(* Frames.                                                                 *)

\* Contexts and generations that a resize can have.
LEMMA CtxType ==
  ASSUME IInv, NEW g \in 0..(MaxGen - 1)
  PROVE  /\ g \in Gen /\ g \in Nat /\ g + 1 \in Gen /\ NumChunks(g) \in Int
         /\ ctx[g] \in CtxRec /\ ctx[g].chunkClaimed \in Nat /\ ctx[g].chunksDone \in Nat
<1>1. g \in Gen /\ g \in Nat /\ g + 1 \in Gen
  BY SizeAssumption DEF Gen
<1>2. NumChunks(g) \in Int
  BY <1>1, SizeAssumption DEF NumChunks
<1> QED BY <1>1, <1>2 DEF IInv, BaseType, RootType, CtxRec

\* The words that say where a resize is.
LEMMA ResizeWords ==
  ASSUME IInv
  PROVE  /\ active \in Gen /\ active \in Nat /\ MaxGen \in Nat
         /\ resizeCtx \in Gen \cup {NoCtx, ReservedCtx}
         /\ resizeCtx \in Gen => resizeCtx \in 0..(MaxGen - 1)
         /\ NoCtx \notin Gen /\ ReservedCtx \notin Gen /\ Gen \subseteq Nat
         /\ ctx \in [Gen -> CtxRec]
BY SizeAssumption DEF IInv, BaseType, RootType, Gen, NoCtx, ReservedCtx, SharedInv, ArenaInv, Published

\* t holds and moves what it did, and so does everybody else.
SameMoves(t) == \/ pc[t] \notin HoldPC /\ pc'[t] \notin HoldPC
                \/ /\ pc[t] \in TransferPC \ {"or"} /\ pc'[t] \in TransferPC \ {"or"}
                   /\ xfer'[t].gen = xfer[t].gen /\ xfer'[t].bin = xfer[t].bin

\* The transfers that are going on are the same after a step that moves no thread
\* in or out of one and leaves the bin states alone.
LEMMA SameMovers ==
  ASSUME IInv, MoversInv, NEW t \in Thread, OthersSame(t), SameMoves(t),
         \A g \in Gen : Started(g)' <=> Started(g),
         \A g \in 0..(MaxGen - 1) : /\ ctx'[g].chunkClaimed = ctx[g].chunkClaimed
                                    /\ ctx'[g].chunksDone = ctx[g].chunksDone
                                    /\ g < active' => g < active \/ ctx[g].chunksDone = NumChunks(g),
         \A bin \in BinId : header'[bin].bs = header[bin].bs
  PROVE  MoversInv'
<1>1. \A u \in Thread : /\ pc'[u] \in HoldPC <=> pc[u] \in HoldPC
                        /\ pc'[u] \in TransferPC <=> pc[u] \in TransferPC
                        /\ pc'[u] \in HoldPC => xfer'[u].gen = xfer[u].gen
                        /\ pc'[u] \in TransferPC => /\ xfer'[u].bin = xfer[u].bin
                                                    /\ pc'[u] = "or" <=> pc[u] = "or"
  BY DEF OthersSame, SameMoves, HoldPC
<1>2. ASSUME NEW g \in 0..(MaxGen - 1) PROVE ChunksInv(g)'
  <2>1. Holders(g)' = Holders(g)
    BY <1>1 DEF Holders
  <2>2. ChunksInv(g) /\ g \in Gen
    BY CtxType DEF MoversInv
  <2> QED BY <2>1, <2>2 DEF ChunksInv
<1>3. ASSUME NEW bin \in BinId PROVE ProgressInv(bin)'
  <2> DEFINE g == bin[1]
             c == chunkOf(bin[2])
  <2>1. /\ \A u \in Thread : Moves(u, g, c)' <=> Moves(u, g, c)
        /\ \A u \in Thread : Moves(u, g, c) => MoverState(u, bin[2])' = MoverState(u, bin[2])
    <3> HIDE DEF g, c
    <3> QED BY <1>1 DEF Moves, MoverState, HoldPC
  <2>2. ProgressInv(bin) /\ g \in Gen
    BY BinIdGen DEF MoversInv
  <2>3. Started(g)' <=> Started(g)
    BY <2>2
  <2>4. Started(g) => ctx'[g].chunkClaimed = ctx[g].chunkClaimed
    <3>1. Started(g) => g \in 0..(MaxGen - 1)
      BY <2>2, ResizeWords DEF Started, Gen
    <3> QED BY <3>1
  <2>5. (c < ctx[g].chunkClaimed)' <=> c < ctx'[g].chunkClaimed
    OBVIOUS
  <2> QED BY <2>1, <2>2, <2>3, <2>4 DEF ProgressInv
<1> QED BY <1>2, <1>3 DEF MoversInv

\* The roles of the threads that do not move, and of t.
LEMMA SameRoles ==
  ASSUME IInv, RolesInv, NEW t \in Thread, OthersSame(t), UNCHANGED <<active, resizeCtx>>,
         \A g \in Gen : ctx'[g].chunksDone = ctx[g].chunksDone,
         pc'[t] \notin InstallPC \cup FinishPC,
         pc'[t] \in ContextPC => Started(xfer'[t].gen)
  PROVE  RolesInv'
<1>1. \A u \in Thread \ {t} : pc'[u] = pc[u] /\ xfer'[u] = xfer[u]
  BY DEF OthersSame
<1>2. ASSUME NEW u \in Thread, u # t PROVE RoleInv(u)'
  <2>1. RoleInv(u) /\ pc'[u] = pc[u] /\ xfer'[u] = xfer[u]
    BY <1>1, <1>2 DEF RolesInv
  <2>2. pc[u] \in FinishPC => xfer[u].gen \in Gen
    <3>1. pc[u] \in FinishPC => pc[u] # "idle" /\ pc[u] \in ContextPC
      BY DEF FinishPC, ContextPC
    <3> QED BY <3>1, CtxType, Locals DEF XferInv, Published
  <2> QED BY <2>1, <2>2 DEF RoleInv, Started
<1>3. RoleInv(t)'
  BY DEF RoleInv, InstallPC, FinishPC, Started
<1> QED BY <1>1, <1>2, <1>3 DEF RolesInv

\* A bin that is done stays done.
DoneStays == \A bin \in BinId : header[bin].bs = BinDoneTransfer => header'[bin].bs = BinDoneTransfer

\* The calls of the threads that do not move.
LEMMA SamePrivate ==
  ASSUME IInv, \A u \in Thread : PrivateInv(u), NEW t \in Thread, OthersSame(t), DoneStays,
         \A u \in Thread \ {t} : call'[u] = call[u],
         PrivateInv(t)'
  PROVE  \A u \in Thread : PrivateInv(u)'
<1>1. SUFFICES ASSUME NEW u \in Thread, u # t PROVE PrivateInv(u)'
  OBVIOUS
<1>2. /\ pc'[u] = pc[u] /\ scan'[u] = scan[u] /\ ins'[u] = ins[u] /\ call'[u] = call[u]
      /\ PrivateInv(u)
  BY <1>1 DEF OthersSame
<1>3. hash(u)' = hash(u) /\ Bin(u)' = Bin(u)
  BY <1>2 DEF hash, Bin
<1>4. CASE pc[u] = "idle"
  <2>1. ins[u].cont = "idle" /\ pc[u] # "follow" /\ pc[u] \notin UsesPC
    BY <1>4, Locals DEF ThreadInv, UsesPC, ScanPC, SlotPC, InsertPC, OwnPC
  <2> QED BY <1>2, <2>1 DEF PrivateInv
<1>5. CASE pc[u] # "idle"
  <2>1. hash(u) \in Nat /\ Bin(u) \in BinId /\ scan[u].idx \in Gen
    BY <1>5, BinType
  <2>2. \A f \in 0..(scan[u].idx - 1) : getBin(f, hash(u)) \in BinId
    <3>1. 0..(scan[u].idx - 1) \subseteq Gen
      BY <2>1, SizeAssumption DEF Gen
    <3> QED BY <2>1, <3>1, GetBinType
  <2> QED BY <1>2, <1>3, <2>1, <2>2 DEF PrivateInv, DoneStays
<1> QED BY <1>4, <1>5

-----------------------------------------------------------------------------
(* The steps of calls: they leave the resize alone.                        *)

CallPC == UsesPC \cup {"idle", "active", "trigger"}

Quiet(t) == /\ OthersSame(t)
            /\ UNCHANGED <<active, resizeCtx, ctx, xfer>>
            /\ \A bin \in BinId : header'[bin].bs = header[bin].bs
            /\ \A u \in Thread \ {t} : call'[u] = call[u]
            /\ pc[t] \in CallPC /\ pc'[t] \in CallPC

\* A call's step leaves the resize where it was.
LEMMA QuietStep ==
  ASSUME IInv, RInv, NEW t \in Thread, Quiet(t), PrivateInv(t)'
  PROVE  RInv'
<1>1. /\ pc[t] \notin HoldPC /\ pc'[t] \notin HoldPC
      /\ pc'[t] \notin InstallPC \cup FinishPC \cup ContextPC
  BY DEF Quiet, CallPC, UsesPC, ScanPC, SlotPC, InsertPC, OwnPC, HoldPC, TransferPC, InstallPC,
         FinishPC, ContextPC
<1>2. MoversInv'
  <2>1. SameMoves(t)
    BY <1>1 DEF SameMoves
  <2>2. \A g \in Gen : Started(g)' <=> Started(g)
    BY DEF Quiet, Started
  <2> QED BY <2>1, <2>2, SameMovers DEF Quiet, RInv
<1>3. RolesInv'
  BY <1>1, SameRoles DEF Quiet, RInv
<1>4. \A u \in Thread : PrivateInv(u)'
  BY SamePrivate DEF Quiet, RInv, DoneStays
<1> QED BY <1>2, <1>3, <1>4 DEF RInv

\* A call that stays in its bin, and goes on to the next index only from a bin
\* that is done.
LEMMA StaysInBin ==
  ASSUME IInv, RInv, NEW t \in Thread, pc[t] # "idle", Quiet(t), call'[t] = call[t],
         pc'[t] \in UsesPC => pc[t] \in UsesPC /\ scan'[t].idx = scan[t].idx,
         pc'[t] = "follow" \/ ins'[t].cont = "follow" =>
           scan'[t].idx = scan[t].idx /\ header[Bin(t)].bs = BinDoneTransfer
  PROVE  RInv'
<1>1. hash(t)' = hash(t) /\ PrivateInv(t)
  BY DEF hash, RInv
<1>2. hash(t) \in Nat /\ Bin(t) \in BinId /\ scan[t].idx \in Gen
  BY BinType
<1>3. \A f \in 0..(scan[t].idx - 1) : getBin(f, hash(t)) \in BinId
  <2>1. 0..(scan[t].idx - 1) \subseteq Gen
    BY <1>2, SizeAssumption DEF Gen
  <2> QED BY <1>2, <2>1, GetBinType
<1>4. pc'[t] \in UsesPC =>
        \A f \in 0..(scan'[t].idx - 1) : header'[getBin(f, hash(t))].bs = BinDoneTransfer
  BY <1>1, <1>3 DEF PrivateInv, Quiet
<1>5. pc'[t] = "follow" \/ ins'[t].cont = "follow" => header'[Bin(t)'].bs = BinDoneTransfer
  <2>1. scan'[t].idx = scan[t].idx => Bin(t)' = Bin(t)
    BY <1>1 DEF Bin
  <2> QED BY <1>2, <2>1 DEF Quiet
<1>6. PrivateInv(t)'
  BY <1>1, <1>4, <1>5 DEF PrivateInv
<1> QED BY <1>6, QuietStep

\* Every bin of an index before the active one is done.
LEMMA ActiveDone ==
  ASSUME IInv, RInv, NEW bin \in BinId, bin[1] < active
  PROVE  header[bin].bs = BinDoneTransfer
<1> DEFINE g == bin[1]
           c == chunkOf(bin[2])
<1>1. g \in Gen /\ bin[2] \in Nat /\ bin[2] < NumBins[g]
  BY BinIdGen, SizeAssumption
<1>2. g \in 0..(MaxGen - 1)
  BY <1>1, ResizeWords DEF Gen
<1>3. c \in Nat /\ c < NumChunks(g)
  BY <1>1, Chunks
<1>4. ChunksInv(g) /\ ProgressInv(bin) /\ Started(g)
  BY <1>2 DEF RInv, MoversInv, Started
<1> HIDE DEF g, c
<1>5. /\ IsFiniteSet(Holders(g)) /\ ctx[g].chunkClaimed = ctx[g].chunksDone + Cardinality(Holders(g))
      /\ ctx[g].chunksDone = NumChunks(g) /\ ctx[g].chunkClaimed <= NumChunks(g)
  BY <1>4 DEF ChunksInv, g
<1>6. Cardinality(Holders(g)) \in Nat
  BY <1>5, FS_CardinalityType
<1>7. Cardinality(Holders(g)) = 0
  BY <1>2, <1>5, <1>6, CtxType
<1>8. Holders(g) = {}
  BY <1>5, <1>7, FS_EmptySet
<1>9. \A t \in Thread : ~Moves(t, g, c)
  BY <1>8 DEF Holders, Moves, HoldPC
<1>10. c < ctx[g].chunkClaimed
  BY <1>2, <1>3, <1>5, <1>7, CtxType
<1> QED BY <1>4, <1>9, <1>10 DEF ProgressInv, g, c

\* The steps of a lookup leave headers and transfers alone.
LEMMA ScanFrame ==
  ASSUME IInv, NEW t \in Thread, ScanStep(t)
  PROVE  /\ Quiet(t) /\ UNCHANGED <<header, call, ins>> /\ pc[t] # "idle"
         /\ pc'[t] \in UsesPC => LoadActive(t) \/ Follow(t) \/ scan'[t].idx = scan[t].idx
         /\ ~LoadActive(t) => pc[t] \in UsesPC
         /\ pc'[t] = "follow" => LoadHeader(t)
<1>1. /\ pc \in [Thread -> PC] /\ scan \in [Thread -> BaseScan] /\ scan[t] \in BaseScan
  BY DEF IInv, BaseType, BaseLocal
<1>2. UNCHANGED <<header, call, ins, xfer, active, resizeCtx, ctx>>
  BY DEF ScanStep, LoadActive, LoadHeader, Follow, MatchKeys, Probe, LoadLinks, CheckStale,
         CheckAnswer, CheckTarget, memory, arena, roots, api
<1>3. ASSUME NEW p \in {"match", "probe", "links"}, pc[t] = p, NEW rest, NEW lm, ScanOn(t, rest, lm)
      PROVE  /\ \A u \in Thread \ {t} : pc'[u] = pc[u] /\ scan'[u] = scan[u]
             /\ scan'[t].idx = scan[t].idx
             /\ pc'[t] \in CallPC \ {"follow"}
  <2>1. NotFound(t) \in CallPC \ {"follow"}
    BY DEF NotFound, CallPC, UsesPC, ScanPC, InsertPC, OwnPC
  <2> HIDE DEF NotFound
  <2> QED BY <1>1, <1>3, <2>1 DEF ScanOn, Goto, CallPC, UsesPC, ScanPC, BaseScan
<1>4. CASE MatchKeys(t)
  <2>1. pc[t] = "match" /\ \E rest, lm : ScanOn(t, rest, lm)
    BY <1>4 DEF MatchKeys
  <2> QED BY <1>2, <1>3, <2>1, <1>4 DEF Quiet, OthersSame, CallPC, UsesPC, ScanPC
<1>5. CASE LoadLinks(t)
  <2>1. pc[t] = "links" /\ \E rest, lm : ScanOn(t, rest, lm)
    BY <1>5 DEF LoadLinks
  <2> QED BY <1>2, <1>3, <2>1, <1>5 DEF Quiet, OthersSame, CallPC, UsesPC, ScanPC
<1>6. CASE Probe(t)
  <2>1. /\ pc[t] = "probe"
        /\ \/ \E rest, lm : ScanOn(t, rest, lm)
           \/ /\ Goto(t, "check")
              /\ \E i, e : scan' = [scan EXCEPT ![t] = Found(t, i, e)]
    BY <1>6 DEF Probe
  <2>2. \A i, e : Found(t, i, e).idx = scan[t].idx
    BY <1>1 DEF Found, BaseScan
  <2> QED BY <1>1, <1>2, <1>3, <2>1, <2>2, <1>6 DEF Quiet, OthersSame, CallPC, UsesPC, ScanPC, Goto
<1>7. CASE LoadActive(t) \/ LoadHeader(t) \/ Follow(t)
  BY <1>1, <1>2, <1>7 DEF LoadActive, LoadHeader, Follow, Quiet, OthersSame, CallPC, UsesPC, ScanPC,
     Goto, BaseScan
<1>8. CASE CheckStale(t)
  BY <1>1, <1>2, <1>8 DEF CheckStale, KeepSlot, Kept, Retry, FreshScan, Quiet, OthersSame, CallPC,
     UsesPC, ScanPC, InsertPC, OwnPC, Goto
<1>9. CASE CheckTarget(t)
  BY <1>1, <1>2, <1>9 DEF CheckTarget, Quiet, OthersSame, CallPC, UsesPC, ScanPC, SlotPC, Goto
<1>10. CASE CheckAnswer(t)
  <2>1. /\ pc[t] = "check"
        /\ \/ Goto(t, "unres") /\ KeepSlot(t)
           \/ Goto(t, "idle") /\ scan' = [scan EXCEPT ![t] = FreshScan(0)]
    BY <1>10 DEF CheckAnswer
  <2> QED BY <1>1, <1>2, <2>1, <1>10 DEF KeepSlot, Kept, FreshScan, Quiet, OthersSame, CallPC,
          UsesPC, ScanPC, SlotPC, InsertPC, OwnPC, Goto
<1> QED BY <1>4, <1>5, <1>6, <1>7, <1>8, <1>9, <1>10 DEF ScanStep

\* The lookup enters an index only when the earlier bins of its key are done: the
\* active index by ActiveDone, the next index because its own bin is done.
LEMMA ScanR ==
  ASSUME IInv, RInv, NEW t \in Thread, ScanStep(t) PROVE RInv'
<1>1. /\ Quiet(t) /\ UNCHANGED <<header, call, ins>> /\ pc[t] # "idle"
      /\ pc'[t] \in UsesPC => LoadActive(t) \/ Follow(t) \/ scan'[t].idx = scan[t].idx
      /\ ~LoadActive(t) => pc[t] \in UsesPC
      /\ pc'[t] = "follow" => LoadHeader(t)
  BY ScanFrame
<1>2. ins[t].cont = "idle"
  <2>1. pc[t] \notin UnresPC
    BY DEF ScanStep, LoadActive, LoadHeader, Follow, MatchKeys, Probe, LoadLinks, CheckStale,
       CheckAnswer, CheckTarget, UnresPC
  <2> QED BY <1>1, <2>1, Locals DEF InsInv
<1>3. scan \in [Thread -> BaseScan] /\ pc \in [Thread -> PC]
  BY DEF IInv, BaseType, BaseLocal
<1>4. hash(t)' = hash(t) /\ hash(t) \in Nat /\ scan[t].idx \in Gen /\ Bin(t) \in BinId
  BY <1>1, BinType DEF hash
<1>5. CASE LoadActive(t)
  <2>1. scan'[t].idx = active /\ pc'[t] = "load"
    BY <1>3, <1>5 DEF LoadActive, FreshScan, Goto
  <2>2. ASSUME NEW f \in 0..(active - 1) PROVE header[getBin(f, hash(t))].bs = BinDoneTransfer
    <3>1. f \in Gen /\ f < active
      BY ResizeWords DEF Gen
    <3> QED BY <1>4, <3>1, GetBinType, ActiveDone
  <2>3. PrivateInv(t)'
    BY <1>1, <1>2, <1>4, <2>1, <2>2 DEF PrivateInv
  <2> QED BY <1>1, <2>3, QuietStep
<1>6. CASE Follow(t)
  <2>1. scan'[t].idx = indexNext[scan[t].idx] /\ pc'[t] = "load" /\ pc[t] = "follow"
    BY <1>3, <1>6 DEF Follow, getNextIndex, FreshScan, Goto
  <2>2. scan'[t].idx = scan[t].idx + 1
    BY <1>1, <2>1, Locals DEF ScanInv, Published
  <2>3. /\ \A f \in 0..(scan[t].idx - 1) : header[getBin(f, hash(t))].bs = BinDoneTransfer
        /\ header[getBin(scan[t].idx, hash(t))].bs = BinDoneTransfer
    BY <2>1 DEF RInv, PrivateInv, UsesPC, ScanPC, Bin
  <2>4. ASSUME NEW f \in 0..scan[t].idx PROVE header[getBin(f, hash(t))].bs = BinDoneTransfer
    <3>1. f = scan[t].idx \/ f \in 0..(scan[t].idx - 1)
      BY <1>4 DEF Gen
    <3> QED BY <2>3, <3>1
  <2>5. 0..(scan'[t].idx - 1) = 0..scan[t].idx
    BY <1>4, <2>2 DEF Gen
  <2>6. PrivateInv(t)'
    BY <1>1, <1>2, <1>4, <2>1, <2>4, <2>5 DEF PrivateInv
  <2> QED BY <1>1, <2>6, QuietStep
<1>7. CASE LoadHeader(t)
  <2>1. /\ pc'[t] = "follow" => header[Bin(t)].bs = BinDoneTransfer
        /\ scan'[t].idx = scan[t].idx /\ pc[t] = "load"
    BY <1>3, <1>7 DEF LoadHeader, Goto, BaseScan
  <2> QED BY <1>1, <1>2, <2>1, StaysInBin DEF UsesPC, ScanPC
<1>8. CASE ~LoadActive(t) /\ ~Follow(t) /\ ~LoadHeader(t)
  BY <1>1, <1>2, <1>8, StaysInBin
<1> QED BY <1>5, <1>6, <1>7, <1>8

\* The steps at a found slot leave the bin states alone and stay in the bin.
LEMMA SlotR ==
  ASSUME IInv, RInv, NEW t \in Thread, SlotStep(t) PROVE RInv'
<1>1. /\ pc \in [Thread -> PC] /\ scan \in [Thread -> BaseScan] /\ scan[t] \in BaseScan
      /\ header \in [BinId -> Header]
  BY DEF IInv, BaseType, BaseLocal, BaseMemory
<1>2. pc[t] \in SlotPC /\ pc[t] \in UsesPC /\ pc[t] \in CallPC /\ pc[t] # "idle"
  BY DEF SlotStep, DWCASHit, DWCASMiss, LoopHeader, LoopKey, LoopVal, LoopCheck, LoopTTAS,
         markSlotInvalid, SlotPC, UsesPC, CallPC
<1>3. ins[t].cont = "idle" /\ Bin(t) \in BinId
  BY <1>2, Locals, BinType DEF SlotPC, UnresPC, InsInv
<1>4. UNCHANGED <<call, ins, xfer, active, resizeCtx, ctx>>
  BY DEF SlotStep, DWCASHit, DWCASMiss, LoopHeader, LoopKey, LoopVal, LoopCheck, LoopTTAS,
         markSlotInvalid, memory, arena, roots, api
<1>5. \A bin \in BinId : header'[bin].bs = header[bin].bs
  <2>1. CASE markSlotInvalid(t)
    <3>1. header' = [header EXCEPT ![Bin(t)].ss[scan[t].slot] = SlotInvalid]
      BY <2>1 DEF markSlotInvalid
    <3> QED BY <1>1, <1>3, <3>1 DEF Header
  <2>2. CASE ~markSlotInvalid(t)
    <3>1. header' = header
      BY <2>2 DEF SlotStep, DWCASHit, DWCASMiss, LoopHeader, LoopKey, LoopVal, LoopCheck, LoopTTAS,
         memory
    <3> QED BY <3>1
  <2> QED BY <2>1, <2>2
<1>6. /\ \A u \in Thread \ {t} : pc'[u] = pc[u] /\ scan'[u] = scan[u]
      /\ pc'[t] \in SlotPC \cup {"load", "idle"}
      /\ pc'[t] # "idle" => scan'[t].idx = scan[t].idx
  <2>1. Kept(t).idx = scan[t].idx /\ \A g : FreshScan(g).idx = g
    BY DEF Kept, FreshScan
  <2>2. CASE DWCASHit(t) \/ DWCASMiss(t)
    BY <1>1, <2>1, <2>2 DEF DWCASHit, DWCASMiss, KeepSlot, SlotPC, Goto
  <2>3. CASE LoopHeader(t)
    BY <1>1, <2>1, <2>3 DEF LoopHeader, Retry, SlotPC, BaseScan, Goto
  <2>4. CASE LoopKey(t) \/ LoopCheck(t) \/ LoopTTAS(t)
    BY <1>1, <2>1, <2>4 DEF LoopKey, LoopCheck, LoopTTAS, KeepSlot, Retry, SlotPC, Goto
  <2>5. CASE LoopVal(t)
    BY <1>1, <2>1, <2>5 DEF LoopVal, Retry, SlotPC, BaseScan, Goto
  <2>6. CASE markSlotInvalid(t)
    BY <1>1, <2>6 DEF markSlotInvalid, Goto
  <2> QED BY <2>2, <2>3, <2>4, <2>5, <2>6 DEF SlotStep
<1>7. Quiet(t) /\ (pc'[t] \in UsesPC => scan'[t].idx = scan[t].idx)
  BY <1>1, <1>2, <1>4, <1>5, <1>6 DEF Quiet, OthersSame, CallPC, UsesPC, ScanPC, SlotPC,
     InsertPC, OwnPC
<1>8. ins'[t].cont # "follow"
  BY <1>3, <1>4
<1>9. pc'[t] # "follow"
  BY <1>6 DEF SlotPC
<1> QED BY <1>2, <1>4, <1>7, <1>8, <1>9, StaysInBin

\* A header of the bin that is replaced by one with the same bin state.
LEMMA SameBinState ==
  ASSUME IInv, NEW t \in Thread, pc[t] # "idle", NEW h, h.bs = header[Bin(t)].bs,
         header' = [header EXCEPT ![Bin(t)] = h]
  PROVE  \A bin \in BinId : header'[bin].bs = header[bin].bs
BY BinType DEF IInv, BaseType, BaseMemory

\* Where Insert's steps lead: the header words it changes keep their bin state, and
\* it goes on to the next index only after it saw its bin done.
LEMMA InsertFrame ==
  ASSUME IInv, NEW t \in Thread, InsertStep(t)
  PROVE  /\ UNCHANGED <<call, xfer, active, resizeCtx, ctx>>
         /\ pc[t] \in InsertPC
         /\ \A bin \in BinId : header'[bin].bs = header[bin].bs
         /\ \A u \in Thread \ {t} : pc'[u] = pc[u] /\ scan'[u] = scan[u] /\ ins'[u] = ins[u]
         /\ pc'[t] \in CallPC
         /\ pc'[t] \in UsesPC => scan'[t].idx = scan[t].idx
         /\ pc'[t] = "follow" => ins[t].cont = "follow"
         /\ ins'[t].cont = "follow" => /\ scan'[t].idx = scan[t].idx
                                       /\ ins[t].cont = "follow" \/ header[Bin(t)].bs = BinDoneTransfer
<1>1. /\ pc \in [Thread -> PC] /\ scan \in [Thread -> BaseScan] /\ scan[t] \in BaseScan
      /\ ins \in [Thread -> InsRec] /\ ins[t] \in InsRec
      /\ header \in [BinId -> Header]
  BY DEF IInv, BaseType, BaseLocal, BaseMemory
<1>2. pc[t] \in InsertPC /\ pc[t] # "idle"
  BY DEF InsertStep, ChooseHeader, ChooseLinks, allocateLink, allocateLinkPair, attachSingle, attachPair,
         reserveSlot, FillKey, FillVal, finalizeSlot, LoadHeader2, UnreserveLoad, UnreserveClear,
         UnreserveCAS, InsertPC, OwnPC
<1>3. UNCHANGED <<call, xfer, active, resizeCtx, ctx>>
  BY DEF InsertStep, ChooseHeader, ChooseLinks, allocateLink, allocateLinkPair, attachSingle, attachPair,
         Allocate, reserveSlot, FillKey, FillVal, finalizeSlot, LoadHeader2, UnreserveLoad,
         UnreserveClear, UnreserveCAS, memory, arena, roots, api
<1>4. /\ Kept(t).idx = scan[t].idx /\ \A g : FreshScan(g).idx = g
      /\ FreshIns.cont = "idle" /\ ins[t].cont \in {"idle", "load", "follow", "active"}
  BY <1>1 DEF Kept, FreshScan, FreshIns, InsRec
<1>5. pc[t] \notin UnresPC => ins[t].cont = "idle"
  BY <1>2, Locals DEF InsInv
<1> DEFINE Same == \A bin \in BinId : header'[bin].bs = header[bin].bs
           \* t goes on in P with its index, or forgets it, and may go to C later
           To(P, C) == /\ \A u \in Thread \ {t} : pc'[u] = pc[u] /\ scan'[u] = scan[u] /\ ins'[u] = ins[u]
                       /\ pc'[t] \in P
                       /\ scan'[t].idx = scan[t].idx \/ pc'[t] \in {"idle", "trigger"}
                       /\ ins'[t].cont \in C
           Out == /\ \A u \in Thread \ {t} : pc'[u] = pc[u] /\ scan'[u] = scan[u] /\ ins'[u] = ins[u]
                  /\ pc'[t] \in CallPC
                  /\ pc'[t] \in UsesPC => scan'[t].idx = scan[t].idx
                  /\ pc'[t] = "follow" => ins[t].cont = "follow"
                  /\ ins'[t].cont = "follow" =>
                       /\ scan'[t].idx = scan[t].idx
                       /\ ins[t].cont = "follow" \/ header[Bin(t)].bs = BinDoneTransfer
<1>6. /\ InsertPC \cup {"idle", "trigger", "load", "active", "match", "follow"} \subseteq CallPC
      /\ {"idle", "trigger"} \cap UsesPC = {} /\ "follow" \notin InsertPC
      /\ OwnPC \subseteq InsertPC /\ UnresPC \subseteq OwnPC
  BY DEF CallPC, UsesPC, ScanPC, SlotPC, InsertPC, OwnPC, UnresPC
<1>7. ASSUME NEW P, P \subseteq CallPC, "follow" \notin P, To(P, {"idle"}) PROVE Out
  BY <1>6, <1>7
<1> SUFFICES Same /\ Out
  BY <1>2, <1>3
<1>8. CASE ChooseHeader(t) \/ ChooseLinks(t)
  <2>1. pc[t] \notin UnresPC /\ header' = header
    BY <1>8 DEF ChooseHeader, ChooseLinks, UnresPC, memory
  <2>2. To(InsertPC \cup {"trigger"}, {"idle"})
    <3>1. CASE ChooseHeader(t)
      BY <1>1, <1>5, <2>1, <3>1 DEF ChooseHeader, Goto, InsertPC, InsRec
    <3>2. CASE ChooseLinks(t)
      BY <1>1, <1>4, <1>5, <2>1, <3>2 DEF ChooseLinks, NoRoom, Goto, InsertPC, InsRec
    <3> QED BY <1>8, <3>1, <3>2
  <2> HIDE DEF To
  <2> QED BY <1>6, <1>7, <2>1, <2>2
<1>9. CASE allocateLink(t) \/ allocateLinkPair(t)
  <2>1. pc[t] \notin UnresPC /\ header' = header
    BY <1>9 DEF allocateLink, allocateLinkPair, Allocate, UnresPC, memory
  <2>2. To(InsertPC \cup {"trigger"}, {"idle"})
    BY <1>1, <1>4, <1>5, <1>9, <2>1 DEF allocateLink, allocateLinkPair, Allocate, NoRoom, Goto, InsertPC,
       InsRec
  <2> HIDE DEF To
  <2> QED BY <1>6, <1>7, <2>1, <2>2
<1>10. CASE attachSingle(t) \/ attachPair(t)
  <2>1. header' = header
    BY <1>10 DEF attachSingle, attachPair
  <2>2. To(InsertPC, {"idle"})
    BY <1>1, <1>4, <1>10 DEF attachSingle, attachPair, Goto, InsertPC, FreshIns
  <2> HIDE DEF To
  <2> QED BY <1>6, <1>7, <2>1, <2>2
<1>11. CASE reserveSlot(t)
  <2>1. To(InsertPC \cup {"load"}, {"idle"})
    BY <1>1, <1>4, <1>11 DEF reserveSlot, Retry, Goto, InsertPC, OwnPC, FreshIns, BaseScan
  <2>2. Same
    <3>1. \A i : setSlotStateAndVersion(scan[t].h, i, SlotTrying).bs = scan[t].h.bs
      BY DEF setSlotStateAndVersion
    <3> QED BY <1>2, <1>11, <3>1, SameBinState DEF reserveSlot, Validated
  <2> HIDE DEF To
  <2> QED BY <1>6, <1>7, <2>1, <2>2
<1>12. CASE FillKey(t) \/ FillVal(t) \/ LoadHeader2(t)
  <2>1. pc[t] \notin UnresPC /\ header' = header
    BY <1>12 DEF FillKey, FillVal, LoadHeader2, UnresPC, memory
  <2>2. CASE FillKey(t) \/ FillVal(t)
    <3>1. To(OwnPC, {"idle", "load"})
      BY <1>1, <1>5, <2>1, <2>2 DEF FillKey, FillVal, Goto, OwnPC, InsRec
    <3> QED BY <1>6, <2>1, <3>1
  <2>3. CASE LoadHeader2(t)
    <3>1. To(OwnPC \cup {"match"}, {"idle", "follow", "active"})
      <4>1. pc'[t] \in OwnPC \cup {"match"} /\ \A u \in Thread \ {t} : pc'[u] = pc[u]
        BY <1>1, <2>3 DEF LoadHeader2, Goto, OwnPC
      <4>2. scan'[t].idx = scan[t].idx /\ \A u \in Thread \ {t} : scan'[u] = scan[u]
        BY <1>1, <2>3 DEF LoadHeader2, BaseScan
      <4>3. /\ ins'[t].cont \in {"idle", "follow", "active"}
            /\ \A u \in Thread \ {t} : ins'[u] = ins[u]
        BY <1>1, <1>5, <2>1, <2>3 DEF LoadHeader2, InsRec
      <4> QED BY <4>1, <4>2, <4>3
    <3>2. ins'[t].cont = "follow" => header[Bin(t)].bs = BinDoneTransfer /\ scan'[t].idx = scan[t].idx
      BY <1>1, <1>5, <2>1, <2>3 DEF LoadHeader2, InsRec
    <3>3. "follow" \notin OwnPC \cup {"match"} /\ "idle" \notin OwnPC /\ "trigger" \notin OwnPC
      BY DEF OwnPC
    <3> QED BY <1>6, <2>1, <3>1, <3>2, <3>3
  <2> QED BY <1>12, <2>2, <2>3
<1>13. CASE finalizeSlot(t)
  <2>1. To({"idle", "load2"}, {"idle"})
    BY <1>1, <1>4, <1>5, <1>13 DEF finalizeSlot, KeepSlot, Goto, UnresPC
  <2>2. Same
    <3>1. \A i : setSlotStateAndVersion(scan[t].h, i, SlotValid).bs = scan[t].h.bs
      BY DEF setSlotStateAndVersion
    <3>2. CASE header' = header
      BY <3>2
    <3>3. CASE header' # header
      <4>1. /\ Validated(t)
            /\ header' = [header EXCEPT ![Bin(t)] = setSlotStateAndVersion(scan[t].h, scan[t].slot, SlotValid)]
        BY <1>13, <3>3 DEF finalizeSlot, memory
      <4> QED BY <1>2, <3>1, <4>1, SameBinState DEF Validated
    <3> QED BY <3>2, <3>3
  <2>3. {"idle", "load2"} \subseteq CallPC
    BY <1>6 DEF OwnPC
  <2> HIDE DEF To
  <2> QED BY <1>7, <2>1, <2>2, <2>3
<1>14. CASE UnreserveLoad(t) \/ UnreserveClear(t) \/ UnreserveCAS(t)
  <2>1. Same
    <3>1. \A i : setSlotStateAndVersion(ins[t].h, i, SlotInvalid).bs = ins[t].h.bs
      BY DEF setSlotStateAndVersion
    <3>2. CASE UnreserveCAS(t)
      BY <1>2, <3>1, <3>2, SameBinState DEF UnreserveCAS
    <3>3. CASE ~UnreserveCAS(t)
      BY <1>14, <3>3 DEF UnreserveLoad, UnreserveClear, memory
    <3> QED BY <3>2, <3>3
  <2>2. /\ \A u \in Thread \ {t} : pc'[u] = pc[u] /\ scan'[u] = scan[u] /\ ins'[u] = ins[u]
        /\ pc'[t] \in UnresPC \cup {ins[t].cont}
        /\ scan'[t].idx = scan[t].idx \/ (pc'[t] = "idle" /\ ins'[t].cont = "idle")
        /\ ins'[t].cont = ins[t].cont \/ ins'[t].cont = "idle"
    <3>4. ASSUME Unreserved(t)
          PROVE  /\ \A u \in Thread \ {t} : pc'[u] = pc[u] /\ scan'[u] = scan[u] /\ ins'[u] = ins[u]
                 /\ pc'[t] = ins[t].cont /\ ins'[t].cont = "idle"
                 /\ scan'[t].idx = scan[t].idx \/ pc'[t] = "idle"
      <4>1. FreshScan(IF ins[t].cont = "idle" THEN 0 ELSE scan[t].idx).idx = scan[t].idx \/ ins[t].cont = "idle"
        BY <1>4
      <4> HIDE DEF FreshScan
      <4> QED BY <1>1, <1>4, <3>4, <4>1 DEF Unreserved, Goto
    <3>5. ASSUME NEW p \in UnresPC, Goto(t, p), UNCHANGED scan, NEW h, ins' = [ins EXCEPT ![t].h = h]
          PROVE  /\ \A u \in Thread \ {t} : pc'[u] = pc[u] /\ scan'[u] = scan[u] /\ ins'[u] = ins[u]
                 /\ pc'[t] \in UnresPC /\ ins'[t].cont = ins[t].cont /\ scan'[t].idx = scan[t].idx
      BY <1>1, <3>5 DEF Goto, InsRec
    <3>1. CASE UnreserveLoad(t)
      <4>1. \/ Unreserved(t)
            \/ /\ Goto(t, "unresClear") /\ UNCHANGED scan
               /\ ins' = [ins EXCEPT ![t].h = header[Bin(t)]]
        BY <3>1 DEF UnreserveLoad
      <4>2. "unresClear" \in UnresPC
        BY DEF UnresPC
      <4> QED BY <3>4, <3>5, <4>1, <4>2
    <3>2. CASE UnreserveClear(t)
      BY <1>1, <3>2 DEF UnreserveClear, Goto, UnresPC
    <3>3. CASE UnreserveCAS(t)
      <4>1. \/ Unreserved(t)
            \/ /\ Goto(t, "unres") /\ UNCHANGED scan
               /\ ins' = [ins EXCEPT ![t].h = ZeroHeader]
        BY <3>3 DEF UnreserveCAS
      <4>2. "unres" \in UnresPC
        BY DEF UnresPC
      <4> QED BY <3>4, <3>5, <4>1, <4>2
    <3> QED BY <1>14, <3>1, <3>2, <3>3
  <2>3. "follow" \notin UnresPC
    BY DEF UnresPC
  <2>4. Out
    BY <1>4, <1>6, <2>2, <2>3
  <2> QED BY <2>1, <2>4
<1> HIDE DEF Same, Out
<1> QED BY <1>8, <1>9, <1>10, <1>11, <1>12, <1>13, <1>14 DEF InsertStep

\* The steps of Insert in its bin.
LEMMA InsertR ==
  ASSUME IInv, RInv, NEW t \in Thread, InsertStep(t) PROVE RInv'
<1>1. pc[t] # "idle" /\ pc[t] \in UsesPC /\ pc[t] \in CallPC /\ pc[t] # "follow"
  BY InsertFrame DEF InsertPC, OwnPC, UsesPC, CallPC
<1>2. Quiet(t)
  BY <1>1, InsertFrame DEF Quiet, OthersSame
<1>3. ins[t].cont = "follow" => header[Bin(t)].bs = BinDoneTransfer
  BY DEF RInv, PrivateInv
<1>4. pc'[t] = "follow" => pc'[t] \in UsesPC
  BY DEF UsesPC, ScanPC
<1> QED BY <1>1, <1>2, <1>3, <1>4, InsertFrame, StaysInBin

-----------------------------------------------------------------------------
(* The steps of the resize.                                                *)

\* A step of the resize moves one thread and leaves the calls alone.
LEMMA ResizeFrame ==
  ASSUME IInv, NEW t \in Thread, ResizeStep(t)
  PROVE  /\ OthersSame(t) /\ UNCHANGED <<call, scan, ins>>
         /\ pc[t] \in ResizePC /\ pc[t] # "idle"
         /\ pc'[t] \in ResizePC \cup {"active"}
         /\ ins[t].cont = "idle"
<1>1. pc \in [Thread -> PC] /\ xfer \in [Thread -> XferRec]
  BY DEF IInv, BaseType, BaseLocal
<1>2. UNCHANGED <<call, scan, ins>>
  BY DEF ResizeStep, TriggerResize, PublishNext, SetResizeContext, HelpResize, HelpActive, ClaimChunk,
         TransferBin, TransferLinks, StoreSentinel, MoveEntry, FinishBin, ChunkDone, FinishCapacity,
         FinishActive, FinishInactive, FinishCtx, api
<1>3. /\ \A u \in Thread \ {t} : pc'[u] = pc[u] /\ xfer'[u] = xfer[u]
      /\ pc[t] \in ResizePC /\ pc'[t] \in ResizePC \cup {"active"}
  <2>1. CASE TriggerResize(t) \/ PublishNext(t) \/ SetResizeContext(t) \/ HelpResize(t) \/ HelpActive(t)
    BY <1>1, <2>1 DEF TriggerResize, PublishNext, SetResizeContext, HelpResize, HelpActive, Goto,
       ResizePC, ContextPC
  <2>2. CASE ClaimChunk(t) \/ TransferBin(t) \/ TransferLinks(t) \/ StoreSentinel(t)
    BY <1>1, <2>2 DEF ClaimChunk, TransferBin, TransferLinks, StoreSentinel, Goto,
       ResizePC, ContextPC, TransferPC
  <2>3. CASE MoveEntry(t)
    <3>1. /\ pc[t] = "move" /\ \E p \in {"sentinel", "xlinks", "xdone"} : Goto(t, p)
          /\ \E a, b : xfer' = [xfer EXCEPT ![t].todo = a, ![t].key = b]
      BY <2>3 DEF MoveEntry
    <3> QED BY <1>1, <3>1 DEF Goto, ResizePC, ContextPC, TransferPC
  <2>4. CASE FinishBin(t) \/ ChunkDone(t)
    BY <1>1, <2>4 DEF FinishBin, ChunkDone, Goto, ResizePC, ContextPC, TransferPC
  <2>5. CASE FinishCapacity(t) \/ FinishActive(t) \/ FinishInactive(t) \/ FinishCtx(t)
    BY <1>1, <2>5 DEF FinishCapacity, FinishActive, FinishInactive, FinishCtx, Goto, ResizePC, ContextPC
  <2> QED BY <2>1, <2>2, <2>3, <2>4, <2>5 DEF ResizeStep
<1>4. pc[t] \notin UnresPC /\ pc[t] # "idle"
  BY <1>3 DEF ResizePC, ContextPC, TransferPC, UnresPC
<1>5. ins[t].cont = "idle"
  BY <1>4, Locals DEF InsInv
<1> QED BY <1>2, <1>3, <1>4, <1>5 DEF OthersSame

\* A thread in a resize looks at no bin of a key, and the others' bins stay done.
LEMMA ResizeR ==
  ASSUME IInv, RInv, NEW t \in Thread, ResizeStep(t), DoneStays, RolesInv', MoversInv'
  PROVE  RInv'
<1>1. pc'[t] \notin UsesPC
  BY ResizeFrame DEF UsesPC, ScanPC, SlotPC, InsertPC, OwnPC, ResizePC, ContextPC, TransferPC
<1>2. pc'[t] # "follow" /\ ins'[t].cont # "follow"
  BY <1>1, ResizeFrame DEF UsesPC, ScanPC
<1>3. PrivateInv(t)'
  BY <1>1, <1>2 DEF PrivateInv
<1>4. \A u \in Thread : PrivateInv(u)'
  BY <1>3, ResizeFrame, SamePrivate DEF RInv
<1> QED BY <1>4 DEF RInv

\* What a thread in a resize knows of it.
LEMMA AtResize ==
  ASSUME IInv, RInv, NEW t \in Thread, pc[t] \in ContextPC
  PROVE  /\ xfer[t].gen \in 0..(MaxGen - 1) /\ xfer[t].gen \in Gen /\ xfer[t].gen \in Nat
         /\ pc[t] # "setCtx" => Started(xfer[t].gen)
         /\ RoleInv(t) /\ ChunksInv(xfer[t].gen) /\ xfer[t] \in XferRec
<1>1. pc[t] # "idle"
  BY DEF ContextPC, TransferPC
<1>2. xfer[t].gen \in 0..(MaxGen - 1)
  BY <1>1, Locals DEF XferInv, Published
<1>3. RoleInv(t) /\ ChunksInv(xfer[t].gen)
  BY <1>2 DEF RInv, RolesInv, MoversInv
<1> QED BY <1>2, <1>3, CtxType, Locals DEF RoleInv

\* Steps that leave the words of the resize and the headers alone, outside or
\* inside a transfer.
LEMMA PlainResizeStep ==
  ASSUME IInv, RInv, NEW t \in Thread, ResizeStep(t), UNCHANGED <<active, resizeCtx>>,
         \A g \in Gen : /\ ctx'[g].chunkClaimed = ctx[g].chunkClaimed
                        /\ ctx'[g].chunksDone = ctx[g].chunksDone,
         \A bin \in BinId : header'[bin].bs = header[bin].bs,
         SameMoves(t), pc'[t] \notin InstallPC \cup FinishPC,
         pc'[t] \in ContextPC => Started(xfer'[t].gen)
  PROVE  RInv'
<1>1. DoneStays
  BY DEF DoneStays
<1>2. OthersSame(t)
  BY ResizeFrame
<1>3. RolesInv'
  BY <1>2, SameRoles DEF RInv
<1>4. MoversInv'
  <2>1. \A g \in Gen : Started(g)' <=> Started(g)
    BY DEF Started
  <2>2. \A g \in 0..(MaxGen - 1) : g \in Gen
    BY CtxType
  <2> QED BY <1>2, <2>1, <2>2, SameMovers DEF RInv
<1> QED BY <1>1, <1>3, <1>4, ResizeR

\* helpResize: a thread helps with a resize that has begun, or finds it over.
LEMMA HelpR ==
  ASSUME IInv, RInv, NEW t \in Thread, HelpResize(t) \/ HelpActive(t) PROVE RInv'
<1>1. pc \in [Thread -> PC] /\ xfer \in [Thread -> XferRec] /\ ResizeStep(t)
  BY DEF IInv, BaseType, BaseLocal, ResizeStep
<1>2. UNCHANGED <<active, resizeCtx, ctx, header>>
  BY DEF HelpResize, HelpActive, memory, roots
<1>3. pc[t] \notin HoldPC /\ pc'[t] \in {"active", "help", "helpActive", "claim"}
  BY <1>1 DEF HelpResize, HelpActive, Goto, HoldPC, TransferPC
<1>4. SameMoves(t) /\ pc'[t] \notin InstallPC \cup FinishPC
  BY <1>3 DEF SameMoves, HoldPC, TransferPC, InstallPC, FinishPC
<1>5. pc'[t] \in ContextPC => Started(xfer'[t].gen)
  <2>1. CASE HelpResize(t)
    <3>1. pc'[t] \in ContextPC => xfer' = [xfer EXCEPT ![t].gen = resizeCtx]
      BY <1>1, <2>1 DEF HelpResize, Goto, ContextPC, TransferPC
    <3> QED BY <1>1, <3>1 DEF Started, XferRec
  <2>2. CASE HelpActive(t)
    <3>1. pc[t] = "helpActive" /\ (pc'[t] \in ContextPC => xfer' = xfer)
      BY <1>1, <2>2 DEF HelpActive, Goto, ContextPC, TransferPC
    <3>2. Started(xfer[t].gen)
      BY <3>1, AtResize DEF ContextPC
    <3> QED BY <3>1, <3>2
  <2> QED BY <2>1, <2>2
<1> QED BY <1>1, <1>2, <1>4, <1>5, PlainResizeStep

\* Moving entries changes neither bin states nor the words of the resize.
LEMMA MoveR ==
  ASSUME IInv, RInv, NEW t \in Thread, TransferLinks(t) \/ StoreSentinel(t) \/ MoveEntry(t) PROVE RInv'
<1>1. /\ pc \in [Thread -> PC] /\ xfer \in [Thread -> XferRec] /\ xfer[t] \in XferRec /\ ResizeStep(t)
      /\ header \in [BinId -> Header] /\ ctx \in [Gen -> CtxRec]
  BY DEF IInv, BaseType, BaseLocal, BaseMemory, RootType, ResizeStep
<1>2. pc[t] \in TransferPC \ {"or"} /\ pc[t] \in ContextPC
  BY DEF TransferLinks, StoreSentinel, MoveEntry, TransferPC, ContextPC
<1>3. UNCHANGED <<active, resizeCtx>>
  BY DEF TransferLinks, StoreSentinel, MoveEntry, roots
<1>4. /\ pc'[t] \in TransferPC \ {"or"} /\ xfer'[t].gen = xfer[t].gen /\ xfer'[t].bin = xfer[t].bin
  <2>1. CASE TransferLinks(t) \/ StoreSentinel(t)
    BY <1>1, <2>1 DEF TransferLinks, StoreSentinel, Goto, TransferPC, XferRec
  <2>2. CASE MoveEntry(t)
    <3>1. /\ pc[t] = "move" /\ \E p \in {"sentinel", "xlinks", "xdone"} : Goto(t, p)
          /\ \E a, b : xfer' = [xfer EXCEPT ![t].todo = a, ![t].key = b]
      BY <2>2 DEF MoveEntry
    <3> QED BY <1>1, <3>1 DEF Goto, TransferPC, XferRec
  <2> QED BY <2>1, <2>2
<1>5. /\ \A bin \in BinId : header'[bin].bs = header[bin].bs
      /\ \A g \in Gen : /\ ctx'[g].chunkClaimed = ctx[g].chunkClaimed
                        /\ ctx'[g].chunksDone = ctx[g].chunksDone
  <2>1. CASE UNCHANGED <<header, ctx>>
    BY <2>1
  <2>2. CASE ~UNCHANGED <<header, ctx>>
    <3>1. MoveEntry(t)
      BY <2>2 DEF TransferLinks, StoreSentinel, memory, roots
    <3> DEFINE new == getBin(xfer[t].gen + 1, xfer[t].key)
               free == findFreeSlotOrChain(xfer[t].gen, new)
               i == free.slot
               n == free.next
    <3>2. /\ header' = [header EXCEPT ![new] = setSlotStateAndVersion(@, i, SlotValid)]
          /\ ctx' = [ctx EXCEPT ![xfer[t].gen].linkNextResize = n]
      BY <2>2, <3>1 DEF MoveEntry, memory
    <3> HIDE DEF new, i, n
    <3>3. \A h : setSlotStateAndVersion(h, i, SlotValid).bs = h.bs
      BY DEF setSlotStateAndVersion
    <3>4. \A bin \in BinId : header'[bin].bs = header[bin].bs
      BY <1>1, <3>2, <3>3
    <3>5. \A g \in Gen : /\ ctx'[g].chunkClaimed = ctx[g].chunkClaimed
                         /\ ctx'[g].chunksDone = ctx[g].chunksDone
      BY <1>1, <3>2 DEF CtxRec
    <3> QED BY <3>4, <3>5
  <2> QED BY <2>1, <2>2
<1>6. pc'[t] \notin InstallPC \cup FinishPC
  BY <1>4 DEF TransferPC, InstallPC, FinishPC
<1>7. Started(xfer'[t].gen)
  BY <1>2, <1>4, AtResize DEF TransferPC
<1>8. SameMoves(t)
  BY <1>2, <1>4 DEF SameMoves
<1> QED BY <1>1, <1>3, <1>5, <1>6, <1>7, <1>8, PlainResizeStep

\* Others keep their roles when the resize they take part in has still begun, the
\* active index, the installed context and the count of chunks being what their
\* role needs.
LEMMA OtherRoles ==
  ASSUME IInv, RInv, NEW t \in Thread, OthersSame(t),
         \A g \in Gen : Started(g) => Started(g)',
         \A u \in Thread \ {t} : /\ pc[u] \in InstallPC => UNCHANGED <<active, resizeCtx>>
                                 /\ pc[u] \notin FinishPC,
         RoleInv(t)',
         pc'[t] \in InstallPC => \A u \in Thread \ {t} : pc[u] \notin InstallPC,
         resizeCtx' \in Gen => active' \in {resizeCtx', resizeCtx' + 1}
  PROVE  RolesInv'
<1>1. \A u \in Thread \ {t} : pc'[u] = pc[u] /\ xfer'[u] = xfer[u]
  BY DEF OthersSame
<1>2. ASSUME NEW u \in Thread \ {t} PROVE RoleInv(u)'
  <2>1. RoleInv(u) /\ pc'[u] = pc[u] /\ xfer'[u] = xfer[u] /\ pc[u] \notin FinishPC
    BY <1>1 DEF RInv, RolesInv
  <2>2. pc[u] \in ContextPC => xfer[u].gen \in Gen
    BY AtResize
  <2>3. pc[u] \in InstallPC => active' = active /\ resizeCtx' = resizeCtx
    OBVIOUS
  <2>4. pc[u] \in ContextPC \ {"setCtx"} => Started(xfer[u].gen)'
    BY <2>1, <2>2 DEF RoleInv
  <2> QED BY <2>1, <2>3, <2>4 DEF RoleInv, InstallPC, FinishPC, Started
<1>3. \A u, v \in Thread : pc'[u] \in InstallPC /\ pc'[v] \in InstallPC => u = v
  BY <1>1 DEF RInv, RolesInv
<1>4. \A u, v \in Thread : pc'[u] \in FinishPC /\ pc'[v] \in FinishPC => u = v
  BY <1>1
<1> QED BY <1>2, <1>3, <1>4 DEF RolesInv

\* Nobody finishes a resize while none is installed, or while chunks are missing.
LEMMA NoFinisher ==
  ASSUME IInv, RInv, NEW u \in Thread,
         \/ resizeCtx \notin Gen
         \/ ctx[resizeCtx].chunksDone # NumChunks(resizeCtx)
  PROVE  pc[u] \notin FinishPC
<1>1. pc[u] \in FinishPC => pc[u] \in ContextPC
  BY DEF FinishPC, ContextPC
<1> QED BY <1>1, AtResize DEF RoleInv

\* The placeholder is installed by one thread, when no context is.
LEMMA TriggerR ==
  ASSUME IInv, RInv, NEW t \in Thread, TriggerResize(t) PROVE RInv'
<1>1. pc \in [Thread -> PC] /\ ResizeStep(t) /\ OthersSame(t)
  BY ResizeFrame DEF IInv, BaseType, BaseLocal, ResizeStep
<1>2. UNCHANGED <<active, ctx, header>>
  BY DEF TriggerResize, memory
<1>3. CASE resizeCtx = NoCtx
  <2>1. resizeCtx' = ReservedCtx /\ pc'[t] = "publish" /\ pc[t] = "trigger"
    BY <1>1, <1>3 DEF TriggerResize, Goto
  <2>2. \A u \in Thread : pc[u] \notin FinishPC /\ pc[u] \notin InstallPC
    <3>1. \A u \in Thread : pc[u] \notin FinishPC
      BY <1>3, NoFinisher, ResizeWords
    <3>2. ReservedCtx # NoCtx
      BY DEF ReservedCtx, NoCtx
    <3> QED BY <1>3, <3>1, <3>2 DEF RInv, RolesInv, RoleInv
  <2>3. \A g \in Gen : Started(g)' <=> Started(g)
    BY <1>2, <1>3, <2>1, ResizeWords DEF Started
  <2>4. RoleInv(t)'
    BY <2>1 DEF RoleInv, ContextPC, TransferPC, FinishPC
  <2>5. RolesInv'
    BY <1>1, <2>1, <2>2, <2>3, <2>4, OtherRoles, ResizeWords
  <2>6. SameMoves(t)
    BY <2>1 DEF SameMoves, HoldPC, TransferPC
  <2>7. MoversInv'
    BY <1>1, <1>2, <2>3, <2>6, SameMovers DEF RInv
  <2> QED BY <1>1, <1>2, <2>5, <2>7, ResizeR DEF DoneStays
<1>4. CASE resizeCtx # NoCtx
  <2>1. pc[t] = "trigger" /\ pc'[t] = "help" /\ resizeCtx' = resizeCtx
    BY <1>1, <1>4 DEF TriggerResize, Goto
  <2>2. SameMoves(t) /\ pc'[t] \notin InstallPC \cup FinishPC \cup ContextPC
    BY <2>1 DEF SameMoves, HoldPC, TransferPC, InstallPC, FinishPC, ContextPC
  <2> QED BY <1>1, <1>2, <2>1, <2>2, PlainResizeStep
<1> QED BY <1>3, <1>4

\* The thread that installed the placeholder publishes the next index.
LEMMA PublishR ==
  ASSUME IInv, RInv, NEW t \in Thread, PublishNext(t) PROVE RInv'
<1>1. pc \in [Thread -> PC] /\ xfer \in [Thread -> XferRec] /\ ResizeStep(t) /\ OthersSame(t)
  BY ResizeFrame DEF IInv, BaseType, BaseLocal, ResizeStep
<1>2. UNCHANGED <<active, resizeCtx, ctx, header>>
  BY DEF PublishNext, memory
<1>3. pc[t] = "publish" /\ pc'[t] = "setCtx" /\ xfer'[t].gen = active
  BY <1>1 DEF PublishNext, Goto, XferRec
<1>4. resizeCtx = ReservedCtx
  BY <1>3 DEF RInv, RolesInv, RoleInv, InstallPC
<1>5. RoleInv(t)'
  BY <1>2, <1>3, <1>4 DEF RoleInv, InstallPC, FinishPC
<1>6. \A u \in Thread \ {t} : pc[u] \notin FinishPC /\ pc[u] \notin InstallPC
  <2>1. pc[t] \in InstallPC
    BY <1>3 DEF InstallPC
  <2> QED BY <1>4, <2>1, NoFinisher, ResizeWords DEF RInv, RolesInv
<1>7. \A g \in Gen : Started(g)' <=> Started(g)
  BY <1>2 DEF Started
<1>8. RolesInv'
  <2>1. resizeCtx' \notin Gen
    BY <1>2, <1>4, ResizeWords
  <2> QED BY <1>1, <1>5, <1>6, <1>7, <2>1, OtherRoles
<1>9. SameMoves(t)
  BY <1>3 DEF SameMoves, HoldPC, TransferPC
<1>10. MoversInv'
  BY <1>1, <1>2, <1>7, <1>9, SameMovers DEF RInv
<1> QED BY <1>1, <1>2, <1>8, <1>10, ResizeR DEF DoneStays

\* The resize begins: no chunk is claimed, no bin is marked.
LEMMA SetContextR ==
  ASSUME IInv, RInv, NEW t \in Thread, SetResizeContext(t) PROVE RInv'
<1> DEFINE g == xfer[t].gen
<1>1. pc \in [Thread -> PC] /\ ResizeStep(t) /\ OthersSame(t)
  BY ResizeFrame DEF IInv, BaseType, BaseLocal, ResizeStep
<1>2. /\ UNCHANGED <<active, header, xfer>> /\ resizeCtx' = g
      /\ ctx' = [ctx EXCEPT ![g] = FreshCtx(g)]
      /\ pc[t] = "setCtx" /\ pc'[t] = "claim"
  BY <1>1 DEF SetResizeContext, memory, Goto
<1>3. /\ g = active /\ resizeCtx = ReservedCtx /\ g \in Gen /\ g \in Nat /\ g \in 0..(MaxGen - 1)
  BY <1>2, AtResize DEF RoleInv, InstallPC, ContextPC
<1>4. ~Started(g)
  BY <1>3, ResizeWords DEF Started
<1> HIDE DEF g
<1>5. \A u \in Thread : pc[u] \in ContextPC \ {"setCtx"} => xfer[u].gen # g
  BY <1>4 DEF RInv, RolesInv, RoleInv
<1>6. \A u \in Thread : pc[u] \in HoldPC => pc[u] \in ContextPC \ {"setCtx"}
  BY DEF HoldPC, ContextPC, TransferPC
<1>7. \A u \in Thread \ {t} : pc[u] \notin FinishPC /\ pc[u] \notin InstallPC
  <2>1. pc[t] \in InstallPC
    BY <1>2 DEF InstallPC
  <2> QED BY <1>3, <2>1, NoFinisher, ResizeWords DEF RInv, RolesInv
<1>8. \A f \in Gen : f # g => (Started(f)' <=> Started(f))
  BY <1>2, <1>3, ResizeWords DEF Started
<1>9. RolesInv'
  <2>1. RoleInv(t)'
    BY <1>2 DEF RoleInv, InstallPC, FinishPC, Started, g
  <2>2. pc'[t] \notin InstallPC
    BY <1>2 DEF InstallPC
  <2>3. \A f \in Gen : Started(f) => Started(f)'
    BY <1>4, <1>8
  <2> QED BY <1>1, <1>2, <1>3, <1>7, <2>1, <2>2, <2>3, OtherRoles
<1>10. \A u \in Thread : /\ pc'[u] \in HoldPC <=> pc[u] \in HoldPC
                         /\ pc'[u] \in TransferPC <=> pc[u] \in TransferPC
                         /\ pc'[u] \in TransferPC => pc'[u] = pc[u]
  BY <1>1, <1>2 DEF OthersSame, HoldPC, TransferPC
<1>11. ctx \in [Gen -> CtxRec] /\ \A f \in Gen : f # g => ctx'[f] = ctx[f]
  BY <1>2, ResizeWords
<1>12. ASSUME NEW f \in 0..(MaxGen - 1) PROVE ChunksInv(f)'
  <2>1. f \in Gen /\ ChunksInv(f) /\ NumChunks(f) \in Int
    BY CtxType DEF RInv, MoversInv
  <2>2. CASE f = g
    <3>1. Holders(f)' = {}
      BY <1>2, <1>5, <1>6, <1>10, <2>2 DEF Holders
    <3>2. ctx'[f].chunkClaimed = 0 /\ ctx'[f].chunksDone = 0
      BY <1>2, <1>3, <1>11, <2>2 DEF FreshCtx
    <3>3. 0 <= NumChunks(f)
      <4>1. NumBins[f] \in Nat \ {0}
        BY <2>1, SizeAssumption
      <4> QED BY <2>1, <4>1, Chunks
    <3>4. IsFiniteSet(Holders(f)') /\ Cardinality(Holders(f)') = 0
      BY <3>1, FS_EmptySet
    <3>5. ~(f < active')
      BY <1>2, <1>3, <2>2
    <3> QED BY <3>2, <3>3, <3>4, <3>5 DEF ChunksInv
  <2>3. CASE f # g
    <3>1. Holders(f)' = Holders(f)
      BY <1>2, <1>10 DEF Holders
    <3> QED BY <1>2, <1>8, <1>11, <2>1, <2>3, <3>1 DEF ChunksInv
  <2> QED BY <2>2, <2>3
<1>13. ASSUME NEW bin \in BinId PROVE ProgressInv(bin)'
  <2> DEFINE f == bin[1]
             c == chunkOf(bin[2])
  <2>1. f \in Gen /\ bin[2] \in Nat /\ bin[2] < NumBins[f]
    BY BinIdGen, SizeAssumption
  <2>2. c \in Nat /\ ProgressInv(bin)
    BY <2>1, Chunks DEF RInv, MoversInv
  <2>3. \A u \in Thread : /\ Moves(u, f, c)' <=> Moves(u, f, c)
                          /\ Moves(u, f, c) => MoverState(u, bin[2])' = MoverState(u, bin[2])
    <3> HIDE DEF f, c
    <3> QED BY <1>2, <1>10 DEF Moves, MoverState
  <2>4. CASE f = g
    <3>1. header[bin].bs = BinNoTransfer /\ \A u \in Thread : ~Moves(u, f, c)
      BY <1>4, <2>2, <2>4 DEF ProgressInv
    <3>2. ~(c < ctx'[f].chunkClaimed)
      <4>1. ctx'[f].chunkClaimed = 0
        BY <1>2, <1>3, <1>11, <2>4 DEF FreshCtx
      <4> HIDE DEF c
      <4> QED BY <2>2, <4>1
    <3> QED BY <1>2, <2>3, <3>1, <3>2 DEF ProgressInv
  <2>5. CASE f # g
    BY <1>2, <1>8, <1>11, <2>1, <2>2, <2>3, <2>5 DEF ProgressInv
  <2> QED BY <2>4, <2>5
<1>14. DoneStays
  BY <1>2 DEF DoneStays
<1> QED BY <1>1, <1>9, <1>12, <1>13, <1>14, ResizeR DEF MoversInv

\* A chunk that is claimed gets one mover, at its first bin.
LEMMA ClaimR ==
  ASSUME IInv, RInv, NEW t \in Thread, ClaimChunk(t) PROVE RInv'
<1> DEFINE g == xfer[t].gen
           chunk == ctx[g].chunkClaimed
<1>1. /\ pc \in [Thread -> PC] /\ xfer \in [Thread -> XferRec] /\ xfer[t] \in XferRec
      /\ ResizeStep(t) /\ OthersSame(t)
  BY ResizeFrame DEF IInv, BaseType, BaseLocal, ResizeStep
<1>2. pc[t] = "claim" /\ UNCHANGED <<active, resizeCtx, header>>
  BY DEF ClaimChunk, memory
<1>3. /\ g \in 0..(MaxGen - 1) /\ g \in Gen /\ Started(g) /\ ChunksInv(g)
      /\ ctx \in [Gen -> CtxRec] /\ ctx[g] \in CtxRec /\ chunk \in Nat /\ ctx[g].chunksDone \in Nat
      /\ NumChunks(g) \in Int
  BY <1>2, AtResize, CtxType, ResizeWords DEF ContextPC, TransferPC
<1>4. CASE chunk < NumChunks(g)
  <2>1. /\ ctx' = [ctx EXCEPT ![g].chunkClaimed = chunk + 1]
        /\ xfer' = [xfer EXCEPT ![t].bin = chunk * CHUNK_SIZE] /\ pc'[t] = "or"
    <3>1. ~(chunk >= NumChunks(g))
      BY <1>3, <1>4
    <3> QED BY <1>1, <3>1 DEF ClaimChunk, Goto
  <2>2. /\ xfer'[t].gen = g /\ xfer'[t].bin = chunk * CHUNK_SIZE
        /\ ctx'[g].chunkClaimed = chunk + 1 /\ ctx'[g].chunksDone = ctx[g].chunksDone
        /\ \A f \in Gen : f # g => ctx'[f] = ctx[f]
    BY <1>1, <1>3, <2>1 DEF XferRec, CtxRec
  <2> HIDE DEF g, chunk
  <2>3. \A u \in Thread \ {t} : pc'[u] = pc[u] /\ xfer'[u] = xfer[u]
    BY <1>1 DEF OthersSame
  <2>4. \A f : Started(f)' <=> Started(f)
    BY <1>2 DEF Started
  <2>5. RolesInv'
    <3>1. pc'[t] \notin InstallPC \cup FinishPC
      BY <2>1 DEF InstallPC, FinishPC
    <3>2. Started(xfer'[t].gen)
      BY <1>3, <2>2 DEF g
    <3>3. \A f \in Gen : ctx'[f].chunksDone = ctx[f].chunksDone
      BY <2>2
    <3> QED BY <1>1, <1>2, <3>1, <3>2, <3>3, SameRoles DEF RInv
  <2>6. ASSUME NEW f \in 0..(MaxGen - 1) PROVE ChunksInv(f)'
    <3>1. f \in Gen /\ ChunksInv(f)
      BY CtxType DEF RInv, MoversInv
    <3>2. CASE f = g
      <4>1. Holders(f)' = Holders(f) \cup {t} /\ t \notin Holders(f)
        BY <1>2, <2>1, <2>2, <2>3, <3>2 DEF Holders, HoldPC, TransferPC
      <4>2. IsFiniteSet(Holders(f)) /\ chunk = ctx[g].chunksDone + Cardinality(Holders(f))
        BY <1>3, <3>2 DEF ChunksInv, chunk
      <4>3. /\ IsFiniteSet(Holders(f)') /\ Cardinality(Holders(f)') = Cardinality(Holders(f)) + 1
            /\ Cardinality(Holders(f)) \in Nat
        BY <4>1, <4>2, FS_AddElement, FS_CardinalityType
      <4>4. chunk + 1 <= NumChunks(g) /\ chunk + 1 = ctx[g].chunksDone + (Cardinality(Holders(f)) + 1)
        BY <1>3, <1>4, <4>2, <4>3
      <4> QED BY <1>2, <1>3, <2>2, <3>1, <3>2, <4>3, <4>4 DEF ChunksInv
    <3>3. CASE f # g
      <4>1. Holders(f)' = Holders(f)
        BY <1>2, <2>2, <2>3, <3>3 DEF Holders, HoldPC, TransferPC, g
      <4> QED BY <1>2, <2>2, <2>4, <3>1, <3>3, <4>1 DEF ChunksInv
    <3> QED BY <3>2, <3>3
  <2>7. ASSUME NEW bin \in BinId PROVE ProgressInv(bin)'
    <3> DEFINE f == bin[1]
               c == chunkOf(bin[2])
    <3>1. f \in Gen /\ bin[2] \in Nat /\ bin[2] < NumBins[f]
      BY BinIdGen, SizeAssumption
    <3>2. c \in Nat /\ c * CHUNK_SIZE <= bin[2] /\ chunkOf(c * CHUNK_SIZE) = c /\ ProgressInv(bin)
      BY <3>1, Chunks DEF RInv, MoversInv
    <3>3. \A u \in Thread \ {t} : /\ Moves(u, f, c)' <=> Moves(u, f, c)
                                  /\ MoverState(u, bin[2])' = MoverState(u, bin[2])
      <4> HIDE DEF f, c
      <4> QED BY <2>3 DEF Moves, MoverState
    <3>4. ~Moves(t, f, c)
      BY <1>2 DEF Moves, TransferPC
    <3>5. CASE f = g /\ c = chunk
      <4>1. header[bin].bs = BinNoTransfer /\ \A u \in Thread : ~Moves(u, f, c)
        <5> HIDE DEF c
        <5>1. ~(c < ctx[f].chunkClaimed)
          BY <1>3, <3>5 DEF chunk
        <5> QED BY <3>2, <5>1 DEF ProgressInv, c
      <4>2. Moves(t, f, c)'
        BY <2>1, <2>2, <3>2, <3>5 DEF Moves, TransferPC
      <4>3. MoverState(t, bin[2])' = BinNoTransfer
        <5>1. ~(xfer'[t].bin > bin[2])
          <6> HIDE DEF c
          <6> QED BY <1>3, <2>2, <3>1, <3>2, <3>5, SizeAssumption
        <5> QED BY <2>1, <5>1 DEF MoverState
      <4>4. Started(f)' /\ c < ctx'[f].chunkClaimed
        BY <1>3, <2>2, <2>4, <3>5
      <4> HIDE DEF f, c
      <4>5. \A u \in Thread \ {t} : ~Moves(u, f, c)'
        BY <3>3, <4>1
      <4> QED BY <1>2, <4>1, <4>2, <4>3, <4>4, <4>5 DEF ProgressInv, f, c
    <3>6. CASE ~(f = g /\ c = chunk)
      <4>1. ~Moves(t, f, c)'
        <5>1. CASE f # g
          BY <2>2, <5>1 DEF Moves
        <5>2. CASE f = g /\ c # chunk
          <6>1. chunkOf(chunk * CHUNK_SIZE) = chunk
            <7>1. CHUNK_SIZE \in Nat \ {0} /\ chunk * CHUNK_SIZE \in Nat
              BY <1>3, SizeAssumption
            <7>2. CHUNK_SIZE * chunk <= chunk * CHUNK_SIZE /\ chunk * CHUNK_SIZE < CHUNK_SIZE * chunk + CHUNK_SIZE
              BY <1>3, <7>1
            <7> QED BY <1>3, <7>1, <7>2, DivUnique DEF chunkOf
          <6> QED BY <2>2, <5>2, <6>1 DEF Moves
        <5> QED BY <3>6, <5>1, <5>2
      <4>2. (c < ctx[f].chunkClaimed) <=> (c < ctx'[f].chunkClaimed)
        <5> HIDE DEF c
        <5>1. CASE f # g
          BY <2>2, <3>1, <5>1
        <5>2. CASE f = g /\ c # chunk
          BY <1>3, <2>2, <3>2, <5>2 DEF chunk
        <5> QED BY <3>6, <5>1, <5>2
      <4> HIDE DEF f, c
      <4> QED BY <1>2, <2>4, <3>2, <3>3, <3>4, <4>1, <4>2 DEF ProgressInv, f, c
    <3> QED BY <3>5, <3>6
  <2>8. DoneStays
    BY <1>2 DEF DoneStays
  <2> QED BY <1>1, <2>5, <2>6, <2>7, <2>8, ResizeR DEF MoversInv
<1>5. CASE ~(chunk < NumChunks(g))
  <2>1. ctx' = ctx /\ pc'[t] = "help"
    BY <1>1, <1>5 DEF ClaimChunk, Goto
  <2>2. SameMoves(t) /\ pc'[t] \notin InstallPC \cup FinishPC \cup ContextPC
    BY <1>2, <2>1 DEF SameMoves, HoldPC, TransferPC, InstallPC, FinishPC, ContextPC
  <2> QED BY <1>1, <1>2, <2>1, <2>2, PlainResizeStep
<1> QED BY <1>4, <1>5

\* What a mover knows of the bins of its chunk.
LEMMA AtTransfer ==
  ASSUME IInv, RInv, NEW t \in Thread, pc[t] \in TransferPC
  PROVE  LET g == xfer[t].gen
             c == chunkOf(xfer[t].bin)
         IN  /\ g \in 0..(MaxGen - 1) /\ g \in Gen /\ Started(g) /\ Moves(t, g, c)
             /\ xfer[t].bin \in Nat /\ xfer[t].bin < NumBins[g] /\ OldBin(t) \in BinId
             /\ c < ctx[g].chunkClaimed
             /\ \A u \in Thread : Moves(u, g, c) => u = t
             /\ \A bin \in BinId : bin[1] = g /\ chunkOf(bin[2]) = c => header[bin].bs = MoverState(t, bin[2])
<1> DEFINE g == xfer[t].gen
           c == chunkOf(xfer[t].bin)
<1>1. pc[t] \in ContextPC /\ pc[t] # "setCtx" /\ pc[t] # "idle"
  BY DEF ContextPC, TransferPC
<1>2. g \in 0..(MaxGen - 1) /\ g \in Gen /\ Started(g) /\ Moves(t, g, c)
  BY <1>1, AtResize DEF Moves
<1>3. /\ xfer[t].bin \in Nat /\ xfer[t].bin < NumBins[g] /\ OldBin(t) \in BinId
      /\ OldBin(t)[1] = g /\ OldBin(t)[2] = xfer[t].bin
  BY <1>1, Locals, OldBinType DEF XferInv, XferRec, OldBin
<1>4. ProgressInv(OldBin(t))
  BY <1>3 DEF RInv, MoversInv
<1>5. c < ctx[g].chunkClaimed /\ \A u \in Thread : Moves(u, g, c) => u = t
  <2> HIDE DEF g, c
  <2> QED BY <1>2, <1>3, <1>4 DEF ProgressInv, g, c
<1>6. ASSUME NEW bin \in BinId, bin[1] = g, chunkOf(bin[2]) = c PROVE header[bin].bs = MoverState(t, bin[2])
  <2>1. ProgressInv(bin)
    BY DEF RInv, MoversInv
  <2> HIDE DEF g, c
  <2> QED BY <1>2, <1>6, <2>1 DEF ProgressInv
<1> QED BY <1>2, <1>3, <1>5, <1>6

\* A mover's step within a transfer of the same generation: the bins of its
\* chunk are as it left them, those of all other chunks are untouched.
LEMMA MoverStep ==
  ASSUME IInv, RInv, NEW t \in Thread, ResizeStep(t), pc[t] \in TransferPC, pc'[t] \in HoldPC,
         UNCHANGED <<active, resizeCtx, ctx>>, xfer'[t].gen = xfer[t].gen,
         pc'[t] \in TransferPC => chunkOf(xfer'[t].bin) = chunkOf(xfer[t].bin),
         \A bin \in BinId : bin # OldBin(t) => header'[bin].bs = header[bin].bs,
         \A bin \in BinId : bin[1] = xfer[t].gen /\ chunkOf(bin[2]) = chunkOf(xfer[t].bin) =>
            IF pc'[t] \in TransferPC THEN header'[bin].bs = MoverState(t, bin[2])'
                                     ELSE header'[bin].bs = BinDoneTransfer,
         header[OldBin(t)].bs # BinDoneTransfer
  PROVE  RInv'
<1> DEFINE g == xfer[t].gen
           ch == chunkOf(xfer[t].bin)
<1>1. OthersSame(t) /\ \A u \in Thread \ {t} : pc'[u] = pc[u] /\ xfer'[u] = xfer[u]
  BY ResizeFrame DEF OthersSame
<1>2. \A f : Started(f)' <=> Started(f)
  BY DEF Started
<1>3. /\ g \in Gen /\ Started(g) /\ Moves(t, g, ch) /\ ch < ctx[g].chunkClaimed
      /\ OldBin(t)[1] = g /\ chunkOf(OldBin(t)[2]) = ch
      /\ \A u \in Thread : Moves(u, g, ch) => u = t
  BY AtTransfer DEF OldBin
<1> HIDE DEF g, ch
<1>4. RolesInv'
  <2>1. pc'[t] \notin InstallPC \cup FinishPC
    BY DEF HoldPC, TransferPC, InstallPC, FinishPC
  <2> QED BY <1>1, <1>3, <2>1, SameRoles DEF RInv, g
<1>5. ASSUME NEW f \in 0..(MaxGen - 1) PROVE ChunksInv(f)'
  <2>1. Holders(f)' = Holders(f)
    BY <1>1 DEF Holders, HoldPC
  <2>2. ChunksInv(f)
    BY DEF RInv, MoversInv
  <2> QED BY <1>2, <2>1, <2>2 DEF ChunksInv
<1>6. ASSUME NEW bin \in BinId PROVE ProgressInv(bin)'
  <2> DEFINE f == bin[1]
             c == chunkOf(bin[2])
  <2>1. ProgressInv(bin)
    BY DEF RInv, MoversInv
  <2>2. \A u \in Thread \ {t} : /\ Moves(u, f, c)' <=> Moves(u, f, c)
                                /\ MoverState(u, bin[2])' = MoverState(u, bin[2])
    <3> HIDE DEF f, c
    <3> QED BY <1>1 DEF Moves, MoverState
  <2>3. CASE f = g /\ c = ch
    <3>1. \A u \in Thread \ {t} : ~Moves(u, f, c) /\ ~Moves(u, f, c)'
      BY <1>3, <2>2, <2>3
    <3>2. Moves(t, f, c)' <=> pc'[t] \in TransferPC
      BY <2>3 DEF Moves, g, ch
    <3>3. /\ pc'[t] \in TransferPC => header'[bin].bs = MoverState(t, bin[2])'
          /\ pc'[t] \notin TransferPC => header'[bin].bs = BinDoneTransfer
      BY <2>3 DEF g, ch
    <3>4. Started(f)' /\ c < ctx'[f].chunkClaimed
      BY <1>2, <1>3, <2>3
    <3> HIDE DEF f, c
    <3>5. \A u \in Thread : Moves(u, f, c)' => u = t
      BY <3>1
    <3> QED BY <3>2, <3>3, <3>4, <3>5 DEF ProgressInv, f, c
  <2>4. CASE ~(f = g /\ c = ch)
    <3>1. ~Moves(t, f, c) /\ ~Moves(t, f, c)'
      BY <2>4 DEF Moves, g, ch
    <3>2. header'[bin].bs = header[bin].bs
      BY <1>3, <2>4
    <3> HIDE DEF f, c
    <3> QED BY <1>2, <2>1, <2>2, <3>1, <3>2 DEF ProgressInv, f, c
  <2> QED BY <2>3, <2>4
<1>7. DoneStays
  BY DEF DoneStays
<1> QED BY <1>4, <1>5, <1>6, <1>7, ResizeR DEF MoversInv

\* The atomic OR marks the bin that is the mover's next.
LEMMA TransferBinR ==
  ASSUME IInv, RInv, NEW t \in Thread, TransferBin(t) PROVE RInv'
<1> DEFINE g == xfer[t].gen
           ch == chunkOf(xfer[t].bin)
           h == header[OldBin(t)]
<1>1. /\ pc \in [Thread -> PC] /\ xfer \in [Thread -> XferRec] /\ xfer[t] \in XferRec
      /\ ResizeStep(t) /\ header \in [BinId -> Header]
  BY DEF IInv, BaseType, BaseLocal, BaseMemory, ResizeStep
<1>2. /\ pc[t] = "or" /\ pc[t] \in TransferPC /\ UNCHANGED <<active, resizeCtx, ctx>>
      /\ header' = [header EXCEPT ![OldBin(t)] = orInTransfer(h)]
      /\ pc'[t] \in {"xlinks", "sentinel"}
      /\ xfer'[t].gen = g /\ xfer'[t].bin = xfer[t].bin
  BY <1>1 DEF TransferBin, roots, TransferPC, Goto, XferRec
<1>3. /\ g \in Gen /\ OldBin(t) \in BinId /\ xfer[t].bin \in Nat
      /\ \A bin \in BinId : bin[1] = g /\ chunkOf(bin[2]) = ch => header[bin].bs = MoverState(t, bin[2])
  BY <1>2, AtTransfer
<1>4. OldBin(t)[1] = g /\ OldBin(t)[2] = xfer[t].bin
  BY DEF OldBin
<1>5. \A bin \in BinId : bin[2] \in Nat /\ (bin[1] = g /\ bin[2] = xfer[t].bin => bin = OldBin(t))
  BY BinIdGen, SizeAssumption DEF OldBin
<1>6. h.bs = BinNoTransfer /\ orInTransfer(h).bs = BinInTransfer
  <2>1. h.bs = BinNoTransfer
    BY <1>2, <1>3, <1>4 DEF MoverState
  <2> HIDE DEF h
  <2>2. h \in Header
    BY <1>1, <1>3 DEF h
  <2> QED BY <2>1, <2>2 DEF orInTransfer, setBinState, Header, BinNoTransfer, BinInTransfer
<1>7. header'[OldBin(t)].bs = BinInTransfer /\ \A bin \in BinId : bin # OldBin(t) => header'[bin] = header[bin]
  BY <1>1, <1>2, <1>3, <1>6
<1>8. ASSUME NEW bin \in BinId, bin[1] = g, chunkOf(bin[2]) = ch
      PROVE  header'[bin].bs = MoverState(t, bin[2])'
  <2>1. CASE bin = OldBin(t)
    BY <1>2, <1>3, <1>4, <1>7, <2>1 DEF MoverState
  <2>2. CASE bin # OldBin(t)
    BY <1>2, <1>3, <1>5, <1>7, <1>8, <2>2 DEF MoverState
  <2> QED BY <2>1, <2>2
<1>9. pc'[t] \in HoldPC /\ pc'[t] \in TransferPC
  BY <1>2 DEF HoldPC, TransferPC
<1>10. header[OldBin(t)].bs # BinDoneTransfer
  BY <1>6 DEF BinNoTransfer, BinDoneTransfer
<1> QED BY <1>1, <1>2, <1>7, <1>8, <1>9, <1>10, MoverStep

\* The bin is done, and the next one of the chunk is the mover's, or the chunk is.
LEMMA FinishBinR ==
  ASSUME IInv, RInv, NEW t \in Thread, FinishBin(t) PROVE RInv'
<1> DEFINE g == xfer[t].gen
           ch == chunkOf(xfer[t].bin)
           b == xfer[t].bin
<1>1. /\ pc \in [Thread -> PC] /\ xfer \in [Thread -> XferRec] /\ xfer[t] \in XferRec
      /\ ResizeStep(t) /\ header \in [BinId -> Header]
  BY DEF IInv, BaseType, BaseLocal, BaseMemory, ResizeStep
<1>2. /\ pc[t] = "xdone" /\ pc[t] \in TransferPC /\ UNCHANGED <<active, resizeCtx, ctx>>
      /\ header' = [header EXCEPT ![OldBin(t)] = setBinState(xfer[t].h, BinDoneTransfer)]
      /\ pc'[t] = (IF lastOfChunk(g, b) THEN "chunkDone" ELSE "or")
      /\ xfer'[t].gen = g /\ xfer'[t].bin = (IF lastOfChunk(g, b) THEN 0 ELSE b + 1)
  <2>1. FreshXfer \in XferRec
    BY FreshTypes
  <2> QED BY <1>1, <2>1 DEF FinishBin, roots, TransferPC, Goto, XferRec
<1>3. /\ g \in Gen /\ OldBin(t) \in BinId /\ b \in Nat /\ b < NumBins[g]
      /\ \A bin \in BinId : bin[1] = g /\ chunkOf(bin[2]) = ch => header[bin].bs = MoverState(t, bin[2])
  BY <1>2, AtTransfer
<1>4. OldBin(t)[1] = g /\ OldBin(t)[2] = b
  BY DEF OldBin
<1>5. \A bin \in BinId : /\ bin[2] \in Nat
                         /\ bin[1] = g => bin[2] < NumBins[g] /\ (bin[2] = b => bin = OldBin(t))
  BY BinIdGen, SizeAssumption DEF OldBin
<1>6. setBinState(xfer[t].h, BinDoneTransfer).bs = BinDoneTransfer
  BY <1>1 DEF setBinState, XferRec, Header
<1>7. /\ header'[OldBin(t)].bs = BinDoneTransfer
      /\ \A bin \in BinId : bin # OldBin(t) => header'[bin] = header[bin]
  BY <1>1, <1>2, <1>3, <1>6
<1>8. header[OldBin(t)].bs # BinDoneTransfer
  BY <1>2, <1>3, <1>4 DEF MoverState, BinInTransfer, BinDoneTransfer
<1>9. CASE ~lastOfChunk(g, b)
  <2>1. pc'[t] = "or" /\ xfer'[t].bin = b + 1 /\ pc'[t] \in HoldPC /\ pc'[t] \in TransferPC
    BY <1>2, <1>9 DEF HoldPC, TransferPC
  <2>2. chunkOf(b + 1) = ch
    BY <1>3, <1>9, Chunks
  <2>3. ASSUME NEW bin \in BinId, bin[1] = g, chunkOf(bin[2]) = ch
        PROVE  header'[bin].bs = MoverState(t, bin[2])'
    <3>1. bin # OldBin(t) => header'[bin].bs = MoverState(t, bin[2]) /\ bin[2] # b
      BY <1>3, <1>5, <1>7, <2>3
    <3>2. bin[2] \in Nat
      BY <1>5
    <3>3. MoverState(t, bin[2])' = IF b + 1 > bin[2] THEN BinDoneTransfer ELSE BinNoTransfer
      BY <2>1 DEF MoverState
    <3>4. MoverState(t, bin[2]) = IF b > bin[2] THEN BinDoneTransfer
                                  ELSE IF b = bin[2] THEN BinInTransfer ELSE BinNoTransfer
      BY <1>2 DEF MoverState
    <3> QED BY <1>3, <1>4, <1>7, <3>1, <3>2, <3>3, <3>4
  <2> QED BY <1>1, <1>2, <1>7, <1>8, <2>1, <2>2, <2>3, MoverStep
<1>10. CASE lastOfChunk(g, b)
  <2>1. pc'[t] = "chunkDone" /\ pc'[t] \in HoldPC /\ pc'[t] \notin TransferPC
    BY <1>2, <1>10 DEF HoldPC, TransferPC
  <2>2. \A a \in Nat : a < NumBins[g] /\ chunkOf(a) = ch => a <= b
    BY <1>3, <1>10, Chunks
  <2>3. ASSUME NEW bin \in BinId, bin[1] = g, chunkOf(bin[2]) = ch
        PROVE  header'[bin].bs = BinDoneTransfer
    <3>1. bin # OldBin(t) => header'[bin].bs = MoverState(t, bin[2]) /\ bin[2] # b
      BY <1>3, <1>5, <1>7, <2>3
    <3>2. bin[2] \in Nat /\ bin[2] <= b
      BY <1>5, <2>2, <2>3
    <3>3. b > bin[2] => MoverState(t, bin[2]) = BinDoneTransfer
      BY DEF MoverState
    <3> QED BY <1>3, <1>4, <1>7, <3>1, <3>2, <3>3
  <2> QED BY <1>1, <1>2, <1>7, <1>8, <2>1, <2>3, MoverStep
<1> QED BY <1>9, <1>10

\* A chunk is counted as done: the thread that counts the last one finishes.
LEMMA ChunkDoneR ==
  ASSUME IInv, RInv, NEW t \in Thread, ChunkDone(t) PROVE RInv'
<1>0. PICK g \in 0..(MaxGen - 1) : g = xfer[t].gen
  <2>1. pc[t] \in ContextPC
    BY DEF ChunkDone, ContextPC
  <2> QED BY <2>1, AtResize
<1> DEFINE done == ctx[g].chunksDone + 1
<1>1. /\ pc \in [Thread -> PC] /\ ResizeStep(t) /\ OthersSame(t)
  BY ResizeFrame DEF IInv, BaseType, BaseLocal, ResizeStep
<1>2. /\ pc[t] = "chunkDone" /\ UNCHANGED <<active, resizeCtx, header, xfer>>
      /\ ctx' = [ctx EXCEPT ![g].chunksDone = done]
      /\ pc'[t] = (IF done = NumChunks(g) THEN "finCapacity" ELSE "claim")
  BY <1>0, <1>1 DEF ChunkDone, memory, Goto, lastChunk
<1>3. /\ g \in 0..(MaxGen - 1) /\ g \in Gen /\ Started(g) /\ ChunksInv(g)
      /\ ctx \in [Gen -> CtxRec] /\ ctx[g] \in CtxRec /\ ctx[g].chunkClaimed \in Nat
      /\ ctx[g].chunksDone \in Nat /\ NumChunks(g) \in Int
  BY <1>0, <1>2, AtResize, CtxType, ResizeWords DEF ContextPC, TransferPC
<1>4. /\ ctx'[g].chunksDone = done /\ ctx'[g].chunkClaimed = ctx[g].chunkClaimed
      /\ \A f \in Gen : f # g => ctx'[f] = ctx[f]
      /\ \A f \in Gen : ctx'[f].chunkClaimed = ctx[f].chunkClaimed
  BY <1>2, <1>3 DEF CtxRec
<1>5. \A u \in Thread \ {t} : pc'[u] = pc[u]
  BY <1>1 DEF OthersSame
<1>6. /\ IsFiniteSet(Holders(g)) /\ t \in Holders(g)
      /\ ctx[g].chunkClaimed = ctx[g].chunksDone + Cardinality(Holders(g))
      /\ ctx[g].chunkClaimed <= NumChunks(g)
  BY <1>0, <1>2, <1>3 DEF ChunksInv, Holders, HoldPC
<1>7. Holders(g)' = Holders(g) \ {t}
  BY <1>2, <1>5 DEF Holders, HoldPC, TransferPC
<1>8. /\ IsFiniteSet(Holders(g)') /\ Cardinality(Holders(g)') = Cardinality(Holders(g)) - 1
      /\ Cardinality(Holders(g)) \in Nat /\ Cardinality(Holders(g)') \in Nat
  BY <1>6, <1>7, FS_RemoveElement, FS_CardinalityType
<1>9. ctx[g].chunksDone # NumChunks(g) /\ ~(g < active) /\ g = resizeCtx /\ g = active
  <2>1. ctx[g].chunksDone < NumChunks(g)
    BY <1>3, <1>6, <1>8
  <2>2. ~(g < active)
    BY <1>3, <2>1 DEF ChunksInv
  <2>3. g = resizeCtx
    BY <1>3, <2>2 DEF Started
  <2>4. active \in {g, g + 1}
    BY <1>3, <2>3 DEF RInv, RolesInv
  <2> QED BY <1>3, <2>1, <2>2, <2>3, <2>4
<1>10. \A f : Started(f)' <=> Started(f)
  BY <1>2 DEF Started
<1>11. RolesInv'
  <2>1. \A u \in Thread : pc[u] \notin FinishPC
    BY <1>9, NoFinisher
  <2>2. RoleInv(t)'
    <3>1. xfer'[t].gen = g
      BY <1>0, <1>2
    <3> HIDE DEF done
    <3>2. pc'[t] \in {"finCapacity", "claim"} /\ (pc'[t] = "finCapacity" => done = NumChunks(g))
      BY <1>2
    <3> QED BY <1>2, <1>3, <1>4, <1>9, <1>10, <3>1, <3>2 DEF RoleInv, InstallPC, FinishPC
  <2>3. pc'[t] \notin InstallPC
    BY <1>2 DEF InstallPC
  <2> QED BY <1>1, <1>2, <1>3, <1>9, <1>10, <2>1, <2>2, <2>3, OtherRoles
<1>12. ASSUME NEW f \in 0..(MaxGen - 1) PROVE ChunksInv(f)'
  <2>1. f \in Gen /\ ChunksInv(f)
    BY CtxType DEF RInv, MoversInv
  <2>2. CASE f = g
    <3>1. ctx[g].chunkClaimed = done + Cardinality(Holders(g)')
      BY <1>3, <1>6, <1>8
    <3> QED BY <1>2, <1>4, <1>6, <1>8, <1>9, <2>2, <3>1 DEF ChunksInv
  <2>3. CASE f # g
    <3>1. Holders(f)' = Holders(f)
      BY <1>0, <1>2, <1>5, <2>3 DEF Holders, HoldPC, TransferPC
    <3> QED BY <1>2, <1>4, <1>10, <2>1, <2>3, <3>1 DEF ChunksInv
  <2> QED BY <2>2, <2>3
<1>13. ASSUME NEW bin \in BinId PROVE ProgressInv(bin)'
  <2> DEFINE f == bin[1]
             c == chunkOf(bin[2])
  <2>1. f \in Gen /\ ProgressInv(bin)
    BY BinIdGen DEF RInv, MoversInv
  <2>2. \A u \in Thread : /\ Moves(u, f, c)' <=> Moves(u, f, c)
                          /\ Moves(u, f, c) => MoverState(u, bin[2])' = MoverState(u, bin[2])
    <3> HIDE DEF f, c
    <3> QED BY <1>2, <1>5 DEF Moves, MoverState, TransferPC
  <2>3. ctx'[f].chunkClaimed = ctx[f].chunkClaimed
    BY <1>4, <2>1
  <2> HIDE DEF f, c
  <2> QED BY <1>2, <1>10, <2>1, <2>2, <2>3 DEF ProgressInv, f, c
<1>14. DoneStays
  BY <1>2 DEF DoneStays
<1> QED BY <1>1, <1>11, <1>12, <1>13, <1>14, ResizeR DEF MoversInv

\* The thread that finishes makes the next index active, and only then removes the
\* context: every word it writes is its own until then.
LEMMA FinishR ==
  ASSUME IInv, RInv, NEW t \in Thread,
         FinishCapacity(t) \/ FinishActive(t) \/ FinishInactive(t) \/ FinishCtx(t)
  PROVE  RInv'
<1>0. pc[t] \in FinishPC /\ pc[t] \in ContextPC
  BY DEF FinishCapacity, FinishActive, FinishInactive, FinishCtx, FinishPC, ContextPC
<1>1. PICK g \in 0..(MaxGen - 1) : g = xfer[t].gen
  BY <1>0, AtResize
<1>2. /\ g \in Gen /\ g \in Nat /\ g + 1 \in Gen /\ resizeCtx = g /\ ctx[g].chunksDone = NumChunks(g)
      /\ pc[t] \in {"finCapacity", "finActive"} => active = g
      /\ pc[t] \in {"finInactive", "finCtx"} => active = g + 1
      /\ ctx \in [Gen -> CtxRec] /\ ctx[g] \in CtxRec
  BY <1>0, <1>1, AtResize, CtxType, ResizeWords DEF RoleInv
<1>3. /\ pc \in [Thread -> PC] /\ xfer \in [Thread -> XferRec] /\ ResizeStep(t) /\ OthersSame(t)
  BY ResizeFrame DEF IInv, BaseType, BaseLocal, ResizeStep
<1>4. header' = header /\ DoneStays
  BY DEF FinishCapacity, FinishActive, FinishInactive, FinishCtx, memory, DoneStays
<1>5. \A u \in Thread \ {t} : pc[u] \notin FinishPC /\ pc[u] \notin InstallPC
  <2>1. \A u \in Thread : pc[u] \in InstallPC => resizeCtx \notin Gen
    BY ResizeWords DEF RInv, RolesInv, RoleInv
  <2> QED BY <1>0, <1>2, <2>1 DEF RInv, RolesInv
<1>6. pc[t] \notin HoldPC /\ pc'[t] \in {"finActive", "finInactive", "finCtx", "help"}
  BY <1>3 DEF FinishCapacity, FinishActive, FinishInactive, FinishCtx, Goto, HoldPC, TransferPC
<1>7. SameMoves(t) /\ pc'[t] \notin InstallPC
  BY <1>6 DEF SameMoves, HoldPC, TransferPC, InstallPC
<1>8. \A f \in Gen : /\ ctx'[f].chunkClaimed = ctx[f].chunkClaimed
                     /\ ctx'[f].chunksDone = ctx[f].chunksDone
  <2>1. CASE ctx' = ctx
    BY <2>1
  <2>2. CASE ctx' # ctx
    <3>1. ctx' = [ctx EXCEPT ![xfer[t].gen].active = "inactive"]
      BY <2>2 DEF FinishCapacity, FinishActive, FinishInactive, FinishCtx, roots
    <3> QED BY <1>1, <1>2, <3>1 DEF CtxRec
  <2> QED BY <2>1, <2>2
<1>9. \/ active' = active /\ resizeCtx' = resizeCtx
      \/ FinishActive(t) /\ active = g /\ active' = g + 1 /\ resizeCtx' = resizeCtx
      \/ FinishCtx(t) /\ active = g + 1 /\ active' = active /\ resizeCtx' = NoCtx
  BY <1>1, <1>2 DEF FinishCapacity, FinishActive, FinishInactive, FinishCtx, roots
<1>10. \A f \in Gen : Started(f)' <=> Started(f)
  <2>1. NoCtx \notin Gen /\ \A f \in Gen : f \in Nat
    BY ResizeWords
  <2>2. \A f \in Gen : Started(f) <=> f < active \/ f = g
    BY <1>2 DEF Started
  <2> QED BY <1>2, <1>9, <2>1, <2>2 DEF Started
<1>11. RoleInv(t)'
  <2>1. CASE FinishCapacity(t) \/ FinishActive(t) \/ FinishInactive(t)
    <3>1. /\ xfer'[t].gen = g /\ resizeCtx' = g
          /\ pc'[t] = "finActive" => active' = g
          /\ pc'[t] \in {"finInactive", "finCtx"} => active' = g + 1
          /\ pc'[t] \in FinishPC
      BY <1>1, <1>2, <1>3, <2>1 DEF FinishCapacity, FinishActive, FinishInactive, Goto, roots, FinishPC
    <3>2. ctx'[g].chunksDone = NumChunks(g)
      BY <1>2, <1>8
    <3>3. pc'[t] \notin InstallPC
      BY <1>7
    <3>4. pc'[t] # "finCapacity"
      BY <1>6
    <3> QED BY <3>1, <3>2, <3>3, <3>4 DEF RoleInv, InstallPC, Started
  <2>2. CASE FinishCtx(t)
    <3>1. pc'[t] = "help"
      BY <1>3, <2>2 DEF FinishCtx, Goto
    <3> QED BY <3>1 DEF RoleInv, InstallPC, FinishPC, ContextPC, TransferPC
  <2> QED BY <2>1, <2>2
<1>12. RolesInv'
  <2>1. resizeCtx' \in Gen => active' \in {resizeCtx', resizeCtx' + 1}
    <3>1. active \in {g, g + 1} /\ NoCtx \notin Gen
      BY <1>2, ResizeWords DEF RInv, RolesInv
    <3> QED BY <1>2, <1>9, <3>1
  <2> QED BY <1>3, <1>5, <1>7, <1>10, <1>11, <2>1, OtherRoles
<1>13. MoversInv'
  <2>1. \A f \in 0..(MaxGen - 1) : f \in Gen /\ (f < active' => f < active \/ ctx[f].chunksDone = NumChunks(f))
    <3>1. \A f \in 0..(MaxGen - 1) : f \in Gen /\ f \in Nat
      BY CtxType
    <3> QED BY <1>2, <1>9, <3>1
  <2> QED BY <1>3, <1>4, <1>7, <1>8, <1>10, <2>1, SameMovers DEF RInv
<1> QED BY <1>3, <1>4, <1>12, <1>13, ResizeR

-----------------------------------------------------------------------------
(* The invariant, and what it says.                                        *)

\* A new call looks at no bin yet.
LEMMA InvokeR ==
  ASSUME IInv, RInv, NEW t \in Thread, Invoke(t) PROVE RInv'
<1>1. /\ pc \in [Thread -> PC] /\ call \in [Thread -> CallRec \cup {NoCall}]
  BY DEF IInv, BaseType, BaseLocal, ApiType
<1>2. /\ pc[t] = "idle" /\ pc'[t] = "active" /\ \A u \in Thread \ {t} : pc'[u] = pc[u] /\ call'[u] = call[u]
  BY <1>1 DEF Invoke, Goto
<1>3. UNCHANGED <<active, resizeCtx, ctx, xfer, scan, ins, header>>
  BY DEF Invoke, memory, roots
<1>4. Quiet(t)
  BY <1>2, <1>3 DEF Quiet, OthersSame, CallPC
<1>5. ins[t].cont = "idle"
  BY <1>2, Locals DEF ThreadInv
<1>6. PrivateInv(t)'
  BY <1>2, <1>3, <1>5 DEF PrivateInv, UsesPC, ScanPC, SlotPC, InsertPC, OwnPC
<1> QED BY <1>4, <1>6, QuietStep

\* In the beginning nobody resizes.
LEMMA InitR == InitWords => RInv
<1> SUFFICES ASSUME InitWords PROVE RInv
  OBVIOUS
<1>1. /\ active = 0 /\ resizeCtx = NoCtx /\ \A t \in Thread : pc[t] = "idle" /\ ins[t].cont = "idle"
      /\ \A bin \in BinId : header[bin].bs = BinNoTransfer
  BY DEF InitWords, FreshIns
<1>2. \A t \in Thread : /\ pc[t] \notin InstallPC /\ pc[t] \notin FinishPC /\ pc[t] \notin ContextPC
                        /\ pc[t] \notin UsesPC /\ pc[t] \notin TransferPC
  BY <1>1 DEF InstallPC, FinishPC, ContextPC, TransferPC, UsesPC, ScanPC, SlotPC, InsertPC, OwnPC
<1>3. NoCtx \notin Gen /\ \A g \in Gen : g \in Nat
  BY SizeAssumption DEF NoCtx, Gen
<1>4. RolesInv
  BY <1>1, <1>2, <1>3 DEF RolesInv, RoleInv
<1>5. \A g \in Gen : ~Started(g)
  BY <1>1, <1>3 DEF Started
<1>6. ASSUME NEW g \in 0..(MaxGen - 1) PROVE ChunksInv(g)
  <2>1. g \in Gen /\ ~(g < active)
    BY <1>1, SizeAssumption DEF Gen
  <2> QED BY <1>5, <2>1 DEF ChunksInv
<1>7. ASSUME NEW bin \in BinId PROVE ProgressInv(bin)
  BY <1>1, <1>2, <1>5, BinIdGen DEF ProgressInv, Moves
<1>8. \A t \in Thread : PrivateInv(t)
  BY <1>1, <1>2 DEF PrivateInv
<1> QED BY <1>4, <1>6, <1>7, <1>8 DEF RInv, MoversInv

\* A step that changes nothing keeps the invariant of the resize.
LEMMA StutterR ==
  ASSUME RInv, UNCHANGED vars PROVE RInv'
<1>1. UNCHANGED <<header, active, resizeCtx, ctx, pc, call, scan, ins, xfer>>
  BY DEF vars
<1>2. /\ \A g : Started(g)' <=> Started(g)
      /\ \A g : Holders(g)' = Holders(g)
      /\ \A g, c : \A t \in Thread : Moves(t, g, c)' <=> Moves(t, g, c)
      /\ \A b : \A t \in Thread : MoverState(t, b)' = MoverState(t, b)
      /\ \A t \in Thread : hash(t)' = hash(t) /\ Bin(t)' = Bin(t)
  BY <1>1 DEF Started, Holders, Moves, MoverState, hash, Bin
<1>3. RolesInv'
  BY <1>1, <1>2 DEF RInv, RolesInv, RoleInv
<1>4. \A g \in 0..(MaxGen - 1) : ChunksInv(g)'
  BY <1>1, <1>2 DEF RInv, MoversInv, ChunksInv
<1>5. \A bin \in BinId : ProgressInv(bin)'
  BY <1>1, <1>2 DEF RInv, MoversInv, ProgressInv
<1>6. \A t \in Thread : PrivateInv(t)'
  BY <1>1, <1>2 DEF RInv, PrivateInv
<1> QED BY <1>3, <1>4, <1>5, <1>6 DEF RInv, MoversInv

\* Every step keeps the invariant of the resize.
LEMMA NextR == IInv /\ RInv /\ [Next]_vars => RInv'
<1> SUFFICES ASSUME IInv, RInv, [Next]_vars PROVE RInv'
  OBVIOUS
<1>1. ASSUME NEW t \in Thread, Invoke(t) PROVE RInv'
  BY <1>1, InvokeR
<1>2. ASSUME NEW t \in Thread, Step(t) PROVE RInv'
  <2>1. CASE ResizeStep(t)
    BY <2>1, TriggerR, PublishR, SetContextR, HelpR, ClaimR, TransferBinR, MoveR, FinishBinR,
       ChunkDoneR, FinishR DEF ResizeStep
  <2> QED BY <1>2, <2>1, ScanR, SlotR, InsertR DEF Step
<1>3. ASSUME UNCHANGED vars PROVE RInv'
  BY <1>3, StutterR
<1> QED BY <1>1, <1>2, <1>3 DEF Next, Finished

\* RInv is an invariant of the map.
THEOREM ResizeInductive == Spec => []RInv
BY InitInv, InitR, NextR, Inductive, PTL DEF Spec

\* The bins say who moves them.
LEMMA OwnedR == IInv /\ RInv => TransferOwned
<1> SUFFICES ASSUME IInv, RInv, NEW bin \in BinId
             PROVE  LET movers == {t \in Thread : pc[t] \in TransferPC /\ OldBin(t) = bin} IN
                    /\ Cardinality(movers) <= 1
                    /\ header[bin].bs = BinInTransfer <=> \E t \in movers : pc[t] # "or"
                    /\ header[bin].bs = BinDoneTransfer => movers = {}
  BY DEF TransferOwned
<1> DEFINE movers == {t \in Thread : pc[t] \in TransferPC /\ OldBin(t) = bin}
           g == bin[1]
           c == chunkOf(bin[2])
<1>1. ASSUME NEW t \in movers
      PROVE  /\ Moves(t, g, c) /\ movers = {t}
             /\ header[bin].bs = (IF pc[t] = "or" THEN BinNoTransfer ELSE BinInTransfer)
  <2>1. pc[t] \in TransferPC /\ xfer[t].gen = g /\ xfer[t].bin = bin[2] /\ bin[2] \in Nat
    BY BinIdGen DEF OldBin
  <2>2. Moves(t, g, c) /\ \A u \in movers : u = t
    <3>1. \A u \in movers : Moves(u, g, c)
      BY DEF Moves, OldBin
    <3> QED BY <3>1, <2>1, AtTransfer
  <2>3. header[bin].bs = MoverState(t, bin[2])
    BY <2>1, AtTransfer
  <2> QED BY <2>1, <2>2, <2>3 DEF MoverState
<1>2. ASSUME header[bin].bs = BinInTransfer PROVE \E t \in movers : pc[t] # "or"
  <2>1. ProgressInv(bin)
    BY DEF RInv, MoversInv
  <2> HIDE DEF g, c
  <2>2. PICK t \in Thread : Moves(t, g, c)
    BY <1>2, <2>1 DEF ProgressInv, BinNoTransfer, BinInTransfer, BinDoneTransfer, g, c
  <2>3. MoverState(t, bin[2]) = BinInTransfer
    BY <1>2, <2>1, <2>2 DEF ProgressInv, g, c
  <2>4. xfer[t].bin = bin[2] /\ pc[t] # "or"
    BY <2>3 DEF MoverState, BinNoTransfer, BinInTransfer, BinDoneTransfer
  <2>5. OldBin(t) = bin
    BY <2>2, <2>4, BinIdGen DEF OldBin, Moves, g
  <2> QED BY <2>2, <2>4, <2>5 DEF Moves
<1>3. Cardinality(movers) <= 1
  <2>1. CASE movers = {}
    <3>1. Cardinality(movers) = 0
      BY <2>1, FS_EmptySet
    <3> QED BY <3>1
  <2>2. CASE movers # {}
    <3>1. PICK t \in movers : TRUE
      BY <2>2
    <3>2. Cardinality(movers) = 1
      <4>1. movers = {t}
        BY <1>1
      <4> HIDE DEF movers
      <4> QED BY <4>1, FS_Singleton
    <3> QED BY <3>2
  <2> QED BY <2>1, <2>2
<1>4. header[bin].bs = BinDoneTransfer => movers = {}
  BY <1>1 DEF BinNoTransfer, BinInTransfer, BinDoneTransfer
<1>5. (\E t \in movers : pc[t] # "or") => header[bin].bs = BinInTransfer
  BY <1>1
<1> QED BY <1>2, <1>3, <1>4, <1>5

\* A bin is transferred by one thread at most, a bin marked InTransfer always has
\* the thread that moves it, and a bin that is done has none: chunks are handed out
\* by a fetch-and-add and no thread leaves a bin before it is done.
THEOREM TransferAlwaysOwned == Spec => []TransferOwned
BY OwnedR, Inductive, ResizeInductive, PTL

\* The bins behind the active index are done.
LEMMA CompleteR == IInv /\ RInv => ActiveComplete
BY ActiveDone DEF ActiveComplete

\* When an index becomes active, every bin of every earlier index is done: the last
\* chunk is counted only after the others, however many threads helped.
THEOREM ActiveAlwaysComplete == Spec => []ActiveComplete
BY CompleteR, Inductive, ResizeInductive, PTL

\* The threads that use a bin have its predecessors done.
LEMMA PrivateR == RInv => NewBinPrivate
BY DEF RInv, PrivateInv, NewBinPrivate, UsesPC

\* No operation looks at a new bin before the transfer of the bins of its key in
\* all earlier indexes is done, so the transfer's plain stores to it are private.
THEOREM NewBinAlwaysPrivate == Spec => []NewBinPrivate
BY PrivateR, ResizeInductive, PTL
=============================================================================
