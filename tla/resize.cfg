SPECIFICATION Spec
CONSTANTS
  t1 = t1
  t2 = t2
  t3 = t3
  k0 = k0
  k1 = k1
  k2 = k2
  k3 = k3
  k4 = k4
  k5 = k5
  Thread = {t1, t2, t3}
  Key = {k0, k1, k2, k4}
  Hash <- Hashes
  Prefill <- Before01
  Calls <- Grow
  MaxCalls <- OneEach
  MaxGen = 2
  NumBins <- Bins248
  NumLinks <- Links013
  PRIMARY_SLOTS = 1
  LINK_SLOTS = 1
  CHUNK_SIZE = 1
  VersionMod = 1000
  EvenTransferSentinel = 98
  OddTransferSentinel = 99
  Nil = Nil
  Absent = Absent
  Pending = Pending
  InitVal = InitVal
  NoCall = NoCall
INVARIANTS MemoryHoldsMap NewBinPrivate SuccessorPublished TransferOwned ActiveComplete
PROPERTIES Linearizable
