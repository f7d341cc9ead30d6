SPECIFICATION RangeSpec
CONSTANTS
  t1 = t1
  t2 = t2
  k0 = k0
  k1 = k1
  k2 = k2
  k3 = k3
  k4 = k4
  Thread = {t1, t2}
  Key = {k0, k1, k2, k3, k4}
  Hash <- Hashes
  Prefill <- Before0234
  Calls <- Linked
  MaxCalls <- TwiceT2
  MaxGen = 2
  NumBins <- Bins124
  NumLinks <- Links39
  PRIMARY_SLOTS = 1
  LINK_SLOTS = 1
  CHUNK_SIZE = 2
  VersionMod = 1000
  EvenTransferSentinel = 98
  OddTransferSentinel = 99
  Nil = Nil
  Absent = Absent
  Pending = Pending
  InitVal = InitVal
  NoCall = NoCall
INVARIANTS YieldedOnce StayedYielded YieldedTrue QuiescentSize
