SPECIFICATION InlineRangeSpec
CONSTANTS
  t1 = t1
  t2 = t2
  Thread = {t1, t2}
  Key = {0, 2, 8, 9}
  Hash <- Hashes
  Prefill <- Before029
  Calls <- Linked
  MaxCalls <- TwiceT2
  Reused <- NoReuse
  MaxGen = 2
  NumBins <- Bins248
  NumLinks <- Links14
  PRIMARY_SLOTS = 1
  LINK_SLOTS = 1
  CHUNK_SIZE = 2
  VersionMod = 1000
  EvenTransferSentinel = 98
  OddTransferSentinel = 99
  Nil = Nil
  Absent = Absent
  Pending = Pending
  InitVal = InitVal
  NoCall = NoCall
INVARIANTS YieldedOnce StayedYielded YieldedTrue
