SPECIFICATION InlineSpec
CONSTANTS
  t1 = t1
  t2 = t2
  t3 = t3
  Thread = {t1, t2, t3}
  Key = {0, 1, 2, 4, 8, 9}
  Hash <- Hashes
  Prefill <- Before029
  Calls <- Grow
  MaxCalls <- OneEach
  Reused <- NoReuse
  MaxGen = 2
  NumBins <- Bins248
  NumLinks <- Links36
  PRIMARY_SLOTS = 1
  LINK_SLOTS = 1
  CHUNK_SIZE = 2
  VersionMod = 1000
  EvenTransferSentinel = 98
  OddTransferSentinel = 99
  Nil = Nil
  Absent = Absent
  Pending = Pending
  InitVal = InitVal
  NoCall = NoCall
INVARIANTS InlineTypeOK LinearizableHistory EntryInOnePlace
PROPERTY TransferFreezes
