SPECIFICATION InlineFairSpec
CONSTANTS
  t1 = t1
  t2 = t2
  t3 = t3
  Thread = {t1, t2, t3}
  Key = {0, 8, 9}
  Hash <- Hashes
  Prefill <- Before0
  Calls <- Recycle
  MaxCalls <- TwiceT2
  Reused <- NoReuse
  MaxGen = 0
  NumBins <- Bins1
  NumLinks <- Links0
  PRIMARY_SLOTS = 3
  LINK_SLOTS = 1
  CHUNK_SIZE = 1
  VersionMod = 1000
  EvenTransferSentinel = 98
  OddTransferSentinel = 99
  Nil = Nil
  Absent = Absent
  Pending = Pending
  InitVal = InitVal
  NoCall = NoCall
INVARIANT LinearizableHistory
PROPERTY CallsReturn
