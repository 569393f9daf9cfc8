\* Every kind of request on one upload, a failure and a crash anywhere.
SPECIFICATION Spec
CONSTANTS
  Reaper = Reaper
  NoId = NoId
  NoFile = NoFile
  NoRow = NoRow
  NoBlock = NoBlock
  Ids = {a}
  Writers = {w1, w2}
  Readers = {d1, d2}
  Revokers = {v1}
  Sizes = {0, 2}
  MaxSize = 2
  TTLs <- MCTTLs
  Maxes = {1}
  Batch = 1
  Overhead = 1
  Serial = TRUE
  MaxTime = 2
  MaxServed = 2
  MaxFaults = 1
  MaxCrashes = 1
  DefaultTTL = 2
  MaxTTL = 2
  AllowInfiniteTTL = TRUE
  RequireLimit = TRUE
  DefaultMaxDownloads = 0
  IncompleteTTL = 1
  Inodes <- MCInodes
SYMMETRY MCSymmetry
INVARIANTS PublishedWhole RevokedGone ReaderSeesWhole OvershootBounded LogRetired
PROPERTIES RemovedForCause KeepsPromise
CHECK_DEADLOCK FALSE
