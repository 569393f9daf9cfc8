\* Two uploads and the reaper, one at a pass, with a failure and a crash: everything due is removed.
SPECIFICATION FairSpec
CONSTANTS
  Reaper = Reaper
  NoId = NoId
  NoFile = NoFile
  NoRow = NoRow
  NoBlock = NoBlock
  Ids = {a, b}
  Writers = {w1}
  Readers = {}
  Revokers = {}
  Sizes = {1}
  MaxSize = 1
  TTLs <- MCTTLs
  Maxes = {1}
  Batch = 1
  Overhead = 0
  Serial = TRUE
  MaxTime = 3
  MaxServed = 2
  MaxFaults = 1
  MaxCrashes = 1
  DefaultTTL = 1
  MaxTTL = 2
  AllowInfiniteTTL = TRUE
  RequireLimit = TRUE
  DefaultMaxDownloads = 0
  IncompleteTTL = 2
  Inodes <- MCInodes
PROPERTIES DeadRemoved
CHECK_DEADLOCK FALSE
