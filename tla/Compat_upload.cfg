\* One socket, the reaper and a request, with a failure and a crash anywhere.
SPECIFICATION FairSpec
CONSTANTS
  Clients = {c1}
  LinkKey = "link"
  Passwords = {"password"}
  NoRow = NoRow
  NoCred = NoCred
  NoFile = NoFile
  Nanos = 2
  Width = 4
  TimeLimits <- MCTimeLimits
  Limits <- MCLimits
  Frames = {1, 2}
  MaxSize = 2
  MaxTime = 3
  MaxNonce = 2
  MaxSent = 1
  MaxFaults = 1
  MaxCrashes = 1
  DefaultTTL = 2
  MaxTTL = 4
  AllowInfiniteTTL = FALSE
  RequireLimit = TRUE
  DefaultMaxDownloads = 0
  IncompleteTTL = 2
INVARIANTS FinishedWhole NoLeftovers DeadlineWithinPolicy
PROPERTY UnfinishedEnds
CHECK_DEADLOCK FALSE
