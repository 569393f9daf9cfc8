\* Two requests of every kind at once, and a statement that fails.
SPECIFICATION Spec
CONSTANTS
  Clients = {c1, c2}
  LinkKey = "link"
  Passwords = {"password"}
  NoRow = NoRow
  NoCred = NoCred
  NoFile = NoFile
  Nanos = 2
  Width = 4
  TimeLimits = {1}
  Limits = {1}
  Frames = {1}
  MaxSize = 1
  MaxTime = 2
  MaxNonce = 3
  MaxSent = 1
  MaxFaults = 1
  MaxCrashes = 0
  DefaultTTL = 2
  MaxTTL = 4
  AllowInfiniteTTL = FALSE
  RequireLimit = TRUE
  DefaultMaxDownloads = 0
  IncompleteTTL = 2
SYMMETRY Symmetry
INVARIANTS AuthenticatorOnce PasswordTakesEffect LimitHolds
CHECK_DEADLOCK FALSE
