\* Two requests of one key, the mutex taken in any order of the readings.
SPECIFICATION Spec
CONSTANTS
  Keys = {k1}
  Callers = {c1, c2}
  NoKey = NoKey
  NoBucket = NoBucket
  Token = 5
  Burst = 10
  Rate = 2
  Idle = 3
  Second = 3
  MaxTime = 5
SYMMETRY MCSymmetry
INVARIANTS Bounded
PROPERTIES RetryHonest
CHECK_DEADLOCK FALSE
