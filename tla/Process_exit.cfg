\* Every path through startup and shutdown, two requests in flight.
SPECIFICATION FairSpec
CONSTANTS
  MaxInflight = 2
INVARIANTS StoreOutlivesReaper HandlersKeepStore
PROPERTIES SignalExits
CHECK_DEADLOCK FALSE
