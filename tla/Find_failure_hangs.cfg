\* A failing process must end.
SPECIFICATION FairSpec
CONSTANTS
  MaxInflight = 1
PROPERTIES FailureExits
CHECK_DEADLOCK FALSE
