\* Three builds that may share two images, one edge build kept by the weekly
\* run and two by one started by hand, one failure.
SPECIFICATION Spec
CONSTANTS
  Images = {11, 12}
  MaxBuilds = 3
  Keep = 1
  Keeps = {2}
  MaxFailures = 1
INVARIANTS TypeOK SurvivorsWhole NoOrphans
PROPERTIES ReleasesStay OldRemoved
CHECK_DEADLOCK FALSE
