\* Chunks of any size, a failing call, a crash and a deletion anywhere.
SPECIFICATION Spec
CONSTANTS
  PartSize = 3
  Sizes = {0, 6, 7}
  MaxUploads = 2
  NoUpload = NoUpload
  NoObject = NoObject
  Unknown = Unknown
  MaxFaults = 1
  MaxCrashes = 1
INVARIANTS TypeOK UndisturbedWhole AcknowledgedKept ReportedUnlessFailed DeleteClears
CHECK_DEADLOCK FALSE
