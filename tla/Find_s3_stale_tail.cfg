\* A crash between a part and the tail: is what is stored still the file?
SPECIFICATION Spec
CONSTANTS
  PartSize = 3
  Sizes = {0, 6, 7}
  MaxUploads = 2
  NoUpload = NoUpload
  NoObject = NoObject
  Unknown = Unknown
  MaxFaults = 0
  MaxCrashes = 1
INVARIANTS StoredIsPrefix
CHECK_DEADLOCK FALSE
