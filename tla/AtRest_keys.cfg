\* Two uploads of three blocks, two master keys and two rotations.
SPECIFICATION Spec
CONSTANTS
  Octet = 2
  Octets = 2
  BlockSize = 2
  Uploads = {"u1", "u2"}
  Keys = {"k1", "k2"}
  Marked = {"k2"}
  IV <- MCIV
  MasterKeys = {"A", "B"}
  Size = 5
  MaxRotations = 2
INVARIANTS TypeOK ReadsWhatWasWritten KeyStreamOnce TableReadable
