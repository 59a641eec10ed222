CONSTANTS
  Name = {f, g}
  Byte = {26, 97}
  NFile = 1
  RecSize = 2
  ExtRecs = 2
  ExtMod = 2
  Before <- Files
  MaxLen = 3
  Liberties = {}
SPECIFICATION Spec
INVARIANTS NothingLost ExactSize ScanComplete ReadsFile
SYMMETRY Symmetry
