CONSTANTS
  Byte = {10, 13, 26, 97}
  FailingByte = {10, 97}
  BufSize = 2
  MaxLen = 3
  Disks = {TRUE, FALSE}
SPECIFICATION Spec
INVARIANTS TypeOK
PROPERTIES DropsAreReported Unbuffered
CHECK_DEADLOCK FALSE
