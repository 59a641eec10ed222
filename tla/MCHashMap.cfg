CONSTANTS
  a = a  b = b  c = c  d = d
  v1 = v1  v2 = v2
  Key = {a, b, c, d}
  Val = {v1, v2}
  Nil = Nil
  Tombstone = Tombstone
  Hash <- MCHash
  InitSize = 4
  Clients = {TRUE, FALSE}
SPECIFICATION Spec
INVARIANT ProbesEnd
PROPERTIES PutIsSeen Dictionary
CHECK_DEADLOCK FALSE
