\* One async session: bytes, needle, clock, and the net it holds.
CONSTANTS
  s1 = s1
  x = x
  y = y
  NoSession = NoSession
  Sessions = {s1}
  Async = TRUE
  OpenWait = 1
  OpWait = 2
  Byte = {x, y}
  Needle <- XY
  MaxSent = 3
  MaxNotes = 1
  MaxWrites = 2
SPECIFICATION FairSpec
INVARIANTS WaitForFinds InTime WritesInOrder
PROPERTIES IsPipe NetFreed OperationsEnd
CHECK_DEADLOCK FALSE
