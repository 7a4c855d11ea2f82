\* One blocking session and the clock.
CONSTANTS
  s1 = s1
  x = x
  y = y
  NoSession = NoSession
  Sessions = {s1}
  Async = FALSE
  OpenWait = 2
  OpWait = 2
  Byte = {x}
  Needle <- JustX
  MaxSent = 1
  MaxNotes = 1
  MaxWrites = 0
SPECIFICATION Spec
INVARIANTS InTime
CHECK_DEADLOCK FALSE
