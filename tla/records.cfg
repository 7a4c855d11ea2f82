\* Two programs, every kind of change, requests lost and late.
CONSTANTS
  p1 = p1  p2 = p2
  n1 = n1  n2 = n2
  maxV = maxV  maxI = maxI
  None = None
  Programs = {p1, p2}
  Names = {n1, n2}
  Uarts = {n2}
  Ceilings = {maxV, maxI}
  Values = {0, 1}
  Blank = 0
  Kinds = {"cap", "lift", "clear", "notes", "save", "rename", "new", "delete", "wipe"}
  Events = {"lost", "late"}
  MaxEdits = 3
  MaxLate = 1
SPECIFICATION Spec
INVARIANTS NothingLost
PROPERTY CeilingStands
SYMMETRY MCSymmetry
CHECK_DEADLOCK FALSE
