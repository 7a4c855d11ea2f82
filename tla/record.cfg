\* Three clones, every operation; futures are dropped.
CONSTANTS
  p1 = p1
  p2 = p2
  p3 = p3
  Callers = {p1, p2, p3}
  Ops = {"plain", "gated", "flash", "stream"}
  Async = TRUE
  MaxSaves = 2
SPECIFICATION Spec
INVARIANTS TypeOK StaleIsBounded
SYMMETRY CallerSymmetry
