\* A program that locks for good, mostly with guards, and one that locks with a TTL.
CONSTANTS
  None = None
  p1 = p1
  p2 = p2
  u1 = u1
  u2 = u2
  Programs = {p1, p2}
  Users = {u1, u2}
  UserOf <- MCOwn
  OpsOf <- MCOps
  MaxCalls = 4
  Events = {"lost", "late", "crash", "tick"}
SPECIFICATION FairSpec
INVARIANTS GuardHolds NothingLeft
PROPERTIES NeverTaken NotWedged
CHECK_DEADLOCK FALSE
