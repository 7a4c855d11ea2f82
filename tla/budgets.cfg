\* Two calls of any two kinds and durations, on instruments that may hang.
CONSTANTS
  t1 = t1  t2 = t2
  None = None
  Threads = {t1, t2}
  Asked <- MCEvery
  Overhead = 4
  Wedges = TRUE
  Grain = 50
SPECIFICATION FairSpec
INVARIANTS AloneIsServed OneAheadIsServed
PROPERTY EveryCallReturns
CHECK_DEADLOCK FALSE
