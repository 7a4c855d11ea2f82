\* Streams and single captures, with every fault.
CONSTANTS
  Credits = 2
  MaxTexts = 1
  Missing = Missing
  Shots <- MCShots
  Labels <- MCLabels
  Spoilt <- MCSpoilt
  Events = {"early", "noseq", "hangup"}
SPECIFICATION FairSpec
INVARIANTS WindowHolds NoCreditLost CaptureIsLatest ReadsAsMeasured
PROPERTIES Forwards CatchesUp
CHECK_DEADLOCK FALSE
