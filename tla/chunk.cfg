\* Framing symbols in any order, what the box sends cut anywhere, and bodies
\* without framing: either client, every split, lines up to the limit and over.
CONSTANTS
  Clients = {"blocking", "async"}
  Heads <- Answers
  Bodies <- Arriving
  Wires <- AllWires
  Json <- Refusal
  Length = 3
  MaxLine = 4
SPECIFICATION RttSpec
INVARIANTS StreamIsBody NothingLost RefusalIsTold
CHECK_DEADLOCK FALSE
