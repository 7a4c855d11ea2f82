\* One call on every kind of box and every time the debug server may open.
CONSTANTS
  x = x
  y = y
  Wait = 3
  Retry = 1
  MaxAuth = 4
  MaxConnect = 2
  MaxLag = 1
  Slack = 1
  MaxHead = 3
  Payload = {x, y}
  Data <- Greeting
SPECIFICATION FairSpec
INVARIANTS StreamIntact LateServerIsWaitedFor NoTryAfterDeadline TokenMeansGateway NoBypass
PROPERTY TunnelEnds
CHECK_DEADLOCK FALSE
