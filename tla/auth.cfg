\* Two threads on clones of one client, one in bearer_token, every event.
CONSTANTS
  p1 = p1
  p2 = p2
  box1 = box1
  A = A
  Callers = {p1, p2}
  Takers = {p1}
  Clients = {box1}
  ClientOf <- Shared
  Pinned = {}
  Servers = {A}
  MaxGen = 2
  OpaqueGens = {2}
  Events = {"lost", "savefail", "crash", "overlap", "revoke", "move"}
  PinTok = PinTok
  None = None
SPECIFICATION BearerSpec
INVARIANTS TypeOK RetryCredential NoNeedlessSignIn
PROPERTY BearerIsTruthful
