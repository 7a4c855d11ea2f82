\* Two processes, no fault.
CONSTANTS
  p1 = p1
  p2 = p2
  box1 = box1
  box2 = box2
  A = A
  Callers = {p1, p2}
  Clients = {box1, box2}
  ClientOf <- Apart
  Pinned = {}
  Servers = {A}
  MaxGen = 2
  OpaqueGens = {}
  Events = {}
  PinTok = PinTok
  None = None
SPECIFICATION Spec
INVARIANT RotationPersisted
