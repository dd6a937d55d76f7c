SPECIFICATION PollSafety
CONSTANTS
  p1 = p1
  p2 = p2
  Pollers = {p1, p2}
  Drainers = {p1, p2}
  NoDrainer = NoDrainer
  Cap = 2
  MaxID = 3
  Limits = {1, 3}
SYMMETRY Symmetry
INVARIANTS
  PollOK
  GapFree
  LockHeld
  ConfirmedStaysConfirmed
  ResponseHasNoHoles
  NothingLostUnseen
PROPERTY
  NeverReturns
