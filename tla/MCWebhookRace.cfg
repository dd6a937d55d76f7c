SPECIFICATION StoredSafety
CONSTANTS
  d1 = d1
  d2 = d2
  h1 = h1
  h2 = h2
  Deliverers = {d1, d2}
  Drainers = {d1, d2}
  NoDrainer = NoDrainer
  NoRow = NoRow
  Handlers = {h1, h2}
  Cap = 2
  MaxID = 2
  RoundLimit = 2
  MaxAttempts = 1
SYMMETRY Symmetry
INVARIANTS
  DroppedNotPosted
  OnePostAtATime
  StopsPromptly
  SettledOnce
