SPECIFICATION Safety
CONSTANTS
  d1 = d1
  d2 = d2
  h1 = h1
  h2 = h2
  Deliverers = {d1, d2}
  Drainers = {d1, d2}
  NoDrainer = NoDrainer
  NoRow = NoRow
  Unsure = Unsure
  Handlers = {h1, h2}
  Cap = 1
  MaxID = 1
  RoundLimit = 1
  MaxAttempts = 1
  MaxRestarts = 1
SYMMETRY Symmetry
INVARIANTS
  ServedIsStored
