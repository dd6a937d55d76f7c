SPECIFICATION StoredSpec
CONSTANTS
  d1 = d1
  h1 = h1
  Deliverers = {d1}
  Drainers = {d1}
  NoDrainer = NoDrainer
  NoRow = NoRow
  Handlers = {h1}
  Cap = 2
  MaxID = 3
  RoundLimit = 2
  MaxAttempts = 3
INVARIANTS
  InOrder
  SettledOrKept
  EightAttempts
PROPERTY
  PipelineMoves
