SPECIFICATION Spec
CONSTANTS
  p1 = p1
  d1 = d1
  h1 = h1
  Pollers = {p1}
  Deliverers = {d1}
  Drainers = {p1, d1}
  NoDrainer = NoDrainer
  NoRow = NoRow
  Handlers = {h1}
  Cap = 2
  MaxID = 2
  Limits = {1}
  RoundLimit = 2
  MaxAttempts = 1
INVARIANTS
  SettledNotPolled
  ConfirmedNotPosted
  NothingSlipsThrough
PROPERTY
  ImplementsBuffer
