SPECIFICATION PollSafety
CONSTANTS
  p1 = p1
  p2 = p2
  Pollers = {p1, p2}
  Drainers = {p1, p2}
  NoDrainer = NoDrainer
  Cap = 2
  MaxID = 2
  Limits = {2}
PROPERTY
  OnlyOffsetsConsume
