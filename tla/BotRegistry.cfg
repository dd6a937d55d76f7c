SPECIFICATION Spec
CONSTANTS
  g1 = g1
  g2 = g2
  g3 = g3
  t1 = t1
  m1 = m1
  m2 = m2
  m3 = m3
  c1 = c1
  c2 = c2
  Getters = {g1, g2, g3}
  Tokens = {t1}
  Mutexes = {m1, m2, m3}
  Clients = {c1, c2}
  None = None
INVARIANTS
  OneBuild
  OneBot
  OnlyFailuresLeak
PROPERTY
  GetReturns
