SPECIFICATION FairSpec
CONSTANTS
  a = a
  b = b
  c = c
  d = d
  e = e
  m1 = m1
  m2 = m2
  NoMode = NoMode
  Nobody = Nobody
  Services = {a, b}
  Requires <- Alternatives
  Fragile = {b}
  Plans = {p1, p2}
  Requests <- EnableFirst
  Defined = {}
  StallTimeout = FALSE
  MaxRevision = 0
PROPERTIES FlattenEnds
CHECK_DEADLOCK FALSE
