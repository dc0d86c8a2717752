SPECIFICATION AnswerSpec
CONSTANTS
  a = a
  b = b
  c = c
  d = d
  e = e
  m1 = m1
  m2 = m2
  NoMode = NoMode
  Nobody = Nobody
  Services = {a, b, c, d, e}
  Requires <- WayOut
  Fragile = {a, b}
  Plans = {p1}
  Requests <- Answered
  Defined = {m1}
  StallTimeout = TRUE
  MaxRevision = 0
PROPERTIES PlansReturn
CHECK_DEADLOCK FALSE
