SPECIFICATION Spec
CONSTANTS
  a = a
  b = b
  c = c
  d = d
  e = e
  m1 = m1
  m2 = m2
  NoMode = NoMode
  Nobody = Nobody
  Services = {a, b, c}
  Requires <- Pair
  Fragile = {}
  Plans = {p1, p2}
  Requests <- Contrary
  Defined = {m1, m2}
  StallTimeout = FALSE
  MaxRevision = 1
INVARIANTS NothingStranded PlanDelivers TargetDisjoint CommitsCounted OneSwitchPerMode
PROPERTIES OnlyWhatWasAsked
CHECK_DEADLOCK FALSE
SYMMETRY Symmetric
CONSTRAINT Bounded
