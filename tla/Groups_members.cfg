SPECIFICATION Spec
CONSTANTS
  a = a
  b = b
  g = g
  Nobody = Nobody
  Services = {a, b, g}
  Requires <- MCRequires
  Alias <- SeqMost
  Fragile = {}
  Requests <- MCRequests
  MaxPlans = 1
  Pings = 1
INVARIANTS GroupsBreakOnlyByMembers
CHECK_DEADLOCK FALSE
