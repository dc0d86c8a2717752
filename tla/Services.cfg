SPECIFICATION ServicesSpec
CONSTANTS
  Clients = {"client"}
  Reporters = {"module"}
  Workers = {1, 2}
  MaxEvents = 3
  u1 = u1
  u2 = u2
INVARIANTS TypesOK StreamsOpen
PROPERTIES WorkerComesBack GettyComesBack ServicesEnd
CHECK_DEADLOCK FALSE
