SPECIFICATION Spec
CONSTANTS
  Clients = {"c1", "c2"}
  Commands = {"list", "log"}
  Chain <- MCChain
  Interrupted = FALSE
  MaxConnections = 2
  MaxFd = 4
INVARIANTS RepliesReachSender
CHECK_DEADLOCK FALSE
