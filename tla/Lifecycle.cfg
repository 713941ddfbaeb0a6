SPECIFICATION FairSpec
CONSTANTS
  AppSocks = {1, 2}
  PeerSocks = {3, 4}
  Cases <- MCCases
INVARIANTS
  MuxesExact
  SocketsConsistent
CHECK_DEADLOCK FALSE
PROPERTIES
  ClosedIsReclaimed
