SPECIFICATION FairSpec
CONSTANTS
  Cases <- MCCases
  MaxNet = 2
  Backlog = 1
  MaxSockets = 2
INVARIANTS AgreedAndSecured NoFalseRejection OneSocketPerCaller
 
CHECK_DEADLOCK FALSE
