SPECIFICATION FairSpec
CONSTANTS
  Cases <- MCCases
  Width = 3
  MaxNet = 2
INVARIANTS AgreedAndSecured NoFalseRejection
PROPERTIES RendezvousCompletes
CHECK_DEADLOCK FALSE
