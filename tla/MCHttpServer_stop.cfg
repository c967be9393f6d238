SPECIFICATION FairSpec
CONSTANTS
  c1 = c1
  c2 = c2
  NoClient = NoClient
  Clients <- OneClient
  Backlog = 1
  MaxUpdates = 0
  MaxStarts = 1
PROPERTIES StopReturns
CHECK_DEADLOCK FALSE
