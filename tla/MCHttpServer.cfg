SPECIFICATION FairSpec
CONSTANTS
  c1 = c1
  c2 = c2
  NoClient = NoClient
  Clients <- TwoClients
  Backlog = 2
  MaxUpdates = 1
  MaxStarts = 2
INVARIANTS TypeOK FreshAnswer AnswersTheQuestion NothingLeft
PROPERTIES NobodyDismissed EveryClientDone StopReturnsIfBusy
CHECK_DEADLOCK FALSE
