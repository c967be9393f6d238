SPECIFICATION Spec
CONSTANTS
  c1 = c1
  c2 = c2
  NoClient = NoClient
  Clients <- OneClient
  Backlog = 1
  MaxUpdates = 1
  MaxStarts = 1
INVARIANTS DataIsServed
CHECK_DEADLOCK FALSE
