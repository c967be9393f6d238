SPECIFICATION FairSpec
CONSTANTS
  Requests <- MCRequests
  Hosts <- MCHosts
  Addresses <- MCAddresses
  MaxReads = 3
INVARIANTS TypeOK OnlyLateReplies NoExceptionAsData
PROPERTIES ReadReturns ImplementsRegisterRead
