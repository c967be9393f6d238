SPECIFICATION FairSpec
CONSTANTS
  RefreshHz = 5
  ConnectTimes <- MCConnectTimes
  FetchTimes <- MCFetchTimes
  MaxFetchTime = 300
  MaxTyped = 3
INVARIANTS TypeOK TerminalRestored RefreshOnTime OneMoreAtMost OnceIsOne
PROPERTIES StopHonoured QuitKeyWorks
CHECK_DEADLOCK FALSE
