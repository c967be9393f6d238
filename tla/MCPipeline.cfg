SPECIFICATION FairSpec
CONSTANTS
  Plan <- MixedPlan
  Uninitialised = {}
  MaxFetches = 2
  Hosts <- MCHosts
  Addresses <- MCHosts
  Chunks = {9}
INVARIANTS TrustedSnapshot
PROPERTIES TrustedFetch FetchReturns
