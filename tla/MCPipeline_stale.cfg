SPECIFICATION Spec
CONSTANTS
  Plan <- EqualPlan
  Uninitialised = {}
  MaxFetches = 2
  Hosts <- MCHosts
  Addresses <- MCHosts
  Chunks = {4, 9}
INVARIANTS AllOfOneFetch
