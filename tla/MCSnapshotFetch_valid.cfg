SPECIFICATION Spec
CONSTANTS
  Plan <- SolakonPlan
  Uninitialised <- UninitialisedLocals
  MaxFetches = 1
  MaxFailures = 1
INVARIANTS ValidIsComplete
