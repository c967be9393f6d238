SPECIFICATION Spec
CONSTANTS
  Plan <- SolakonPlan
  Uninitialised <- UninitialisedLocals
  MaxFetches = 2
  MaxFailures = 2
INVARIANTS TypeOK CheckedFieldsAreOwn NoCarryOver StaleWithinLocal CompleteWhenAllSucceed GarbageIsUnassigned
