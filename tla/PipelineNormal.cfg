SPECIFICATION FairSpec
CONSTANTS
  N = 3
  Plans <- AllPlans
  Cap <- CapDefault
  MaxRetries = 2
  MaxFailPercent = 30
  LlmMayFail = TRUE
  StorageMayFail = FALSE
  DepsMayTimeOut = TRUE
INVARIANTS SlotAccounting NoLostWakeup DependenciesFirst NoMissingDependency OutcomeMatchesItem
PROPERTIES RunEnds ImplementsProjectRun
