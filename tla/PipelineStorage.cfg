SPECIFICATION Spec
CONSTANTS
  N = 3
  Plans <- PlansContended
  Cap <- CapDesktop
  MaxRetries = 2
  MaxFailPercent = 30
  LlmMayFail = FALSE
  StorageMayFail = TRUE
  DepsMayTimeOut = TRUE
INVARIANTS QueuesInPlanOrder ReturnedIsDone NoCircularWait
