SPECIFICATION FairSpec
CONSTANTS
  N = 4
  Plans <- Plans4
  Cap <- CapDefault
  MaxRetries = 2
  MaxFailPercent = 30
  LlmMayFail = FALSE
  StorageMayFail = FALSE
  DepsMayTimeOut = FALSE
PROPERTIES AllDelivered
