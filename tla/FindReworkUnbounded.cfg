SPECIFICATION Spec
CONSTANTS
  N = 2
  Deps <- Deps2
  MaxItems = 5
  AttemptLimits = {2}
  LlmMayFail = FALSE
  StorageMayFail = FALSE
INVARIANTS ReworkBounded
CHECK_DEADLOCK FALSE
