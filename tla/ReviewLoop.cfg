SPECIFICATION FairSpec
CONSTANTS
  N = 2
  Deps <- Deps2
  MaxItems = 5
  AttemptLimits = {0, 2}
  LlmMayFail = TRUE
  StorageMayFail = TRUE
INVARIANTS OneActorPerTask ReworkReadsItsItem NothingBuiltOnNothing
PROPERTIES SettlesOrLoops
CHECK_DEADLOCK FALSE
