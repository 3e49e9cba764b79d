SPECIFICATION FairSpec
CONSTANTS
  mlops = mlops
  backend = backend
  From <- TwoAgents
  Limits <- OneOrTwo
  MaxInvitations = 1
  LlmMayFail = TRUE
  SaveMayFail = TRUE
INVARIANTS TypeOK AnswerOnce LateByTimeouts
PROPERTIES AsksEnd
CHECK_DEADLOCK FALSE
