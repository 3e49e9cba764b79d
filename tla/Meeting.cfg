SPECIFICATION FairSpec
CONSTANTS
  backend = backend
  frontend = frontend
  mlops = mlops
  NoOne = NoOne
  Blocked <- TwoBlocked
  Weight <- Weights
  Ballots = {"RETRY", "ABORT", "unreadable"}
  Rulings = {"REROUTE"}
  MaxTries = 1
  SaveMayFail = TRUE
INVARIANTS TypeOK ReplyCountedOnce StraysHaveACause FallbackIsBest
PROPERTIES MeetingsEnd
CHECK_DEADLOCK FALSE
