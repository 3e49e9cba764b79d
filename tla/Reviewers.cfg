SPECIFICATION ChoiceSpec
CONSTANTS
  Reviews <- FourReviews
  Author <- Authors
  Sources <- DirectSources
  Handicaps = {0, 40}
INVARIANTS ConflictsAreLastResort
PROPERTIES LoadIsShared
CHECK_DEADLOCK FALSE
