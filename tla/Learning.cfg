SPECIFICATION Spec
CONSTANTS
  Keys <- AllKeys
  Samples <- AllSamples
  StorageMayFail = TRUE
  Agents = {"backend", "mlops"}
  Ops <- AllOps
  Visits <- AllVisits
  Reviews = {"review"}
  Results <- TwoResults
  LevelOf <- OneLevel
  Levels = {"api"}
  MaxRestarts = 2
INVARIANTS CountedUnlessRaced MemoryIsSaved SettledIsSaved
PROPERTIES KnowledgeGrows
CHECK_DEADLOCK FALSE
