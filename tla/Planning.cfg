SPECIFICATION Spec
CONSTANTS
  Answers <- MCAnswers
  WorkItems <- Boards
  MaxRetries = 2
  MinTasks = 3
  MaxTasks = 4
INVARIANTS PlanIsSchedule DeadlockIsCycle ReplanFits
