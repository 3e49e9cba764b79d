SPECIFICATION FairSpec
CONSTANTS
  b1 = b1
  b2 = b2
  m1 = m1
  x1 = x1
  Tasks <- FourTasks
  RoleSlot <- RoleSlots
  FirstLimits <- MacMini
  Values = {0, 2}
  Profiles <- DesktopRtx
  MaxPatches = 2
INVARIANTS SlotsPerReload PairsOfOneReload AppliedIsApplied
PROPERTIES AllGetThrough
CHECK_DEADLOCK FALSE
