CONSTANTS
  Flag = {r50}
  Semaphore = {r51}
  NoCore = NoCore
  NumSeg = 4
  MaxCmd = 4
SPECIFICATION FairSpec
CHECK_DEADLOCK FALSE
INVARIANT BacklogIsSwallowed
INVARIANT InTypedOrder
PROPERTY WakeupsDrain
