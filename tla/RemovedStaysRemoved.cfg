CONSTANTS
  a = a
  b = b
  Ids = {a}
  None = None
  NoTag = "none"
  NoSlot = "none"
  Tags <- MCTags
  Slots <- MCSlots
  StateSteps <- NoSteps
  MaxBacklog = 1
  Limit <- RemoveLimit
  EarlyOps <- Nothing
  ShutdownWhenComplete <- OnlyFalse
  KeepCpuAwake <- OnlyFalse
SPECIFICATION Spec
CHECK_DEADLOCK FALSE
PROPERTY RemovedStaysRemoved
