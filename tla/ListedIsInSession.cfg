CONSTANTS
  a = a
  b = b
  Ids = {a}
  None = None
  NoTag = "none"
  NoSlot = "none"
  Tags <- MCTags
  Slots <- MCSlots
  StateSteps <- MCStateSteps
  MaxBacklog = 1
  Limit <- ReconnectLimit
  EarlyOps <- Nothing
  ShutdownWhenComplete <- OnlyFalse
  KeepCpuAwake <- OnlyFalse
SPECIFICATION Spec
CHECK_DEADLOCK FALSE
INVARIANT ListedIsInSession
