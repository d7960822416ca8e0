CONSTANTS
  a = a
  b = b
  Ids = {a, b}
  None = None
  NoTag = "none"
  NoSlot = "none"
  Tags <- MCTags
  Slots <- MCSlots
  StateSteps <- NoSteps
  MaxBacklog = 1
  Limit <- RowsLimit
  EarlyOps <- Nothing
  ShutdownWhenComplete <- OnlyFalse
  KeepCpuAwake <- OnlyFalse
SPECIFICATION Spec
CHECK_DEADLOCK FALSE
INVARIANTS OneRowPerTorrent ListedIsPersisted BlockedOnlyUnderViolation
 
