CONSTANTS
  a = a
  b = b
  Ids = {a}
  None = None
  NoTag = "none"
  NoSlot = "none"
  Tags <- MCTags
  Slots <- MCSlots
  StateSteps <- MCStateSteps
  MaxBacklog = 1
  Limit <- LifecycleLimit
  EarlyOps <- Early
  ShutdownWhenComplete <- OnlyTrue
  KeepCpuAwake <- OnlyTrue
SPECIFICATION FairSpec
CHECK_DEADLOCK FALSE
INVARIANTS TypeOK ShutdownReleases
PROPERTIES AddedIsListed InitializeEnds ShutdownStopsSession
