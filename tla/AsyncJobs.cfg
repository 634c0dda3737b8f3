CONSTANTS
  load = load
  mapex = mapex
  image = image
  urgent = urgent
  common = common
  Jobs <- MCJobs
  Priority <- MCPriority
  Kept <- MCKept
  Loads <- MCLoads
  NoJob = NoJob
SPECIFICATION FairSpec
INVARIANTS TypeOK Ownership CancelIsHonest NoneLeftBehind
PROPERTIES HighestFirst WaitReturns JobsLeaveQueue PoolImplemented
