CONSTANTS
  load = load
  mapex = mapex
  image = image
  urgent = urgent
  common = common
  Jobs <- MCJobs
  Priority <- MCPriority
  Kept <- MCKept
  Loads <- MCLoads
  NoJob = NoJob
SPECIFICATION Spec
INVARIANT EventPerJob
