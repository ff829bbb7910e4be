CONSTANTS
  j1 = j1
  j2 = j2
  j3 = j3
  Jobs = {j1, j2, j3}
  NilJobs = {j3}
  NumWorkers = 2
  QueueSize = 1
SPECIFICATION FairSpec
INVARIANTS
  TypeOK
  Conservation
  StopDrains
  HandledIsAttempted
PROPERTIES
  RefinesFairQueue
  StopTerminates
  StopUnblocksSenders
CHECK_DEADLOCK FALSE
