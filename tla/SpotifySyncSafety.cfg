CONSTANTS
  h1 = h1
  h2 = h2
  Handlers = {h1, h2}
  MaxJobs = 2
  PollLimit = 1
  NumRanges = 2
  HasEncKey = TRUE
SPECIFICATION Spec
SYMMETRY HandlerSymmetry
INVARIANTS
  TypeOK
  RunningHasWorker
  CompleteIsFull
  AcceptedSyncHasTokens
  IngestionNeedsGrant
