CONSTANTS
  h1 = h1
  Handlers = {h1}
  MaxJobs = 2
  PollLimit = 1
  NumRanges = 1
  HasEncKey = FALSE
  Kinds = {"tracks"}
  MaxRank = 2
SPECIFICATION IngestionSpec
INVARIANT CurrentIsOneList
PROPERTIES
  RunningJobEnds
  WorkersReturn
