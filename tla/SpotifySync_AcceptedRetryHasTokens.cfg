CONSTANTS
  h1 = h1
  h2 = h2
  Handlers = {h1, h2}
  MaxJobs = 2
  PollLimit = 1
  NumRanges = 3
  HasEncKey = TRUE
SPECIFICATION Spec
INVARIANT AcceptedRetryHasTokens
