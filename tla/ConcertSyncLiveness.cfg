CONSTANTS
  Events = {1, 2, 3}
  Begins <- MCBegins
  ServerAhead = 0
  PageSize = 1
  MaxPages = 2
  NumSegments = 2
  SegmentHours = 2
  MaxHour = 1
SPECIFICATION FairSpec
INVARIANT CycleCoversWindow
PROPERTY StopEndsGoroutine
