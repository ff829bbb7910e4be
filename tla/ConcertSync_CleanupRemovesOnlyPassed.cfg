CONSTANTS
  Events = {1, 2, 3}
  Begins <- MCBegins
  ServerAhead = 1
  PageSize = 2
  MaxPages = 2
  NumSegments = 2
  SegmentHours = 2
  MaxHour = 1
SPECIFICATION Spec
PROPERTY CleanupRemovesOnlyPassed
