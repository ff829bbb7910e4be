CONSTANTS
  Events = {1, 2, 3}
  Begins <- MCBegins
  ServerAhead = 0
  PageSize = 2
  MaxPages = 2
  NumSegments = 2
  SegmentHours = 2
  MaxHour = 1
  Users = {ann}
  Statuses = {going, interested}
  Lineup <- MCLineup
  Queries <- MCQueries
  Limit = 1
  Slots = {s1, s2}
  Shelf = {1, 2}
SPECIFICATION EventsSpec
SYMMETRY MCSymmetry
INVARIANTS
  EventsTypeOK
  CycleCoversWindow
  ListIsWhole
  ScrollNeverSticks
