CONSTANTS
  alice = alice
  bob = bob
  None = None
  Users = {alice, bob}
  Requests = {r1}
  Asked <- MCAsked
  AllowedRanges = {"short_term", "medium_term"}
  DefaultRange = "medium_term"
  DefaultLimit = 10
  MaxLimit = 50
  MaxOverlaps = 2
  TracksEnabled = TRUE
  TTL = 2
  QueryTime = 1
  MaxTime = 4
  MaxStores = 1
  abba = abba
  blur = blur
  People = {1, 2}
  Items = {abba, blur}
  MaxLen = 1
  TopN = 1
  NameOf <- MCNameOf
SPECIFICATION MatchingSpec
PROPERTY InvalidationClears
