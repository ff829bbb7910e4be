CONSTANTS
  alice = alice
  bob = bob
  None = None
  Users = {alice}
  Requests = {r1, r2}
  Asked <- MCAskedFew
  AllowedRanges = {"short_term", "medium_term"}
  DefaultRange = "medium_term"
  DefaultLimit = 10
  MaxLimit = 50
  MaxOverlaps = 2
  TracksEnabled = FALSE
  TTL = 2
  QueryTime = 1
  MaxTime = 4
  MaxStores = 1
  abba = abba
  blur = blur
  People = {1, 2, 3}
  Items = {abba, blur}
  MaxLen = 4
  TopN = 3
  NameOf <- MCNameOf
SYMMETRY MCSymmetry
SPECIFICATION MatchingSpec
INVARIANTS
  TypeOK
  AnswersItsQuestion
  AgeBounded
  ScoresAreFair
  TruncationKeepsBest
  AnswersAsPromised
