CONSTANTS
  Limit = 2
  Window = 1
  MaxTime = 3
  MaxCount = 3
  alice = alice
  bob = bob
  b1 = b1
  i1 = i1
  s1 = s1
  s2 = s2
  None = None
  Users = {alice, bob}
  Browsers = {b1}
  IPhones = {i1}
  Androids = {}
  Enabled = {b1, i1}
  Tester = alice
  Senders = {s1, s2}
SPECIFICATION DeliverySpec
INVARIANTS
  TypeOK
  LessThanTwice
  DeliveryTypeOK
  GoneIsPruned
  ErrorsAreReported
PROPERTY PruneOnlyDead
CONSTRAINT RowsInFirstWindow
SYMMETRY SenderSymmetry
CHECK_DEADLOCK FALSE
