CONSTANTS
  t1 = t1
  r1 = r1
  r2 = r2
  g1 = g1
  g2 = g2
  l1 = l1
  n1 = n1
  n2 = n2
  m1 = m1
  m2 = m2
  None = None
  Tokens = {t1}
  Resets = {r1, r2}
  Registers = {g1, g2}
  Logins = {l1}
  Names = {n1, n2}
  Mails = {m1, m2}
  ForgotMail = m1
  Lifetime = 1
  MaxHour = 1
SPECIFICATION AccountsSpec
INVARIANTS
  TypeOK
  SpentTokenIsDead
  LinkDiesByReset
  AccountsTypeOK
  UniqueAccounts
  RefusalIsFounded
  ServedIsAuthentic
SYMMETRY Symmetry
CHECK_DEADLOCK FALSE
