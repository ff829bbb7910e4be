CONSTANTS
  t1 = t1
  t2 = t2
  r1 = r1
  r2 = r2
  r3 = r3
  Tokens = {t1, t2}
  Resets = {r1, r2, r3}
SPECIFICATION Spec
INVARIANT TokenUsedOnce
CHECK_DEADLOCK FALSE
