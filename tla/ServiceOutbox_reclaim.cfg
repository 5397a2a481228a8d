SPECIFICATION Spec
CONSTANTS
  push = push
  log = log
  t1 = t1
  t2 = t2
  t3 = t3
  w1 = w1
  w2 = w2
  Never = Never
  NoToken = NoToken
  NoLease = NoLease
  Rows = {1}
  Kinds = {log}
  Tokens = {t1, t2}
  Workers = {w1}
  MaxAttempt = 2
  MaxTime = 2
  KindOf <- MCKindOf
  Repeatable <- MCRepeatable
INVARIANTS
  ExpiredIsReclaimable
CHECK_DEADLOCK FALSE
