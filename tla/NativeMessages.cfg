SPECIFICATION FairSpec
CONSTANTS
  m1 = m1
  m2 = m2
  d1 = d1
  d2 = d2
  None = None
  Messages = {m1, m2}
  Callers = {d1}
  MaxFaults = 1
  MaxCrashes = 1
INVARIANTS
  TypeOK
  AcknowledgedIsHeld
  AnswerPostedOnce
PROPERTIES
  AbortCoversScope
  MessageSettles
CHECK_DEADLOCK FALSE
