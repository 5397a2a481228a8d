SPECIFICATION HostFairSpec
CONSTANTS
  q1 = q1
  q2 = q2
  m1 = m1
  x1 = x1
  y1 = y1
  web = web
  o1 = o1
  NoOp = NoOp
  NoSource = NoSource
  Chats = {web}
  Ops = {o1}
  Intents = {}
  Sources <- HostSources
  KindOf <- HostKind
  ChatOf <- HostChatOf
  SideSources = {m1}
  CancelSource <- HostCancelSource
  MaxCrashes = 1
  Callers = {a, b}
INVARIANTS
  HostTypeOK
  OnlyCommittedOutcomes
  AbortCoversOperation

  
CHECK_DEADLOCK FALSE
