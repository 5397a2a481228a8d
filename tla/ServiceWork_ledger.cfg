SPECIFICATION Spec
CONSTANTS
  q1 = q1
  x1 = x1
  m1 = m1
  r1 = r1
  dm = dm
  web = web
  o1 = o1
  o2 = o2
  i1 = i1
  NoOp = NoOp
  NoSource = NoSource
  Ops = {o1, o2}
  Chats = {web, dm}
  Intents = {i1}
  Sources <- LedgerSources
  KindOf <- LedgerKind
  ChatOf <- LedgerChatOf
SYMMETRY LedgerSymmetry
INVARIANTS
  TypeOK
  OneOwner
  SourceOwnership
  FrontierExplained
  CancellationDecides
  TargetRespected
PROPERTIES
  ImplementsChatLedger
  QueueBarrier
CHECK_DEADLOCK FALSE
