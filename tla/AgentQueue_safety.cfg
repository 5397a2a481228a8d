SPECIFICATION Spec
CONSTANTS
  c1 = c1
  c2 = c2
  c3 = c3
  c4 = c4
  web = web
  shell = shell
  i1 = i1
  i2 = i2
  NoId = NoId
  NoCall = NoCall
  Calls <- MCCalls
  Lanes <- MCLanes
  Ids <- MCIds
  LaneOf <- MCLaneOf
  IdOf <- MCIdOf
  MaxRetries = 1
INVARIANTS
  TypeOK
  LaneSerial
  DedupGlobal
  NoStrandedLane
  HonestVerdicts
  LaneFIFO
PROPERTIES
  ImplementsSerialLanes
CHECK_DEADLOCK FALSE
