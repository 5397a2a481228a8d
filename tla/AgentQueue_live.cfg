SPECIFICATION TimerSpec
CONSTANTS
  c1 = c1
  c2 = c2
  c3 = c3
  c4 = c4
  web = web
  shell = shell
  i1 = i1
  i2 = i2
  NoId = NoId
  NoCall = NoCall
  Calls <- LiveCalls
  Lanes <- MCLanes
  Ids <- MCIds
  LaneOf <- LiveLaneOf
  IdOf <- LiveIdOf
  MaxRetries = 2
PROPERTIES
  AcceptedEnds
  MigrationSettles
  ShutdownAnswers
CHECK_DEADLOCK FALSE
