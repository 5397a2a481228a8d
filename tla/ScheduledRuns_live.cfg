SPECIFICATION FairSpec
CONSTANTS
  agent = agent
  shell = shell
  web = web
  chatLane = chatLane
  shellLane = shellLane
  Free = Free
  Foreign = Foreign
  None = None
  Tasks = {agent}
  AgentTasks = {agent}
  OnceTasks = {}
  Chats = {web}
  Lanes = {chatLane, shellLane}
  ChatOf <- ScheduledChatOf
  LaneOf <- ScheduledLaneOf
  MaxSlot = 1
  MaxRevision = 2
  MaxAttempts = 2
  MaxFaults = 1
INVARIANTS
  NotFrozen
PROPERTIES
  ChatOwnership
  ChatFreed
  OccurrenceSettles
CHECK_DEADLOCK FALSE
