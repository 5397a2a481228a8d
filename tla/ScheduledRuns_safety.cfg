SPECIFICATION Spec
CONSTANTS
  agent = agent
  shell = shell
  web = web
  chatLane = chatLane
  shellLane = shellLane
  Free = Free
  Foreign = Foreign
  None = None
  Tasks = {agent, shell}
  AgentTasks = {agent}
  OnceTasks = {shell}
  Chats = {web}
  Lanes = {chatLane, shellLane}
  ChatOf <- ScheduledChatOf
  LaneOf <- ScheduledLaneOf
  MaxSlot = 1
  MaxRevision = 1
  MaxAttempts = 2
  MaxFaults = 1
INVARIANTS
  TypeOK
  SuccessIsCommitted
PROPERTIES
  DecidedOnce
  NoSlotSkipped
CHECK_DEADLOCK FALSE
