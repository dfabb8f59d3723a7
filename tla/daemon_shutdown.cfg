SPECIFICATION FairSpec
CONSTANTS
  MaxTime = 1
  Client = {c1}
  RequestId = {1, 2, 3, 4}
  MaxClients = 1
  MaxSessions = 1
  MaxReplay = 2
  ClientIdleTtl = 2
  HotPathBudget = 0
  ControlBudget = 0
  SessionTtl = 1
  MaxEngineSessions = 1
  MaxPending = 2
  Kinds = {"protocol.negotiate", "session.begin", "memory.learn", "engine.warm", "session.setMode", "engine.shutdown"}
  Events = {"shutdown", "sweep"}
  WellBehaved = TRUE
  MaxSequence = 1
  MaxSeen = 4
  MaxTickets = 4
INVARIANTS LearningAcknowledged
PROPERTIES NothingAfterStop EveryRequestAnswered ShutdownCompletes
CHECK_DEADLOCK FALSE
