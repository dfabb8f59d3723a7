SPECIFICATION Spec
CONSTANTS
  MaxTime = 3
  Client = {c1, c2}
  RequestId = {1, 2, 3, 4, 5}
  MaxClients = 2
  MaxSessions = 2
  MaxReplay = 2
  ClientIdleTtl = 2
  HotPathBudget = 0
  ControlBudget = 1
  SessionTtl = 2
  MaxEngineSessions = 2
  MaxPending = 1
  Kinds = {"protocol.negotiate", "session.begin", "session.processKeyStroke", "session.end"}
  Events = {"sweep"}
  WellBehaved = TRUE
  MaxSequence = 1
  MaxSeen = 5
  MaxTickets = 5
SYMMETRY Symmetry
INVARIANTS SessionsOwned NoOrphanEngineSession UncertainSessionRetired OneResult
PROPERTIES  AtMostOnce
CHECK_DEADLOCK FALSE
