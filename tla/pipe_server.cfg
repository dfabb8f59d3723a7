SPECIFICATION LiveSpec
CONSTANTS
    Conn = {c1, c2}
    MaxConnections = 1
    MaxPending = 2
    MaxLines = 3
INVARIANTS
    ShutdownAfterDrain
PROPERTIES
    RepliesInOrder
    AcceptedIsAnswered
    CloseCompletes
CHECK_DEADLOCK FALSE
