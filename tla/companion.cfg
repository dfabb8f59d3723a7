SPECIFICATION LiveSpec
CONSTANTS
    Broker = {b1, b2, b3}
    None = None
    RetryDelays = 3
    MaxPendingWrites = 2
    MaxGeneration = 3
    MaxRestarts = 2
INVARIANTS
    NoUnsupervisedBroker
    WritesDrainedBeforeExit
PROPERTIES
    ServiceComesBack
    QuitCompletes
CHECK_DEADLOCK FALSE
