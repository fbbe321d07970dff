SPECIFICATION WFairSpec
CONSTANTS
    Run = {1, 2}
    Worker = {"w1", "w2"}
    MaxConcurrency <- Limits
    Ttl = 3
    Slack = 1
    Closing = {2}
    Stopping = {"w1"}
    Nobody = Nobody
    Gone = Gone
    MaxFaults = 1
INVARIANTS
    HandlersHoldTheirRuns
    NoneLeftBehind
PROPERTIES
    DroppedBecomesRecoverable
    ShutdownReturns
    EveryRunCompletes
