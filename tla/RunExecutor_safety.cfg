SPECIFICATION FairSpec
CONSTANTS
    NumJobs = 1
    Entities = {e1, e2}
    Clients = {c1, c2}
    Stages = {"parse", "extract", "connect", "combine"}
    MaxRestarts = 1
    MaxRequests = 3
CHECK_DEADLOCK FALSE
INVARIANTS
    NeverRedecides
    RunningIsOwned
    UntouchedDoneIsDrained
    AppliedHasContent
PROPERTIES
    LedgerSpec
    QueuedRunsEnd
