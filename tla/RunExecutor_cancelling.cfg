SPECIFICATION FairSpec
CONSTANTS
    NumJobs = 1
    Entities = {e1}
    Clients = {c1}
    Stages = {"extract"}
    MaxRestarts = 0
    MaxRequests = 2
CHECK_DEADLOCK FALSE
PROPERTY CancellingRunsEnd
