SPECIFICATION Spec
CONSTANTS
    None = None
    NumPages = 2
    Labels = {drink}
    Batches = {b1, b2}
    ChunkSize = 2
    Limit = 3
    FailedStates = {"failed"}
    MaxVersion = 2
    MaxStarts = 2
    MaxResets = 1
    MaxKills = 1
CHECK_DEADLOCK FALSE
INVARIANTS
    LabelsAreOwnAnswers
    IngestedIsComplete
    WithinLimit
