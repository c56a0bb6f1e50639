SPECIFICATION FairSpec
CONSTANTS
    NumItems = 6
    RunStages = {"map", "combine", "extract"}
    ChunkSize = 5
    PackSize = 2
    MaxTries = 2
    BreakerLimit = 2
    Prices = {1, 2}
    NoCap = NoCap
    Caps = {3, NoCap}
    MaxPasses = 2
CHECK_DEADLOCK FALSE
INVARIANTS
    AnswersSurvive
    NeverAskedAgain
    BilledWithinCap
    StopsAfterCancel
PROPERTIES
    EveryPassEnds
