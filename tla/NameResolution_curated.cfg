SPECIFICATION FairSpec
CONSTANTS
    lime = lime
    dash = dash
    limeNode = limeNode
    citrus = citrus
    NoNode = NoNode
    Names = {lime, dash}
    Nodes = {limeNode, citrus}
    SlugOf <- SmallSlugOf
    Near <- SmallNear
    NamedAs <- SmallNamedAs
    MaxRuns = 2
    MaxCurations = 2
    MaxFailures = 1
    MaxRestarts = 1
CHECK_DEADLOCK FALSE
INVARIANTS
    FixStandsWhenRecorded
    UninterruptedNamesLand
PROPERTIES
    MapOnlyMints
    FixReturns
