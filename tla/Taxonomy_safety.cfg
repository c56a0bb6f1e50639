SPECIFICATION Spec
CONSTANTS
    Ids = {1, 2, 3}
    Seeds <- SmallSeeds
    MaxBirths = 4
    MaxWrites = 2
CHECK_DEADLOCK FALSE
PROPERTIES
    OnlySetParentsMoves
    EditsKeepDag
    ClusterPlacementKeepsAntichain
