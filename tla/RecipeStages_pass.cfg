SPECIFICATION MCSpec
CONSTANTS
    NumRecipes = 2
    Lines <- MCLines
    Revised <- MCRevised
    Text <- MCText
    Title <- MCTitle
    Names <- MCNames
    Slugs <- MCSlugs
    Edges <- MCEdges
    DefaultRole <- MCDefaultRole
    Toppers = {}
    ChunkSize = 1
    MaxPasses = 3
    MaxEdits = 1
INVARIANT PinnedRowsStand
INVARIANT OnePassOneCut
INVARIANT FrozenBundlesUseAllTheyList
INVARIANT RangesReadAlike
INVARIANT RunTogetherAbstains
INVARIANT TemplatesAreSound
INVARIANT OneKeyOneSnapshot
PROPERTY ConvertWaitsForReview
CHECK_DEADLOCK FALSE
