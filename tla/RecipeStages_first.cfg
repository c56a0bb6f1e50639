SPECIFICATION MCSpec
CONSTANTS
    NumRecipes = 2
    Lines <- MCLines
    Revised <- MCRevised
    Text <- MCText
    Title <- MCTitle
    Names <- MCNames
    Slugs <- MCSlugs
    Edges <- MCEdges
    DefaultRole <- MCDefaultRole
    Toppers = {}
    ChunkSize = 1
    MaxPasses = 3
    MaxEdits = 1
INVARIANT LeadingModifierIsTheBase
CHECK_DEADLOCK FALSE
