SPECIFICATION Spec
CONSTANTS
    None = None
    AnyType = AnyType
    NumUrls = 2
    SiteOf <- OneSite
    Contents = {"recipe", "cleared", "trap", "blocked"}
    Content <- MCContent
    Serves <- MixedServes
    Fingerprints <- MCFingerprints
    UrlLabels = {"likely_drink_recipe"}
    Filters = {"likely_drink_recipe", AnyType}
    Workers = {w1}
    BreakerWindow = 1
    MaxAttempts = 2
    BatchSize = 2
    SitemapEnds = {1, 2}
    MaxRuns = 2
    MaxResets = 1
    MaxKills = 1
CHECK_DEADLOCK FALSE
INVARIANTS
    SettledStatusIsRecorded
    LabelIsExplained
