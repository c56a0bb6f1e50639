SPECIFICATION FairSpec
CONSTANTS
    None = None
    AnyType = AnyType
    NumUrls = 3
    SiteOf <- OneSite
    Contents = {"recipe", "cleared", "trap", "blocked"}
    Content <- MCContent
    Serves <- MixedServes
    Fingerprints <- MCFingerprints
    UrlLabels = {"likely_drink_recipe"}
    Filters = {AnyType}
    Workers = {w1, w2}
    BreakerWindow = 1
    MaxAttempts = 2
    BatchSize = 2
    SitemapEnds = {3}
    MaxRuns = 1
    MaxResets = 0
    MaxKills = 0
CHECK_DEADLOCK FALSE
INVARIANTS
    BlockedSiteIsLeftAlone
    FatalIsReported
PROPERTIES
    ProcessesEnd
