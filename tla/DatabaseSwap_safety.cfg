SPECIFICATION Spec
CONSTANTS
    NoBody = NoBody
    Bodies = {"etl", "newer"}
    BodySchema <- MCBodySchema
    BodyOps <- MCBodyOps
    Blocks = 1
    Build = 2
    Uploads = {u1, u2}
    Applies = {a1, a2}
    Threads = {t1}
    MaxInodes = 3
    MaxKills = 1
    MaxRaises = 1
    MaxRequests = 2
SYMMETRY MCAlike
CHECK_DEADLOCK FALSE
INVARIANTS
    StagedIsVerified
    ServesTheDatabase
    ExecutorOnLive
