SPECIFICATION AuthSpec
CONSTANTS
    None = None
    Browsers = {b1, b2}
    Handles = {anna, ben}
    Invites = {i1}
    Creds = {c1, c2}
    DevLogin = TRUE
CHECK_DEADLOCK FALSE
INVARIANTS
    LinkMakesOnePasskey
    SetupHappensOnce
    NobodyIsLockedOut
