SPECIFICATION Spec
CONSTANTS
    n1 = n1
    n2 = n2
    r1 = r1
    r2 = r2
    NoRow = NoRow
    Names = {n1}
    Requests = {r1, r2}
    Explored = {"create", "setup", "register", "login", "change", "recover", "put", "logout", "logoutAll", "delete", "resetInvite", "disable", "expire", "crash", "revokeFails"}
    MaxAccounts = 2
    MaxSecrets = 5
    MaxRevision = 2
SYMMETRY MCSymmetry
INVARIANTS
    TypeOK
    OneAccountPerName
    SessionsOpenAccounts
    NoTokenSurvivesReset
PROPERTIES
    SetUpOnce
    DisabledStaysDisabled
CHECK_DEADLOCK FALSE
