SPECIFICATION Spec
CONSTANTS
    d1 = d1
    d2 = d2
    s1 = s1
    s2 = s2
    e1 = e1
    e2 = e2
    e3 = e3
    Devices = {d1}
    Slots = {s1, s2}
    Entries = {e1}
    Folders = {}
    Seeded = {}
    Explored = {"save", "draft", "sync", "syncAll", "lock", "unlock", "bio", "password", "logout", "login", "restart", "expiry", "unreachable", "serverError"}
    MaxEdits = 1
    MaxRevision = 2
    MaxLate = 0
    Contents <- MCContents
    Clock <- MCClock
    Absent = Absent
    NoVault = NoVault
    NoCache = NoCache
SYMMETRY MCSymmetry
INVARIANTS
    TypeOK
    CleanCacheIsAccepted
CHECK_DEADLOCK FALSE
