SPECIFICATION Spec
CONSTANTS
    d1 = d1
    d2 = d2
    s1 = s1
    s2 = s2
    e1 = e1
    e2 = e2
    e3 = e3
    Devices = {d1, d2}
    Slots = {s1}
    Entries = {e1, e2, e3}
    Folders = {}
    Seeded = {e1}
    Explored = {"draft", "syncAll"}
    MaxEdits = 2
    MaxRevision = 3
    MaxLate = 0
    Contents <- MCContents
    Clock <- MCClock
    Absent = Absent
    NoVault = NoVault
    NoCache = NoCache
INVARIANTS
    NoLostUpdate
CHECK_DEADLOCK FALSE
