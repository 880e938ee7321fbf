SPECIFICATION Spec
CONSTANTS
    Entries = {e1, e2}
    Folders = {}
    Contents = {a, b}
    Times = {1, 2}
    Absent = Absent
INVARIANT
    DecisionsHonoured
CHECK_DEADLOCK FALSE
