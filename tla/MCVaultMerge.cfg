SPECIFICATION Spec
CONSTANTS
    Entries = {e1, e2}
    Folders = {f1}
    Contents = {a, b}
    Times = {1, 2}
    Absent = Absent
INVARIANTS
    MergeConverges
    NothingDiscardedUnasked
    DefaultsKeepMerge
    UnmixedDecisionsHonoured
PROPERTY
    ResolutionIsLocal
CHECK_DEADLOCK FALSE
