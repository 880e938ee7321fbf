SPECIFICATION Spec
CONSTANTS
    n1 = n1
    n2 = n2
    r1 = r1
    r2 = r2
    NoRow = NoRow
    Names = {n1}
    Requests = {r1, r2}
    Explored = {"register", "recover"}
    MaxAccounts = 1
    MaxSecrets = 5
    MaxRevision = 2
SYMMETRY MCSymmetry
PROPERTY RecoveryKeyUsedOnce
CHECK_DEADLOCK FALSE
