\* The iOS bridge when there is no memory for the fill.
SPECIFICATION Spec
CONSTANTS
    Word = 64
    SizeWord = 128
    BLOCK_SIZE = 2
    MAX_LANES = 3
    MAX_THREADS = 3
    MIN_OUTLEN = 4
    MIN_SALT_LENGTH = 2
    MAX_MEMORY = 40
    Password = {"p", "q", "NULL"}
    Salt = {"s"}
    Calls <- MCIosKdf
    Failing = {"memory"}
INVARIANT
    ResultIsTag
\* The call ends.
CHECK_DEADLOCK FALSE
