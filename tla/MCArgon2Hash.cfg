\* Every call, with every allocation and thread that may fail.
SPECIFICATION Spec
CONSTANTS
    Word = 64
    SizeWord = 128
    BLOCK_SIZE = 2
    MAX_LANES = 3
    MAX_THREADS = 3
    MIN_OUTLEN = 4
    MIN_SALT_LENGTH = 2
    MAX_MEMORY = 40
    Password = {"p", "q", "NULL"}
    Salt = {"s"}
    Calls <- MCCalls
    Failing = {"hash", "out", "memory", "salt", "field", "text", "thread"}
INVARIANTS
    TypeOK
    NeverMisused
    SoundInstance
    AllOrNothing
    CorrectVerdict
    ClearedBeforeRelease
    LeaksOnlyAfterFailedFill
\* The calls end, or the process crashes in b64_encode.
CHECK_DEADLOCK FALSE
