---------------------------- MODULE Argon2Context ----------------------------
(***************************************************************************)
(* What an Argon2 call is given and what it makes of it: the context and   *)
(* its limits (argon2.h), validate_inputs (core.c) and the layout of the   *)
(* memory computed by argon2_ctx (argon2.c), in 32-bit arithmetic. The     *)
(* limits are constants: TLC checks a scaled-down machine, and the proofs  *)
(* use only what LimitAssumption says of the real ones.                    *)
(***************************************************************************)
EXTENDS Integers

CONSTANTS
    Word,               \* 2^32
    SizeWord,           \* one more than the largest size_t
    BLOCK_SIZE,         \* ARGON2_BLOCK_SIZE, sizeof(block)
    MAX_LANES, MAX_THREADS,
    MIN_OUTLEN, MIN_SALT_LENGTH,
    MAX_MEMORY          \* half the address space in blocks, at most 2^32 - 1

SYNC_POINTS == 4
MIN_LANES == 1
MIN_THREADS == 1
MIN_TIME == 1
MIN_MEMORY == 2 * SYNC_POINTS
MIN_PWD_LENGTH == 0
MIN_AD_LENGTH == 0
MIN_SECRET == 0

\* The limits of 0xFFFFFFFF: no 32-bit value exceeds them, a size_t may.
Greatest == Word - 1
MAX_OUTLEN == Greatest
MAX_TIME == Greatest
MAX_PWD_LENGTH == Greatest
MAX_AD_LENGTH == Greatest
MAX_SALT_LENGTH == Greatest
MAX_SECRET == Greatest

ASSUME LimitAssumption ==
    /\ Word \in Nat /\ SizeWord \in Nat /\ BLOCK_SIZE \in Nat \ {0}
    /\ MAX_LANES \in Nat /\ MAX_THREADS \in Nat /\ MIN_OUTLEN \in Nat
    /\ MIN_SALT_LENGTH \in Nat /\ MAX_MEMORY \in Nat
    /\ MAX_LANES >= 1 /\ 2 * SYNC_POINTS * MAX_LANES < Word
    /\ MAX_MEMORY < Word /\ MAX_MEMORY * BLOCK_SIZE < SizeWord

Argon2_d == 0
Argon2_i == 1
Argon2_id == 2
Type == {Argon2_d, Argon2_i, Argon2_id}
VERSION_10 == 16
VERSION_NUMBER == 19
Uint32 == 0 .. Word - 1

Codes ==
    {"OK", "OUTPUT_PTR_NULL", "OUTPUT_TOO_SHORT", "OUTPUT_TOO_LONG", "PWD_TOO_SHORT",
     "PWD_TOO_LONG", "SALT_TOO_SHORT", "SALT_TOO_LONG", "AD_TOO_SHORT", "AD_TOO_LONG",
     "SECRET_TOO_SHORT", "SECRET_TOO_LONG", "TIME_TOO_SMALL", "TIME_TOO_LARGE",
     "MEMORY_TOO_LITTLE", "MEMORY_TOO_MUCH", "LANES_TOO_FEW", "LANES_TOO_MANY",
     "PWD_PTR_MISMATCH", "SALT_PTR_MISMATCH", "SECRET_PTR_MISMATCH", "AD_PTR_MISMATCH",
     "MEMORY_ALLOCATION_ERROR", "FREE_MEMORY_CBK_NULL", "ALLOCATE_MEMORY_CBK_NULL",
     "INCORRECT_PARAMETER", "INCORRECT_TYPE", "OUT_PTR_MISMATCH", "THREADS_TOO_FEW",
     "THREADS_TOO_MANY", "MISSING_ARGS", "ENCODING_FAIL", "DECODING_FAIL", "THREAD_FAIL",
     "DECODING_LENGTH_FAIL", "VERIFY_MISMATCH"}

\* A pointer of the context is TRUE if it is not NULL.
Context ==
    [out : BOOLEAN, outlen : Uint32, pwd : BOOLEAN, pwdlen : Uint32,
     salt : BOOLEAN, saltlen : Uint32, secret : BOOLEAN, secretlen : Uint32,
     ad : BOOLEAN, adlen : Uint32, t_cost : Uint32, m_cost : Uint32,
     lanes : Uint32, threads : Uint32, version : Uint32,
     allocate_cbk : BOOLEAN, free_cbk : BOOLEAN]

----------------------------------------------------------------------------
\* A sequence of checks returns the code of the first that fails.
When(fails, code) == IF fails THEN code ELSE "OK"
a ++ b == IF a = "OK" THEN b ELSE a

Between(n, min, short, max, long) == When(n < min, short) ++ When(n > max, long)

OutputCheck(c) ==
    When(~c.out, "OUTPUT_PTR_NULL")
    ++ Between(c.outlen, MIN_OUTLEN, "OUTPUT_TOO_SHORT", MAX_OUTLEN, "OUTPUT_TOO_LONG")

PasswordCheck(c) ==
    When(~c.pwd /\ c.pwdlen # 0, "PWD_PTR_MISMATCH")
    ++ Between(c.pwdlen, MIN_PWD_LENGTH, "PWD_TOO_SHORT", MAX_PWD_LENGTH, "PWD_TOO_LONG")

SaltCheck(c) ==
    When(~c.salt /\ c.saltlen # 0, "SALT_PTR_MISMATCH")
    ++ Between(c.saltlen, MIN_SALT_LENGTH, "SALT_TOO_SHORT", MAX_SALT_LENGTH, "SALT_TOO_LONG")

SecretCheck(c) ==
    IF ~c.secret THEN When(c.secretlen # 0, "SECRET_PTR_MISMATCH")
    ELSE Between(c.secretlen, MIN_SECRET, "SECRET_TOO_SHORT", MAX_SECRET, "SECRET_TOO_LONG")

AdCheck(c) ==
    IF ~c.ad THEN When(c.adlen # 0, "AD_PTR_MISMATCH")
    ELSE Between(c.adlen, MIN_AD_LENGTH, "AD_TOO_SHORT", MAX_AD_LENGTH, "AD_TOO_LONG")

\* The product wraps: the lanes are checked only later.
MemoryCheck(c) ==
    Between(c.m_cost, MIN_MEMORY, "MEMORY_TOO_LITTLE", MAX_MEMORY, "MEMORY_TOO_MUCH")
    ++ When(c.m_cost < (8 * c.lanes) % Word, "MEMORY_TOO_LITTLE")

TimeCheck(c) == Between(c.t_cost, MIN_TIME, "TIME_TOO_SMALL", MAX_TIME, "TIME_TOO_LARGE")

LanesCheck(c) == Between(c.lanes, MIN_LANES, "LANES_TOO_FEW", MAX_LANES, "LANES_TOO_MANY")

ThreadsCheck(c) ==
    Between(c.threads, MIN_THREADS, "THREADS_TOO_FEW", MAX_THREADS, "THREADS_TOO_MANY")

CallbackCheck(c) ==
    When(c.allocate_cbk /\ ~c.free_cbk, "FREE_MEMORY_CBK_NULL")
    ++ When(~c.allocate_cbk /\ c.free_cbk, "ALLOCATE_MEMORY_CBK_NULL")

validate_inputs(c) ==
    OutputCheck(c) ++ PasswordCheck(c) ++ SaltCheck(c) ++ SecretCheck(c) ++ AdCheck(c)
    ++ MemoryCheck(c) ++ TimeCheck(c) ++ LanesCheck(c) ++ ThreadsCheck(c) ++ CallbackCheck(c)

----------------------------------------------------------------------------
\* The memory of argon2_ctx: m_cost blocks, fewer if they do not make four equal
\* segments for every lane.
SegmentLength(c) ==
    LET least == (2 * SYNC_POINTS * c.lanes) % Word
        blocks == IF c.m_cost < least THEN least ELSE c.m_cost
    IN  blocks \div ((c.lanes * SYNC_POINTS) % Word)

\* A mutant: the memory is not made equal segments.
InstanceUnaligned(c, type) ==
    LET segment == SegmentLength(c)
    IN  [type |-> type, version |-> c.version, passes |-> c.t_cost, lanes |-> c.lanes,
         segment_length |-> segment,
         lane_length |-> (segment * SYNC_POINTS) % Word,
         memory_blocks |-> c.m_cost,
         threads |-> IF c.threads > c.lanes THEN c.lanes ELSE c.threads]

Instance(c, type) ==
    LET segment == SegmentLength(c)
    IN  [type |-> type, version |-> c.version, passes |-> c.t_cost, lanes |-> c.lanes,
         segment_length |-> segment,
         lane_length |-> (segment * SYNC_POINTS) % Word,
         memory_blocks |-> (segment * ((c.lanes * SYNC_POINTS) % Word)) % Word,
         threads |-> IF c.threads > c.lanes THEN c.lanes ELSE c.threads]

\* allocate_memory: whether num blocks of `size` bytes overflow a size_t, told by
\* dividing the product.
Overflows(num, size) == ((num * size) % SizeWord) \div size # num

\* What fill_memory_blocks relies on: every lane has four segments of two blocks
\* or more, laid out without overlap in the blocks allocated, and a thread each.
Sound(instance, m_cost) ==
    /\ instance.lanes >= 1 /\ instance.passes >= 1
    /\ instance.segment_length >= 2
    /\ instance.lane_length = SYNC_POINTS * instance.segment_length
    /\ instance.memory_blocks = instance.lanes * instance.lane_length
    /\ instance.memory_blocks <= m_cost
    /\ m_cost < instance.memory_blocks + SYNC_POINTS * instance.lanes
    /\ ~Overflows(instance.memory_blocks, BLOCK_SIZE)
    /\ instance.threads \in 1 .. instance.lanes
=============================================================================
