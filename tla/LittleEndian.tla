---------------------------- MODULE LittleEndian ----------------------------
(***************************************************************************)
(* The loads and stores of blake2/blake2-impl.h: the portable loops, a     *)
(* byte at a time, and the memcpy of a little-endian processor. All of     *)
(* Argon2's blocks, lengths and tags pass through them.                    *)
(***************************************************************************)
EXTENDS Integers, Sequences, Bitwise

CONSTANTS
    Base,       \* bound: a byte is scaled to a number below Base, a power of 2
    Sizes       \* the sizes of words, in bytes: 4, 6 and 8 in the code

VARIABLES
    size,       \* the size of the word stored
    stored,     \* the word the caller stores
    native,     \* NATIVE_LITTLE_ENDIAN of the build that stores it
    w,          \* the local w
    p,          \* the bytes in memory
    k,          \* how far *p++ is
    pc

vars == <<size, stored, native, w, p, k, pc>>

\* The memory of a little-endian processor.
Memory(word, n) == [j \in 1 .. n |-> (word \div Base^(j - 1)) % Base]
Number(bytes) ==
    LET sum[j \in 0 .. Len(bytes)] == IF j = 0 THEN 0 ELSE sum[j - 1] + bytes[j] * Base^(j - 1)
    IN  sum[Len(bytes)]

Init ==
    /\ size \in Sizes /\ stored \in 0 .. Base^size - 1 /\ native \in BOOLEAN
    /\ w = stored /\ p = << >> /\ k = 0 /\ pc = "store"

Native == native /\ size # 6        \* load48 and store48 have no other form

StoreNative ==
    /\ pc = "store" /\ Native
    /\ p' = Memory(w, size) /\ pc' = "stored"
    /\ UNCHANGED <<size, stored, native, w, k>>

\* *p++ = (uint8_t)w; w >>= 8, the last byte without a shift
StoreByte ==
    /\ pc = "store" /\ ~Native /\ k < size
    /\ p' = Append(p, w % Base)
    /\ w' = IF k + 1 < size THEN w \div Base ELSE w
    /\ k' = k + 1 /\ pc' = IF k + 1 < size THEN "store" ELSE "stored"
    /\ UNCHANGED <<size, stored, native>>

\* What is stored by one build may be read by the other.
Read ==
    /\ pc = "stored"
    /\ native' \in BOOLEAN /\ w' = 0 /\ k' = 0 /\ pc' = "load"
    /\ UNCHANGED <<size, stored, p>>

LoadNative ==
    /\ pc = "load" /\ Native
    /\ w' = Number(p) /\ pc' = "done"
    /\ UNCHANGED <<size, stored, native, p, k>>

\* Mutant: the eighth byte is shifted like the seventh.
ShiftShort(byte, n) == byte * Base^(IF n = 7 THEN 6 ELSE n)

\* The place of the next byte: << 8 * k
Shift(byte, n) == byte * Base^n

\* w |= (uint64_t)(*p++) << 8 * k
LoadByte ==
    /\ pc = "load" /\ ~Native /\ k < size
    /\ w' = w | Shift(p[k + 1], k)
    /\ k' = k + 1 /\ pc' = IF k + 1 < size THEN "load" ELSE "done"
    /\ UNCHANGED <<size, stored, native, p>>

Next == StoreNative \/ StoreByte \/ Read \/ LoadNative \/ LoadByte

----------------------------------------------------------------------------
\* Every build writes the same bytes of a word and reads the word back from the
\* bytes any build wrote: keys and tags computed on two platforms agree
\* (blake2-impl.h 48-147).
BytesAgree ==
    /\ pc = "stored" => p = Memory(stored, size)
    /\ pc = "done" => w = stored
=============================================================================
