---------------------------- MODULE Blake2bLong ----------------------------
(***************************************************************************)
(* blake2b_long of blake2/blake2b.c, the hash of any length that makes the *)
(* first blocks of a lane and the tag: a chain of digests, of which every  *)
(* one but the last gives its first half.                                  *)
(*                                                                         *)
(* A byte is <<digest, length, place>>: the place-th byte of the digest-th *)
(* hash of the chain, computed as a hash of that length.                   *)
(***************************************************************************)
EXTENDS Integers, Sequences

CONSTANTS
    OUTBYTES,       \* BLAKE2B_OUTBYTES, an even number
    UINT32_MAX,     \* the greatest length the four bytes hashed first can hold
    MaxOutlen       \* bound: the longest output asked for

VARIABLES
    outlen,         \* the length asked for
    out,            \* the bytes written so far
    out_buffer,     \* the last digest of full length, by its place in the chain
    toproduce,      \* bytes left to write
    ret, pc

vars == <<outlen, out, out_buffer, toproduce, ret, pc>>

Half == OUTBYTES \div 2

\* The first n bytes of the digest-th hash of the chain.
Piece(digest, length, n) == [k \in 1 .. n |-> <<digest, length, k>>]

Init ==
    /\ outlen \in 0 .. MaxOutlen
    /\ out = << >> /\ out_buffer = 0 /\ toproduce = 0 /\ ret = -1 /\ pc = "start"

\* The lengths of digest that blake2b and blake2b_init do not refuse; the other
\* checks of blake2b, on its pointers and its key, never fail here.
blake2b(length) == length > 0 /\ length <= OUTBYTES

TooLong == outlen > UINT32_MAX

\* A size_t of 64 bits need not fit. ret is still -1.
Refuse ==
    /\ pc = "start" /\ TooLong
    /\ pc' = "done"
    /\ UNCHANGED <<outlen, out, out_buffer, toproduce, ret>>

Short ==
    /\ pc = "start" /\ ~TooLong /\ outlen <= OUTBYTES
    /\ IF blake2b(outlen) THEN ret' = 0 /\ out' = Piece(1, outlen, outlen)
       ELSE ret' = -1 /\ UNCHANGED out
    /\ pc' = "done"
    /\ UNCHANGED <<outlen, out_buffer, toproduce>>

First ==
    /\ pc = "start" /\ ~TooLong /\ outlen > OUTBYTES
    /\ out_buffer' = 1
    /\ out' = Piece(1, OUTBYTES, Half)
    /\ toproduce' = outlen - Half
    /\ ret' = 0 /\ pc' = "loop"
    /\ UNCHANGED outlen

\* Mutant: the loop also takes a last digest of full length.
ContinuesToEnd == toproduce >= OUTBYTES
\* The loop's condition.
Continues == toproduce > OUTBYTES

Chain ==
    /\ pc = "loop" /\ Continues
    /\ out_buffer' = out_buffer + 1
    /\ out' = out \o Piece(out_buffer', OUTBYTES, Half)
    /\ toproduce' = toproduce - Half
    /\ UNCHANGED <<outlen, ret, pc>>

\* The last digest is computed with the length that is left.
Last ==
    /\ pc = "loop" /\ ~Continues
    /\ IF blake2b(toproduce)
       THEN ret' = 0 /\ out' = out \o Piece(out_buffer + 1, toproduce, toproduce)
       ELSE ret' = -1 /\ UNCHANGED out
    /\ pc' = "done"
    /\ UNCHANGED <<outlen, out_buffer, toproduce>>

Next == Refuse \/ Short \/ First \/ Chain \/ Last

----------------------------------------------------------------------------
\* RFC 9106, section 3.3: H'^T(A), with r = ceil(T / 32) - 2 halves.
Halves == (outlen + Half - 1) \div Half - 2

HPrime ==
    [p \in 1 .. outlen |->
        IF outlen <= OUTBYTES THEN <<1, outlen, p>>
        ELSE IF p <= Halves * Half
        THEN <<((p - 1) \div Half) + 1, OUTBYTES, ((p - 1) % Half) + 1>>
        ELSE <<Halves + 1, outlen - Halves * Half, p - Halves * Half>>]

\* blake2b_long writes the outlen bytes of H' and no byte past them. It fails, and
\* then writes nothing, only for a length of none or of more than 32 bits
\* (blake2b.c 333-389).
LongIsHPrime ==
    /\ pc = "done" => IF outlen = 0 \/ TooLong THEN ret = -1 /\ out = << >>
                      ELSE ret = 0 /\ out = HPrime
    /\ Len(out) <= outlen
=============================================================================
