------------------------------- MODULE Blake2b -------------------------------
(***************************************************************************)
(* The streaming hash of blake2/blake2b.c: a caller feeds a message in     *)
(* pieces of any length; blake2b_update compresses what cannot be the last *)
(* block, and blake2b_final compresses the rest, marked as the last.       *)
(*                                                                         *)
(* Bytes stand for their place: n > 0 is the n-th byte of the message, -n  *)
(* the n-th byte of the key and 0 a zero byte. What blake2b_compress does  *)
(* with its inputs is left symbolic: the chain value h is the parameter    *)
(* block and the inputs of every compression so far.                       *)
(***************************************************************************)
EXTENDS Integers, Sequences

CONSTANTS
    BLOCKBYTES,     \* BLAKE2B_BLOCKBYTES
    OUTBYTES,       \* BLAKE2B_OUTBYTES
    KEYBYTES,       \* BLAKE2B_KEYBYTES
    Word,           \* 2^64: a counter word is below it
    Requested,      \* the output lengths a caller asks for
    KeyLengths,     \* the lengths of the key, 0 for a hash without key
    MaxMessage      \* bound: the longest message fed to one hash

ASSUME BlockAssumption ==
    /\ BLOCKBYTES \in Nat \ {0} /\ Word \in Nat /\ Word > BLOCKBYTES
    /\ OUTBYTES \in Nat \ {0} /\ KEYBYTES \in 0 .. BLOCKBYTES
    /\ Requested \subseteq Nat /\ KeyLengths \subseteq Nat /\ MaxMessage \in Nat

Byte == Int
Bytes == [0 .. BLOCKBYTES - 1 -> Byte]
Counter == [low : 0 .. Word - 1, high : 0 .. Word - 1]
Compression == [block : Bytes, t : Counter, last : BOOLEAN]
Parameter == [outlen : Nat, keylen : Nat]
Zeros == [j \in 0 .. BLOCKBYTES - 1 |-> 0]
None == [param |-> [outlen |-> 0, keylen |-> 0], h |-> << >>]

VARIABLES
    h,          \* S->h: every compression since blake2b_init_param
    t,          \* S->t
    f0,         \* S->f[0] # 0: finished or invalid
    buf,        \* S->buf
    buflen,     \* S->buflen
    param,      \* the parameter block XORed into h; its digest_length is S->outlen
    pc,         \* "idle", or where blake2b_update is
    inlen,      \* its inlen
    pin,        \* its pin: bytes of the message taken since the initialisation
    out         \* the digest the caller holds: the chain value it was stored from

vars == <<h, t, f0, buf, buflen, param, pc, inlen, pin, out>>

Init ==
    /\ h = << >> /\ t = [low |-> 0, high |-> 0] /\ f0 = TRUE
    /\ buf = Zeros /\ buflen = 0 /\ param = [outlen |-> 0, keylen |-> 0]
    /\ pc = "idle" /\ inlen = 0 /\ pin = 0 /\ out = None

\* blake2b_increment_counter: the carry goes to the high word.
Increment(c, inc) ==
    LET low == (c.low + inc) % Word
    IN  [low |-> low, high |-> IF low < inc THEN (c.high + 1) % Word ELSE c.high]

\* blake2b_compress; f[0] tells it whether the block is the last one.
Compress(chain, block, counter) ==
    Append(chain, [block |-> block, t |-> counter, last |-> FALSE])
CompressLast(chain, block, counter) ==
    Append(chain, [block |-> block, t |-> counter, last |-> TRUE])

\* memcpy of n bytes of the message, those after `from`, to place `at` of a block.
CopyIn(block, at, from, n) ==
    [j \in DOMAIN block |-> IF j >= at /\ j < at + n THEN from + (j - at) + 1 ELSE block[j]]

KeyBlock(keylen) == [j \in 0 .. BLOCKBYTES - 1 |-> IF j < keylen THEN 0 - (j + 1) ELSE 0]

----------------------------------------------------------------------------
Invalidate ==
    /\ h' = << >> /\ t' = [low |-> 0, high |-> 0] /\ f0' = TRUE
    /\ buf' = Zeros /\ buflen' = 0 /\ param' = [outlen |-> 0, keylen |-> 0]
    /\ pin' = 0 /\ UNCHANGED <<pc, inlen, out>>

\* blake2b_init and blake2b_init_key. The key is the first block, fed through
\* blake2b_update: it stays in the buffer.
Initialise(outlen, keylen) ==
    /\ pc = "idle"
    /\ IF outlen = 0 \/ outlen > OUTBYTES \/ keylen > KEYBYTES
       THEN Invalidate
       ELSE /\ h' = << >> /\ t' = [low |-> 0, high |-> 0] /\ f0' = FALSE
            /\ buf' = KeyBlock(keylen)
            /\ buflen' = IF keylen > 0 THEN BLOCKBYTES ELSE 0
            /\ param' = [outlen |-> outlen, keylen |-> keylen]
            /\ pin' = 0 /\ UNCHANGED <<pc, inlen, out>>

\* Mutant: a full buffer is compressed at once, though it may be the last block.
UpdateStartFull(n) ==
    /\ pc = "idle" /\ ~f0 /\ n > 0 /\ pin + n <= MaxMessage
    /\ inlen' = n
    /\ pc' = IF buflen + n >= BLOCKBYTES THEN "complete" ELSE "rest"
    /\ UNCHANGED <<h, t, f0, buf, buflen, param, pin, out>>

\* blake2b_update: nothing is read from an empty piece or into a finished state.
UpdateStart(n) ==
    /\ pc = "idle" /\ ~f0 /\ n > 0 /\ pin + n <= MaxMessage
    /\ inlen' = n
    /\ pc' = IF buflen + n > BLOCKBYTES THEN "complete" ELSE "rest"
    /\ UNCHANGED <<h, t, f0, buf, buflen, param, pin, out>>

CompleteBlock ==
    LET fill == BLOCKBYTES - buflen
    IN  /\ pc = "complete"
        /\ buf' = CopyIn(buf, buflen, pin, fill)
        /\ t' = Increment(t, BLOCKBYTES)
        /\ h' = Compress(h, buf', t')
        /\ buflen' = 0 /\ inlen' = inlen - fill /\ pin' = pin + fill
        /\ pc' = "direct"
        /\ UNCHANGED <<f0, param, out>>

DirectBlock ==
    /\ pc = "direct" /\ inlen > BLOCKBYTES
    /\ t' = Increment(t, BLOCKBYTES)
    /\ h' = Compress(h, CopyIn(Zeros, 0, pin, BLOCKBYTES), t')
    /\ inlen' = inlen - BLOCKBYTES /\ pin' = pin + BLOCKBYTES
    /\ UNCHANGED <<f0, buf, buflen, param, pc, out>>

Rest ==
    /\ pc = "rest" \/ (pc = "direct" /\ inlen <= BLOCKBYTES)
    /\ buf' = CopyIn(buf, buflen, pin, inlen)
    /\ buflen' = buflen + inlen
    /\ inlen' = 0 /\ pin' = pin + inlen /\ pc' = "idle"
    /\ UNCHANGED <<h, t, f0, param, out>>

\* blake2b_final into a buffer of outlen bytes. It fails on a reused state and
\* on a buffer that is too short, and changes nothing then.
Final(outlen) ==
    /\ pc = "idle" /\ ~f0 /\ outlen >= param.outlen
    /\ t' = Increment(t, buflen)
    /\ f0' = TRUE
    /\ out' = [param |-> param,
               h |-> CompressLast(h, [j \in 0 .. BLOCKBYTES - 1 |-> IF j < buflen THEN buf[j] ELSE 0],
                                  t')]
    /\ h' = << >> /\ buf' = Zeros       \* cleared
    /\ UNCHANGED <<buflen, param, pc, inlen, pin>>

Next ==
    \/ \E n \in Requested, k \in KeyLengths : Initialise(n, k)
    \/ \E n \in 1 .. MaxMessage : UpdateStart(n)
    \/ CompleteBlock \/ DirectBlock \/ Rest
    \/ \E n \in Requested : Final(n)

Spec == Init /\ [][Next]_vars

----------------------------------------------------------------------------
(* BLAKE2 of a whole message (RFC 7693, section 3.3).                      *)

\* The input is the key block, if any, and the message.
KeyPart(keylen) == IF keylen > 0 THEN BLOCKBYTES ELSE 0
Length(keylen, n) == KeyPart(keylen) + n
InputByte(keylen, n, i) ==
    IF i < KeyPart(keylen) THEN KeyBlock(keylen)[i]
    ELSE IF i < Length(keylen, n) THEN (i - KeyPart(keylen)) + 1 ELSE 0

InputBlock(keylen, n, k) ==
    [j \in 0 .. BLOCKBYTES - 1 |-> InputByte(keylen, n, k * BLOCKBYTES + j)]

CounterOf(n) == [low |-> n % Word, high |-> (n \div Word) % Word]

\* One block at least; only the last may be short, and only it is marked.
Blocks(length) == IF length = 0 THEN 1 ELSE (length + BLOCKBYTES - 1) \div BLOCKBYTES

Hash(outlen, keylen, n) ==
    LET length == Length(keylen, n)
        count == Blocks(length)
    IN  [param |-> [outlen |-> outlen, keylen |-> keylen],
         h |-> [k \in 1 .. count |->
                   [block |-> InputBlock(keylen, n, k - 1),
                    t |-> CounterOf(IF k = count THEN length ELSE k * BLOCKBYTES),
                    last |-> k = count]]]

----------------------------------------------------------------------------
TypeOK ==
    /\ h \in Seq(Compression) /\ t \in Counter /\ f0 \in BOOLEAN
    /\ buf \in Bytes /\ buflen \in 0 .. BLOCKBYTES /\ param \in Parameter
    /\ pc \in {"idle", "complete", "direct", "rest"}
    /\ inlen \in 0 .. MaxMessage /\ pin \in 0 .. MaxMessage

\* blake2b_final returns BLAKE2 of the bytes fed since the initialisation, in
\* whatever pieces they came, and a finished state is not fed or finished again.
DigestIsHash == f0 /\ param.outlen > 0 => out = Hash(param.outlen, param.keylen, pin)
=============================================================================
