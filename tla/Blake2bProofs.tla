---------------------------- MODULE Blake2bProofs ----------------------------
(***************************************************************************)
(* The streaming hash computes BLAKE2 of everything it was fed, for every  *)
(* block size and counter width and every way to cut a message in pieces.  *)
(* Inv says where every byte fed so far is: in the full blocks compressed, *)
(* in order, or in the buffer, which is empty only if nothing was fed (so  *)
(* the last block is never compressed before blake2b_final marks it).      *)
(***************************************************************************)
EXTENDS Blake2b, TLAPS

\* The input as a stream of bytes, the key block first.
Stream(keylen, i) ==
    IF i < KeyPart(keylen) THEN KeyBlock(keylen)[i] ELSE (i - KeyPart(keylen)) + 1

FullBlock(keylen, k) ==
    [block |-> [j \in 0 .. BLOCKBYTES - 1 |-> Stream(keylen, ((k - 1) * BLOCKBYTES) + j)],
     t |-> CounterOf(k * BLOCKBYTES),
     last |-> FALSE]

\* The bytes of the input before the buffer.
Before(chain) == Len(chain) * BLOCKBYTES

\* The chain value is that of the first blocks of the input.
Chained(chain, keylen) == \A k \in 1 .. Len(chain) : chain[k] = FullBlock(keylen, k)

\* The first n bytes of a block are those of the input from `base` on.
Holds(block, keylen, base, n) ==
    \A j \in 0 .. BLOCKBYTES - 1 : j < n => block[j] = Stream(keylen, base + j)

Fed == KeyPart(param.keylen) + pin

PieceInv ==
    /\ pc = "idle" => inlen = 0
    /\ pc = "complete" => buflen + inlen > BLOCKBYTES
    /\ pc = "direct" => buflen = 0 /\ inlen >= 1
    /\ pc = "rest" => buflen + inlen <= BLOCKBYTES /\ inlen >= 1
    /\ pin + inlen <= MaxMessage
    /\ f0 => pc = "idle"

BlocksInv ==
    ~f0 =>
        /\ param.outlen > 0
        /\ Fed = Before(h) + buflen
        /\ t = CounterOf(Before(h))
        /\ Chained(h, param.keylen)
        /\ Holds(buf, param.keylen, Before(h), buflen)
        /\ buflen = 0 => pc = "direct" \/ Fed = 0

Inv == TypeOK /\ PieceInv /\ BlocksInv /\ DigestIsHash

----------------------------------------------------------------------------
(* Arithmetic.                                                             *)

\* What the parameters are.
LEMMA Parameters ==
    /\ BLOCKBYTES \in Nat \ {0} /\ Word \in Nat /\ Word > BLOCKBYTES /\ KEYBYTES <= BLOCKBYTES
    /\ KEYBYTES \in Nat /\ OUTBYTES \in Nat /\ MaxMessage \in Nat
    /\ Requested \subseteq Nat /\ KeyLengths \subseteq Nat
BY BlockAssumption

\* One block more.
LEMMA BlockStep ==
    ASSUME NEW n \in Nat
    PROVE  /\ n * BLOCKBYTES \in Nat
           /\ (n + 1) * BLOCKBYTES = (n * BLOCKBYTES) + BLOCKBYTES
           /\ ((n + 1) - 1) * BLOCKBYTES = n * BLOCKBYTES
BY Parameters

\* Division by a counter word, before and after a carry.
LEMMA DivFacts ==
    ASSUME NEW n \in Nat
    PROVE  /\ n % Word \in 0 .. Word - 1 /\ n \div Word \in Nat
           /\ n = (Word * (n \div Word)) + (n % Word)
BY Parameters

LEMMA DivUnique ==
    ASSUME NEW n \in Nat, NEW q \in Nat, NEW r \in 0 .. Word - 1, n = (Word * q) + r
    PROVE  n \div Word = q /\ n % Word = r
BY Parameters

\* Reducing before adding one changes nothing.
LEMMA ModStep == ASSUME NEW q \in Nat PROVE ((q % Word) + 1) % Word = (q + 1) % Word
PROOF
<1>1. PICK c \in Nat, d \in 0 .. Word - 1 : q = (Word * c) + d /\ q % Word = d
      BY DivFacts
<1>2. CASE d + 1 < Word
      <2>1. d + 1 = (Word * 0) + (d + 1) /\ q + 1 = (Word * c) + (d + 1)
            BY <1>1, Parameters
      <2>2. d + 1 \in Nat /\ d + 1 \in 0 .. Word - 1 /\ q + 1 \in Nat
            BY <1>1, <1>2, Parameters
      <2>3. (d + 1) % Word = d + 1
            BY <2>1, <2>2, DivUnique
      <2>4. (q + 1) % Word = d + 1
            BY <2>1, <2>2, <1>1, DivUnique
      <2> QED BY <2>3, <2>4, <1>1
<1>3. CASE d + 1 = Word
      <2>1. Word * (c + 1) = (Word * c) + Word
            BY Parameters
      <2>2. q + 1 = (Word * (c + 1)) + 0 /\ c + 1 \in Nat /\ 0 \in 0 .. Word - 1
            BY <1>1, <1>3, <2>1, Parameters
      <2>3. Word = (Word * 1) + 0
            BY Parameters
      <2>4. (q + 1) % Word = 0
            BY <2>2, DivUnique
      <2>5. Word % Word = 0
            BY <2>2, <2>3, Parameters, DivUnique
      <2> QED BY <2>4, <2>5, <1>1, <1>3
<1> QED BY <1>1, <1>2, <1>3, Parameters

\* The two words are those of the sum: the carry is the test t[0] < inc.
LEMMA IncrementCounter ==
    ASSUME NEW n \in Nat, NEW inc \in 0 .. BLOCKBYTES
    PROVE  Increment(CounterOf(n), inc) = CounterOf(n + inc)
PROOF
<1> DEFINE q == n \div Word
           r == n % Word
           low == (r + inc) % Word
<1>1. /\ r \in 0 .. Word - 1 /\ q \in Nat /\ n = (Word * q) + r /\ inc \in Nat /\ inc < Word
      BY DivFacts, Parameters
<1>2. CASE r + inc < Word
      <2>1. low = r + inc /\ ~(low < inc)
            BY <1>1, <1>2, Parameters
      <2>2. n + inc = (Word * q) + (r + inc)
            BY <1>1, Parameters
      <2>3. (n + inc) \div Word = q /\ (n + inc) % Word = low
            <3> HIDE DEF q, r, low
            <3> QED BY <2>1, <2>2, <1>1, <1>2, DivUnique, Parameters
      <2> QED BY <2>1, <2>3 DEF Increment, CounterOf
<1>3. CASE r + inc >= Word
      <2>1. low = (r + inc) - Word
            <3>1. r + inc = (Word * 1) + ((r + inc) - Word)
                  BY <1>1, Parameters
            <3> QED BY <3>1, <1>1, <1>3, DivUnique, Parameters
      <2>2. low < inc /\ low \in 0 .. Word - 1
            BY <2>1, <1>1, <1>3, Parameters
      <2>3. n + inc = (Word * (q + 1)) + low
            <3> HIDE DEF q, r, low
            <3>1. Word * (q + 1) = (Word * q) + Word
                  BY <1>1, Parameters
            <3> QED BY <3>1, <2>1, <1>1, Parameters
      <2>4. (n + inc) \div Word = q + 1 /\ (n + inc) % Word = low
            <3> HIDE DEF q, r, low
            <3> QED BY <2>2, <2>3, <1>1, DivUnique, Parameters
      <2>5. ((q % Word) + 1) % Word = (q + 1) % Word
            <3> HIDE DEF q
            <3> QED BY <1>1, ModStep
      <2> QED BY <2>2, <2>4, <2>5 DEF Increment, CounterOf
<1> QED BY <1>1, <1>2, <1>3, Parameters

LEMMA BlockUnique ==
    ASSUME NEW n \in Nat, NEW q \in Nat, NEW r \in 0 .. BLOCKBYTES - 1, n = (BLOCKBYTES * q) + r
    PROVE  n \div BLOCKBYTES = q
BY Parameters

LEMMA CounterType == ASSUME NEW n \in Nat PROVE CounterOf(n) \in Counter
BY DivFacts, Parameters DEF CounterOf, Counter

\* The number of blocks of a message with `full` complete ones before the last.
LEMMA BlockCount ==
    ASSUME NEW full \in Nat, NEW rest \in 0 .. BLOCKBYTES,
           rest = 0 => full = 0
    PROVE  Blocks((full * BLOCKBYTES) + rest) = full + 1
PROOF
<1>1. PICK n \in Nat, p \in Nat : n = p + rest /\ p = full * BLOCKBYTES
      BY BlockStep, Parameters
<1>2. CASE rest = 0
      <2>1. n = 0
            BY <1>1, <1>2, Parameters
      <2> QED BY <1>1, <1>2, <2>1, Parameters DEF Blocks
<1>3. CASE rest > 0
      <2>1. (n + BLOCKBYTES) - 1 = (BLOCKBYTES * (full + 1)) + (rest - 1)
            <3>1. BLOCKBYTES * (full + 1) = p + BLOCKBYTES
                  BY <1>1, Parameters
            <3> QED BY <1>1, <3>1, Parameters
      <2>2. ((n + BLOCKBYTES) - 1) \div BLOCKBYTES = full + 1
            <3>1. rest - 1 \in 0 .. BLOCKBYTES - 1 /\ (n + BLOCKBYTES) - 1 \in Nat /\ full + 1 \in Nat
                  BY <1>1, <1>3, Parameters
            <3> QED BY <2>1, <3>1, BlockUnique
      <2>3. n # 0
            BY <1>1, <1>3, Parameters
      <2>4. Blocks(n) = full + 1
            <3>1. PICK d \in Nat : d = n + BLOCKBYTES - 1
                  BY <1>1, Parameters
            <3>2. Blocks(n) = d \div BLOCKBYTES
                  BY <2>3, <3>1 DEF Blocks
            <3> QED BY <2>2, <3>1, <3>2, <1>1, Parameters
      <2> QED BY <2>4, <1>1
<1> QED BY <1>2, <1>3, Parameters

----------------------------------------------------------------------------
(* What the actions build.                                                 *)

LEMMA KeyBlockType == ASSUME NEW k \in Nat PROVE KeyBlock(k) \in Bytes
BY Parameters DEF KeyBlock, Bytes, Byte

LEMMA ZerosType == Zeros \in Bytes
BY Parameters DEF Zeros, Bytes, Byte

\* Copying the next n bytes of the message behind the first `at` bytes of a
\* block continues the stream.
LEMMA CopyContinues ==
    ASSUME NEW block \in Bytes, NEW at \in 0 .. BLOCKBYTES, NEW from \in Nat, NEW n \in Nat,
           at + n <= BLOCKBYTES, NEW keylen \in Nat, NEW base \in Nat,
           base + at = KeyPart(keylen) + from,
           Holds(block, keylen, base, at)
    PROVE  /\ CopyIn(block, at, from, n) \in Bytes
           /\ Holds(CopyIn(block, at, from, n), keylen, base, at + n)
PROOF
<1>1. DOMAIN block = 0 .. BLOCKBYTES - 1 /\ \A j \in 0 .. BLOCKBYTES - 1 : block[j] \in Int
      BY DEF Bytes, Byte
<1>2. KeyPart(keylen) \in Nat
      BY Parameters DEF KeyPart
<1>3. CopyIn(block, at, from, n) \in Bytes
      BY <1>1, Parameters DEF CopyIn, Bytes, Byte
<1>4. ASSUME NEW j \in 0 .. BLOCKBYTES - 1, j < at + n
      PROVE  CopyIn(block, at, from, n)[j] = Stream(keylen, base + j)
      <2>1. CASE j < at
            BY <1>1, <2>1, Parameters DEF CopyIn, Holds
      <2>2. CASE j >= at
            <3>1. CopyIn(block, at, from, n)[j] = from + (j - at) + 1
                  BY <1>1, <1>4, <2>2, Parameters DEF CopyIn
            <3>2. ~(base + j < KeyPart(keylen)) /\ (base + j) - KeyPart(keylen) = from + (j - at)
                  BY <1>2, <2>2, Parameters
            <3>3. Stream(keylen, base + j) = ((base + j) - KeyPart(keylen)) + 1
                  BY <3>2 DEF Stream
            <3> QED BY <3>1, <3>2, <3>3, <1>2, Parameters
      <2> QED BY <2>1, <2>2, Parameters
<1> QED BY <1>3, <1>4 DEF Holds

\* A block that holds the next BLOCKBYTES bytes makes the chain one block longer.
LEMMA ChainExtends ==
    ASSUME NEW chain \in Seq(Compression), NEW keylen \in Nat, NEW block \in Bytes,
           Chained(chain, keylen), Holds(block, keylen, Before(chain), BLOCKBYTES),
           NEW c, c = Increment(CounterOf(Before(chain)), BLOCKBYTES),
           NEW longer, longer = Compress(chain, block, c)
    PROVE  /\ longer \in Seq(Compression) /\ Len(longer) = Len(chain) + 1
           /\ c = CounterOf(Before(longer)) /\ c \in Counter
           /\ Chained(longer, keylen)
PROOF
<1> DEFINE n == Len(chain)
           last == [block |-> block, t |-> c, last |-> FALSE]
<1>0. longer = Append(chain, last)
      BY DEF Compress
<1>1. /\ n \in Nat /\ n * BLOCKBYTES \in Nat /\ (n + 1) * BLOCKBYTES = (n * BLOCKBYTES) + BLOCKBYTES
      /\ Before(chain) = n * BLOCKBYTES
      BY BlockStep DEF Before
<1>2. c = CounterOf((n + 1) * BLOCKBYTES)
      BY <1>1, IncrementCounter, Parameters
<1>3. c \in Counter
      BY <1>1, <1>2, CounterType, Parameters
<1>4. last \in Compression
      BY <1>3 DEF Compression
<1>5. /\ longer \in Seq(Compression) /\ Len(longer) = n + 1 /\ longer[n + 1] = last
      /\ \A k \in 1 .. n : longer[k] = chain[k]
      <2> HIDE DEF last
      <2>1. /\ Append(chain, last) \in Seq(Compression) /\ Len(Append(chain, last)) = n + 1
            /\ Append(chain, last)[n + 1] = last
            /\ \A k \in 1 .. n : Append(chain, last)[k] = chain[k]
            BY <1>4
      <2> QED BY <1>0, <2>1
<1>6. last = FullBlock(keylen, n + 1)
      <2>1. ((n + 1) - 1) * BLOCKBYTES = n * BLOCKBYTES
            BY BlockStep
      <2>2. block = [j \in 0 .. BLOCKBYTES - 1 |-> Stream(keylen, (n * BLOCKBYTES) + j)]
            BY <1>1, Parameters DEF Bytes, Holds
      <2>3. last = [block |-> block, t |-> CounterOf((n + 1) * BLOCKBYTES), last |-> FALSE]
            BY <1>2
      <2> HIDE DEF n, last
      <2> QED BY <2>1, <2>2, <2>3 DEF FullBlock
<1>7. \A k \in 1 .. n + 1 : longer[k] = FullBlock(keylen, k)
      <2> TAKE k \in 1 .. n + 1
      <2>1. CASE k = n + 1
            BY <2>1, <1>5, <1>6
      <2>2. CASE k # n + 1
            <3>1. k \in 1 .. n
                  BY <2>2, <1>1
            <3> QED BY <3>1, <1>5 DEF Chained
      <2> QED BY <2>1, <2>2
<1>8. Chained(longer, keylen)
      BY <1>5, <1>7 DEF Chained
<1>9. Before(longer) = (n + 1) * BLOCKBYTES
      BY <1>5 DEF Before
<1> HIDE DEF last
<1> QED BY <1>2, <1>3, <1>5, <1>8, <1>9

\* blake2b_final compresses the last block of the hash of everything fed.
LEMMA FinalIsHash ==
    ASSUME NEW chain \in Seq(Compression), NEW keylen \in Nat, NEW outlen \in Nat, NEW n \in Nat,
           NEW block \in Bytes, NEW used \in 0 .. BLOCKBYTES,
           KeyPart(keylen) + n = Before(chain) + used,
           used = 0 => KeyPart(keylen) + n = 0,
           Chained(chain, keylen), Holds(block, keylen, Before(chain), used)
    PROVE  [param |-> [outlen |-> outlen, keylen |-> keylen],
            h |-> CompressLast(chain,
                               [j \in 0 .. BLOCKBYTES - 1 |-> IF j < used THEN block[j] ELSE 0],
                               Increment(CounterOf(Before(chain)), used))]
           = Hash(outlen, keylen, n)
PROOF
<1>1. PICK m \in Nat : m = Len(chain)
      OBVIOUS
<1>2. PICK length \in Nat : length = KeyPart(keylen) + n /\ length = Length(keylen, n)
      BY Parameters DEF KeyPart, Length
<1>3. /\ m * BLOCKBYTES \in Nat /\ length = (m * BLOCKBYTES) + used
      /\ Before(chain) = m * BLOCKBYTES
      BY <1>1, <1>2, BlockStep DEF Before
<1>4. used = 0 => m = 0
      <2>1. SUFFICES ASSUME used = 0, m >= 1 PROVE FALSE
            BY <1>1
      <2>2. (m - 1) \in Nat /\ ((m - 1) + 1) * BLOCKBYTES = ((m - 1) * BLOCKBYTES) + BLOCKBYTES
            BY <2>1, BlockStep
      <2>3. m * BLOCKBYTES >= BLOCKBYTES
            <3>1. (m - 1) * BLOCKBYTES \in Nat
                  BY <2>2, BlockStep
            <3>2. (m - 1) + 1 = m
                  BY <1>1
            <3> QED BY <2>2, <3>1, <3>2, Parameters
      <2> QED BY <2>1, <2>3, <1>2, <1>3, Parameters
<1>5. Blocks(length) = m + 1
      BY <1>3, <1>4, BlockCount
<1>6. Increment(CounterOf(m * BLOCKBYTES), used) = CounterOf(length)
      BY <1>3, IncrementCounter
<1> DEFINE padded == [j \in 0 .. BLOCKBYTES - 1 |-> IF j < used THEN block[j] ELSE 0]
           last == [block |-> padded, t |-> CounterOf(length), last |-> TRUE]
           blocks == [k \in 1 .. m + 1 |->
                        [block |-> InputBlock(keylen, n, k - 1),
                         t |-> CounterOf(IF k = m + 1 THEN length ELSE k * BLOCKBYTES),
                         last |-> k = m + 1]]
<1>7. \A j \in 0 .. BLOCKBYTES - 1 :
         InputByte(keylen, n, (m * BLOCKBYTES) + j) = padded[j]
      <2> TAKE j \in 0 .. BLOCKBYTES - 1
      <2>1. CASE j < used
            BY <1>1, <1>2, <1>3, <2>1, Parameters DEF InputByte, Stream, Holds
      <2>2. CASE ~(j < used)
            <3>1. ~((m * BLOCKBYTES) + j < length) /\ KeyPart(keylen) <= length
                  BY <1>2, <1>3, <2>2, Parameters DEF KeyPart
            <3>2. KeyPart(keylen) \in Nat
                  BY Parameters DEF KeyPart
            <3> QED BY <1>2, <1>3, <2>2, <3>1, <3>2, Parameters DEF InputByte
      <2> QED BY <2>1, <2>2
<1>8. InputBlock(keylen, n, m) = padded
      BY <1>7 DEF InputBlock
<1>9. \A k \in 1 .. m : InputBlock(keylen, n, k - 1) = FullBlock(keylen, k).block
      <2> TAKE k \in 1 .. m
      <2>1. PICK b \in Nat : b = (k - 1) * BLOCKBYTES /\ b + BLOCKBYTES <= m * BLOCKBYTES
            <3>1. k - 1 \in Nat /\ m - k \in Nat
                  BY <1>1
            <3>2. (k - 1) * BLOCKBYTES \in Nat /\ (m - k) * BLOCKBYTES \in Nat
                  BY <3>1, BlockStep
            <3>3. m * BLOCKBYTES = ((k - 1) * BLOCKBYTES) + BLOCKBYTES + ((m - k) * BLOCKBYTES)
                  BY <3>1, Parameters
            <3> QED BY <3>2, <3>3, Parameters
      <2>2. \A j \in 0 .. BLOCKBYTES - 1 :
               InputByte(keylen, n, b + j) = Stream(keylen, b + j)
            <3> TAKE j \in 0 .. BLOCKBYTES - 1
            <3>1. b + j < Length(keylen, n)
                  BY <2>1, <1>2, <1>3, Parameters
            <3> QED BY <3>1 DEF InputByte, Stream
      <2> QED BY <2>1, <2>2 DEF InputBlock, FullBlock
<1>10. Append(chain, last) = blocks
      <2>1. padded \in Bytes
            BY Parameters DEF Bytes, Byte
      <2>2. last \in Compression
            BY <2>1, <1>2, CounterType DEF Compression
      <2>3. Len(Append(chain, last)) = m + 1 /\ Append(chain, last)[m + 1] = last
            /\ Append(chain, last) \in Seq(Compression)
            /\ \A k \in 1 .. m : Append(chain, last)[k] = FullBlock(keylen, k)
            BY <2>2, <1>1 DEF Chained
      <2>4. Append(chain, last) = [k \in 1 .. m + 1 |-> Append(chain, last)[k]]
            <3>1. \A s \in Seq(Compression) : s = [k \in 1 .. Len(s) |-> s[k]]
                  OBVIOUS
            <3> HIDE DEF last
            <3> QED BY <2>3, <3>1
      <2>5. ASSUME NEW k \in 1 .. m + 1 PROVE Append(chain, last)[k] = blocks[k]
            <3>1. CASE k = m + 1
                  <4>1. (m + 1) - 1 = m
                        BY <1>1
                  <4> QED BY <3>1, <4>1, <2>3, <1>8
            <3>2. CASE k # m + 1
                  <4>1. k \in 1 .. m
                        BY <3>2, <1>1
                  <4>2. Append(chain, last)[k] = FullBlock(keylen, k)
                        BY <4>1, <2>3
                  <4>3. blocks[k] = [block |-> FullBlock(keylen, k).block,
                                     t |-> CounterOf(k * BLOCKBYTES), last |-> FALSE]
                        BY <4>1, <3>2, <1>9
                  <4> QED BY <4>2, <4>3 DEF FullBlock
            <3> QED BY <3>1, <3>2
      <2> HIDE DEF blocks, last
      <2>6. Append(chain, last) = [k \in 1 .. m + 1 |-> blocks[k]]
            BY <2>4, <2>5
      <2> QED BY <2>6 DEF blocks
<1>11. CompressLast(chain, padded, CounterOf(length)) = blocks
      BY <1>10 DEF CompressLast
<1>12. Hash(outlen, keylen, n) = [param |-> [outlen |-> outlen, keylen |-> keylen], h |-> blocks]
      <2> HIDE DEF padded, last
      <2> QED BY <1>2, <1>5 DEF Hash
<1> HIDE DEF padded, blocks
<1>13. CompressLast(chain, padded, Increment(CounterOf(Before(chain)), used)) = blocks
      BY <1>1, <1>3, <1>6, <1>11
<1> QED BY <1>12, <1>13 DEF padded

----------------------------------------------------------------------------
(* Inv is inductive: one lemma per action.                                 *)

LEMMA InitInv == Init => Inv
BY ZerosType, Parameters, CounterType
   DEF Init, Inv, TypeOK, PieceInv, BlocksInv, DigestIsHash, Counter, Parameter

LEMMA InitialiseInv ==
    ASSUME Inv, NEW n \in Requested, NEW k \in KeyLengths, Initialise(n, k)
    PROVE  Inv'
PROOF
<1>0. n \in Nat /\ k \in Nat
      BY Parameters
<1>1. pc = "idle" /\ pc' = pc /\ inlen' = inlen /\ inlen = 0 /\ out' = out /\ pin' = 0
      /\ h' = << >> /\ t' = [low |-> 0, high |-> 0]
      BY DEF Initialise, Invalidate, Inv, PieceInv
<1>2. t' = CounterOf(0) /\ t' \in Counter
      <2>1. 0 % Word = 0 /\ 0 \div Word = 0
            BY Parameters
      <2> QED BY <1>1, <2>1, CounterType DEF CounterOf
<1>3. CASE n = 0 \/ n > OUTBYTES \/ k > KEYBYTES
      <2>1. f0' = TRUE /\ buf' = Zeros /\ buflen' = 0 /\ param' = [outlen |-> 0, keylen |-> 0]
            BY <1>3 DEF Initialise, Invalidate
      <2> QED BY <1>1, <1>2, <2>1, ZerosType, Parameters
              DEF Inv, TypeOK, PieceInv, BlocksInv, DigestIsHash, Parameter
<1>4. CASE ~(n = 0 \/ n > OUTBYTES \/ k > KEYBYTES)
      <2>1. /\ f0' = FALSE /\ buf' = KeyBlock(k) /\ buflen' = KeyPart(k)
            /\ param' = [outlen |-> n, keylen |-> k]
            BY <1>4 DEF Initialise, KeyPart
      <2>2. KeyPart(k) \in 0 .. BLOCKBYTES
            BY Parameters DEF KeyPart
      <2>3. TypeOK'
            <3>1. h' \in Seq(Compression)
                  BY <1>1
            <3>2. buf' \in Bytes
                  BY <1>0, <2>1, KeyBlockType
            <3>3. param' \in Parameter
                  BY <1>0, <2>1 DEF Parameter
            <3>4. inlen' \in 0 .. MaxMessage /\ pin' \in 0 .. MaxMessage
                  BY <1>1, Parameters
            <3> QED BY <1>1, <1>2, <2>1, <2>2, <3>1, <3>2, <3>3, <3>4 DEF TypeOK
      <2>4. PieceInv'
            BY <1>1, <2>1, Parameters DEF PieceInv
      <2>5. Before(h') = 0
            BY <1>1, Parameters DEF Before
      <2>6. Fed' = KeyPart(k)
            BY <1>1, <2>1, <2>2 DEF Fed
      <2>7. Holds(KeyBlock(k), k, 0, KeyPart(k)) /\ Chained(<< >>, k)
            BY Parameters DEF Stream, Holds, Chained
      <2>8. BlocksInv'
            BY <1>0, <1>1, <1>2, <1>4, <2>1, <2>2, <2>5, <2>6, <2>7, Parameters DEF BlocksInv
      <2>9. DigestIsHash'
            BY <2>1 DEF DigestIsHash
      <2> QED BY <2>3, <2>4, <2>8, <2>9 DEF Inv
<1> QED BY <1>3, <1>4

LEMMA UpdateStartInv ==
    ASSUME Inv, NEW n \in 1 .. MaxMessage, UpdateStart(n)
    PROVE  Inv'
PROOF
<1>1. TypeOK' /\ PieceInv'
      BY Parameters DEF UpdateStart, Inv, TypeOK, PieceInv
<1>2. Fed' = Fed
      BY DEF UpdateStart, Fed
<1>3. BlocksInv'
      BY <1>2 DEF UpdateStart, Inv, BlocksInv
<1>4. DigestIsHash'
      BY DEF UpdateStart, DigestIsHash
<1> QED BY <1>1, <1>3, <1>4 DEF Inv

\* What an update knows of the bytes it continues.
LEMMA InUpdate ==
    ASSUME Inv, pc # "idle"
    PROVE  /\ ~f0 /\ param.keylen \in Nat /\ KeyPart(param.keylen) \in Nat
           /\ buflen \in 0 .. BLOCKBYTES /\ inlen \in Nat /\ pin \in Nat
           /\ h \in Seq(Compression) /\ Before(h) \in Nat
           /\ Before(h) + buflen = KeyPart(param.keylen) + pin
           /\ t = CounterOf(Before(h))
BY BlockStep, Parameters DEF Inv, TypeOK, PieceInv, BlocksInv, Fed, Parameter, KeyPart, Before

\* A full block taken from the message: the common part of CompleteBlock and
\* DirectBlock.
LEMMA FullBlockTaken ==
    ASSUME Inv, pc # "idle", NEW block \in Bytes, NEW n \in Nat,
           n + buflen = BLOCKBYTES, inlen > n,
           Holds(block, param.keylen, Before(h), BLOCKBYTES),
           t' = Increment(t, BLOCKBYTES), h' = Compress(h, block, t'),
           buflen' = 0, inlen' = inlen - n, pin' = pin + n, buf' \in Bytes,
           pc' = "direct", f0' = f0, param' = param, out' = out
    PROVE  Inv'
PROOF
<1>1. /\ ~f0 /\ inlen \in Nat /\ pin \in Nat /\ buflen \in Nat /\ param \in Parameter
      /\ pin + inlen <= MaxMessage /\ h \in Seq(Compression) /\ param.keylen \in Nat
      /\ f0 \in BOOLEAN
      /\ KeyPart(param.keylen) \in Nat /\ Before(h) \in Nat
      /\ Before(h) + buflen = KeyPart(param.keylen) + pin
      /\ t = CounterOf(Before(h))
      BY InUpdate, Parameters DEF Inv, TypeOK, PieceInv
<1>2. Chained(h, param.keylen)
      BY <1>1 DEF Inv, BlocksInv
<1>3. /\ h' \in Seq(Compression) /\ Len(h') = Len(h) + 1
      /\ t' = CounterOf(Before(h')) /\ t' \in Counter
      /\ Chained(h', param.keylen)
      <2>1. t' = Increment(CounterOf(Before(h)), BLOCKBYTES)
            BY <1>1
      <2>2. h \in Seq(Compression) /\ param.keylen \in Nat
            BY <1>1
      <2> QED BY <2>1, <2>2, <1>2, ChainExtends
<1>4. TypeOK'
      <2>1. inlen' \in 0 .. MaxMessage /\ pin' \in 0 .. MaxMessage /\ buflen' \in 0 .. BLOCKBYTES
            BY <1>1, Parameters
      <2>2. f0' \in BOOLEAN
            BY <1>1
      <2> QED BY <1>1, <1>3, <2>1, <2>2 DEF TypeOK
<1>5. PieceInv'
      BY <1>1, Parameters DEF PieceInv
<1>6. Fed' = Before(h') + 0
      <2>1. Fed' = KeyPart(param.keylen) + (pin + n)
            BY DEF Fed
      <2>2. Before(h') = Before(h) + BLOCKBYTES
            <3>0. h \in Seq(Compression)
                  BY <1>1
            <3>1. PICK m \in Nat : m = Len(h) /\ Len(h') = m + 1
                  <4>1. Len(h) \in Nat
                        BY <3>0
                  <4> QED BY <4>1, <1>3
            <3>2. Before(h) = m * BLOCKBYTES /\ Before(h') = (m + 1) * BLOCKBYTES
                  BY <3>1 DEF Before
            <3> QED BY <3>2, BlockStep
      <2>3. /\ Before(h) \in Nat /\ pin \in Nat /\ buflen \in Nat /\ KeyPart(param.keylen) \in Nat
            /\ Before(h) + buflen = KeyPart(param.keylen) + pin
            BY <1>1
      <2> QED BY <2>1, <2>2, <2>3, Parameters
<1>7. BlocksInv'
      <2>1. param.outlen > 0
            BY <1>1 DEF Inv, BlocksInv
      <2>2. Holds(buf', param.keylen, Before(h'), 0)
            BY Parameters DEF Holds
      <2> QED BY <1>3, <1>6, <2>1, <2>2 DEF BlocksInv
<1>8. DigestIsHash'
      BY <1>1 DEF DigestIsHash
<1> QED BY <1>4, <1>5, <1>7, <1>8 DEF Inv

LEMMA CompleteBlockInv == ASSUME Inv, CompleteBlock PROVE Inv'
PROOF
<1> DEFINE fill == BLOCKBYTES - buflen
           block == CopyIn(buf, buflen, pin, fill)
<1>1. pc = "complete" /\ buflen + inlen > BLOCKBYTES /\ buf \in Bytes
      BY DEF CompleteBlock, Inv, PieceInv, TypeOK
<1>2. fill \in Nat /\ fill + buflen = BLOCKBYTES /\ inlen > fill /\ buflen + fill <= BLOCKBYTES
      BY <1>1, InUpdate, Parameters
<1>3. Holds(buf, param.keylen, Before(h), buflen)
      BY <1>1, InUpdate DEF Inv, BlocksInv
<1>4. block \in Bytes /\ Holds(block, param.keylen, Before(h), buflen + fill)
      <2> HIDE DEF fill
      <2> QED BY <1>1, <1>2, <1>3, InUpdate, CopyContinues
<1>5. Holds(block, param.keylen, Before(h), BLOCKBYTES)
      <2>1. buflen + fill = BLOCKBYTES
            BY <1>1, InUpdate, Parameters
      <2> HIDE DEF fill, block
      <2> QED BY <1>4, <2>1
<1>6. /\ buf' = block /\ t' = Increment(t, BLOCKBYTES) /\ h' = Compress(h, block, t')
      /\ buflen' = 0 /\ inlen' = inlen - fill /\ pin' = pin + fill
      /\ pc' = "direct" /\ f0' = f0 /\ param' = param /\ out' = out
      BY DEF CompleteBlock
<1> HIDE DEF fill, block
<1>7. pc # "idle" /\ buf' \in Bytes
      BY <1>1, <1>4, <1>6
<1> QED BY <1>2, <1>4, <1>5, <1>6, <1>7, FullBlockTaken

LEMMA DirectBlockInv == ASSUME Inv, DirectBlock PROVE Inv'
PROOF
<1> DEFINE block == CopyIn(Zeros, 0, pin, BLOCKBYTES)
<1>1. pc = "direct" /\ pc # "idle" /\ buflen = 0 /\ inlen > BLOCKBYTES /\ buf \in Bytes
      BY DEF DirectBlock, Inv, PieceInv, TypeOK
<1>2. block \in Bytes /\ Holds(block, param.keylen, Before(h), 0 + BLOCKBYTES)
      <2>1. 0 \in 0 .. BLOCKBYTES /\ 0 + BLOCKBYTES <= BLOCKBYTES /\ BLOCKBYTES \in Nat
            /\ Holds(Zeros, param.keylen, Before(h), 0)
            BY Parameters DEF Holds
      <2>2. Before(h) + 0 = KeyPart(param.keylen) + pin
            BY <1>1, InUpdate
      <2> QED BY <1>1, <2>1, <2>2, InUpdate, ZerosType, CopyContinues
<1>3. Holds(block, param.keylen, Before(h), BLOCKBYTES)
      <2>1. 0 + BLOCKBYTES = BLOCKBYTES
            BY Parameters
      <2> HIDE DEF block
      <2> QED BY <1>2, <2>1
<1>4. /\ buf' = buf /\ t' = Increment(t, BLOCKBYTES) /\ h' = Compress(h, block, t')
      /\ buflen' = 0 /\ inlen' = inlen - BLOCKBYTES /\ pin' = pin + BLOCKBYTES
      /\ pc' = "direct" /\ f0' = f0 /\ param' = param /\ out' = out
      BY <1>1 DEF DirectBlock
<1>5. BLOCKBYTES \in Nat /\ BLOCKBYTES + buflen = BLOCKBYTES /\ buf' \in Bytes
      BY <1>1, <1>4, Parameters
<1> HIDE DEF block
<1> QED BY <1>1, <1>2, <1>3, <1>4, <1>5, FullBlockTaken

LEMMA RestInv == ASSUME Inv, Rest PROVE Inv'
PROOF
<1>1. /\ pc # "idle" /\ ~f0 /\ buflen + inlen <= BLOCKBYTES /\ inlen >= 1 /\ buf \in Bytes
      /\ t \in Counter /\ param \in Parameter /\ pin + inlen <= MaxMessage /\ param.outlen > 0
      /\ f0 \in BOOLEAN /\ buflen \in 0 .. BLOCKBYTES /\ inlen \in Nat /\ pin \in Nat
      /\ h \in Seq(Compression)
      BY InUpdate, Parameters DEF Rest, Inv, PieceInv, TypeOK, BlocksInv
<1>2. Holds(buf, param.keylen, Before(h), buflen)
      BY <1>1 DEF Inv, BlocksInv
<1>3. /\ buf' = CopyIn(buf, buflen, pin, inlen) /\ buflen' = buflen + inlen
      /\ inlen' = 0 /\ pin' = pin + inlen /\ pc' = "idle"
      /\ h' = h /\ t' = t /\ f0' = f0 /\ param' = param /\ out' = out
      BY DEF Rest
<1>4. buf' \in Bytes /\ Holds(buf', param.keylen, Before(h), buflen')
      BY <1>1, <1>2, <1>3, InUpdate, CopyContinues
<1>5. TypeOK'
      <2>1. inlen' \in 0 .. MaxMessage /\ pin' \in 0 .. MaxMessage /\ buflen' \in 0 .. BLOCKBYTES
            BY <1>1, <1>3, Parameters
      <2> QED BY <1>1, <1>3, <1>4, <2>1 DEF TypeOK
<1>6. PieceInv'
      BY <1>1, <1>3, Parameters DEF PieceInv
<1>7. Fed' = Before(h) + buflen' /\ buflen' > 0
      <2>1. /\ KeyPart(param.keylen) \in Nat /\ Before(h) \in Nat
            /\ Before(h) + buflen = KeyPart(param.keylen) + pin
            BY <1>1, InUpdate
      <2>2. Fed' = KeyPart(param.keylen) + (pin + inlen)
            BY <1>3 DEF Fed
      <2>3. buflen' = buflen + inlen /\ buflen \in Nat /\ inlen \in Nat /\ inlen >= 1 /\ pin \in Nat
            BY <1>1, <1>3, Parameters
      <2> QED BY <2>1, <2>2, <2>3
<1>8. Chained(h, param.keylen)
      BY <1>1 DEF Inv, BlocksInv
<1>9. BlocksInv'
      BY <1>1, <1>3, <1>4, <1>7, <1>8, InUpdate DEF BlocksInv
<1>10. DigestIsHash'
      BY <1>1, <1>3 DEF DigestIsHash
<1> QED BY <1>5, <1>6, <1>9, <1>10 DEF Inv

LEMMA FinalInv ==
    ASSUME Inv, NEW n \in Requested, Final(n)
    PROVE  Inv'
PROOF
<1>1. /\ ~f0 /\ pc = "idle" /\ inlen = 0 /\ param \in Parameter /\ buf \in Bytes
      /\ h \in Seq(Compression) /\ buflen \in 0 .. BLOCKBYTES /\ pin \in 0 .. MaxMessage
      BY DEF Final, Inv, TypeOK, PieceInv
<1>2. /\ KeyPart(param.keylen) + pin = Before(h) + buflen
      /\ t = CounterOf(Before(h))
      /\ Chained(h, param.keylen) /\ Holds(buf, param.keylen, Before(h), buflen)
      /\ buflen = 0 => KeyPart(param.keylen) + pin = 0
      BY <1>1 DEF Inv, BlocksInv, Fed
<1>3. /\ h' = << >> /\ buf' = Zeros /\ f0' = TRUE /\ t' = Increment(t, buflen)
      /\ buflen' = buflen /\ param' = param /\ pc' = pc /\ inlen' = inlen /\ pin' = pin
      BY DEF Final
<1>4. t' \in Counter
      <2>1. Before(h) \in Nat /\ Before(h) + buflen \in Nat
            BY <1>1, BlockStep, Parameters DEF Before
      <2> QED BY <2>1, <1>1, <1>2, <1>3, IncrementCounter, CounterType
<1>5. TypeOK' /\ PieceInv' /\ BlocksInv'
      BY <1>1, <1>3, <1>4, ZerosType, Parameters DEF TypeOK, PieceInv, BlocksInv
<1>6. param.keylen \in Nat /\ param.outlen \in Nat /\ pin \in Nat
      /\ param = [outlen |-> param.outlen, keylen |-> param.keylen]
      BY <1>1, Parameters DEF Parameter
<1>7. out' = [param |-> param,
              h |-> CompressLast(h,
                                 [j \in 0 .. BLOCKBYTES - 1 |-> IF j < buflen THEN buf[j] ELSE 0],
                                 Increment(t, buflen))]
      BY <1>3 DEF Final
<1>8. out' = Hash(param.outlen, param.keylen, pin)
      BY <1>1, <1>2, <1>6, <1>7, FinalIsHash
<1>9. DigestIsHash'
      BY <1>3, <1>8 DEF DigestIsHash
<1> QED BY <1>5, <1>9 DEF Inv

LEMMA NextInv == Inv /\ [Next]_vars => Inv'
PROOF
<1> SUFFICES ASSUME Inv, [Next]_vars PROVE Inv'
    OBVIOUS
<1>1. CASE UNCHANGED vars
      BY <1>1 DEF vars, Inv, TypeOK, PieceInv, BlocksInv, DigestIsHash, Fed
<1> QED BY <1>1, InitialiseInv, UpdateStartInv, CompleteBlockInv, DirectBlockInv, RestInv,
           FinalInv DEF Next

----------------------------------------------------------------------------
\* Every behaviour satisfies Inv.
THEOREM InvHolds == Spec => []Inv
BY InitInv, NextInv, PTL DEF Spec

\* The state of the hash stays in its range: a buffer holds at most one block
\* and the two words of the counter their 64 bits.
THEOREM TypeCorrect == Spec => []TypeOK
<1>1. Inv => TypeOK
      BY DEF Inv
<1> QED BY <1>1, InvHolds, PTL

\* blake2b_update and blake2b_final compute BLAKE2 of the concatenated pieces
\* whatever the sizes of the block, of the pieces and of the counter words.
THEOREM DigestCorrect == Spec => []DigestIsHash
<1>1. Inv => DigestIsHash
      BY DEF Inv
<1> QED BY <1>1, InvHolds, PTL

----------------------------------------------------------------------------
(* blake2b_long *)

CONSTANTS MaxOutlen, UINT32_MAX
VARIABLES outlen, digest, out_buffer, toproduce, ret, at

\* The hash of any length, on digests of the size of those above.
Long == INSTANCE Blake2bLong WITH out <- digest, pc <- at

LongSpec == Long!Init /\ [][Long!Next]_(Long!vars)

\* OUTBYTES is cut into two halves without a rest.
LongSizes == OUTBYTES % 2 = 0 /\ MaxOutlen \in Nat

\* The p-th byte of the halves taken from the digests of full length.
Halved(p) == <<((p - 1) \div Long!Half) + 1, OUTBYTES, ((p - 1) % Long!Half) + 1>>

\* The halves of the first n digests, and those with a piece of the next.
FirstHalves(n) == [p \in 1 .. Long!Half * n |-> Halved(p)]
HalvesAnd(n, length, m) ==
    [p \in 1 .. (Long!Half * n) + m |->
        IF p <= Long!Half * n THEN Halved(p) ELSE <<n + 1, length, p - (Long!Half * n)>>]

\* The loop has taken half of each digest so far, and leaves more than a half.
LongInv ==
    /\ outlen \in Nat
    /\ at \in {"start", "loop", "done"}
    /\ at = "start" => digest = << >> /\ ret = -1
    /\ at = "loop" => /\ ret = 0 /\ outlen > OUTBYTES /\ ~Long!TooLong
                      /\ out_buffer \in Nat \ {0} /\ toproduce \in Nat
                      /\ toproduce > Long!Half
                      /\ outlen = (Long!Half * out_buffer) + toproduce
                      /\ digest = FirstHalves(out_buffer)
    /\ at = "done" => IF outlen = 0 \/ Long!TooLong THEN ret = -1 /\ digest = << >>
                      ELSE ret = 0 /\ digest = Long!HPrime

LEMMA HalfFacts ==
    ASSUME LongSizes
    PROVE  Long!Half \in Nat \ {0} /\ OUTBYTES = 2 * Long!Half /\ OUTBYTES \in Nat
  <1>1. OUTBYTES \in Nat \ {0} /\ OUTBYTES % 2 = 0
    BY BlockAssumption DEF LongSizes
  <1>2. Long!Half = OUTBYTES \div 2
    BY DEF Long!Half
  <1>3. QED
    BY <1>1, <1>2

\* A number written in one way as a multiple of H and a rest.
LEMMA Quotient ==
    ASSUME NEW H \in Nat \ {0}, NEW q \in Nat, NEW r \in 0 .. H - 1
    PROVE  ((H * q) + r) \div H = q /\ ((H * q) + r) % H = r
  OBVIOUS

\* Two sequences, one after the other.
LEMMA Joined ==
    ASSUME NEW S, NEW s \in Seq(S), NEW u \in Seq(S), NEW a, NEW b, Len(s) = a, Len(u) = b
    PROVE  s \o u = [p \in 1 .. a + b |-> IF p <= a THEN s[p] ELSE u[p - a]]
  <1> DEFINE w == s \o u
  <1>1. w \in Seq(S) /\ Len(w) = a + b
    OBVIOUS
  <1>2. \A p \in 1 .. a + b : w[p] = IF p <= a THEN s[p] ELSE u[p - a]
    OBVIOUS
  <1> HIDE DEF w
  <1>3. w = [p \in 1 .. Len(w) |-> w[p]]
    BY <1>1
  <1>4. QED
    BY <1>1, <1>2, <1>3 DEF w

\* The halves of the first n digests, and a piece of the next.
LEMMA Extended ==
    ASSUME LongSizes, NEW n \in Nat, NEW length \in Nat, NEW m \in Nat
    PROVE  FirstHalves(n) \o Long!Piece(n + 1, length, m) = HalvesAnd(n, length, m)
  <1> DEFINE S == Nat \X Nat \X Nat
             e == Long!Half * n
             s == [p \in 1 .. e |-> Halved(p)]
             u == Long!Piece(n + 1, length, m)
  <1>1. Long!Half \in Nat \ {0} /\ OUTBYTES \in Nat /\ e \in Nat
    BY HalfFacts
  <1>2. \A p \in 1 .. e : Halved(p) \in S
    BY <1>1 DEF Halved
  <1>3. u = [k \in 1 .. m |-> <<n + 1, length, k>>]
    BY DEF Long!Piece
  <1> HIDE DEF e, u
  <1>4. s \in Seq(S) /\ Len(s) = e /\ \A p \in 1 .. e : s[p] = Halved(p)
    BY <1>1, <1>2
  <1>5. u \in Seq(S) /\ Len(u) = m /\ \A k \in 1 .. m : u[k] = <<n + 1, length, k>>
    BY <1>3
  <1> HIDE DEF s, S
  <1>6. s \o u = [p \in 1 .. e + m |-> IF p <= e THEN s[p] ELSE u[p - e]]
    BY <1>4, <1>5, Joined
  <1>7. \A p \in 1 .. e + m :
           (IF p <= e THEN s[p] ELSE u[p - e]) = IF p <= e THEN Halved(p)
                                                ELSE <<n + 1, length, p - e>>
    <2> SUFFICES ASSUME NEW p \in 1 .. e + m
                 PROVE  (IF p <= e THEN s[p] ELSE u[p - e])
                          = IF p <= e THEN Halved(p) ELSE <<n + 1, length, p - e>>
      OBVIOUS
    <2>1. CASE p <= e
      <3>1. p \in 1 .. e
        BY <1>1, <2>1
      <3>2. QED
        BY <1>4, <2>1, <3>1
    <2>2. CASE ~(p <= e)
      <3>1. p - e \in 1 .. m
        BY <1>1, <2>2
      <3>2. QED
        BY <1>5, <2>2, <3>1
    <2>3. QED
      BY <2>1, <2>2
  <1>8. s \o u = [p \in 1 .. e + m |-> IF p <= e THEN Halved(p) ELSE <<n + 1, length, p - e>>]
    BY <1>6, <1>7
  <1>9. QED
    BY <1>8 DEF s, u, e, FirstHalves, HalvesAnd

\* A byte of the next half, by its place in the output.
LEMMA NextHalf ==
    ASSUME LongSizes, NEW n \in Nat, NEW k \in 1 .. Long!Half
    PROVE  Halved((Long!Half * n) + k) = <<n + 1, OUTBYTES, k>>
  <1>1. Long!Half \in Nat \ {0}
    BY HalfFacts
  <1>2. ((Long!Half * n) + k) - 1 = (Long!Half * n) + (k - 1) /\ k - 1 \in 0 .. Long!Half - 1
    BY <1>1
  <1>3. /\ (((Long!Half * n) + k) - 1) \div Long!Half = n
        /\ (((Long!Half * n) + k) - 1) % Long!Half = k - 1
    BY <1>1, <1>2, Quotient
  <1>4. QED
    BY <1>1, <1>3 DEF Halved

\* A digest of full length adds its first half.
LEMMA ChainKeeps ==
    ASSUME LongSizes, LongInv, Long!First \/ Long!Chain
    PROVE  LongInv'
  <1> DEFINE H == Long!Half
  <1>1. H \in Nat \ {0} /\ OUTBYTES = 2 * H /\ OUTBYTES \in Nat
    BY HalfFacts
  <1>2. PICK n \in Nat :
            /\ out_buffer' = n + 1 /\ ret' = 0 /\ at' = "loop" /\ outlen' = outlen
            /\ outlen > OUTBYTES /\ ~Long!TooLong
            /\ toproduce' \in Nat /\ toproduce' > H
            /\ outlen = (H * (n + 1)) + toproduce'
            /\ digest' = FirstHalves(n) \o Long!Piece(n + 1, OUTBYTES, H)
    <2>1. CASE Long!First
      <3>1. /\ out_buffer' = 0 + 1 /\ ret' = 0 /\ at' = "loop" /\ outlen' = outlen
            /\ outlen > OUTBYTES /\ outlen \in Nat /\ ~Long!TooLong
            /\ toproduce' = outlen - H
            /\ digest' = Long!Piece(1, OUTBYTES, H)
        BY <2>1 DEF Long!First, LongInv
      <3>2. Long!Piece(1, OUTBYTES, H) = FirstHalves(0) \o Long!Piece(0 + 1, OUTBYTES, H)
        <4>1. H * 0 = 0
          BY <1>1
        <4>2. FirstHalves(0) = << >>
          BY <4>1 DEF FirstHalves
        <4>3. Long!Piece(1, OUTBYTES, H) \in Seq(Nat \X Nat \X Nat)
          BY <1>1 DEF Long!Piece
        <4> HIDE DEF H
        <4>4. << >> \o Long!Piece(1, OUTBYTES, H) = Long!Piece(1, OUTBYTES, H)
          BY <4>3
        <4>5. 0 + 1 = 1
          OBVIOUS
        <4>6. QED
          BY <4>2, <4>4, <4>5
      <3>3. toproduce' \in Nat /\ toproduce' > H /\ outlen = (H * (0 + 1)) + toproduce'
        BY <1>1, <3>1
      <3>4. QED
        BY <3>1, <3>2, <3>3
    <2>2. CASE Long!Chain
      <3>1. /\ out_buffer' = out_buffer + 1 /\ ret' = 0 /\ at' = "loop" /\ outlen' = outlen
            /\ outlen > OUTBYTES /\ toproduce > OUTBYTES /\ toproduce \in Nat /\ ~Long!TooLong
            /\ toproduce' = toproduce - H /\ out_buffer \in Nat
            /\ outlen = (H * out_buffer) + toproduce
            /\ digest' = FirstHalves(out_buffer) \o Long!Piece(out_buffer + 1, OUTBYTES, H)
        BY <2>2 DEF Long!Chain, Long!Continues, LongInv
      <3>2. toproduce' \in Nat /\ toproduce' > H
        BY <1>1, <3>1
      <3>3. outlen = (H * (out_buffer + 1)) + toproduce'
        BY <1>1, <3>1
      <3>4. QED
        BY <3>1, <3>2, <3>3
    <2>3. QED
      BY <2>1, <2>2
  <1>3. digest' = HalvesAnd(n, OUTBYTES, H)
    BY <1>1, <1>2, Extended
  <1>4. \A p \in 1 .. (H * n) + H :
           Halved(p) = IF p <= H * n THEN Halved(p) ELSE <<n + 1, OUTBYTES, p - (H * n)>>
    <2> SUFFICES ASSUME NEW p \in 1 .. (H * n) + H, ~(p <= H * n)
                 PROVE  Halved(p) = <<n + 1, OUTBYTES, p - (H * n)>>
      OBVIOUS
    <2>1. H * n \in Nat
      BY <1>1
    <2>2. p - (H * n) \in 1 .. H /\ (H * n) + (p - (H * n)) = p
      BY <1>1, <2>1
    <2>3. QED
      BY <2>2, NextHalf
  <1>5. (H * n) + H = H * (n + 1)
    BY <1>1
  <1>6. digest' = FirstHalves(n + 1)
    BY <1>3, <1>4, <1>5 DEF HalvesAnd, FirstHalves
  <1>7. outlen' \in Nat /\ out_buffer' \in Nat \ {0}
    BY <1>2 DEF LongInv
  <1>8. QED
    BY <1>2, <1>6, <1>7 DEF LongInv, Long!TooLong

\* The last digest adds all that is left: there are as many halves as RFC 9106 says.
LEMMA LastKeeps ==
    ASSUME LongSizes, LongInv, Long!Last
    PROVE  LongInv'
  <1> DEFINE H == Long!Half
             n == out_buffer
             e == H * n
  <1>1. H \in Nat \ {0} /\ OUTBYTES = 2 * H /\ OUTBYTES \in Nat
    BY HalfFacts
  <1>2. /\ outlen \in Nat /\ outlen > OUTBYTES /\ n \in Nat \ {0} /\ toproduce \in Nat
        /\ toproduce > H /\ toproduce <= OUTBYTES /\ outlen = e + toproduce
        /\ digest = FirstHalves(n) /\ outlen' = outlen /\ at' = "done" /\ ~Long!TooLong
    BY <1>1 DEF Long!Last, Long!Continues, LongInv
  <1>3. ret' = 0 /\ digest' = digest \o Long!Piece(n + 1, toproduce, toproduce)
    <2>1. Long!blake2b(toproduce)
      BY <1>1, <1>2 DEF Long!blake2b
    <2>2. QED
      BY <2>1 DEF Long!Last
  <1>4. Long!Halves = n
    <2>1. /\ (outlen + H) - 1 = (H * (n + 2)) + ((toproduce - H) - 1)
          /\ (toproduce - H) - 1 \in 0 .. H - 1
      BY <1>1, <1>2
    <2>2. ((outlen + H) - 1) \div H = n + 2
      BY <1>1, <1>2, <2>1, Quotient
    <2>3. QED
      BY <1>1, <1>2, <2>2 DEF Long!Halves
  <1>5. digest' = HalvesAnd(n, toproduce, toproduce)
    BY <1>2, <1>3, Extended
  <1>6. e = n * H /\ outlen - e = toproduce /\ e \in Nat
    BY <1>1, <1>2
  <1>7. Long!HPrime = HalvesAnd(n, toproduce, toproduce)
    <2>1. ~(outlen <= OUTBYTES)
      BY <1>1, <1>2
    <2>2. Long!HPrime =
             [p \in 1 .. outlen |-> IF p <= Long!Halves * H THEN Halved(p)
                                    ELSE <<Long!Halves + 1, outlen - Long!Halves * H,
                                           p - Long!Halves * H>>]
      BY <2>1 DEF Long!HPrime, Halved
    <2>3. Long!Halves * H = e
      BY <1>4, <1>6
    <2>4. QED
      BY <1>2, <1>4, <1>6, <2>2, <2>3 DEF HalvesAnd
  <1>8. digest' = Long!HPrime'
    BY <1>2, <1>5, <1>7 DEF Long!HPrime, Long!Halves
  <1>9. outlen # 0
    BY <1>1, <1>2
  <1>10. QED
    BY <1>2, <1>3, <1>8, <1>9 DEF LongInv, Long!TooLong

\* An output that fits one digest is that digest.
LEMMA ShortKeeps ==
    ASSUME LongSizes, LongInv, Long!Short
    PROVE  LongInv'
  <1>1. OUTBYTES \in Nat
    BY HalfFacts
  <1>2. /\ outlen \in Nat /\ outlen <= OUTBYTES /\ outlen' = outlen /\ at' = "done"
        /\ digest = << >> /\ ~Long!TooLong
    BY DEF Long!Short, LongInv
  <1>3. CASE outlen = 0
    BY <1>1, <1>2, <1>3 DEF Long!Short, Long!blake2b, LongInv
  <1>4. CASE outlen # 0
    <2>1. ret' = 0 /\ digest' = Long!Piece(1, outlen, outlen)
      BY <1>1, <1>2, <1>4 DEF Long!Short, Long!blake2b
    <2>2. Long!HPrime' = Long!Piece(1, outlen, outlen)
      BY <1>2 DEF Long!HPrime, Long!Piece
    <2>3. QED
      BY <1>2, <1>4, <2>1, <2>2 DEF LongInv, Long!TooLong
  <1>5. QED
    BY <1>3, <1>4

\* blake2b_long makes H' of RFC 9106, for outputs and digests of any length.
THEOREM LongCorrect ==
    ASSUME LongSizes
    PROVE  LongSpec => []Long!LongIsHPrime
  <1>1. Long!Init => LongInv
    BY DEF Long!Init, LongInv, LongSizes
  <1>2. LongInv /\ [Long!Next]_(Long!vars) => LongInv'
    <2> SUFFICES ASSUME LongInv, [Long!Next]_(Long!vars) PROVE LongInv'
      OBVIOUS
    <2>1. CASE UNCHANGED Long!vars
      BY <2>1 DEF Long!vars, LongInv, Long!HPrime, Long!Halves, Long!TooLong
    <2>2. CASE Long!Refuse
      BY <2>2 DEF Long!Refuse, LongInv, Long!TooLong
    <2>3. QED
      BY <2>1, <2>2, ChainKeeps, LastKeeps, ShortKeeps DEF Long!Next
  <1>3. LongInv => Long!LongIsHPrime
    <2> SUFFICES ASSUME LongInv
                 PROVE  Len(digest) <= outlen
      BY DEF Long!LongIsHPrime, LongInv
    <2>1. Long!Half \in Nat \ {0}
      BY HalfFacts
    <2>2. CASE at = "start" \/ (at = "done" /\ (outlen = 0 \/ Long!TooLong))
      <3>1. digest = << >> /\ outlen \in Nat
        BY <2>2 DEF LongInv
      <3>2. QED
        BY <3>1
    <2>3. CASE at = "loop"
      <3>1. Len(digest) = Long!Half * out_buffer
        BY <2>1, <2>3 DEF LongInv, FirstHalves
      <3>2. QED
        BY <2>1, <2>3, <3>1 DEF LongInv
    <2>4. CASE at = "done" /\ outlen # 0 /\ ~Long!TooLong
      <3>1. Len(digest) = outlen
        BY <2>4 DEF LongInv, Long!HPrime
      <3>2. QED
        BY <2>4, <3>1 DEF LongInv
    <2>5. QED
      BY <2>2, <2>3, <2>4 DEF LongInv
  <1>4. QED
    BY <1>1, <1>2, <1>3, PTL DEF LongSpec
==============================================================================
