--------------------------- MODULE Argon2Encoding ---------------------------
(***************************************************************************)
(* The text of a hash, $argon2<T>[$v=<n>]$m=<n>,t=<n>,p=<n>$<salt>$<out>:  *)
(* encode_string and decode_string of encoding.c with the Base64 and the   *)
(* decimal conversions under them, and the Base64 of argon2_ffi.c. A text  *)
(* is a sequence of character codes, negative above 127 where char is      *)
(* signed. One behaviour encodes a hash, may damage the text in one place, *)
(* and decodes it as one of the types.                                     *)
(***************************************************************************)
EXTENDS Argon2Context, SequencesExt, Bitwise

CONSTANTS
    ULONG_MAX,
    Given,          \* the hashes encoded: context, type, salt and out
    Slack,          \* the buffer has argon2_encodedlen characters and these more or less
    Damage          \* the characters a damaged text may hold

VARIABLES
    pc,
    given,
    text,
    dst_len,        \* the length of the buffer it is encoded into
    touched,        \* the text was damaged
    asked,          \* the type it is decoded as
    read            \* what decode_string returned

vars == <<pc, given, text, dst_len, touched, asked, read>>

----------------------------------------------------------------------------
(* The characters.                                                         *)

\* Comparisons without branches. What they shift into place lies in the bits
\* 8 to 15, so 16 bits stand for the 32 of an unsigned.
Unsigned == 2^16
Shifted(n) == (n % Unsigned) \div 256
EQ(x, y) == 255 - Shifted(0 - ((x % Unsigned) ^^ (y % Unsigned)))
GT(x, y) == Shifted(y - x)
GE(x, y) == 255 - GT(y, x)
LT(x, y) == GT(y, x)
LE(x, y) == GE(y, x)

b64_byte_to_char(x) ==
    ((((LT(x, 26) & (x + 65)) | ((GE(x, 26) & LT(x, 52)) & (x + 71)))
      | ((GE(x, 52) & LT(x, 62)) & ((x - 4) % 256))) | (EQ(x, 62) & 43)) | (EQ(x, 63) & 47)

b64_char_to_byte(c) ==
    LET x == ((((((GE(c, 65) & LE(c, 90)) & ((c - 65) % 256))
                 | ((GE(c, 97) & LE(c, 122)) & ((c - 71) % 256)))
                | ((GE(c, 48) & LE(c, 57)) & ((c + 4) % 256)))
               | (EQ(c, 43) & 62)) | (EQ(c, 47) & 63))
    IN  x | (EQ(x, 0) & (255 - EQ(c, 65)))

Digit == 48 .. 57

\* The characters at the start of a text that are in a set.
Leading(str, Is(_)) ==
    LET stop == SelectInSeq(str, LAMBDA c : ~Is(c))
    IN  IF stop = 0 THEN str ELSE SubSeq(str, 1, stop - 1)

----------------------------------------------------------------------------
(* Base64 and decimals.                                                    *)

b64len(len) == (4 * (len \div 3)) + (CASE len % 3 = 2 -> 3 [] len % 3 = 1 -> 2 [] OTHER -> 0)

\* acc keeps its low bits, of which at most 14 are used.
Accumulator == 2^20

\* A mutant: the bits of the last byte are not flushed.
to_base64Unflushed(src) ==
    LET Out(s) == IF s.acc_len < 6 THEN s
                  ELSE [s EXCEPT !.acc_len = @ - 6,
                                 !.dst = Append(@, b64_byte_to_char((s.acc \div 2^(s.acc_len - 6)) % 64))]
        In(s, byte) == Out(Out([s EXCEPT !.acc = ((@ * 256) + byte) % Accumulator, !.acc_len = @ + 8]))
    IN  FoldLeft(In, [acc |-> 0, acc_len |-> 0, dst |-> << >>], src).dst

\* The bytes are shifted in, the characters out while there are six bits.
to_base64(src) ==
    LET Out(s) == IF s.acc_len < 6 THEN s
                  ELSE [s EXCEPT !.acc_len = @ - 6,
                                 !.dst = Append(@, b64_byte_to_char((s.acc \div 2^(s.acc_len - 6)) % 64))]
        In(s, byte) == Out(Out([s EXCEPT !.acc = ((@ * 256) + byte) % Accumulator, !.acc_len = @ + 8]))
        end == FoldLeft(In, [acc |-> 0, acc_len |-> 0, dst |-> << >>], src)
    IN  IF end.acc_len = 0 THEN end.dst
        ELSE Append(end.dst, b64_byte_to_char((end.acc * 2^(6 - end.acc_len)) % 64))

\* Mutant: the bits behind the last byte are not looked at.
from_base64AnyBits(max_len, src) ==
    LET chars == Leading(src, LAMBDA c : b64_char_to_byte(c) # 255)
        In(s, c) ==
            LET acc == ((s.acc * 64) + b64_char_to_byte(c)) % Accumulator
            IN  IF s.acc_len + 6 < 8 THEN [s EXCEPT !.acc = acc, !.acc_len = @ + 6]
                ELSE [s EXCEPT !.acc = acc, !.acc_len = @ - 2,
                               !.dst = Append(@, (acc \div 2^(s.acc_len - 2)) % 256)]
        end == FoldLeft(In, [acc |-> 0, acc_len |-> 0, dst |-> << >>], chars)
    IN  [ok |-> Len(end.dst) <= max_len /\ end.acc_len <= 4, value |-> end.dst,
         rest |-> SubSeq(src, Len(chars) + 1, Len(src))]

\* The characters up to the first that is not Base64: too many bytes for the
\* buffer, or bits left that are not those of a last byte, are an error.
from_base64(max_len, src) ==
    LET chars == Leading(src, LAMBDA c : b64_char_to_byte(c) # 255)
        In(s, c) ==
            LET acc == ((s.acc * 64) + b64_char_to_byte(c)) % Accumulator
            IN  IF s.acc_len + 6 < 8 THEN [s EXCEPT !.acc = acc, !.acc_len = @ + 6]
                ELSE [s EXCEPT !.acc = acc, !.acc_len = @ - 2,
                               !.dst = Append(@, (acc \div 2^(s.acc_len - 2)) % 256)]
        end == FoldLeft(In, [acc |-> 0, acc_len |-> 0, dst |-> << >>], chars)
    IN  [ok |-> Len(end.dst) <= max_len /\ end.acc_len <= 4 /\ end.acc % 2^end.acc_len = 0,
         value |-> end.dst, rest |-> SubSeq(src, Len(chars) + 1, Len(src))]

numlen[num \in Uint32] == IF num < 10 THEN 1 ELSE 1 + numlen[num \div 10]

\* sprintf("%lu").
Decimal(n) == [i \in 1 .. numlen[n] |-> 48 + ((n \div 10^(numlen[n] - i)) % 10)]

\* Minimal, and no more than an unsigned long: tested before acc is enlarged.
decode_decimal(str) ==
    LET digits == Leading(str, LAMBDA c : c \in Digit)
        In(s, c) ==
            LET d == c - 48
            IN  IF ~s.ok \/ s.acc > ULONG_MAX \div 10 \/ d > ULONG_MAX - (s.acc * 10)
                THEN [s EXCEPT !.ok = FALSE]
                ELSE [s EXCEPT !.acc = (@ * 10) + d]
        end == FoldLeft(In, [ok |-> TRUE, acc |-> 0], digits)
    IN  [ok |-> end.ok /\ digits # << >> /\ (Head(digits) = 48 => Len(digits) = 1),
         value |-> end.acc, rest |-> SubSeq(str, Len(digits) + 1, Len(str))]

----------------------------------------------------------------------------
(* encode_string and decode_string.                                        *)

Dollar == <<36>>
VersionIs == <<36, 118, 61>>    \* "$v="
MemoryIs == <<36, 109, 61>>     \* "$m="
TimeIs == <<44, 116, 61>>       \* ",t="
LanesAre == <<44, 112, 61>>     \* ",p="

argon2_type2string(type) ==
    <<97, 114, 103, 111, 110, 50>>          \* "argon2"
        \o CASE type = Argon2_d -> <<100>> [] type = Argon2_i -> <<105>>
             [] type = Argon2_id -> <<105, 100>>

\* Every piece must leave room for the terminating zero.
Pieces(hash) ==
    <<Dollar, argon2_type2string(hash.type), VersionIs, Decimal(hash.c.version),
      MemoryIs, Decimal(hash.c.m_cost), TimeIs, Decimal(hash.c.t_cost),
      LanesAre, Decimal(hash.c.lanes), Dollar, to_base64(hash.salt), Dollar, to_base64(hash.out)>>

encode_string(room, hash) ==
    LET Put(w, piece) ==
            IF Len(piece) >= w.room THEN [w EXCEPT !.code = "ENCODING_FAIL", !.room = 0]
            ELSE [w EXCEPT !.dst = @ \o piece, !.room = @ - Len(piece)]
        start == [code |-> "OK", dst |-> << >>, room |-> room]
    IN  IF hash.type \notin Type THEN [start EXCEPT !.code = "ENCODING_FAIL"]
        ELSE IF validate_inputs(hash.c) # "OK" THEN [start EXCEPT !.code = validate_inputs(hash.c)]
        ELSE FoldLeft(Put, start, Pieces(hash))

\* The terminating zero included.
argon2_encodedlen(hash) ==
    15 + Len(argon2_type2string(hash.type)) + numlen[hash.c.t_cost] + numlen[hash.c.m_cost]
    + numlen[hash.c.lanes] + b64len(hash.c.saltlen) + b64len(hash.c.outlen)
    + numlen[VERSION_NUMBER] + 1

\* A reader holds what is left of the text and the fields read so far.
Failed(r) == [r EXCEPT !.code = "DECODING_FAIL"]
Reading(r) == r.code = "OK"

CC(r, prefix) ==
    IF IsPrefix(prefix, r.rest) THEN [r EXCEPT !.rest = SubSeq(@, Len(prefix) + 1, Len(@))]
    ELSE Failed(r)

DECIMAL_U32(r, d, field) ==
    IF d.ok /\ d.value <= Greatest THEN [r EXCEPT !.rest = d.rest, !.c[field] = d.value]
    ELSE Failed(r)

BIN(r, b, buf, len) ==
    IF b.ok /\ Len(b.value) <= Greatest
    THEN [r EXCEPT !.rest = b.rest, ![buf] = b.value, !.c[len] = Len(b.value)]
    ELSE Failed(r)

\* What argon2_verify hands in: buffers as long as the text.
Unread(str) ==
    [code |-> "OK", rest |-> str, salt |-> << >>, out |-> << >>,
     c |-> [out |-> TRUE, outlen |-> Len(str), pwd |-> TRUE, pwdlen |-> 0,
            salt |-> TRUE, saltlen |-> Len(str), secret |-> FALSE, secretlen |-> 0,
            ad |-> FALSE, adlen |-> 0, t_cost |-> 0, m_cost |-> 0, lanes |-> 0, threads |-> 0,
            version |-> VERSION_10, allocate_cbk |-> FALSE, free_cbk |-> FALSE]]

Number(prefix, field) == [prefix |-> prefix, kind |-> "number", field |-> field]
Binary(buf, len) == [prefix |-> Dollar, kind |-> "binary", field |-> len, buf |-> buf]

Format(type) ==
    <<[prefix |-> Dollar \o argon2_type2string(type), kind |-> "type"],
      [Number(VersionIs, "version") EXCEPT !.kind = "optional"],
      Number(MemoryIs, "m_cost"), Number(TimeIs, "t_cost"), Number(LanesAre, "lanes"),
      Binary("salt", "saltlen"), Binary("out", "outlen")>>

Converted(r, part, max_len) ==
    CASE ~Reading(r) \/ part.kind = "type" -> r
      [] Reading(r) /\ part.kind \in {"number", "optional"} ->
            DECIMAL_U32(r, decode_decimal(r.rest), part.field)
      [] Reading(r) /\ part.kind = "binary" ->
            BIN(r, from_base64(max_len, r.rest), part.buf, part.field)

\* The inputs are validated first, then the end of the text.
Validated(r, code) ==
    IF code # "OK" THEN [r EXCEPT !.code = code]
    ELSE IF r.rest # << >> THEN Failed(r) ELSE r

Accepted(r) == Validated(r, validate_inputs(r.c))

decode_string(str, type) ==
    LET Part(r, part) ==
            IF ~Reading(r) \/ (part.kind = "optional" /\ ~IsPrefix(part.prefix, r.rest)) THEN r
            ELSE Converted(CC(r, part.prefix), part, Len(str))
        Threads(r) == IF Reading(r) THEN Accepted([r EXCEPT !.c.threads = r.c.lanes]) ELSE r
    IN  Threads(FoldLeft(Part, Unread(str), Format(type)))

----------------------------------------------------------------------------
(* The bridge.                                                             *)

b64_encoded_size(inlen) == 4 * ((inlen + (IF inlen % 3 # 0 THEN 3 - (inlen % 3) ELSE 0)) \div 3)

\* A mutant: the padding starts a byte late.
b64_encodeLate(in) ==
    LET At(i) == IF i < Len(in) THEN in[i + 1] ELSE 0
        Word24(i) == (At(i) * 65536) + (At(i + 1) * 256) + At(i + 2)
        Char(j) ==
            LET i == 3 * (j \div 4)
                k == j % 4
            IN  IF k >= 2 /\ i + (k - 1) > Len(in) THEN 61
                ELSE b64_byte_to_char((Word24(i) \div 2^(6 * (3 - k))) % 64)
    IN  [j \in 1 .. b64_encoded_size(Len(in)) |-> Char(j - 1)]

\* Three bytes make four characters; those that no byte reaches are "=".
b64_encode(in) ==
    LET At(i) == IF i < Len(in) THEN in[i + 1] ELSE 0
        Word24(i) == (At(i) * 65536) + (At(i + 1) * 256) + At(i + 2)
        Char(j) ==
            LET i == 3 * (j \div 4)
                k == j % 4
            IN  IF k >= 2 /\ i + (k - 1) >= Len(in) THEN 61
                ELSE b64_byte_to_char((Word24(i) \div 2^(6 * (3 - k))) % 64)
    IN  [j \in 1 .. b64_encoded_size(Len(in)) |-> Char(j - 1)]

----------------------------------------------------------------------------
Init ==
    /\ given \in Given
    /\ pc = "hash" /\ text = << >> /\ dst_len = 0 /\ touched = FALSE
    /\ asked = given.type /\ read = Unread(<< >>)

Encode ==
    /\ pc = "hash"
    /\ \E slack \in Slack : dst_len' = argon2_encodedlen(given) + slack
    /\ LET w == encode_string(dst_len', given)
       IN  /\ text' = w.dst
           /\ pc' = IF w.code = "OK" THEN "text" ELSE "refused"
    /\ UNCHANGED <<given, touched, asked, read>>

\* One character is changed, added or lost on the way.
Tamper ==
    /\ pc = "text" /\ ~touched
    /\ touched' = TRUE
    /\ \E i \in 1 .. Len(text) :
           \/ \E c \in Damage : text' \in {ReplaceAt(text, i, c), InsertAt(text, i, c)}
           \/ text' = RemoveAt(text, i)
           \/ text' = SubSeq(text, 1, i - 1)
    /\ UNCHANGED <<pc, given, dst_len, asked, read>>

Decode ==
    /\ pc = "text"
    /\ asked' \in Type
    /\ read' = decode_string(text, asked')
    /\ pc' = "read"
    /\ UNCHANGED <<given, text, dst_len, touched>>

Bridge ==
    /\ pc = "hash"
    /\ text' = b64_encode(given.out)
    /\ pc' = "bridge"
    /\ UNCHANGED <<given, dst_len, touched, asked, read>>

Next == Encode \/ Tamper \/ Decode \/ Bridge

Spec == Init /\ [][Next]_vars

----------------------------------------------------------------------------
\* A buffer of argon2_encodedlen characters is enough, none that is shorter is
\* written, and the text is decoded to what was encoded, as no other type.
RoundTrip ==
    /\ pc = "text" /\ ~touched => Len(text) + 1 = argon2_encodedlen(given) /\ Len(text) < dst_len
    /\ pc = "refused" => dst_len < argon2_encodedlen(given)
    /\ pc = "read" /\ ~touched =>
        IF asked = given.type
        THEN /\ read.code = "OK" /\ read.salt = given.salt /\ read.out = given.out
             /\ \A field \in {"version", "m_cost", "t_cost", "lanes", "saltlen", "outlen"} :
                    read.c[field] = given.c[field]
        ELSE read.code = "DECODING_FAIL"

\* There is one text for a hash: decode_string accepts no other number of digits,
\* no bits behind the last byte and nothing after it (encoding.c:195-197, 231,
\* 361-365). A text without a version is that of version 16. Of a text with
\* negative characters this is not true: EQ takes them for "+" and "/".
Canonical ==
    pc = "read" /\ read.code = "OK" /\ (\A i \in DOMAIN text : text[i] >= 0) =>
        LET hash == [c |-> read.c, type |-> asked, salt |-> read.salt, out |-> read.out]
            pieces == Pieces(hash)
        IN  \/ text = FlattenSeq(pieces)
            \/ /\ read.c.version = VERSION_10
               /\ text = FlattenSeq(SubSeq(pieces, 1, 2) \o SubSeq(pieces, 5, Len(pieces)))

\* RFC 4648 for the bytes as one string of bits, padded to groups of four; the
\* encoder of the library differs from it in the padding only.
Bit(bytes, k) ==
    IF k \div 8 >= Len(bytes) THEN 0 ELSE (bytes[(k \div 8) + 1] \div 2^(7 - (k % 8))) % 2

Sextet(bytes, j) == FoldLeft(LAMBDA n, b : (2 * n) + Bit(bytes, (6 * j) + b), 0, <<0, 1, 2, 3, 4, 5>>)

Alphabet ==
    [i \in 0 .. 63 |-> CASE i < 26 -> 65 + i [] i \in 26 .. 51 -> 71 + i [] i \in 52 .. 61 -> i - 4
                         [] i = 62 -> 43 [] i = 63 -> 47]

Rfc4648(bytes) ==
    [j \in 1 .. 4 * ((Len(bytes) + 2) \div 3) |->
        IF 6 * (j - 1) < 8 * Len(bytes) THEN Alphabet[Sextet(bytes, j - 1)] ELSE 61]

BridgeIsBase64 ==
    pc = "bridge" => /\ text = Rfc4648(given.out)
                     /\ SelectSeq(text, LAMBDA c : c # 61) = to_base64(given.out)
=============================================================================
