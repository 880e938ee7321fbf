------------------------------- MODULE Blamka -------------------------------
(***************************************************************************)
(* The permutation under Argon2: G and the round of blamka-round-ref.h on  *)
(* any kind of word, and fill_block of ref.c, which applies the round to   *)
(* the columns and then to the rows of a block of 128 words.               *)
(*                                                                         *)
(* The machine runs fill_block on words that are the sets of inputs they   *)
(* depend on, so that what a wrong index in the two schedules would leave  *)
(* out of the new block is seen.                                           *)
(***************************************************************************)
EXTENDS Integers, Sequences

CONSTANTS
    fBlaMka(_, _),      \* the multiply-and-add of two words
    Xor(_, _),          \* x ^ y
    rotr64(_, _)        \* a word rotated right by a number of bits

VARIABLES
    blockR,         \* fill_block's blockR
    block_tmp,      \* its block_tmp
    next_block,     \* *next_block
    with_xor,       \* its argument
    pc, i           \* the loop it is in, and that loop's counter

vars == <<blockR, block_tmp, next_block, with_xor, pc, i>>

G(v, a, b, c, d) ==
    LET a1 == fBlaMka(v[a], v[b])
        d1 == rotr64(Xor(v[d], a1), 32)
        c1 == fBlaMka(v[c], d1)
        b1 == rotr64(Xor(v[b], c1), 24)
        a2 == fBlaMka(a1, b1)
        d2 == rotr64(Xor(d1, a2), 16)
        c2 == fBlaMka(c1, d2)
        b2 == rotr64(Xor(b1, c2), 63)
    IN  [v EXCEPT ![a] = a2, ![b] = b2, ![c] = c2, ![d] = d2]

\* The eight calls of G in a round: the columns and then the diagonals of the
\* 4 x 4 matrix of the words v0 .. v15.
Quarters == << <<0, 4, 8, 12>>, <<1, 5, 9, 13>>, <<2, 6, 10, 14>>, <<3, 7, 11, 15>>,
               <<0, 5, 10, 15>>, <<1, 6, 11, 12>>, <<2, 7, 8, 13>>, <<3, 4, 9, 14>> >>

\* BLAKE2_ROUND_NOMSG on the words of v that `at` names v0 .. v15.
BLAKE2_ROUND_NOMSG(v, at) ==
    LET Quarter(k, u) == G(u, at[Quarters[k][1]], at[Quarters[k][2]],
                              at[Quarters[k][3]], at[Quarters[k][4]])
        R[k \in 0 .. 8] == IF k = 0 THEN v ELSE Quarter(k, R[k - 1])
    IN  R[8]

----------------------------------------------------------------------------
QWords == 0 .. 127      \* ARGON2_QWORDS_IN_BLOCK words

xor_block(dst, src) == [k \in QWords |-> Xor(dst[k], src[k])]

\* Mutant: a row takes the even words of its columns twice.
RowShort(n) == [k \in 0 .. 15 |-> 2 * n + 16 * (k \div 2)]

\* The words of the n-th round of each loop.
Column(n) == [k \in 0 .. 15 |-> 16 * n + k]
Row(n) == [k \in 0 .. 15 |-> 2 * n + 16 * (k \div 2) + (k % 2)]

\* The three input blocks: each word depends on itself alone.
Prev == [k \in QWords |-> {<<"prev", k>>}]
Ref == [k \in QWords |-> {<<"ref", k>>}]
Old == [k \in QWords |-> {<<"next", k>>}]

Init ==
    /\ with_xor \in BOOLEAN
    /\ next_block = Old
    /\ blockR = xor_block(Ref, Prev)
    /\ block_tmp = IF with_xor THEN xor_block(blockR, next_block) ELSE blockR
    /\ pc = "columns" /\ i = 0

Round(loop, at, following) ==
    /\ pc = loop /\ i < 8
    /\ blockR' = BLAKE2_ROUND_NOMSG(blockR, at)
    /\ IF i = 7 THEN pc' = following /\ i' = 0 ELSE pc' = loop /\ i' = i + 1
    /\ UNCHANGED <<block_tmp, next_block, with_xor>>

Columns == Round("columns", Column(i), "rows")
Rows == Round("rows", Row(i), "end")

\* copy_block(next_block, &block_tmp); xor_block(next_block, &blockR)
End ==
    /\ pc = "end"
    /\ next_block' = xor_block(block_tmp, blockR)
    /\ pc' = "done"
    /\ UNCHANGED <<blockR, block_tmp, with_xor, i>>

Next == Columns \/ Rows \/ End

----------------------------------------------------------------------------
Inputs == UNION {Prev[k] \cup Ref[k] : k \in QWords}

\* After the loop over the columns a word has met the 16 words of its column
\* and no other; each word of the new block depends on every word of the
\* previous and of the reference block, and on its own old value exactly when
\* fill_block XORs over it (ref.c 39-81).
FullDiffusion ==
    /\ pc = "rows" /\ i = 0 =>
           \A k \in QWords : blockR[k] = UNION {Prev[l] \cup Ref[l] : l \in {m \in QWords : m \div 16 = k \div 16}}
    /\ pc = "done" =>
           \A k \in QWords : next_block[k] = Inputs \cup (IF with_xor THEN Old[k] ELSE {})
=============================================================================
