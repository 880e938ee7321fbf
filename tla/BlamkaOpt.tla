----------------------------- MODULE BlamkaOpt -----------------------------
(***************************************************************************)
(* The vector rounds of blake2/blamka-round-opt.h: SSE2 and SSSE3 (two     *)
(* words in a register, one matrix of 16 words at a time), AVX2 (four      *)
(* words, two matrices) and AVX-512 (eight words, four matrices). Each is  *)
(* run beside the scalar round on the matrices its registers hold. The     *)
(* package carries the header and its builds compile ref.c, the scalar     *)
(* code; what is checked is that either would give the same keys.          *)
(*                                                                         *)
(* Words are scaled to 8 bits: a byte of the code's word is a bit here,    *)
(* and the rotations by 32, 24, 16 and 63 are rotations by 4, 3, 2 and 7.  *)
(***************************************************************************)
EXTENDS Integers, Sequences, Bitwise

CONSTANTS
    Variants,       \* the builds explored
    Seeds,          \* what the words are filled from
    MaxRounds       \* bound: rounds performed one after the other

Scaled == [c \in {16, 24, 32, 63} |-> IF c = 63 THEN 7 ELSE c \div 8]

\* The scalar functions: fBlaMka (blamka-round-ref.h) and rotr64 (blake2-impl.h).
fBlaMka(x, y) == (x + y + 2 * ((x % 16) * (y % 16))) % 256
rotr64(w, c) == (w \div 2^Scaled[c]) | ((w * 2^(8 - Scaled[c])) % 256)
xor(x, y) == x ^^ y

VARIABLES
    variant,
    r,              \* the registers: r.A[0] is the code's A0, a function from lanes to words
    matrices,       \* what they should hold: the matrices after as many scalar rounds
    rounds, pc

vars == <<variant, r, matrices, rounds, pc>>

Scalar == INSTANCE Blamka WITH Xor <- xor, blockR <- r, block_tmp <- r, next_block <- r,
                               with_xor <- FALSE, i <- rounds

----------------------------------------------------------------------------
(* The intrinsics.                                                         *)

add(x, y) == (x + y) % 256
mul_epu32(x, y) == (x % 16) * (y % 16)

\* _mm_shuffle_epi8: byte k of the result is byte order[k] of the word.
Shuffled(w, order) ==
    LET bit(k) == (w \div 2^order[k]) % 2
        sum[k \in 0 .. 8] == IF k = 0 THEN 0 ELSE sum[k - 1] + bit(k) * 2^(k - 1)
    IN  sum[8]

r32 == <<4, 5, 6, 7, 0, 1, 2, 3>>      \* _mm_shuffle_epi32 with (2, 3, 0, 1)
r24 == <<3, 4, 5, 6, 7, 0, 1, 2>>
r16 == <<2, 3, 4, 5, 6, 7, 0, 1>>

Pair(x, y) == [n \in {0, 1} |-> IF n = 0 THEN x ELSE y]
Swap(x) == Pair(x[1], x[0])
alignr(a, b) == Pair(b[1], a[0])            \* by 8 bytes
unpacklo(a, b) == Pair(a[0], b[0])
unpackhi(a, b) == Pair(a[1], b[1])

\* permute4x64, and permutex on each half of a wider register; order lists
\* _MM_SHUFFLE's arguments, the highest lane first.
permute(x, order) == [k \in DOMAIN x |-> x[4 * (k \div 4) + order[4 - (k % 4)]]]
blend_CC(a, b) == [k \in DOMAIN a |-> IF k % 2 = 1 THEN b[k] ELSE a[k]]
blend_33(a, b) == [k \in DOMAIN a |-> IF k % 2 = 0 THEN b[k] ELSE a[k]]

----------------------------------------------------------------------------
(* G1 and G2: the first and the second half of G in every lane. The two    *)
(* registers of a pair share nothing, so their order is not modelled.      *)

Lanewise(mix(_, _), rotate(_, _), first, second) ==
    LET Both(F(_, _)) == [n \in {0, 1} |-> [k \in DOMAIN r.A[0] |-> F(n, k)]]
        A == Both(LAMBDA n, k : mix(r.A[n][k], r.B[n][k]))
        D == Both(LAMBDA n, k : rotate(r.D[n][k] ^^ A[n][k], first))
        C == Both(LAMBDA n, k : mix(r.C[n][k], D[n][k]))
        B == Both(LAMBDA n, k : rotate(r.B[n][k] ^^ C[n][k], second))
    IN  [A |-> A, B |-> B, C |-> C, D |-> D]

\* _mm_roti_epi64 of an SSSE3 build and of an SSE2 build.
roti_epi64(x, c) ==
    CASE variant = "SSE2" -> (x \div 2^Scaled[c]) ^^ ((x * 2^(8 - Scaled[c])) % 256)
      [] variant = "SSSE3" /\ c = 32 -> Shuffled(x, r32)
      [] variant = "SSSE3" /\ c = 24 -> Shuffled(x, r24)
      [] variant = "SSSE3" /\ c = 16 -> Shuffled(x, r16)
      [] variant = "SSSE3" /\ c = 63 -> (x \div 2^Scaled[c]) ^^ add(x, x)
fBlaMka_SSE(x, y) == LET z == mul_epu32(x, y) IN add(add(x, y), add(z, z))

G1_SSE == Lanewise(fBlaMka_SSE, roti_epi64, 32, 24)
G2_SSE == Lanewise(fBlaMka_SSE, roti_epi64, 16, 63)

\* rotr32, rotr24, rotr16 and rotr63.
rotr_AVX2(x, c) ==
    CASE c = 32 -> Shuffled(x, r32)
      [] c = 24 -> Shuffled(x, r24)
      [] c = 16 -> Shuffled(x, r16)
      [] c = 63 -> (x \div 2^Scaled[c]) ^^ add(x, x)
Mixed_AVX2(x, y) == LET ml == mul_epu32(x, y) IN add(x, add(y, add(ml, ml)))

G1_AVX2 == Lanewise(Mixed_AVX2, rotr_AVX2, 32, 24)
G2_AVX2 == Lanewise(Mixed_AVX2, rotr_AVX2, 16, 63)

muladd(x, y) == LET z == mul_epu32(x, y) IN add(add(x, y), add(z, z))

G1_AVX512 == Lanewise(muladd, rotr64, 32, 24)
G2_AVX512 == Lanewise(muladd, rotr64, 16, 63)

----------------------------------------------------------------------------
(* Bringing the diagonals of the matrices into columns, and back.          *)

DIAGONALIZE_SSSE3 ==
    [r EXCEPT !.B = Pair(alignr(r.B[1], r.B[0]), alignr(r.B[0], r.B[1])),
              !.C = Swap(r.C),
              !.D = Pair(alignr(r.D[0], r.D[1]), alignr(r.D[1], r.D[0]))]
UNDIAGONALIZE_SSSE3 ==
    [r EXCEPT !.B = Pair(alignr(r.B[0], r.B[1]), alignr(r.B[1], r.B[0])),
              !.C = Swap(r.C),
              !.D = Pair(alignr(r.D[1], r.D[0]), alignr(r.D[0], r.D[1]))]

Double(x) == unpacklo(x, x)
DIAGONALIZE_SSE2 ==
    [r EXCEPT !.B = Pair(unpackhi(r.B[0], Double(r.B[1])), unpackhi(r.B[1], Double(r.B[0]))),
              !.C = Swap(r.C),
              !.D = Pair(unpackhi(r.D[1], Double(r.D[0])), unpackhi(r.D[0], Double(r.D[1])))]
UNDIAGONALIZE_SSE2 ==
    [r EXCEPT !.B = Pair(unpackhi(r.B[1], Double(r.B[0])), unpackhi(r.B[0], Double(r.B[1]))),
              !.C = Swap(r.C),
              !.D = Pair(unpackhi(r.D[0], Double(r.D[1])), unpackhi(r.D[1], Double(r.D[0])))]

Each(x, order) == Pair(permute(x[0], order), permute(x[1], order))
DIAGONALIZE_1 ==
    [r EXCEPT !.B = Each(r.B, <<0, 3, 2, 1>>), !.C = Each(r.C, <<1, 0, 3, 2>>),
              !.D = Each(r.D, <<2, 1, 0, 3>>)]
UNDIAGONALIZE_1 ==
    [r EXCEPT !.B = Each(r.B, <<2, 1, 0, 3>>), !.C = Each(r.C, <<1, 0, 3, 2>>),
              !.D = Each(r.D, <<0, 3, 2, 1>>)]

\* tmp1 and tmp2 of a pair, each with its words swapped in twos.
Blended_CC(x) == permute(blend_CC(x[0], x[1]), <<2, 3, 0, 1>>)
Blended_33(x) == permute(blend_33(x[0], x[1]), <<2, 3, 0, 1>>)
DIAGONALIZE_2 ==
    [r EXCEPT !.B = Pair(Blended_33(r.B), Blended_CC(r.B)), !.C = Swap(r.C),
              !.D = Pair(Blended_CC(r.D), Blended_33(r.D))]
\* Mutant: the blends of D are left in DIAGONALIZE_2's order.
UNDIAGONALIZE_2Crossed ==
    [r EXCEPT !.B = Pair(Blended_CC(r.B), Blended_33(r.B)), !.C = Swap(r.C),
              !.D = Pair(Blended_CC(r.D), Blended_33(r.D))]
UNDIAGONALIZE_2 ==
    [r EXCEPT !.B = Pair(Blended_CC(r.B), Blended_33(r.B)), !.C = Swap(r.C),
              !.D = Pair(Blended_33(r.D), Blended_CC(r.D))]

DIAGONALIZE_AVX512 ==
    [r EXCEPT !.B = Each(r.B, <<0, 3, 2, 1>>), !.C = Each(r.C, <<1, 0, 3, 2>>),
              !.D = Each(r.D, <<2, 1, 0, 3>>)]
UNDIAGONALIZE_AVX512 ==
    [r EXCEPT !.B = Each(r.B, <<2, 1, 0, 3>>), !.C = Each(r.C, <<1, 0, 3, 2>>),
              !.D = Each(r.D, <<0, 3, 2, 1>>)]

\* SWAP_HALVES: the low halves to the first register, the high ones to the second.
SWAP_HALVES(x) ==
    Pair([k \in 0 .. 7 |-> x[k \div 4][k % 4]], [k \in 0 .. 7 |-> x[k \div 4][4 + (k % 4)]])
Interleaved(x) == [k \in 0 .. 7 |-> x[<<0, 1, 4, 5, 2, 3, 6, 7>>[k + 1]]]
SWAP_QUARTERS(x) ==
    LET halves == SWAP_HALVES(x) IN Pair(Interleaved(halves[0]), Interleaved(halves[1]))
UNSWAP_QUARTERS(x) == SWAP_HALVES(Pair(Interleaved(x[0]), Interleaved(x[1])))

\* BLAKE2_ROUND_1 swaps the halves of An and Bn and of Cn and Dn, before and after.
SwappedHalves ==
    LET ab == [n \in {0, 1} |-> SWAP_HALVES(Pair(r.A[n], r.B[n]))]
        cd == [n \in {0, 1} |-> SWAP_HALVES(Pair(r.C[n], r.D[n]))]
    IN  [A |-> Pair(ab[0][0], ab[1][0]), B |-> Pair(ab[0][1], ab[1][1]),
         C |-> Pair(cd[0][0], cd[1][0]), D |-> Pair(cd[0][1], cd[1][1])]
\* BLAKE2_ROUND_2 swaps the quarters of A0 and A1, B0 and B1, ...
SwappedQuarters == [x \in DOMAIN r |-> SWAP_QUARTERS(r[x])]
UnswappedQuarters == [x \in DOMAIN r |-> UNSWAP_QUARTERS(r[x])]
----------------------------------------------------------------------------
SSE == {"SSE2", "SSSE3"}
AVX2 == {"AVX2_1", "AVX2_2"}
AVX512 == {"AVX512_1", "AVX512_2"}

First == IF variant \in AVX512 THEN "swap" ELSE "G1"

\* The register, its pair index and its lane that hold word w of matrix m.
Place(m, w) ==
    LET row == <<"A", "B", "C", "D">>[w \div 4 + 1]
    IN  CASE variant = "AVX2_1" -> <<row, m, w % 4>>
          [] variant = "AVX512_1" ->
                 <<<<"A", "C", "B", "D">>[2 * (m % 2) + w \div 8 + 1], m \div 2, w % 8>>
          [] OTHER -> <<row, (w % 4) \div 2, 2 * m + (w % 2)>>
Held(m) ==
    [w \in 0 .. 15 |-> LET p == Place(m, w) IN r[p[1]][p[2]][p[3]]]

Lanes == IF variant \in SSE THEN 2 ELSE IF variant \in AVX2 THEN 4 ELSE 8
Matrices == 0 .. Lanes \div 2 - 1

Filled(seed, m, w) == LET k == 16 * m + w IN (seed + 53 * k + 7 * k * k) % 256

Init ==
    /\ variant \in Variants
    /\ \E seed \in Seeds :
          /\ matrices = [m \in Matrices |-> [w \in 0 .. 15 |-> Filled(seed, m, w)]]
          /\ r = [x \in {"A", "B", "C", "D"} |-> [n \in {0, 1} |-> [k \in 0 .. Lanes - 1 |->
                     LET at == CHOOSE p \in Matrices \X (0 .. 15) : Place(p[1], p[2]) = <<x, n, k>>
                     IN  Filled(seed, at[1], at[2])]]]
    /\ rounds = 0 /\ pc = First

Step(at, registers, following) ==
    /\ pc = at /\ rounds < MaxRounds
    /\ r' = registers /\ pc' = following
    /\ UNCHANGED <<variant, matrices, rounds>>

SwapIn == Step("swap", IF variant = "AVX512_1" THEN SwappedHalves ELSE SwappedQuarters, "G1")

G1 == \E p \in {<<"G1", "G2">>, <<"diagonal G1", "diagonal G2">>} :
    Step(p[1], CASE variant \in SSE -> G1_SSE
                 [] variant \in AVX2 -> G1_AVX2
                 [] variant \in AVX512 -> G1_AVX512, p[2])
G2 == \E p \in {<<"G2", "DIAGONALIZE">>, <<"diagonal G2", "UNDIAGONALIZE">>} :
    Step(p[1], CASE variant \in SSE -> G2_SSE
                 [] variant \in AVX2 -> G2_AVX2
                 [] variant \in AVX512 -> G2_AVX512, p[2])

Diagonalize ==
    Step("DIAGONALIZE", CASE variant = "SSE2" -> DIAGONALIZE_SSE2
                          [] variant = "SSSE3" -> DIAGONALIZE_SSSE3
                          [] variant = "AVX2_1" -> DIAGONALIZE_1
                          [] variant = "AVX2_2" -> DIAGONALIZE_2
                          [] variant \in AVX512 -> DIAGONALIZE_AVX512, "diagonal G1")
Undiagonalize ==
    Step("UNDIAGONALIZE", CASE variant = "SSE2" -> UNDIAGONALIZE_SSE2
                            [] variant = "SSSE3" -> UNDIAGONALIZE_SSSE3
                            [] variant = "AVX2_1" -> UNDIAGONALIZE_1
                            [] variant = "AVX2_2" -> UNDIAGONALIZE_2
                            [] variant \in AVX512 -> UNDIAGONALIZE_AVX512,
         IF variant \in AVX512 THEN "swap back" ELSE "end")
SwapBack ==
    Step("swap back", IF variant = "AVX512_1" THEN SwappedHalves ELSE UnswappedQuarters, "end")

\* The scalar rounds are performed beside.
EndRound ==
    /\ pc = "end"
    /\ matrices' = [m \in Matrices |->
                       Scalar!BLAKE2_ROUND_NOMSG(matrices[m], [w \in 0 .. 15 |-> w])]
    /\ rounds' = rounds + 1 /\ pc' = First
    /\ UNCHANGED <<variant, r>>

Next == SwapIn \/ G1 \/ G2 \/ Diagonalize \/ Undiagonalize \/ SwapBack \/ EndRound

----------------------------------------------------------------------------
\* After any number of rounds the registers of every vector build hold what the
\* scalar rounds of blamka-round-ref.h make of the same matrices: a build that
\* took the vector rounds would open the vaults of one that did not
\* (blamka-round-opt.h 32-468).
VectorIsScalar == pc = First => \A m \in Matrices : Held(m) = matrices[m]
=============================================================================
