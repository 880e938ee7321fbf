-------------------------- MODULE Blake2bCompress --------------------------
(***************************************************************************)
(* blake2b_compress of blake2/blake2b.c: twelve rounds that mix the chain  *)
(* value, the counter and the flags with the sixteen words of a block in   *)
(* the orders of blake2b_sigma.                                            *)
(*                                                                         *)
(* A word is the set of the inputs it depends on: << "h", i >>,            *)
(* << "m", i >>, << "t", i >> and << "f", i >>; constants are the empty set. *)
(***************************************************************************)
EXTENDS Integers, Sequences

VARIABLES
    v,          \* the working vector
    h,          \* S->h
    mixed,      \* how often each word of the block was added
    round, step \* r, and the i of the next G in the round

vars == <<v, h, mixed, round, step>>

blake2b_sigma ==
    << << 0,  1,  2,  3,  4,  5,  6,  7,  8,  9, 10, 11, 12, 13, 14, 15>>,
       <<14, 10,  4,  8,  9, 15, 13,  6,  1, 12,  0,  2, 11,  7,  5,  3>>,
       <<11,  8, 12,  0,  5,  2, 15, 13, 10, 14,  3,  6,  7,  1,  9,  4>>,
       << 7,  9,  3,  1, 13, 12, 11, 14,  2,  6,  5, 10,  4,  0, 15,  8>>,
       << 9,  0,  5,  7,  2,  4, 10, 15, 14,  1, 11, 12,  6,  8,  3, 13>>,
       << 2, 12,  6, 10,  0, 11,  8,  3,  4, 13,  7,  5, 15, 14,  1,  9>>,
       <<12,  5,  1, 15, 14, 13,  4, 10,  0,  7,  6,  3,  9,  2,  8, 11>>,
       <<13, 11,  7, 14, 12,  1,  3,  9,  5,  0, 15,  4,  8,  6,  2, 10>>,
       << 6, 15, 14,  9, 11,  3,  0,  8, 12,  2, 13,  7,  1,  4, 10,  5>>,
       <<10,  2,  8,  4,  7,  6,  1,  5, 15, 11,  9, 14,  3, 12, 13,  0>>,
       << 0,  1,  2,  3,  4,  5,  6,  7,  8,  9, 10, 11, 12, 13, 14, 15>>,
       <<14, 10,  4,  8,  9, 15, 13,  6,  1, 12,  0,  2, 11,  7,  5,  3>> >>

Chain == [i \in 0 .. 7 |-> {<<"h", i>>}]

\* v[8 .. 11] are constants; the counter and the flags enter v[12 .. 15].
Loaded ==
    [i \in 0 .. 15 |->
        IF i < 8 THEN Chain[i]
        ELSE CASE i = 12 -> {<<"t", 0>>} [] i = 13 -> {<<"t", 1>>}
               [] i = 14 -> {<<"f", 0>>} [] i = 15 -> {<<"f", 1>>} [] OTHER -> {}]

Init ==
    /\ h = Chain /\ v = Loaded
    /\ mixed = [k \in 0 .. 15 |-> 0] /\ round = 0 /\ step = 0

\* The words each G of ROUND takes: the columns, then the diagonals.
Quarters == << <<0, 4, 8, 12>>, <<1, 5, 9, 13>>, <<2, 6, 10, 14>>, <<3, 7, 11, 15>>,
               <<0, 5, 10, 15>>, <<1, 6, 11, 12>>, <<2, 7, 8, 13>>, <<3, 4, 9, 14>> >>

m(k) == {<<"m", k>>}

\* Mutant: both additions of a G take the first of its two words.
SigmaTwice(r, i) == <<blake2b_sigma[r + 1][2 * i + 1], blake2b_sigma[r + 1][2 * i + 1]>>

\* The two words of the block that the i-th G of a round adds.
Sigma(r, i) == <<blake2b_sigma[r + 1][2 * i + 1], blake2b_sigma[r + 1][2 * i + 2]>>

G ==
    LET q == Quarters[step + 1]
        s == Sigma(round, step)
        a1 == v[q[1]] \cup v[q[2]] \cup m(s[1])
        d1 == v[q[4]] \cup a1
        c1 == v[q[3]] \cup d1
        b1 == v[q[2]] \cup c1
        a2 == a1 \cup b1 \cup m(s[2])
        d2 == d1 \cup a2
        c2 == c1 \cup d2
        b2 == b1 \cup c2
    IN  /\ round < 12
        /\ v' = [v EXCEPT ![q[1]] = a2, ![q[2]] = b2, ![q[3]] = c2, ![q[4]] = d2]
        /\ mixed' = [k \in 0 .. 15 |-> mixed[k] + (IF s[1] = k THEN 1 ELSE 0)
                                                + (IF s[2] = k THEN 1 ELSE 0)]
        /\ IF step = 7 THEN round' = round + 1 /\ step' = 0
                       ELSE round' = round /\ step' = step + 1
        /\ UNCHANGED h

\* S->h[i] = S->h[i] ^ v[i] ^ v[i + 8]
Finish ==
    /\ round = 12
    /\ h' = [i \in 0 .. 7 |-> h[i] \cup v[i] \cup v[i + 8]]
    /\ round' = 13
    /\ UNCHANGED <<v, mixed, step>>

Next == G \/ Finish

----------------------------------------------------------------------------
Everything ==
    {<<"h", i>> : i \in 0 .. 7} \cup {<<"m", k>> : k \in 0 .. 15}
        \cup {<<x, i>> : x \in {"t", "f"}, i \in {0, 1}}

\* Every round adds each word of the block once, the order blake2b_sigma gives
\* it notwithstanding; from the second round on every word depends on all of the
\* chain value, the counter, the flags and the block, and so does the new chain
\* value (blake2b.c 31-44, 166-222).
BlockMixedEvenly ==
    /\ step = 0 => \A k \in 0 .. 15 : mixed[k] = IF round > 12 THEN 12 ELSE round
    /\ step = 0 /\ round >= 2 => \A i \in 0 .. 15 : v[i] = Everything
    /\ round = 13 => \A i \in 0 .. 7 : h[i] = Everything
=============================================================================
