---------------------------- MODULE MCArgon2Fill ----------------------------
(***************************************************************************)
(* A small Argon2 memory for TLC. A block is a number below 61, what the   *)
(* code does with bits is arithmetic modulo 61, and the reference blocks   *)
(* are built by one fold in the order a single thread builds them.         *)
(***************************************************************************)
EXTENDS Argon2Fill, SequencesExt

MCBlock == 0 .. 60
MCFirst(l, i) == 7 * l + 3 * i + 1
MCXor(a, b) == (a + 2 * b) % 61
MCPermute(a) == (a * a * 5 + 11 * a + 17) % 61
MCRand(a, k) == [low |-> (a * 5 + k * 7 + 1) % 16, high |-> (a \div 3) + k]
MCAddresses(p, l, s, n) == (p * 29 + l * 13 + s * 17 + n * 23 + 5) % 61

\* The blocks in the order of fill_memory_blocks_st.
Order ==
    [n \in 1 .. Passes * Lanes * LaneLength |->
        LET block == n - 1
            segment == block \div SegmentLength
        IN  [pass |-> segment \div (SyncPoints * Lanes),
             slice |-> (segment \div Lanes) % SyncPoints,
             lane |-> segment % Lanes,
             index |-> block % SegmentLength]]

Extend(built, pos) ==
    LET p == pos.pass
        l == pos.lane
        i == pos.slice * SegmentLength + pos.index
        prev == IF i = 0 THEN built[p - 1][l][LaneLength - 1] ELSE built[p][l][i - 1]
        word == IF Independent(p, pos.slice)
                THEN MCRand(MCAddresses(p, l, pos.slice, (pos.index \div AddressesInBlock) + 1),
                            pos.index % AddressesInBlock)
                ELSE MCRand(prev, 0)
        at == RefBlock(p, pos.slice, l, pos.index, word)
        ref == IF p = 0 THEN built[0][at.lane][at.index]
               ELSE IF built[p][at.lane][at.index] # -1 THEN built[p][at.lane][at.index]
               ELSE built[p - 1][at.lane][at.index]
        mixed == MCXor(ref, prev)
        base == IF WithXor(p) THEN MCXor(mixed, built[p - 1][l][i]) ELSE mixed
    IN  IF p = 0 /\ i < 2
        THEN [built EXCEPT ![0][l][i] = MCFirst(l, i)]
        ELSE [built EXCEPT ![p][l][i] = MCXor(base, MCPermute(mixed))]

MCGolden == FoldLeft(Extend, [p \in Pass |-> [l \in Lane |-> [i \in Index |-> -1]]], Order)
=============================================================================
