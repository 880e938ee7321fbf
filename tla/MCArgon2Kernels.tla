-------------------------- MODULE MCArgon2Kernels --------------------------
(***************************************************************************)
(* The sequential kernels under Argon2 for TLC: the streaming BLAKE2b      *)
(* (extended), and instances of fill_block, the vector rounds,             *)
(* blake2b_compress, blake2b_long, the loads and stores, and the text of a *)
(* hash. They share no state, so a behaviour starts one of them and runs   *)
(* it; BLAKE2b stays as it is and the variables of the others stay at 0.   *)
(***************************************************************************)
EXTENDS Blake2b

CONSTANTS Variants, Seeds, MaxRounds, MaxOutlen, UINT32_MAX, Base, Sizes, Slack, Damage

VARIABLES
    kernel, at,                                     \* at: the pc of the kernel
    blockR, block_tmp, next_block, with_xor, i,     \* Blamka
    variant, r, matrices, rounds,                   \* BlamkaOpt
    v, chain, mixed, round, step,                   \* Blake2bCompress
    outlen, digest, out_buffer, toproduce, ret,     \* Blake2bLong
    size, stored, native, w, p, k,                  \* LittleEndian
    given, text, dst_len, touched, asked, read      \* Argon2Encoding

fillVars == <<blockR, block_tmp, next_block, with_xor, i>>
optVars == <<variant, r, matrices, rounds>>
compressVars == <<v, chain, mixed, round, step>>
longVars == <<outlen, digest, out_buffer, toproduce, ret>>
wordVars == <<size, stored, native, w, p, k>>
textVars == <<given, text, dst_len, touched, asked, read>>
kernelVars ==
    <<vars, kernel, at, fillVars, optVars, compressVars, longVars, wordVars, textVars>>

\* Short salts and outputs of every length modulo 3, with the bytes whose bits are
\* all 0, all 1 or mixed, and numbers of one and two digits.
Encoded(type, version, mem, time, salt, tag) ==
    [type |-> type, salt |-> salt, out |-> tag,
     c |-> [out |-> TRUE, outlen |-> Len(tag), pwd |-> TRUE, pwdlen |-> 0,
            salt |-> TRUE, saltlen |-> Len(salt), secret |-> FALSE, secretlen |-> 0,
            ad |-> FALSE, adlen |-> 0, t_cost |-> time, m_cost |-> mem, lanes |-> 1,
            threads |-> 1, version |-> version, allocate_cbk |-> FALSE, free_cbk |-> FALSE]]

Given ==
    {Encoded(2, 19, mem, time, <<255>>, <<0, 107>>) : mem \in {8, 40}, time \in {1, 10}}
    \cup {Encoded(type, version, 8, 1, <<251, 240>>, <<62>>) :
             type \in 0 .. 2, version \in {16, 19}}
    \cup {Encoded(1, 19, 8, 1, <<0>>, tag) :
             tag \in {<<0>>, <<255, 255>>, <<4, 16, 65>>, <<250, 175, 190, 239>>}}

MCSlack == {-3, -1, 0}
\* The characters of the format, those at the borders of the ranges of Base64 and
\* of the digits, and one that is negative.
MCDamage ==
    {36, 43, 44, 45, 46, 47, 48, 49, 50, 57, 58, 61, 64, 65, 66, 90, 91, 95, 96, 97, 100,
     105, 109, 112, 116, 118, 122, 123, 127, -1}

\* fill_block on words that are the sets of inputs they depend on.
Union(x, y) == x \cup y
Turned(x, c) == x
BlockFill == INSTANCE Blamka WITH fBlaMka <- Union, Xor <- Union, rotr64 <- Turned, pc <- at
Opt == INSTANCE BlamkaOpt WITH pc <- at
Compressing == INSTANCE Blake2bCompress WITH h <- chain
Long == INSTANCE Blake2bLong WITH out <- digest, pc <- at
Words == INSTANCE LittleEndian WITH pc <- at
Encoding == INSTANCE Argon2Encoding WITH pc <- at, Word <- 64, SizeWord <- 128,
    BLOCK_SIZE <- 2, MAX_LANES <- 3, MAX_THREADS <- 3, MIN_OUTLEN <- 1,
    MIN_SALT_LENGTH <- 1, MAX_MEMORY <- 40, ULONG_MAX <- 127

NoFill == blockR = 0 /\ block_tmp = 0 /\ next_block = 0 /\ with_xor = 0 /\ i = 0
NoOpt == variant = 0 /\ r = 0 /\ matrices = 0 /\ rounds = 0
NoCompress == v = 0 /\ chain = 0 /\ mixed = 0 /\ round = 0 /\ step = 0
NoLong == outlen = 0 /\ digest = 0 /\ out_buffer = 0 /\ toproduce = 0 /\ ret = 0
NoWords == size = 0 /\ stored = 0 /\ native = 0 /\ w = 0 /\ p = 0 /\ k = 0
NoText == given = 0 /\ text = 0 /\ dst_len = 0 /\ touched = 0 /\ asked = 0 /\ read = 0

MCInit ==
    /\ Init
    /\ \/ kernel = "blake2b" /\ at = ""
          /\ NoFill /\ NoOpt /\ NoCompress /\ NoLong /\ NoWords /\ NoText
       \/ kernel = "fill_block" /\ BlockFill!Init
          /\ NoOpt /\ NoCompress /\ NoLong /\ NoWords /\ NoText
       \/ kernel = "opt" /\ Opt!Init
          /\ NoFill /\ NoCompress /\ NoLong /\ NoWords /\ NoText
       \/ kernel = "compress" /\ at = "" /\ Compressing!Init
          /\ NoFill /\ NoOpt /\ NoLong /\ NoWords /\ NoText
       \/ kernel = "long" /\ Long!Init
          /\ NoFill /\ NoOpt /\ NoCompress /\ NoWords /\ NoText
       \/ kernel = "words" /\ Words!Init
          /\ NoFill /\ NoOpt /\ NoCompress /\ NoLong /\ NoText
       \/ kernel = "text" /\ Encoding!Init
          /\ NoFill /\ NoOpt /\ NoCompress /\ NoLong /\ NoWords

MCNext ==
    /\ UNCHANGED kernel
    /\ \/ /\ kernel = "blake2b" /\ Next
          /\ UNCHANGED <<at, fillVars, optVars, compressVars, longVars, wordVars, textVars>>
       \/ /\ kernel = "fill_block" /\ BlockFill!Next
          /\ UNCHANGED <<vars, optVars, compressVars, longVars, wordVars, textVars>>
       \/ /\ kernel = "opt" /\ Opt!Next
          /\ UNCHANGED <<vars, fillVars, compressVars, longVars, wordVars, textVars>>
       \/ /\ kernel = "compress" /\ Compressing!Next
          /\ UNCHANGED <<vars, at, fillVars, optVars, longVars, wordVars, textVars>>
       \/ /\ kernel = "long" /\ Long!Next
          /\ UNCHANGED <<vars, fillVars, optVars, compressVars, wordVars, textVars>>
       \/ /\ kernel = "words" /\ Words!Next
          /\ UNCHANGED <<vars, fillVars, optVars, compressVars, longVars, textVars>>
       \/ /\ kernel = "text" /\ Encoding!Next
          /\ UNCHANGED <<vars, fillVars, optVars, compressVars, longVars, wordVars>>

MCSpec == MCInit /\ [][MCNext]_kernelVars

----------------------------------------------------------------------------
(* What each property says of the code is written in its module; the run   *)
(* checks DigestIsHash of Blake2b as well.                                 *)

\* Every output word of fill_block depends on every input word.
FullDiffusion == kernel = "fill_block" => BlockFill!FullDiffusion
\* Every vector round computes what the scalar round does.
VectorIsScalar == kernel = "opt" => Opt!VectorIsScalar
\* Every block word enters each round of the compression once.
BlockMixedEvenly == kernel = "compress" => Compressing!BlockMixedEvenly
\* blake2b_long is H' of the specification of Argon2.
LongIsHPrime == kernel = "long" => Long!LongIsHPrime
\* What one form of the loads and stores writes, the other reads.
BytesAgree == kernel = "words" => Words!BytesAgree
\* A text fits the length announced for it and is decoded to what was encoded.
RoundTrip == kernel = "text" => Encoding!RoundTrip
\* There is one text for a hash.
Canonical == kernel = "text" => Encoding!Canonical
\* The bridge's Base64 is that of RFC 4648.
BridgeIsBase64 == kernel = "text" => Encoding!BridgeIsBase64
=============================================================================
