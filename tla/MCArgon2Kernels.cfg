SPECIFICATION MCSpec
CONSTANTS
    BLOCKBYTES = 3
    OUTBYTES = 4
    KEYBYTES = 2
    Word = 5
    Requested = {0, 1, 4, 5}
    KeyLengths = {0, 1, 2, 3}
    MaxMessage = 12
    Variants = {"SSE2", "SSSE3", "AVX2_1", "AVX2_2", "AVX512_1", "AVX512_2"}
    Seeds = {1, 90, 200}
    MaxRounds = 2
    MaxOutlen = 21
    UINT32_MAX = 20
    Base = 2
    Sizes = {4, 6, 8}
    Slack <- MCSlack
    Damage <- MCDamage
INVARIANTS
    DigestIsHash
    FullDiffusion
    VectorIsScalar
    BlockMixedEvenly
    LongIsHPrime
    BytesAgree
    RoundTrip
    Canonical
    BridgeIsBase64
\* A kernel computes one result.
CHECK_DEADLOCK FALSE
