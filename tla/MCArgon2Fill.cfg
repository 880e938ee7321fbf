\* Two passes over three lanes, with one, two and three threads.
SPECIFICATION FairSpec
CONSTANTS
    Lanes = 3
    ThreadCounts = {1, 2, 3}
    Passes = 2
    SegmentLength = 3
    AddressesInBlock = 2
    Word = 16
    Type = "id"
    Version = 19
    Junk = 60
    Block <- MCBlock
    First <- MCFirst
    Xor <- MCXor
    Permute <- MCPermute
    Rand <- MCRand
    Addresses <- MCAddresses
    Golden <- MCGolden
INVARIANTS
    TypeOK
    NoRace
    FillIsDetermined
    NoThreadOutlivesFill
    JoinedOnce
PROPERTY
    FillEnds
\* fill_memory_blocks returns and the threads exit.
CHECK_DEADLOCK FALSE
