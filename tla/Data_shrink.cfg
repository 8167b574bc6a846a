\* A file of one block that is copied, becomes shorter, and is copied again.
SPECIFICATION Spec
CONSTANTS
    U32 = 32
    Tiers <- OneTier
    Largest = 6
    Sizes = {1, 3}
    Shrinks = TRUE
    MaxChanges = 1
    LUHN32 <- Alphabet
    Unknown = "1"
    Dash = "-"
    Parts = 2
    PartLen = 3
    ChunkLen = 4
    Base = 4
    HELLO_MAGIC <- Magic
    OtherMagic <- Other
    Hellos <- HelloSet
    Outgoing <- MessageSet
    MaxSent = 3
INVARIANT CopyIsExact
CHECK_DEADLOCK FALSE
