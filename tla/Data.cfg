\* Lengths beyond U32 of a file that grows or is written anew at any time, ids of
\* six groups with one mistake, three messages of every kind.
SPECIFICATION Spec
CONSTANTS
    U32 = 32
    Tiers <- TierSizes
    Largest = 6
    Sizes = {0, 1, 2, 3, 5, 7, 8, 9, 11, 12, 13, 15, 16, 19, 31, 32, 35}
    Shrinks = FALSE
    MaxChanges = 2
    LUHN32 <- Alphabet
    Unknown = "1"
    Dash = "-"
    Parts = 2
    PartLen = 3
    ChunkLen = 4
    Base = 4
    HELLO_MAGIC <- Magic
    OtherMagic <- Other
    Hellos <- HelloSet
    Outgoing <- MessageSet
    MaxSent = 3
INVARIANTS CopyIsExact ExpressibleSizesSync SyncedHasFirstBlock IdRoundTrip MistypedIdRejected ReadsWhatWasSent FailsForCause
CHECK_DEADLOCK FALSE
