\* Reservoir entries whose block was refilled since it was sampled.
SPECIFICATION FairSpec
CONSTANTS
    A = A B = B C = C D = D
    NoLine = NoLine
    Line = {A, B, C}
    Written = {}
    NumWays = 2
    NumSets = 4
    Hash <- ChainHash
    WalkLevels = 3
    NumCandidates = 4
    PoolBytes = 64
    Sizes = {32, 64}
    Payload <- Numbering
    BinSlots <- OneSlot
PROPERTY RefilledEntriesAreSkipped
