\* 64 bytes of pool for each of the three slots in use.
SPECIFICATION CSpec
CONSTANTS
    A = A B = B C = C D = D
    NoLine = NoLine
    Line = {A, B, C}
    Written = {}
    NumWays = 2
    NumSets = 4
    Hash <- ChainHash
    WalkLevels = 3
    NumCandidates = 4
    PoolBytes = 192
    Sizes = {16, 64}
    Payload <- Anonymous
    BinSlots <- NoSlots
INVARIANT NeverExhausted
