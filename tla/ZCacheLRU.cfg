\* Four lines on three of the blocks, buckets of two accesses.
SPECIFICATION LSpec
CONSTANTS
    a = a b = b c = c d = d
    NoLine = NoLine
    Line = {a, b, c, d}
    Written = {b, d}
    NumWays = 2
    NumSets = 4
    Hash <- ThreeSlotHash
    WalkLevels = 3
    NumCandidates = 5
    Numerator = 1
    Denominator = 4
    MaxAccesses = 9
SYMMETRY Interchangeable
INVARIANTS TimestampIsBucket NeverLooksOlder OldestUnlessRelocated
PROPERTY ImplementsBucketedLRU
CHECK_DEADLOCK FALSE
