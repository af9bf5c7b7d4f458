\* One 64-byte chunk, every block size, no contents.
SPECIFICATION Spec
CONSTANTS
    PoolBytes = 64
    Sizes <- AllSizes
    Value = {}
INVARIANTS TypeOK PoolAccounting SplitAsserts NoFreeBuddies EmptyPoolIsWhole
PROPERTY ImplementsSegmentPool
