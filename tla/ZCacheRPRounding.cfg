\* A fraction of which the bucket is not a whole number of accesses.
SPECIFICATION Spec
CONSTANTS
    Entry = {e1, e2, e3}
    NoEntry = NoEntry
    Numerator = 1
    Denominator = 2
    MaxCandidates = 3
    MaxAccesses = 7
INVARIANT BucketIsRounded
