\* Lines of the widths of the code, with none to all of their planes stored raw.
\* Two blocks and two slots per bin: a block may be sampled twice over, with or
\* without a copy in the pool, and the requests are of the smallest and the
\* largest size.  For the other units see MCUnits.
SPECIFICATION USpec
CONSTANTS
    WORDS_PER_LINE = 16
    BITS_PER_WORD = 32
    blkSize = 64
    Lines <- MCLines
    Block = {x, y}
    NoBlock = NoBlock
    Sizes = {0, 8, 64}
    NumClasses = 4
    NumSlots = 2
    MaxTimestamp = 1
    Ratios = {0, 1, 2, 3, 4, 5, 6, 7, 8, 9, 100}
CHECK_DEADLOCK FALSE
INVARIANTS RoundTrip SizeIsRight KeepsTheColdest VictimFits FullPeriod WaysAreIndependent
PROPERTY ImplementsSampledBins
