\* 3 ways, six slots and seven lines, two of which are written.
SPECIFICATION Spec
CONSTANTS
    a = a b = b c = c d = d e = e f = f g = g
    NoLine = NoLine
    Line = {a, b, c, d, e, f, g}
    Written = {a, g}
    NumWays = 3
    NumSets = 4
    Hash <- ThreeWayHash
    WalkLevels = 4
    NumCandidates = 16
INVARIANTS TypeOK Placement NoDuplicateLine NoLostWrite RelocationAsserts ChainIsLegal EvictsOnlyWhenFull
PROPERTY ImplementsLineStore
