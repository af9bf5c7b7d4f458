SPECIFICATION Spec
CONSTANTS
    PoolBytes = 128
    Sizes = {32, 64}
    Value = {1, 2}
INVARIANTS ReadBack
