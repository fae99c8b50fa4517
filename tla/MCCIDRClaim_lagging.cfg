SPECIFICATION Spec
CONSTANTS
    c1 = c1
    c2 = c2
    b1 = b1
    b2 = b2
    AddrBits = 2
    Claims = {c1, c2}
    Blocks = {b1}
    BlockCIDR <- OneBlock
    NoBlock = NoBlock
    SizeBits = {2}
    Selectors <- OneBlockSelectors
    MaxLag = 1
    MaxOps = 2
INVARIANT
    NoOverlap
CHECK_DEADLOCK FALSE
