SPECIFICATION MCSpec
CONSTANTS
    c1 = c1
    c2 = c2
    b1 = b1
    b2 = b2
    AddrBits = 3
    Claims = {c1, c2}
    Blocks = {b1, b2}
    BlockCIDR <- TwoBlocks
    NoBlock = NoBlock
    SizeBits = {0, 1}
    Selectors <- TwoBlockSelectors
    MaxLag = 0
    MaxOps = 4
    Templates = {t1, t2, t3}
    MaxEdits = 3
    MaxUsed = 3
    MinBaseBits = 2
INVARIANTS
    NoOverlap
    RecordedInBlock
    FirstFit
    RepliesSound
PROPERTIES
    ImplementsPool
CHECK_DEADLOCK FALSE
