SPECIFICATION MCSpec
CONSTANTS
    c1 = c1
    c2 = c2
    b1 = b1
    b2 = b2
    t1 = t1
    t2 = t2
    AddrBits = 2
    Claims = {c1, c2}
    Blocks = {b1}
    BlockCIDR <- OneBlock
    NoBlock = NoBlock
    SizeBits = {2}
    Selectors <- OneBlockOrInvalid
    MaxLag = 1
    MaxOps = 3
    Templates = {t1, t2}
    TemplateNames <- MCTemplateNames
    Specs = {s1}
    None = None
    MaxEdits = 1
    MaxFaults = 1
    Pods = {p1}
    MaxPodEdits = 3
    MaxPodLag = 1
INVARIANT
    NoneForgotten
PROPERTIES
    ClaimsSettled
    MakersSettled
CHECK_DEADLOCK FALSE
