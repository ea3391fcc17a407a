SPECIFICATION Spec
CONSTANTS
    None = None
    ThingIDs = {t1, t2}
    ChannelIDs = {c1}
    Keys = {k1}
    Owners = {o1, o2}
    Proc = {p1, p2}
SYMMETRY Symmetry
INVARIANTS
    StoreIntegrity
    CacheProvenance
    AnswerProvenance
    StaleOnlyIfRaced
