SPECIFICATION Spec
CONSTANTS
    None = None
    ThingIDs = {t1, t2}
    ChannelIDs = {c1, c2}
    Keys = {k1, k2}
    KeyOf <- MCKeyOf
    Owners = {o1}
    Proc = {p1, p2}
    ExtIDs = {e1, e2}
    Watched = {}
    Requests = {"Add", "Update", "Remove"}
    UserOps = {}
    BatchSize = 1
    MaxEvents = 1
    MaxFaults = 0
SYMMETRY Symmetry
INVARIANTS
    ConfigIntegrity
    DanglingCleaned
PROPERTY AddLeavesNoOrphan
