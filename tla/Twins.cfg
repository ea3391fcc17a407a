SPECIFICATION Spec
CONSTANTS
    None = None
    Removed = Removed
    TwinIDs = {w1}
    Definitions <- MCDefinitions
    Messages <- MCMessages
    Client = {c1, c2}
    MaxStates = 3
    MaxRevision = 1
    MaxFaults = 1
SYMMETRY Symmetry
INVARIANTS
    DefinitionsNumbered
    PayloadsDefined
    CacheProvenance
PROPERTY HistoryKept
CHECK_DEADLOCK FALSE
