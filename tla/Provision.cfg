SPECIFICATION Spec
CONSTANTS
    None = None
    Requests = {r1, r2}
    Layouts <- MCLayouts
    NumChannels = 1
    MaxFaults = 1
    MaxCerts = 1
INVARIANTS
    SuccessComplete
    LeftoversExplained
    StoredCertValid
SYMMETRY Symmetry
CHECK_DEADLOCK FALSE
