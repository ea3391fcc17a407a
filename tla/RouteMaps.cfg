SPECIFICATION MCSpec
CONSTANTS
    None = None
    Things = {t1, t2}
    Channels = {c1}
    Devices = {d1, d2}
    Apps = {a1}
    Requests = {r1, r2}
    BatchSize = 2
    MaxEvents = 4
    MaxFaults = 1
SYMMETRY Symmetry
INVARIANTS
    RouteProvenance
    CaughtUpRouted
    ConnectionsKept
CHECK_DEADLOCK FALSE
