SPECIFICATION CoapSpec
CONSTANTS
    NoObserver = NoObserver
    Conns = {c1, c2}
    Subjects = {s1}
    Tokens = {t1, t2}
    MaxObs = 3
INVARIANTS
    SubscriptionsAccounted
    GoneClientsWatched
PROPERTY GoneClientsRemoved
CHECK_DEADLOCK FALSE
