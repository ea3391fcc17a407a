SPECIFICATION Spec
CONSTANTS
    Things = {t1}
    Channels = {c1}
    MaxMsgs = 2
    Times = {0, 1, 3}
    Grain = 2
    Subtopics <- MCSubtopics
    Requests <- MCRequests
INVARIANTS
    NoEcho
    PacksWhole
PROPERTY AcceptedDelivered
CHECK_DEADLOCK FALSE
