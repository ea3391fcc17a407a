SPECIFICATION FairSpec
CONSTANTS
    None = None
    ThingIDs = {t1, t2}
    ChannelIDs = {c1}
    Keys = {k1, k2}
    Owners = {o1, o2}
    Proc = {p1}
PROPERTIES
    OnlyOwnerRemoves
    RequestsEnd
