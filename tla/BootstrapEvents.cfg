SPECIFICATION FairSpec
CONSTANTS
    None = None
    ThingIDs = {t1}
    ChannelIDs = {c1}
    Keys = {k1}
    KeyOf <- MCKeyOf
    Owners = {o1}
    Proc = {p1}
    ExtIDs = {e1}
    Watched = {"thing.remove", "thing.disconnect", "channel.update", "channel.remove"}
    Requests = {"Add", "Update", "ChangeState", "Remove"}
    UserOps = {"RemoveThing", "RemoveChannel", "UpdateChannel", "Connect", "Disconnect"}
    BatchSize = 2
    MaxEvents = 2
    MaxFaults = 1
INVARIANT ConfigIntegrity
PROPERTY RemoveEventApplied
