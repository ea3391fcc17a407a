SPECIFICATION GroupsSpec
CONSTANTS
    NoGroup = NoGroup
    GroupIDs = {g1, g2, g3}
    MemberIDs = {m1}
    Owners = {o1, o2}
    Names = {n1, n2}
    Levels = {1, 2}
    maxLevel = 5
INVARIANTS
    GroupIntegrity
    PathsSpellAncestors
    TreeShowsPage
PROPERTY ImplementsForest
CHECK_DEADLOCK FALSE
