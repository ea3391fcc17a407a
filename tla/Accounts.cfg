SPECIFICATION Spec
CONSTANTS
    None = None
    Emails = {e1, e2}
    Passwords = {p1, p2}
    Short = {}
    KeyIDs = {k1}
    Client = {c1, c2}
    LoginDuration = 2
    RecoveryDuration = 0
    KeyDurations = {0}
    MaxTime = 1
    MaxLoad = 4
SYMMETRY Symmetry
INVARIANTS
    TokensNameUsers
    KeyTableExact
PROPERTIES
    PasswordChangesAuthorised
CHECK_DEADLOCK FALSE
