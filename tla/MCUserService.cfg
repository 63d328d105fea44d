SPECIFICATION ServiceSpec
CONSTANTS
    Call = {c1, c2}
    Node <- MCNode
    MaxCalls = 5
    MaxCredentials = 1
    MaxStops = 1
    Account = {ann, bob}
    Client = {k1, k2}
    Task = {t1}
    Exposed = {bob}
    SignupOpen = TRUE
    LOCKOUT_THRESHOLD = 1
    MaxActiveTasks = 1
    Nobody = Nobody
SYMMETRY Alike
INVARIANTS
    GrantsStayNarrow
    OneHistory
    SuspensionIsUndone
    WrongInARowBounded
    ShutOutGetsNothing
CHECK_DEADLOCK FALSE
