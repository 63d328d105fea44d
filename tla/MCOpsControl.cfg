SPECIFICATION ControlRoomSpec
CONSTANTS
    Proc = {p1, p2}
    NoProc = NoProc
    Task = {t1}
    NoTask = NoTask
    MaxAttempts = 2
    MaxRequests = 1
    Admin = {adm1, adm2}
    Agent = {niomi}
    Model = {m1, m2}
    FirstModel = m1
    Coordinator = {s1, s2}
    MaxControls = 2
    MaxApprovals = 1
SYMMETRY Alike
INVARIANTS
    ApprovedOnce
    PausedAgentsAreLeftAlone
    TestsNameTheirModel
PROPERTIES
    PauseDoneMeansStopped
CHECK_DEADLOCK FALSE
