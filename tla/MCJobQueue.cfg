SPECIFICATION FairSpec
CONSTANTS
    Job = {j1}
    NoJob = NoJob
    Owner = {o1}
    Worker = {w1, w2}
    MaxAttempts = 2
    Capacities = {1, 2}
    PoolStatus = {"active", "draining"}
    RowClaims = TRUE
INVARIANTS
    CapacityAccounted
PROPERTIES
    WorkSpec
    AssignmentsEnd
CHECK_DEADLOCK FALSE
