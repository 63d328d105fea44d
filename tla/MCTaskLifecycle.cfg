SPECIFICATION Spec
CONSTANTS
    Call = {c1}
    Coordinator = coordinator
    Auditor = {auditor}
    Owner = {o1}
    None = None
    MaxTasks = 1
    MaxLeases = 1
    MaxSaves = 1
    MaxStops = 1
INVARIANTS AgentsAreAccountedFor
PROPERTIES ConfirmedTaskGetsAnAgent ExpiredLeaseIsRecovered
