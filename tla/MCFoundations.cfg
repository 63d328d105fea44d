SPECIFICATION FoundationsSpec
CONSTANTS
    Key <- MCKey
    StartStatus <- MCStartStatus
    Spelling <- MCSpelling
    Name <- MCName
    Under <- MCUnder
    normalizePath <- MCNormal
    Resolved <- MCResolved
    NoPath = NoPath
    MaxSteps = 3
    Derived = Derived
    Failure = {f1}
    MaxRepair = 1
    MaxAttempts = 2
    MaxAsks <- Asks
    MaxFindings = 1
    MaxFaults = 1
INVARIANTS
    PassesReachClosedForm
    ListOrderIsKept
    PullRequestPassed
    OneFixAtATime
CHECK_DEADLOCK FALSE
