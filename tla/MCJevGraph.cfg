SPECIFICATION CarryingSpec
CONSTANTS
    Worker = {w1, w2}
    Node <- MCNode
    Graph <- MCGraph
    GraphOf <- MCGraphOf
    DependsOn <- MCDependsOn
    Settles = {3, 4}
    Expands = {1, 3}
    CanRun <- MCCanRun
    FirstMax <- MCFirstMax
    Timeout <- MCTimeout
    LeaseLength = 1
    MaxReopens <- MCReopens
    MaxLeaks = 1
    Request = {r1, r2}
    Verifier = {v1}
    NoRequest = NoRequest
    StepPlans <- MCStepPlans
    Tries = 2
INVARIANTS
    RunsAfterDependencies
    NothingStranded
    AtMostOneSuccess
    OneProcessAtATime
    PassedOnEvidence
SYMMETRY Alike
