SPECIFICATION KeptLoopSpec
CONSTANTS
    MaxRepairCycles = 2
    Change = {c1}
    Step = {"exec", "then"}
    Plans <- MCPlans
    Guarded <- MCGuarded
    DbCall = {d1, d2, d3}
    NoCall = NoCall
    Row = {row}
    Meta = meta
CONSTRAINT LongPlanSecond
SYMMETRY Alike
INVARIANTS
    NeverSilentlyIdle
    AcknowledgedIsKept
    ChangesAreSeenWhole
    ClaimsAreExclusive
PROPERTIES
    ReviewSeesFinishedWork
    CompletedOnEvidence
CHECK_DEADLOCK FALSE
