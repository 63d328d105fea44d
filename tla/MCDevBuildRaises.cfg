SPECIFICATION Spec
CONSTANTS
    w1 = w1
    q1 = q1
    NoOne = NoOne
    Tick = {w1}
    Request = {q1}
    Budget = 1
    CallCost = 1
    MaxBudget = 3
    Payment = 1
    Wallet <- MCWallet
    MaxImplement = 1
    MaxTransient = 0
    MaxInvalid = 0
    MaxChanges = 2
    MaxFaults = 1
    MaxEdits = 1
INVARIANTS
    SettledWithinSpend
CHECK_DEADLOCK FALSE
