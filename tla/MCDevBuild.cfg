SPECIFICATION Spec
CONSTANTS
    w1 = w1
    w2 = w2
    q1 = q1
    NoOne = NoOne
    Tick = {w1, w2}
    Request = {q1}
    Budget = 2
    CallCost = 1
    MaxBudget = 3
    Payment = 1
    Wallet <- MCWallet
    MaxImplement = 2
    MaxTransient = 1
    MaxInvalid = 1
    MaxChanges = 1
    MaxFaults = 2
    MaxEdits = 1
SYMMETRY Symmetry
CONSTRAINT FewMisfortunes
INVARIANTS
    BudgetColumnsAgree
    StepChargedOnce
    LedgerBalances
PROPERTIES
    TerminalIsFinal
CHECK_DEADLOCK FALSE
