SPECIFICATION ExecSpec
CONSTANTS
    Worker = {w1, w2}
    Node <- MCNode
    Graph = {1}
    GraphOf <- MCGraphOf
    DependsOn <- MCDependsOn
    Settles = {}
    Expands = {}
    CanRun <- MCCanRun
    FirstMax <- MCFirstMax
    Timeout <- MCTimeout
    LeaseLength = 1
    MaxReopens <- MCReopens
    MaxLeaks = 1
    Model = {2, 3}
    Price <- MCPrice
    Cost <- MCCost
    BudgetLimit = 3
    Resolver = {}
INVARIANTS
    HoldsFitBudget
    ResultNeverFree
SYMMETRY MCSymmetry
