SPECIFICATION ExecFairSpec
CONSTANTS
    Worker = {w1, w2}
    Node <- LiveNode
    Graph = {1}
    GraphOf <- LiveGraphOf
    DependsOn <- LiveDependsOn
    Settles = {}
    Expands = {}
    CanRun <- LiveCanRun
    FirstMax <- LiveFirstMax
    Timeout <- LiveTimeout
    LeaseLength = 1
    MaxReopens <- LiveReopens
    MaxLeaks = 0
    Model = {2}
    Price <- LivePrice
    Cost <- LiveCost
    BudgetLimit = 3
    Resolver = {r1}
PROPERTIES
    EveryNodeSettles
    GraphFairSpec
