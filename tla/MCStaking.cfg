SPECIFICATION Spec
CONSTANTS
    a = a
    b = b
    wt = wt
    Node = {a, wt}
    NodeType <- MCTwoNodeType
    Initial = {a, wt}
    Nil = Nil
    Calls = {"stake", "unstake", "begin", "end", "slash", "set"}
    Queries = {"get", "contains", "shouldStake"}
    Value = {5}
    MaxCalls = 2
    MaxQueries = 1
    MaxFailures = 1
INVARIANTS Submitted SteadyAnswer
PROPERTY SetTakesEffect
