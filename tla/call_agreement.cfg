CONSTANTS
    p1 = p1
    p2 = p2
    p3 = p3
    None = None
    Programs = {p1, p2, p3}
    Plan <- MCPlan
    Gathering <- MCGathering
    MaxMishaps = 1
SPECIFICATION Spec
INVARIANT Agreement
