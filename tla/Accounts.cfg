\* Two requests at a time.
SPECIFICATION Spec
CONSTANTS
    User = {u1}
    Rule = {x1, x2}
    Endpoint = {e1, e2}
    Package = {p1}
    t1 = t1
    n1 = n1
    Tunnel = {t1, t2}
    Address = {a1, a2}
    Node = {n1, n2}
    Link = {l1}
    Plan <- MCPlan
    Request = {r1, r2}
    None = None
    Keep = Keep
    MaxTime = 2
    MaxWrites = 2
    MaxDeaths = 1
    MaxBilled = 1
SYMMETRY Symmetric
CHECK_DEADLOCK FALSE
INVARIANTS
    TargetsFollow
    RulesWithinPlan
    UsageIsFair
