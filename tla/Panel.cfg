\* Panel writes and deferred recomputation: one complete tunnel with TLS and three
\* writes; one without, or two served tunnels, and two.
SPECIFICATION Spec
CONSTANTS
    t1 = t1
    t2 = t2
    u1 = u1
    a1 = a1
    a2 = a2
    a3 = a3
    b2 = b2
    dst = dst
    m1 = m1
    m2 = m2
    None = None
    Unparsable = Unparsable
    Node = {1, 2, 3}
    Rule = {1}
    Link = {1, 2, 3}
    Tunnel = {t1, t2}
    User = {u1}
    Address = {a1, a2, a3, b2}
    Target = {dst}
    Material = {m1, m2}
    PortRange <- MCRange
    NodeRows <- MCNodeRows
    LinkRows <- MCLinkRows
    RuleRows <- MCRuleRows
    LinkPatches <- MCLinkPatches
    RulePatches <- MCRulePatches
    Seeds <- MCSeeds
    MaxStaged = 2
    MaxWrites = 3
INVARIANTS
    TypeOK
    LegsMeet
    StaleIsScheduled
    StoredLegsMeet
CHECK_DEADLOCK FALSE
