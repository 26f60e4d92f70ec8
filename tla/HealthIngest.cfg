\* Two kinds of scenes: two beats of one node at a time, with a rule and a relay; and a
\* rule whose tunnel either of two nodes, both or none take part in.
SPECIFICATION Spec
CONSTANTS
    n1 = n1
    n2 = n2
    x1 = x1
    t1 = t1
    Node = {n1, n2}
    Rule = {x1}
    Relay = {t1}
    Slot = {1, 2}
    Heartbeat = Heartbeat
    None = None
    Chunk = 1
    Latency = 1
    Offline = 2
    Scenes <- MCScenes
    MaxChanges = 2
    MaxMishaps = 1
CHECK_DEADLOCK FALSE
INVARIANTS
    RowsAreTheSnapshot
    OnlineMeansBeating
PROPERTIES
    StatusSettles
