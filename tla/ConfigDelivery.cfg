\* One node, two recomputations at once.
SPECIFICATION FairSpec
CONSTANTS
    Content = {empty, c1, bad}
    Empty = empty
    Refused = {bad}
    Worker = {w1, w2}
    None = None
    MaxNow = 2
    MaxWrites = 1
    MaxFaults = 1
INVARIANTS
    TypeOK
    NotModifiedIsTrue
PROPERTIES
    ImplementsRegister
    ChangesArrive
    FailuresAreRepaired
