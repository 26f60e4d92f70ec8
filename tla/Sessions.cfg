CONSTANTS
    Tabs = {t1, t2}
    Eager = {t1}
    Isolates = {i1, i2}
    None = None
    MaxPassword = 1
    MaxMishaps = 1
SPECIFICATION Spec
INVARIANTS OneShot
PROPERTIES SessionsLast GetsIn
