\* Two requests at a time.
SPECIFICATION FairSpec
CONSTANTS
    Domain = {d1, d2}
    Custom = {c1}
    Days = {year, short}
    DefaultDays = year
    Node = {n1}
    Request = {r1, r2}
    None = None
    MaxWrites = 1
    MaxDeaths = 1
    MaxAges = 1
    Key = {k1, k2, k3, k4, k5, k6}
CHECK_DEADLOCK FALSE
INVARIANTS
    StoredMaterialFits
    CertificatesReadBack
PROPERTIES
    MaterialArrives
