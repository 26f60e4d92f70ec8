\* Two services, two ports, four shapes, one certificate rotation.
\* The process may shut down and then takes no further step.
CONSTANTS
    Service = {1, 2}
    Port = {1, 2}
    Config <- MCConfig
    Desired <- MCDesired
    None = None
    MaxCert = 1
SPECIFICATION Spec
INVARIANTS
    TypeOK
    SnapshotCoversDesired
    HiddenFailureIsPortMove
    RunningHasOneFailureAtMost
PROPERTIES
    ApplyConverges
    PortMoveIsSeamless
CHECK_DEADLOCK FALSE
