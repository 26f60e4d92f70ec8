\* The control loop and the push channel, intervals scaled down in their order.
SPECIFICATION FairSpec
CONSTANTS
    Window = 4
    Threshold = 3
    BackoffMin = 1
    BackoffMax = 4
    Heartbeat = 3
    ProbeInterval = 2
    QueueBound = 2
    PollInterval = 1
    SafetyNet = 4
    MaxBackoff = 4
    MaxPushes = 2
INVARIANTS
    LinkTypeOK
    DemotedPollsOften
    UnseenIsCovered
PROPERTIES
    ChangesAreSeen
