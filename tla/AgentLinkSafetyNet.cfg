\* The safety-net poll against the heartbeat tick of the same loop.
SPECIFICATION LinkSpec
CONSTANTS
    Window = 4
    Threshold = 3
    BackoffMin = 1
    BackoffMax = 4
    Heartbeat = 4
    ProbeInterval = 2
    QueueBound = 2
    PollInterval = 1
    SafetyNet = 6
    MaxBackoff = 6
    MaxPushes = 2
INVARIANT
    SafetyNetHolds
