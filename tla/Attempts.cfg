SPECIFICATION Spec
CONSTANTS
    Execs = {e1, e2}
    Vms = {v1, v2, v3}
    NoVm = NoVm
    IpModes = {"dhcp", "static"}
    Operators = {"retry", "retry_post_install"}
    Incidents = {"crash", "cancel", "delete", "template", "lost"}
    ConcurrentRequests = FALSE
    UniqueNames = TRUE
    MaxRetries = 2
    MaxIncidents = 2
SYMMETRY Symmetry
INVARIANT CompletedGuestIsConfigured
INVARIANT MediaUntilAnswer
INVARIANT FailedVmAnswered
INVARIANT SoleDriver
INVARIANT SnapshotCurrent
PROPERTY LifecycleSpec
PROPERTY CallbackNotLost
PROPERTY OnlyRetryAbandonsVm
 
CHECK_DEADLOCK FALSE
