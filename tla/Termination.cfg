SPECIFICATION FairSpec
CONSTANTS
    Execs = {e1, e2}
    Vms = {v1}
    NoVm = NoVm
    IpModes = {"dhcp"}
    Operators = {}
    Incidents = {"crash", "cancel", "sweep", "template", "dispatch", "redeliver"}
    ConcurrentRequests = FALSE
    UniqueNames = TRUE
    MaxRetries = 0
    MaxIncidents = 1
INVARIANT TypeOK
PROPERTY EventuallyTerminal
PROPERTY CallbackNotLost
CHECK_DEADLOCK FALSE
