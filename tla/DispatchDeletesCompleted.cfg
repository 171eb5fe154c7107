SPECIFICATION Spec
CONSTANTS
    Execs = {e1}
    Vms = {v1}
    NoVm = NoVm
    IpModes = {"dhcp"}
    Operators = {}
    Incidents = {"dispatch"}
    ConcurrentRequests = FALSE
    UniqueNames = TRUE
    MaxRetries = 0
    MaxIncidents = 1
INVARIANT CompletedVmSurvives
CHECK_DEADLOCK FALSE
