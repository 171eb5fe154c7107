SPECIFICATION Spec
CONSTANTS
    Execs = {e1}
    Vms = {v1}
    NoVm = NoVm
    IpModes = {"dhcp"}
    Operators = {"retry_post_install"}
    Incidents = {}
    ConcurrentRequests = FALSE
    UniqueNames = TRUE
    MaxRetries = 1
    MaxIncidents = 0
INVARIANT KeptVmStaysKept
CHECK_DEADLOCK FALSE
