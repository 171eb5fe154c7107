SPECIFICATION Spec
CONSTANTS
    Execs = {e1, e2, e3}
    Vms = {v1, v2}
    NoVm = NoVm
    IpModes = {"dhcp", "static"}
    Operators = {}
    Incidents = {"sweep", "template", "winrm"}
    ConcurrentRequests = FALSE
    UniqueNames = FALSE
    MaxRetries = 0
    MaxIncidents = 1
SYMMETRY Symmetry
INVARIANT NoOrphanVm
CHECK_DEADLOCK FALSE
