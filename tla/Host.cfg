SPECIFICATION Spec
CONSTANTS
    Deployments = {d, e}
    Machines = {m1, m2, m3}
    Names = {a, b}
    None = None
    MaxRetries = 1
    MaxIncidents = 2
    Incidents = {"call", "lost", "delete", "put", "late", "operator", "cancel"}
SYMMETRY Symmetry
INVARIANT TypeOK
INVARIANT FilesKept
INVARIANT SetupKeepsMedia
INVARIANT CallsAccepted
PROPERTY ContractSpec
CHECK_DEADLOCK FALSE
