SPECIFICATION Spec
CONSTANTS
    Templates <- ToolsTemplate
    Addresses = {a, b}
    None = None
    MaxRetries = 1
    MaxIncidents = 1
    Incidents = {"late"}
INVARIANT NotLeftOff
CHECK_DEADLOCK FALSE
