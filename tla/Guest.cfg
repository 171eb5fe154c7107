SPECIFICATION FairSpec
CONSTANTS
    Templates <- AllTemplates
    Addresses = {a, b}
    None = None
    MaxRetries = 2
    MaxIncidents = 2
    Incidents = {"call", "failure", "late", "move", "crash", "asset"}
INVARIANT TypeOK
INVARIANT CompletedIsDone
INVARIANT NoTaskLeft
INVARIANT AgentDoneBeforeRestart
INVARIANT ClosedIsDone
PROPERTY PostInstallEnds
CHECK_DEADLOCK FALSE
