SPECIFICATION FairSpec
CONSTANTS
    Conns = {c1, c2}
    Sessions = {s1}
    Dials = {d1, d2}
    NoConn = NoConn
    NoDial = NoDial
    Modes = {"shadow", "connect"}
    Incidents = {"half_open", "audit", "redial"}
    MaxQueue = 2
INVARIANT TypeOK
INVARIANT RegisteredAgentLive
INVARIANT WriterIsPumped
INVARIANT HostedSessionEnds
PROPERTY SessionEnds
PROPERTY TunnelUnregistered
CHECK_DEADLOCK FALSE
