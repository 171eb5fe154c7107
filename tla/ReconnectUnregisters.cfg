SPECIFICATION Spec
CONSTANTS
    Conns = {c1, c2}
    Sessions = {s1}
    Dials = {d1}
    NoConn = NoConn
    NoDial = NoDial
    Modes = {"shadow", "connect"}
    Incidents = {"half_open"}
    MaxQueue = 1
INVARIANT AgentReachable
CHECK_DEADLOCK FALSE
