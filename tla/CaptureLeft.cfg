SPECIFICATION Spec
CONSTANTS
    Captures = {c1, c2, c3}
    Desktops = {d1, d2}
    Readers = {h1, h2}
    None = None
    MaxEvents = 2
INVARIANT NoCaptureLeft
CHECK_DEADLOCK FALSE
