SPECIFICATION Spec
CONSTANTS
    c1 = c1
    c2 = c2
    s1 = s1
    s2 = s2
    NoSession = NoSession
    Callers <- MCCallers
    Sends <- MCSends
    Closings = {"shutdown"}
    SessionIds <- MCSessions
    CommandBuffer = 1
    MaxRequests = 3
    MaxNoise = 1
SYMMETRY MCSymmetry
INVARIANTS TypeOK NoLostCall SessionConfirmed ShutdownIsClean GateOrder
PROPERTY NoSilentSessionEnd
CHECK_DEADLOCK FALSE
