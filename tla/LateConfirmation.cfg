SPECIFICATION Spec
CONSTANTS
    c1 = c1
    c2 = c2
    s1 = s1
    s2 = s2
    NoSession = NoSession
    Callers <- MCOneCaller
    Sends <- MCStateSends
    Closings = {}
    SessionIds = {s1}
    CommandBuffer = 1
    MaxRequests = 2
    MaxNoise = 0
INVARIANT OwnConfirmation
CHECK_DEADLOCK FALSE
