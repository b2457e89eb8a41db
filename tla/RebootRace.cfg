SPECIFICATION Spec
CONSTANTS
    c1 = c1
    c2 = c2
    s1 = s1
    s2 = s2
    NoSession = NoSession
    Callers <- MCOneCaller
    Sends = {}
    Closings = {"reboot"}
    SessionIds = {s1}
    CommandBuffer = 1
    MaxRequests = 3
    MaxNoise = 0
INVARIANT RebootSupersedes
CHECK_DEADLOCK FALSE
