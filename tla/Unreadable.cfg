SPECIFICATION Spec
CONSTANTS
    n1 = n1
    n2 = n2
    g1 = g1
    unknown = unknown
    known1 = known1
    Nodes <- MCOneNode
    Groups <- MCNoGroups
    Status <- MCOneStatus
    Capacity = 40
    MaxFaults = 1
    MaxUnreadable = 1
    MaxChanges = 0
INVARIANT
    OfflineShown
CHECK_DEADLOCK FALSE
