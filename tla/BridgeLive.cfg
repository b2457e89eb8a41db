SPECIFICATION FairSpec
CONSTANTS
    n1 = n1
    n2 = n2
    g1 = g1
    unknown = unknown
    known1 = known1
    Nodes <- MCOneNode
    Groups <- MCNoGroups
    Status <- MCStatus
    Capacity = 40
    MaxFaults = 1
    MaxUnreadable = 0
    MaxChanges = 1
INVARIANT
    SnapshotTrue
PROPERTIES
    SignalHandled
    Recovers
CHECK_DEADLOCK FALSE
