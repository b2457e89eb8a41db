SPECIFICATION Spec
CONSTANTS
    n1 = n1
    n2 = n2
    g1 = g1
    unknown = unknown
    known1 = known1
    Nodes <- MCOneNode
    Groups <- MCGroups
    Status <- MCOneStatus
    Capacity = 40
    MaxFaults = 2
    MaxUnreadable = 1
    MaxChanges = 1
INVARIANTS
    TypeOK
    AvailabilityTrue
    SnapshotTrue
    RemovedIsCleared
    StopIsClean
    StoppedOffline
CHECK_DEADLOCK FALSE
