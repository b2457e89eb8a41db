SPECIFICATION FairSpec
CONSTANTS
    n1 = n1
    n2 = n2
    g1 = g1
    unknown = unknown
    known1 = known1
    Nodes <- MCTwoNodes
    Groups <- MCNoGroups
    Status <- MCOneStatus
    Capacity = 8
    MaxFaults = 0
    MaxUnreadable = 0
    MaxChanges = 0
PROPERTY
    SignalHandled
CHECK_DEADLOCK FALSE
