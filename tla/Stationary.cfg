SPECIFICATION FairSpec
CONSTANTS
    n1 = n1
    n2 = n2
    Nodes <- MCOneNode
    Ids <- MCIds
    Places <- MCPlaces
    EventCapacity = 2
    MaxCommands = 0
    MaxMoves = 1
PROPERTY
    StationaryRefreshed
CHECK_DEADLOCK FALSE
