SPECIFICATION Spec
CONSTANTS
    n1 = n1
    n2 = n2
    Nodes <- MCOneNode
    Ids <- MCIds
    Places <- MCPlaces
    EventCapacity = 2
    MaxCommands = 2
    MaxMoves = 1
INVARIANTS
    TypeOK
    IdsAccounted
    RestIsKnown
    ToggleReverses
CHECK_DEADLOCK FALSE
