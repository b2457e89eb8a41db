SPECIFICATION DiscoverySpec
CONSTANTS
    MaxId = 2
    MaxFlight = 2
    Crowd <- MCCrowd
    EventBuffer = 2
    Inventories <- MCInventories
INVARIANTS
    TypeOK
    ScanIsActive
    PayloadRead
    RequestReadable
    DamageDetected
    SessionsAgree
    OneSessionPerId
    DiscoveryTrue
PROPERTIES ImplementsIdPool TypedAnswer
CHECK_DEADLOCK FALSE
