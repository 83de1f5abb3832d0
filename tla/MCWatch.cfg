CONSTANTS
    Resource <- TwoResources
    Object <- TwoObjects
    ResourceOf <- TwoResourceOf
    NoObject = "none"
    Heartbeat = 2
    MaxVersion <- TwoVersions
    WatchesEnd = TRUE
SPECIFICATION Spec
INVARIANTS
    TypeOK
    NoLostWakeup
PROPERTIES
    ImplementsFeed
    ImplementsOffers
CHECK_DEADLOCK FALSE
