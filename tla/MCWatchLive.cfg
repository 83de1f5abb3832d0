CONSTANTS
    Resource <- OneResource
    Object <- OneObject
    ResourceOf <- OneResourceOf
    NoObject = "none"
    Heartbeat = 2
    MaxVersion <- ThreeVersions
    WatchesEnd = TRUE
SPECIFICATION FairSpec
PROPERTIES
    EveryChangeArrives
    EmitterNeverHangs
CHECK_DEADLOCK FALSE
