CONSTANTS
    Resource <- OneResource
    Object <- OneObject
    ResourceOf <- OneResourceOf
    NoObject = "none"
    Heartbeat = 2
    MaxVersion <- ThreeVersions
    WatchesEnd = FALSE
SPECIFICATION Spec
INVARIANT NoGhosts
CHECK_DEADLOCK FALSE
