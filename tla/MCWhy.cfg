CONSTANTS
    Object <- Objects
    TheCluster = "dev"
    Kind <- KindOf
    Name <- NameOf
    TypesOf <- Types
    Infra <- InfraOf
    Bootstrap <- BootstrapOf
    None = "none"
    Contributors <- ContributorsOf
    Watched <- WatchedBy
    StallAfter = 1
    MaxTime = 4
    MaxChanges = 2
SPECIFICATION Spec
INVARIANTS
    TypeOK
    WinnerIsOrderFree
    RootOfTheWaits
    LossesAreExplained
    StallIsAsOldAsItSays
PROPERTY BlameMovesForAReason
CHECK_DEADLOCK FALSE
