CONSTANTS
    Object <- Objects
    KindOf <- Kinds
    Owner <- Owners
    Nobody = "none"
    Name = "a"
    MayRefer <- References
    MayOwn <- Ownership
    MayMark <- Marks
SPECIFICATION FairSpec
INVARIANTS
    TypeOK
    ExactlyTheReachableSet
    OneSortedList
    OneClusterOnly
PROPERTY Ends
CHECK_DEADLOCK FALSE
