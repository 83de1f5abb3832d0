CONSTANTS
    File <- Files
    Flags <- FlagSets
    ClassOrder <- Classes
    Spelling <- Spellings
    ns = "default"
    TheName = "dev"
    NameArg = {"", "dev", "dev-2"}
    NoClass = NoClass
    NoFile = NoFile
    None = None
    MaxRuns = 2
    MaxChanges = 2
SPECIFICATION Spec
INVARIANTS
    TypeOK
    AcceptedIsAdmitted
    DeniedIsDenied
    NewRoundTrips
    WaitsForWhatItApplied
    SuggestionIsNearest
CHECK_DEADLOCK FALSE
