CONSTANTS
    Every = 2
    MaxPoints = 3
    SynthTimes <- Synthetic
    Wide = 4
    Base = 4
    MaxTime = 6
    MaxStarts = 3
    Gone = Gone
    None = None
SPECIFICATION Spec
INVARIANTS
    TypeOK
    ReplayIsTheTimeline
PROPERTIES
    RecordingOutranksSynth
CHECK_DEADLOCK FALSE
