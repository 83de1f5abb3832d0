CONSTANTS
    Renderers = {"plain", "tty", "json"}
    Texts = {1, 2}
    Mute = {2}
    Debounce = 2
    WatchHeartbeat = 4
    MinInterval = 2
    RenderHeartbeat = 6
    StallAfter = 5
    Lag = 1
    TimesOut = TRUE
SPECIFICATION FairSpec
PROPERTY StillRunningExitsTwo
CHECK_DEADLOCK FALSE
