SPECIFICATION Spec
CONSTANTS
    Keys = {k1}
    Values = {v1, v2, bad}
    None = none
    Invalid = {bad}
    PanelKeys = {k1}
    QueueSize = 1
    Inputs = {"polling", "timeSync", "config", "cancel"}
    Timers = {"config", "watchdog", "timeSync", "status"}
    MaxVersion = 2
SYMMETRY Symmetry
INVARIANTS
    TypeOK
    WakeNotLost
    TimeSyncNotLost
    ReadsNotForgotten
    WritesAwaitReadback
