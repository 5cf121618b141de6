SPECIFICATION Spec
CONSTANTS
    Keys = {k1}
    Values = {1, 2}
    None = none
    Invalid = {}
    PanelKeys = {k1}
    QueueSize = 1
    Inputs = {"polling", "config"}
    Timers = {"config"}
    MaxVersion = 1
PROPERTIES
    SkipOnlyWhenHeld
