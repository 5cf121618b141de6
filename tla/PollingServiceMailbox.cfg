SPECIFICATION Spec
CONSTANTS
    Keys = {k1, k2}
    Values = {v1, v2, bad}
    None = none
    Invalid = {bad}
    PanelKeys = {}
    QueueSize = 2
    Inputs = {"polling", "config"}
    Timers = {}
    MaxVersion = 1
SYMMETRY Symmetry
INVARIANTS
    PendingWritesHeld
PROPERTIES
    ImplementsMailbox
