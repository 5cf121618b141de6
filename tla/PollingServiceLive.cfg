SPECIFICATION FollowSpec
CONSTANTS
    Keys = {k1}
    Values = {1, 2}
    None = none
    Invalid = {2}
    PanelKeys = {}
    QueueSize = 2
    Inputs = {"polling", "config"}
    Timers = {"config", "status"}
    MaxVersion = 2
PROPERTIES
    CommandsServed
    StatusServed
    ConfigServed
