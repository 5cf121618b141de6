SPECIFICATION FairSpec
CONSTANTS
    Batteries = {lead}
    NoBattery = noBattery
    Rounds = {{"config", "status"}}
    Faults = {"link", "inverter", "stop"}
    MaxConnectionID = 2
PROPERTIES
    EventuallyOnline
    ShutdownWhenDrained
