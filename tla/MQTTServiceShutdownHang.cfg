SPECIFICATION FairSpec
CONSTANTS
    Batteries = {lead}
    NoBattery = noBattery
    Rounds = {{"status"}}
    Faults = {"link", "stop"}
    MaxConnectionID = 3
PROPERTIES
    ShutdownCompletes
