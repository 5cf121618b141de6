SPECIFICATION Spec
CONSTANTS
    Batteries = {lead}
    NoBattery = noBattery
    Rounds = {{"config", "status"}}
    Faults = {"link"}
    MaxConnectionID = 3
INVARIANTS
    DiscoveryProvided
