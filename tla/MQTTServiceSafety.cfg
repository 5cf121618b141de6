SPECIFICATION Spec
CONSTANTS
    Batteries = {lead, lithium}
    NoBattery = noBattery
    Rounds = {{"config", "status"}, {"task"}}
    Faults = {"link", "inverter"}
    MaxConnectionID = 3
SYMMETRY Symmetry
INVARIANTS
    TypeOK
    ConnectedIsCurrent
    NoLostWakeup
    InitialFlagsTruthful
    AvailabilityAgrees
    LatestConfigNotLost
