SPECIFICATION FairSpec
CONSTANTS
    Files <- MCFiles
    Second = 1
    MaxKeepalive = 65535
    MaxDuration = 200000
    MaxWillDelay = 100000
    BadTexts = {"inverter+"}
    Paths = {"/dev/inverter", "house/inverter"}
    Slashes = {"//"}
    StartLimitInterval = 9
    RestartSec = 1
INVARIANTS
    TypeOK
    SinkToldTruth
    BackoffSchedule
    ExecutionsBounded
PROPERTIES
    ResetsSpaced
    RecoveryEnds
    
