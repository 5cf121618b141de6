SPECIFICATION Spec
CONSTANTS
    Second = 2
    clockWatchdogInterval = 2
    clockJumpTolerance = 1
    registerWriteInterval = 2
    syncTimeInterval = 5
    Timeout = 1
    Jumps <- MCJumps
    ZoneShift = 3
    MaxEvents = 3
INVARIANTS
    TypeOK
    ClockRight
PROPERTIES
    WritesSpaced
    ClockResynced
