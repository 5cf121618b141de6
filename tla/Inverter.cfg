SPECIFICATION Spec
CONSTANTS
    Numeral <- MCNumeral
    NonFinite = {"NaN", "Inf"}
    Keys = {"BatteryType", "uwAC2BatVolt"}
    Payloads <- MCPayloads
    Samples <- MCSamples
    QueueSize = 1
    InitialRaw <- MCInitialRaw
    PanelRaw <- MCPanelRaw
INVARIANTS
    TypeOK
    CurrentWritesInLimits
    WritesVerified
    WindowsServeTables
    WritesMeanWhatWasAsked
    AcceptedNumbersFit
