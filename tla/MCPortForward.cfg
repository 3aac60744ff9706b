CONSTANTS
    PipeSize = 2
    BufferSize = 2
    WindowSize = 1
    MaxNoise = 2
    MaxSignals = 1

SPECIFICATION Spec
INVARIANTS
    PortIsWhole
    NothingReadIsSkipped
    NothingLeftBehind
PROPERTIES
    PipeIsDrained
    BothHalvesEnd
