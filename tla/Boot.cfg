SPECIFICATION Spec
CONSTANTS
    Failing = {}
    LevelSamples = 20
    ChargingSamples = 10
PROPERTY BootCompletes
CHECK_DEADLOCK FALSE
