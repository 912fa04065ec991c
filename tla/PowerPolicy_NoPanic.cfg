SPECIFICATION Spec
CONSTANTS
    Contexts = {"timer", "task"}
    Full = 5
    PluggedAt = 2
    LowLevel = 1
    CriticalLevel = 0
    LevelSamples = 20
    ChargingSamples = 10
    PolicyInterval = 1
    MonitorInterval = 2
    BoostTime = 2
    MaxTime = 8
INVARIANT NoPanic
CHECK_DEADLOCK FALSE
