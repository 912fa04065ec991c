SPECIFICATION Spec
CONSTANTS
    Pids = {1, 2}
    CpuPids = {1}
    IdleAfter = 1
    C1After = 2
    C2After = 3
    DeepAfter = 4
    C4After = 5
    IdleMaxTime = 9
    Loads = {10, 40, 55, 78, 95}
    min_frequency = 800
    max_frequency = 2400
    InitialFrequency = 1000
    HistoryLength = 2
    BoostEnd = 2
    CpuMaxTime = 3
    BoostDuration = 2
    QueueLimit = 2
    EnoughInteractions = 2
    MaxCount = 3
    RespMaxTime = 5
    Contexts = {"timer", "task"}
    Full = 5
    PluggedAt = 2
    LowLevel = 1
    CriticalLevel = 0
    Samples = 3
    PolicyInterval = 1
    MonitorInterval = 2
    BoostTime = 2
    PolicyMaxTime = 8
INVARIANTS  FrequencyAlwaysAccepted RecentNotThrottled 
PROPERTIES DepthFollowsProcesses 
CHECK_DEADLOCK FALSE
