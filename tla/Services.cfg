CONSTANTS
    EssentialServices <- MCServicesOfInit
    Shell = "shell"
    MaxRestarts = 3
    MaxWaitCycles = 3
    Drivers = {"a", "b", "c"}
    MaxDependents = 2
    DriverPaths = {"graphics.ko", "keyboard.ko"}
    EssentialDrivers <- MCEssentialDrivers
    FirstProcess = 1000
    MaxLoads = 4
    MaxProcesses = 5
    Keys <- MCKeys
    DefaultSize = 2
    Sizes = {0, 1, 2}
    MaxEvents = 3
    FirstInode = 100
    MountPaths <- MCMounts
    FilePaths <- MCPaths
    Flags <- MCFlags
    Lengths = {1}
    MaxFds = 2
    MaxInodes = 2
    MaxOffset = 2
SPECIFICATION SumSpec
INVARIANTS  OrderIsComplete NoStuckModifier EventsAreLatest
            DescriptorsUsable 
PROPERTIES ShutdownCompletes OrderTerminates UnloadStopsProcess ImplementsFileStore
CHECK_DEADLOCK FALSE
