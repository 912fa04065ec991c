SPECIFICATION SumSpec
CONSTANTS
    p1 = p1
    p2 = p2
    p3 = p3
    Nothing = Nothing
    TotalFrames = 8
    Reserved = {0, 3}
    MemoryMap <- MCMemoryMap
    Width = 4
    Pages = 4
    Configs = {"file", "file2", "partition"}
    Priority <- MCPriority
    MaxActivations = 4
    SwapPages = {p1, p2, p3}
    PageFrames = {p1, p2, p3}
    SlotCounts = {1, 2}
    MaxDevices = 3
    RemoveBelowUsed = FALSE
    PageOrder <- MCPageOrder
    MaxPages = 2
    MaxCapacity = 2
    MaxAccesses = 2
    Algorithms = {"LRU", "FIFO", "Clock", "LFU"}
INVARIANTS
     FirstFitIsExact PageTablesSound HeapWellFormed
     SwapMapsAgree 
PROPERTIES ImplementsSwapSpace PressureRelieved
CHECK_DEADLOCK FALSE
