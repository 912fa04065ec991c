SPECIFICATION ManagerSpec
CONSTANTS
    PageFrames = {p1, p2, p3}
    SlotCounts = {1, 2}
    MaxDevices = 2
    RemoveBelowUsed = TRUE
    Nothing = Nothing
INVARIANT IndicesUpdated
