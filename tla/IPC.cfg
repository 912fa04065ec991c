SPECIFICATION MCSpec
CONSTANTS
    Pids = {1, 2}
    Types = {"SendMessage", "SystemCall"}
    MaxCapabilities = 3
    MaxMessages = 2
    MaxSize = 3
    Contexts = {c1, c2}
    MessagePriorities = {0, 1}
    Sizes = {1, 2}
    MaxIds = 3
INVARIANTS ExactlyOnce DeliveryAuthorized QueuesWellFormed RightsHaveCause
SYMMETRY ContextSymmetry
