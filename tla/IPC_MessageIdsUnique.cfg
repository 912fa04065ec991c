SPECIFICATION Spec
CONSTANTS
    Pids = {1, 2}
    Types = {"SendMessage"}
    MaxCapabilities = 2
    MaxMessages = 1
    MaxSize = 2
    Contexts = {c1, c2}
    MessagePriorities = {128}
    Sizes = {1}
    MaxIds = 2
INVARIANT MessageIdsUnique
