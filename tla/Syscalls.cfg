SPECIFICATION MCSpec
CONSTANTS
    MaxProcesses = 3
    Priorities = {2}
    None = None
    Word64 = 1048576
    Word32 = 65536
    MaxMessages = 1
    MaxSize = 2
    DefaultAddress = 1000
    MaxIds = 2
    Calls <- MCCalls
    SendRights <- MCRights
INVARIANTS RunningIsCurrent FamilyLinks ReturnTellsOutcome
PROPERTIES IdentityIsStable FailedCallsChangeNothing FreshProcessHasNoMail
