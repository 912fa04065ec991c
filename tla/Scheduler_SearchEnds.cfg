SPECIFICATION MCSpec
CONSTANTS
    MaxProcesses = 2
    Priorities = {2}
    Algorithms = {"RoundRobin", "Priority", "CompletelyFair"}
    PowerPolicies = {"Balanced"}
    Class <- Unclassified
    CallerSets <- CreateAndRemove
    MaxChanges = 2
    None = None
PROPERTY SearchEnds
