SPECIFICATION MCSpec
CONSTANTS
    MaxProcesses = 2
    Priorities = {2}
    Algorithms = {"RoundRobin", "Priority", "CompletelyFair"}
    PowerPolicies = {"Balanced"}
    Class <- Unclassified
    CallerSets <- OnlyCreate
    MaxChanges = 1
    None = None
PROPERTY PriorityFair
