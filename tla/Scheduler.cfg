SPECIFICATION MCSpec
CONSTANTS
    MaxProcesses = 3
    Priorities = {1, 2}
    Algorithms = {"RoundRobin", "Priority", "CompletelyFair"}
    PowerPolicies = {"Balanced", "PowerSaver"}
    Class <- OneInteractive
    CallerSets <- AllCallers
    MaxChanges = 2
    None = None
INVARIANTS WorkConserving
   
