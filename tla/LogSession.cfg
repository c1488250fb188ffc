CONSTANTS
    Pid = {1, 2}
    Time = {1, 2}
    Candidates = 1
    Keep = 2
    MaxLaunches = 4
SPECIFICATION Spec
INVARIANT ClaimSurvives
INVARIANT NewestSurvive
INVARIANT BudgetHolds
