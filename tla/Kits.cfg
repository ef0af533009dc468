SPECIFICATION Spec
CONSTANTS
    None = None
    Posted <- MCPosted
    Worse <- MCWorse
    MaxChanges = 2
INVARIANTS
    OrdinaryIsAnswered
    SpendsWithinBudget
PROPERTIES
    WorseIsNeverBetter
    HoldIsKept
CHECK_DEADLOCK FALSE
