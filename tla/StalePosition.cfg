\* Two switches of the same pair at once.
SPECIFICATION Spec
CONSTANTS
    Tasks <- MCTasks
    Amounts <- MCAmounts
    MaxOrders = 3
\* The bounded number of signals ends.
CHECK_DEADLOCK FALSE
INVARIANTS
    ExclusiveAccess
