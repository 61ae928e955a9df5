\* A position that is increased, and switched before anything of that is filled.
SPECIFICATION Spec
CONSTANTS
    Tasks <- MCTasks
    Amounts <- MCAmounts
    MaxOrders = 3
\* The bounded number of signals ends.
CHECK_DEADLOCK FALSE
INVARIANTS
    FillPriceKnown
