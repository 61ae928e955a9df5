\* The position manager: signals, stop losses, fills and order events.
SPECIFICATION Spec
CONSTANTS
    Tasks <- MCTasks
    Amounts <- MCAmounts
    MaxOrders = 3
\* The bounded number of signals ends.
CHECK_DEADLOCK FALSE
INVARIANTS
    PositionKnown
    Settled
PROPERTIES
    FillsGoForward
    SwitchesEnd
