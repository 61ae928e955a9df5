\* The order book mirror: every stream of three updates, with a lost diff and
\* a REST call that raises.
SPECIFICATION Spec
CONSTANTS
    MaxPrice = 3
    MaxAmount = 1
    MaxDepth = 3
    CheckDepth = 1
    FullDepth = 2
    RestartDepth = 1
    MaxUpdates = 3
    MaxLost = 1
    MaxFailures = 1
\* The bounded stream ends, and the mirror waits for a diff that does not come.
CHECK_DEADLOCK FALSE
INVARIANTS
    Accurate
PROPERTIES
    RestartsForAReason
    Resynchronizes
