------------------------------- MODULE MCLive -------------------------------
EXTENDS LiveTrading

MCSources == <<"bars", "orders">>
MCPriority == [s \in SourceSet |-> IF s = "orders" THEN 1 ELSE 0]
MCStarts == {[long |-> TRUE, entered |-> 4, skip |-> FALSE],
             [long |-> FALSE, entered |-> 4, skip |-> FALSE],
             [long |-> TRUE, entered |-> 3, skip |-> TRUE]}
=============================================================================
