------------------------- MODULE WebSocketProperties -------------------------
(***************************************************************************)
(* What makes a WebSocket client correct.                                  *)
(***************************************************************************)
EXTENDS BinanceWebSocket

\* On a connection that works no channel is forgotten, whenever it was registered: it was subscribed to,
\* or it is about to be (websockets.py:108, 151-158).
NoneForgotten ==
    ws = "open" /\ ~failed => registered \subseteq pending \union batch \union served

\* The messages that Binance sends are on streams that are known to the client: the assertion of
\* handle_message (binance/websockets.py:128) holds.
StreamsMapped == \A i \in DOMAIN inbox : inbox[i].stream \in mapped

\* Once a key is kept alive it goes on being kept alive, across reconnections and failed calls: the job
\* that will do it next is scheduled, or its call is in progress (binance/websockets.py:154-171).
KeepAliveGoesOn ==
    \A c \in UserChannels : next[c] # 0 =>
        keeping[c] > 0 \/ \E j \in jobs : j.channel = c /\ j.when = next[c]

\* The client closes only connections that somebody asked it to close; a request that a connection
\* ended with does not reach the next one (websockets.py:104).
ClosesOnRequest ==
    [][reconnector = "waiting" /\ reconnector' = "done" /\ ws = "open" => asked]_vars

\* A channel that was registered is subscribed to, unless the connection ends.
Subscribed ==
    \A c \in Channels : c \in registered /\ ws = "open" ~> c \in served \/ ws # "open"

\* Whatever ended a connection, there is another one (websockets.py:90).
Reconnects == ws # "open" ~> ws = "open"

\* "Resubscribe to the channel if the listen key expired." (binance/websockets.py:129)
Resubscribes ==
    \A c \in UserChannels : c \in pending /\ ws = "open" ~> c \notin pending \/ ws # "open"
=============================================================================
