--------------------------- MODULE WebSocketClient ---------------------------
(***************************************************************************)
(* The client of a WebSocket with channels (core/websockets.py): it        *)
(* connects, subscribes to the channels that were registered, and          *)
(* reconnects whenever the connection ends, for whatever reason.           *)
(*                                                                         *)
(* Three tasks share a connection: the message loop, the subscribe loop    *)
(* and the one that waits for a request to reconnect.  When one of them    *)
(* raises, the others are canceled; when all are done, or canceled, the    *)
(* client connects again.  How channels are subscribed and messages        *)
(* handled is up to the exchange's client.                                 *)
(***************************************************************************)
EXTENDS FiniteSets

CONSTANT Channels

VARIABLES
    registered,       \* the keys of _event_sources
    pending,          \* _pending_subscriptions
    subscribeRequest, \* is the event set?
    reconnectRequest, \* is the event set?
    ws,               \* "none", "open" or "closed": ws_cli.closed
    msgLoop, subLoop, \* where the tasks of a connection are
    reconnector,
    batch,            \* the channels that are being subscribed
    failed,           \* has a task raised?
    served,           \* history: what was subscribed to on this connection
    asked             \* history: was a reconnection asked for on this connection?

wsVars == <<registered, pending, subscribeRequest, reconnectRequest, ws, msgLoop, subLoop,
            reconnector, batch, failed, served, asked>>

WsTypeOK ==
    /\ registered \subseteq Channels /\ pending \subseteq Channels
    /\ subscribeRequest \in BOOLEAN /\ reconnectRequest \in BOOLEAN
    /\ ws \in {"none", "open", "closed"}
    /\ msgLoop \in {"none", "reading", "done", "failed"}
    /\ subLoop \in {"none", "waiting", "subscribing", "sent", "done", "failed"}
    /\ reconnector \in {"none", "waiting", "done"}
    /\ batch \subseteq Channels
    /\ failed \in BOOLEAN
    /\ served \subseteq Channels
    /\ asked \in BOOLEAN

WsInit ==
    /\ registered = {} /\ pending = {}
    /\ subscribeRequest = FALSE /\ reconnectRequest = FALSE
    /\ ws = "none" /\ msgLoop = "none" /\ subLoop = "none" /\ reconnector = "none"
    /\ batch = {} /\ failed = FALSE /\ served = {} /\ asked = FALSE
-----------------------------------------------------------------------------
(* What others ask for. *)

\* Mutation of Wakes: as in schedule_resubscription, the loop is not woken up.
StaysAsleep == UNCHANGED subscribeRequest

Wakes == subscribeRequest' = TRUE

\* set_channel_event_source, at any time.
Register(c) ==
    /\ c \notin registered
    /\ registered' = registered \union {c}
    /\ pending' = pending \union {c}
    /\ Wakes
    /\ UNCHANGED <<reconnectRequest, ws, msgLoop, subLoop, reconnector, batch, failed, served, asked>>

ScheduleReconnection ==
    /\ reconnectRequest' = TRUE
    /\ asked' = (ws # "none")
    /\ UNCHANGED <<registered, pending, subscribeRequest, ws, msgLoop, subLoop, reconnector, batch,
                   failed, served>>

ScheduleResubscription(channels) ==
    /\ pending' = pending \union channels
    /\ UNCHANGED <<registered, subscribeRequest, reconnectRequest, ws, msgLoop, subLoop, reconnector,
                   batch, failed, served, asked>>
-----------------------------------------------------------------------------
(* The connection. *)

\* Mutation of ReconnectRequested: what ended the last connection ends this one as well.
StillRequested == reconnectRequest

ReconnectRequested == FALSE

\* main(): an attempt that succeeds, after as many as it takes.
Connect ==
    /\ ws = "none"
    /\ ws' = "open"
    /\ reconnectRequest' = ReconnectRequested
    /\ pending' = pending \union registered
    /\ subscribeRequest' = TRUE
    /\ msgLoop' = "reading" /\ subLoop' = "waiting" /\ reconnector' = "waiting"
    /\ served' = {} /\ asked' = FALSE
    /\ UNCHANGED <<registered, batch, failed>>

\* The peer closes the connection, or it is lost.
Lose ==
    /\ ws = "open"
    /\ ws' = "closed"
    /\ UNCHANGED <<registered, pending, subscribeRequest, reconnectRequest, msgLoop, subLoop,
                   reconnector, batch, failed, served, asked>>

\* The tasks are done, or canceled because one failed, and the connection is left.
TearDown ==
    /\ ws # "none"
    /\ failed \/ (msgLoop = "done" /\ subLoop = "done" /\ reconnector = "done")
    /\ ws' = "none"
    /\ msgLoop' = "none" /\ subLoop' = "none" /\ reconnector' = "none"
    /\ batch' = {} /\ failed' = FALSE
    /\ UNCHANGED <<registered, pending, subscribeRequest, reconnectRequest, served, asked>>
-----------------------------------------------------------------------------
(* The message loop. *)

\* Mutation of NotifyTasks: only the task that closes the connection.
NotifyReconnector == reconnectRequest' = TRUE /\ UNCHANGED subscribeRequest

\* "we need to notify the other tasks so they can finish as well" (websockets.py:139).
NotifyTasks == reconnectRequest' = TRUE /\ subscribeRequest' = TRUE

MessagesEnd ==
    /\ msgLoop = "reading" /\ ws = "closed"
    /\ msgLoop' = "done"
    /\ NotifyTasks
    /\ UNCHANGED <<registered, pending, ws, subLoop, reconnector, batch, failed, served, asked>>

\* An invalid message, or a handler that raises.
MessagesFail ==
    /\ msgLoop = "reading"
    /\ msgLoop' = "failed" /\ failed' = TRUE
    /\ UNCHANGED <<registered, pending, subscribeRequest, reconnectRequest, ws, subLoop, reconnector,
                   batch, served, asked>>
-----------------------------------------------------------------------------
(* The task that reconnects. *)

Reconnect ==
    /\ reconnector = "waiting" /\ reconnectRequest
    /\ reconnectRequest' = FALSE
    /\ ws' = "closed" \* nothing happens if it is
    /\ reconnector' = "done"
    /\ UNCHANGED <<registered, pending, subscribeRequest, msgLoop, subLoop, batch, failed, served, asked>>
-----------------------------------------------------------------------------
(* The subscribe loop. *)

AtLoopHead == IF ws = "closed" THEN "done" ELSE "waiting"

\* The loop wakes up and takes what is pending, if the connection is still there.
TakePending ==
    /\ subLoop = "waiting" /\ subscribeRequest
    /\ subscribeRequest' = FALSE
    /\ IF ws = "open" /\ pending # {}
       THEN batch' = pending /\ pending' = {} /\ subLoop' = "subscribing"
       ELSE subLoop' = AtLoopHead /\ UNCHANGED <<batch, pending>>
    /\ UNCHANGED <<registered, reconnectRequest, ws, msgLoop, reconnector, failed, served, asked>>

\* subscribe_to_channels, what all clients have in common: the request is sent.
SendRequest ==
    /\ subLoop = "subscribing" /\ ws = "open"
    /\ served' = served \union batch
    /\ subLoop' = "sent"
    /\ UNCHANGED <<registered, pending, subscribeRequest, reconnectRequest, ws, msgLoop, reconnector,
                   batch, failed, asked>>

\* Mutation of StillPending: what was registered meanwhile is forgotten.
NothingPending == {}

StillPending == pending

SubscribeReturns ==
    /\ subLoop = "sent"
    /\ subLoop' = AtLoopHead
    /\ batch' = {}
    /\ pending' = StillPending
    /\ UNCHANGED <<registered, subscribeRequest, reconnectRequest, ws, msgLoop, reconnector, failed,
                   served, asked>>

\* A REST call fails, or the connection is closed when the request is to be sent.
SubscribeFails ==
    /\ subLoop \in {"subscribing", "sent"}
    /\ subLoop' = "failed" /\ failed' = TRUE
    /\ UNCHANGED <<registered, pending, subscribeRequest, reconnectRequest, ws, msgLoop, reconnector,
                   batch, served, asked>>
=============================================================================
