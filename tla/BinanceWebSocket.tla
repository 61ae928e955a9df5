-------------------------- MODULE BinanceWebSocket --------------------------
(***************************************************************************)
(* Binance's client (external/binance/websockets.py).  The stream of a     *)
(* public channel has a fixed name.  The stream of a channel with user     *)
(* data is named by a listen key, which is created when the channel is     *)
(* subscribed, is kept alive by a job that schedules its successor, and    *)
(* expires all the same.                                                   *)
(***************************************************************************)
EXTENDS WebSocketClient, Naturals, Sequences

CONSTANTS
    UserChannels, \* the channels with listen keys
    Period,       \* the keep alive period
    MaxTime,      \* bound on the clock
    MaxExpired,   \* bound on the keys of a channel that expire
    MaxInbox      \* bound on the messages on their way

ASSUME BinanceAssumption ==
    /\ UserChannels \subseteq Channels
    /\ Period \in Nat \ {0}
    /\ MaxTime \in Nat /\ MaxExpired \in Nat /\ MaxInbox \in Nat

VARIABLES
    key,        \* _listen_key of each channel, 0 if there is none, as for a public channel
    mapped,     \* the keys of _stream_to_channel; a stream is a channel and a key
    resolved,   \* the channels of the batch that have their stream's name
    next,       \* _next_keep_alive, 0 if there is none
    jobs,       \* the scheduled keep alive jobs: no two of a channel in the same microsecond
    keeping,    \* how many keep alive calls are in progress, for each channel
    now,        \* dispatcher.now()
    \* Binance:
    live,       \* the number of the last key created for each channel
    expired,    \* has it expired?
    streams,    \* the streams subscribed to on this connection
    inbox       \* the messages on their way to the client

clientVars == <<key, mapped, resolved, next, jobs, keeping, now>>
serverVars == <<live, expired, streams, inbox>>
vars == <<wsVars, clientVars, serverVars>>

Stream == Channels \X Nat
StreamOf(c) == <<c, key[c]>>
Job == [channel : UserChannels, when : Nat]

TypeOK ==
    /\ WsTypeOK
    /\ key \in [Channels -> Nat]
    /\ mapped \subseteq Stream
    /\ resolved \subseteq Channels
    /\ next \in [UserChannels -> Nat]
    /\ jobs \subseteq Job
    /\ keeping \in [UserChannels -> Nat]
    /\ now \in Nat
    /\ live \in [UserChannels -> Nat]
    /\ expired \in [UserChannels -> BOOLEAN]
    /\ streams \subseteq Stream
    /\ inbox \in Seq([stream : Stream, kind : {"data", "listenKeyExpired"}])

Init ==
    /\ WsInit
    /\ key = [c \in Channels |-> 0]
    /\ mapped = {} /\ resolved = {}
    /\ next = [c \in UserChannels |-> 0]
    /\ jobs = {}
    /\ keeping = [c \in UserChannels |-> 0]
    /\ now = 0
    /\ live = [c \in UserChannels |-> 0]
    /\ expired = [c \in UserChannels |-> TRUE]
    /\ streams = {} /\ inbox = <<>>
-----------------------------------------------------------------------------
(* Subscribing. *)

\* create_listen_key returns the key that is live, if there is one.
KeyCreated(c) == IF expired[c] THEN live[c] + 1 ELSE live[c]

\* resolve_stream_name of one channel, which a public channel has nothing to do for.
Resolve(c) ==
    /\ subLoop = "subscribing" /\ c \in batch \ resolved
    /\ resolved' = resolved \union {c}
    /\ IF c \in UserChannels
       THEN /\ key' = [key EXCEPT ![c] = KeyCreated(c)]
            /\ live' = [live EXCEPT ![c] = KeyCreated(c)]
            /\ expired' = [expired EXCEPT ![c] = FALSE]
       ELSE UNCHANGED <<key, live, expired>>
    /\ UNCHANGED <<wsVars, mapped, next, jobs, keeping, now, streams, inbox>>

\* Mutation of MappedWith: assigned instead of updated.
OnlyNew(new) == new

MappedWith(new) == mapped \union new

\* All channels have their streams: the request is sent, and Binance serves it.
Send ==
    /\ resolved = batch
    /\ SendRequest
    /\ mapped' = MappedWith({StreamOf(c) : c \in batch})
    /\ streams' = streams \union {StreamOf(c) : c \in batch}
    /\ UNCHANGED <<key, resolved, next, jobs, keeping, now, live, expired, inbox>>

WithKeepAlive(channels) == channels \intersect UserChannels

\* _schedule_keep_alive
Scheduled(channels) ==
    /\ next' = [c \in UserChannels |-> IF c \in channels THEN now + Period ELSE next[c]]
    /\ jobs' = jobs \union {[channel |-> c, when |-> now + Period] : c \in channels}

SubscribeToChannelsReturns ==
    /\ SubscribeReturns
    /\ Scheduled(WithKeepAlive(batch))
    /\ resolved' = {}
    /\ UNCHANGED <<key, mapped, keeping, now, serverVars>>
-----------------------------------------------------------------------------
(* Keeping alive. *)

\* Mutation of IsDue: off by one.
IsPast(c) == next[c] < now

\* Is this the job that was scheduled last?
IsDue(c) == next[c] <= now

KeepAlive ==
    /\ \E j \in jobs :
        /\ j.when <= now
        /\ jobs' = jobs \ {j}
        /\ keeping' = IF IsDue(j.channel) THEN [keeping EXCEPT ![j.channel] = @ + 1] ELSE keeping
    /\ UNCHANGED <<wsVars, key, mapped, resolved, next, now, serverVars>>

\* The call returns or raises.
KeptAlive(c) ==
    /\ keeping[c] > 0
    /\ keeping' = [keeping EXCEPT ![c] = @ - 1]
    /\ Scheduled(WithKeepAlive({c}))
    /\ UNCHANGED <<wsVars, key, mapped, resolved, now, serverVars>>

Tick ==
    /\ now < MaxTime
    /\ now' = now + 1
    /\ UNCHANGED <<wsVars, key, mapped, resolved, next, jobs, keeping, serverVars>>
-----------------------------------------------------------------------------
(* Binance. *)

Tell(stream, kind) ==
    /\ ws = "open" /\ Len(inbox) < MaxInbox
    /\ inbox' = Append(inbox, [stream |-> stream, kind |-> kind])

\* Something happened on a stream.
Publish ==
    /\ \E s \in streams :
        /\ s[1] \in UserChannels => s[2] = live[s[1]] /\ ~expired[s[1]]
        /\ Tell(s, "data")
    /\ UNCHANGED <<wsVars, clientVars, live, expired, streams>>

\* A key expires, and whoever listens is told.
Expire(c) ==
    /\ ~expired[c] /\ live[c] <= MaxExpired
    /\ expired' = [expired EXCEPT ![c] = TRUE]
    /\ IF <<c, live[c]>> \in streams
       THEN Tell(<<c, live[c]>>, "listenKeyExpired")
       ELSE UNCHANGED inbox
    /\ UNCHANGED <<wsVars, clientVars, live, streams>>

\* handle_message: a message on a stream that is mapped to no channel ends the connection.
Handle ==
    /\ msgLoop = "reading" /\ ws = "open" /\ inbox # <<>>
    /\ LET message == Head(inbox)
       IN  IF message.stream \notin mapped
           THEN MessagesFail
           ELSE IF message.kind = "listenKeyExpired"
           THEN ScheduleResubscription({message.stream[1]})
           ELSE UNCHANGED wsVars
    /\ inbox' = Tail(inbox)
    /\ UNCHANGED <<clientVars, live, expired, streams>>

\* What was on its way when a connection ended is lost.
LeaveConnection ==
    /\ TearDown
    /\ resolved' = {} /\ streams' = {} /\ inbox' = <<>>
    /\ UNCHANGED <<key, mapped, next, jobs, keeping, now, live, expired>>

\* Steps of the core client that concern nothing else.
Requests == (\E c \in Channels : Register(c)) \/ ScheduleReconnection
Failures == Lose \/ MessagesFail \/ SubscribeFails
ClientTask == MessagesEnd \/ Reconnect \/ TakePending

Others == UNCHANGED <<clientVars, serverVars>>

Next ==
    \/ (Requests \/ Failures \/ ClientTask \/ Connect) /\ Others
    \/ \E c \in Channels : Resolve(c)
    \/ Send \/ SubscribeToChannelsReturns \/ Handle \/ LeaveConnection
    \/ KeepAlive \/ \E c \in UserChannels : KeptAlive(c)
    \/ Tick \/ Publish \/ \E c \in UserChannels : Expire(c)

Spec == Init /\ [][Next]_vars

\* The event loop runs every task that is ready, REST calls and requests return, and a connection can
\* be made after some attempts.
Fairness ==
    /\ WF_vars(MessagesEnd /\ Others) /\ WF_vars(Reconnect /\ Others) /\ WF_vars(TakePending /\ Others)
    /\ WF_vars(Connect /\ Others)
    /\ WF_vars(\E c \in Channels : Resolve(c))
    /\ WF_vars(Send \/ (SubscribeFails /\ ws = "closed" /\ Others)) /\ WF_vars(SubscribeToChannelsReturns)
    /\ WF_vars(Handle) /\ WF_vars(LeaveConnection)

FairSpec == Spec /\ Fairness
=============================================================================
