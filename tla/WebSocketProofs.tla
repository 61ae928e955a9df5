-------------------------- MODULE WebSocketProofs --------------------------
(***************************************************************************)
(* The WebSocket client, for any channels, period and bounds: no channel   *)
(* is forgotten, the client closes no connection unasked, every message    *)
(* finds its channel, and keep alives go on.                               *)
(***************************************************************************)
EXTENDS WebSocketProperties, TLAPS, SequenceTheorems

\* The batch is empty unless the subscribe loop is busy with it, and served once it is sent.
BatchInv ==
    /\ ws = "none" \/ subLoop \in {"waiting", "done"} => batch = {}
    /\ subLoop = "sent" => batch \subseteq served

\* What was asked for on this connection is not what the last one left behind.
RequestsInv == ws = "open" /\ reconnectRequest => asked

StreamsInv == streams \subseteq mapped

WInv ==
    /\ TypeOK /\ BatchInv /\ RequestsInv /\ StreamsInv
    /\ NoneForgotten /\ StreamsMapped /\ KeepAliveGoesOn

LEMMA InitWInv ==
    ASSUME Init
    PROVE  WInv
<1>. USE DEF Init, WsInit
<1>1. TypeOK
    <2>1. WsTypeOK
        BY DEF WsTypeOK
    <2>2. key \in [Channels -> Nat] /\ next \in [UserChannels -> Nat] /\ now \in Nat
        OBVIOUS
    <2>3. keeping \in [UserChannels -> Nat] /\ live \in [UserChannels -> Nat]
        OBVIOUS
    <2>4. expired \in [UserChannels -> BOOLEAN]
        OBVIOUS
    <2>5. inbox \in Seq([stream : Stream, kind : {"data", "listenKeyExpired"}])
        BY EmptySeq
    <2>. QED
        BY <2>1, <2>2, <2>3, <2>4, <2>5 DEF TypeOK
<1>2. BatchInv /\ RequestsInv /\ StreamsInv /\ NoneForgotten
    BY DEF BatchInv, RequestsInv, StreamsInv, NoneForgotten
<1>3. StreamsMapped /\ KeepAliveGoesOn
    BY DEF StreamsMapped, KeepAliveGoesOn
<1>. QED
    BY <1>1, <1>2, <1>3 DEF WInv
-----------------------------------------------------------------------------
(***************************************************************************)
(* The core client's steps.                                                *)
(***************************************************************************)
CoreInv == WsTypeOK /\ BatchInv /\ RequestsInv /\ NoneForgotten

CoreStep ==
    \/ Requests \/ Failures \/ ClientTask \/ Connect
    \/ SendRequest \/ SubscribeReturns \/ TearDown
    \/ \E c \in Channels : ScheduleResubscription({c})

LEMMA CoreStepInv ==
    ASSUME CoreInv, CoreStep
    PROVE  CoreInv'
<1>. USE DEF CoreInv, WsTypeOK, BatchInv, RequestsInv, NoneForgotten
<1>1. CASE \E c \in Channels : Register(c)
    BY <1>1 DEF Register, Wakes
<1>2. CASE ScheduleReconnection
    BY <1>2 DEF ScheduleReconnection
<1>3. CASE Lose
    BY <1>3 DEF Lose
<1>4. CASE MessagesFail
    BY <1>4 DEF MessagesFail
<1>5. CASE SubscribeFails
    BY <1>5 DEF SubscribeFails
<1>6. CASE MessagesEnd
    BY <1>6 DEF MessagesEnd, NotifyTasks
<1>7. CASE Reconnect
    BY <1>7 DEF Reconnect
<1>8. CASE TakePending
    BY <1>8 DEF TakePending, AtLoopHead
<1>9. CASE Connect
    BY <1>9 DEF Connect, ReconnectRequested
<1>10. CASE SendRequest
    BY <1>10 DEF SendRequest
<1>11. CASE SubscribeReturns
    BY <1>11 DEF SubscribeReturns, AtLoopHead, StillPending
<1>12. CASE TearDown
    BY <1>12 DEF TearDown
<1>13. ASSUME NEW c \in Channels, ScheduleResubscription({c})
       PROVE  CoreInv'
    BY <1>13 DEF ScheduleResubscription
<1>. QED
    BY <1>1, <1>2, <1>3, <1>4, <1>5, <1>6, <1>7, <1>8, <1>9, <1>10, <1>11, <1>12, <1>13
       DEF CoreStep, Requests, Failures, ClientTask

LEMMA CoreSame ==
    ASSUME CoreInv, UNCHANGED wsVars
    PROVE  CoreInv'
BY DEF CoreInv, WsTypeOK, BatchInv, RequestsInv, NoneForgotten, wsVars
-----------------------------------------------------------------------------
(***************************************************************************)
(* Binance's client and Binance.                                           *)
(***************************************************************************)
Message == [stream : Stream, kind : {"data", "listenKeyExpired"}]

\* What the invariant says of everything else.
OwnInv == StreamsInv /\ StreamsMapped /\ KeepAliveGoesOn

LEMMA Parts == WInv <=> TypeOK /\ CoreInv /\ OwnInv
BY DEF WInv, TypeOK, CoreInv, OwnInv

LEMMA StreamType ==
    ASSUME TypeOK, NEW c \in Channels
    PROVE  StreamOf(c) \in Stream
BY DEF TypeOK, StreamOf, Stream

LEMMA OthersInv ==
    ASSUME WInv, Requests \/ Failures \/ ClientTask \/ Connect, Others
    PROVE  WInv'
<1>1. CoreInv'
    BY CoreStepInv, Parts DEF CoreStep
<1>2. TypeOK'
    BY <1>1 DEF WInv, TypeOK, CoreInv, Others, clientVars, serverVars
<1>3. OwnInv'
    BY DEF WInv, OwnInv, StreamsInv, StreamsMapped, KeepAliveGoesOn, Others, clientVars, serverVars
<1>. QED
    BY <1>1, <1>2, <1>3, Parts DEF WInv, TypeOK, CoreInv, OwnInv

LEMMA ResolveInv ==
    ASSUME BinanceAssumption, WInv, NEW c \in Channels, Resolve(c)
    PROVE  WInv'
<1>1. CoreInv'
    BY CoreSame, Parts DEF Resolve
<1>2. c \in UserChannels => KeyCreated(c) \in Nat
    BY DEF WInv, TypeOK, KeyCreated
<1>3. key' \in [Channels -> Nat] /\ live' \in [UserChannels -> Nat]
    BY <1>2 DEF WInv, TypeOK, Resolve
<1>4. expired' \in [UserChannels -> BOOLEAN]
    BY DEF WInv, TypeOK, Resolve
<1>5. TypeOK'
    BY <1>1, <1>3, <1>4 DEF WInv, TypeOK, CoreInv, Resolve, WsTypeOK
<1>6. OwnInv'
    BY DEF WInv, OwnInv, StreamsInv, StreamsMapped, KeepAliveGoesOn, Resolve
<1>. QED
    BY <1>1, <1>5, <1>6 DEF WInv, CoreInv, OwnInv

LEMMA SendInv ==
    ASSUME WInv, Send
    PROVE  WInv'
<1>1. CoreInv'
    BY CoreStepInv, Parts DEF CoreStep, Send
<1>2. {StreamOf(c) : c \in batch} \subseteq Stream
    BY StreamType DEF WInv, TypeOK, WsTypeOK
<1>3. TypeOK'
    BY <1>1, <1>2 DEF WInv, TypeOK, CoreInv, Send, MappedWith
<1>4. OwnInv'
    BY DEF WInv, OwnInv, StreamsInv, StreamsMapped, KeepAliveGoesOn, Send, MappedWith
<1>. QED
    BY <1>1, <1>3, <1>4 DEF WInv, CoreInv, OwnInv

\* A channel that is scheduled has its job.
LEMMA ScheduledInv ==
    ASSUME BinanceAssumption, TypeOK, NEW channels \in SUBSET UserChannels, Scheduled(channels)
    PROVE  /\ next' \in [UserChannels -> Nat] /\ jobs' \subseteq Job
           /\ \A c \in channels : \E j \in jobs' : j.channel = c /\ j.when = next'[c]
           /\ \A c \in UserChannels \ channels : next'[c] = next[c]
           /\ jobs \subseteq jobs'
<1>1. now + Period \in Nat
    BY DEF TypeOK, BinanceAssumption
<1>2. next' \in [UserChannels -> Nat]
    BY <1>1 DEF TypeOK, Scheduled
<1>3. {[channel |-> c, when |-> now + Period] : c \in channels} \subseteq Job
    BY <1>1 DEF Job
<1>4. ASSUME NEW c \in channels
      PROVE  \E j \in jobs' : j.channel = c /\ j.when = next'[c]
    <2>1. [channel |-> c, when |-> now + Period] \in jobs' /\ next'[c] = now + Period
        BY DEF Scheduled
    <2>. QED
        BY <2>1
<1>. QED
    BY <1>2, <1>3, <1>4 DEF TypeOK, Scheduled

LEMMA ReturnsInv ==
    ASSUME BinanceAssumption, WInv, SubscribeToChannelsReturns
    PROVE  WInv'
<1>. DEFINE user == WithKeepAlive(batch)
<1>1. CoreInv'
    BY CoreStepInv, Parts DEF CoreStep, SubscribeToChannelsReturns
<1>2. user \in SUBSET UserChannels /\ Scheduled(user)
    BY DEF WithKeepAlive, SubscribeToChannelsReturns
<1>. HIDE DEF user
<1>3. /\ next' \in [UserChannels -> Nat] /\ jobs' \subseteq Job
      /\ \A c \in user : \E j \in jobs' : j.channel = c /\ j.when = next'[c]
      /\ \A c \in UserChannels \ user : next'[c] = next[c]
      /\ jobs \subseteq jobs'
    BY <1>2, ScheduledInv DEF WInv
<1>4. TypeOK'
    BY <1>1, <1>3 DEF WInv, TypeOK, CoreInv, SubscribeToChannelsReturns, serverVars
<1>5. KeepAliveGoesOn'
    <2>. SUFFICES ASSUME NEW c \in UserChannels, next'[c] # 0
                  PROVE  keeping'[c] > 0 \/ \E j \in jobs' : j.channel = c /\ j.when = next'[c]
        BY DEF KeepAliveGoesOn
    <2>1. CASE c \in user
        BY <2>1, <1>3
    <2>2. CASE c \notin user
        BY <2>2, <1>3 DEF WInv, KeepAliveGoesOn, SubscribeToChannelsReturns
    <2>. QED
        BY <2>1, <2>2
<1>6. StreamsInv' /\ StreamsMapped'
    BY DEF WInv, StreamsInv, StreamsMapped, SubscribeToChannelsReturns, serverVars
<1>. QED
    BY <1>1, <1>4, <1>5, <1>6 DEF WInv, CoreInv

LEMMA KeptAliveInv ==
    ASSUME BinanceAssumption, WInv, NEW u \in UserChannels, KeptAlive(u)
    PROVE  WInv'
<1>1. CoreInv'
    BY CoreSame, Parts DEF KeptAlive
<1>2. Scheduled({u})
    <2>1. WithKeepAlive({u}) = {u}
        BY DEF WithKeepAlive
    <2>. QED
        BY <2>1 DEF KeptAlive
<1>3. /\ next' \in [UserChannels -> Nat] /\ jobs' \subseteq Job
      /\ \E j \in jobs' : j.channel = u /\ j.when = next'[u]
      /\ \A c \in UserChannels \ {u} : next'[c] = next[c]
      /\ jobs \subseteq jobs'
    <2>. DEFINE one == {u}
    <2>1. one \in SUBSET UserChannels /\ Scheduled(one) /\ u \in one /\ UserChannels \ one = UserChannels \ {u}
        BY <1>2
    <2>. HIDE DEF one
    <2>. QED
        BY <2>1, ScheduledInv DEF WInv
<1>4. keeping' = [keeping EXCEPT ![u] = @ - 1] /\ keeping[u] > 0
    BY DEF KeptAlive
<1>5. keeping' \in [UserChannels -> Nat]
    BY <1>4 DEF WInv, TypeOK
<1>6. TypeOK'
    BY <1>1, <1>3, <1>5 DEF WInv, TypeOK, CoreInv, KeptAlive, serverVars
<1>7. KeepAliveGoesOn'
    <2>. SUFFICES ASSUME NEW c \in UserChannels, next'[c] # 0, c # u
                  PROVE  keeping'[c] > 0 \/ \E j \in jobs' : j.channel = c /\ j.when = next'[c]
        BY <1>3 DEF KeepAliveGoesOn
    <2>1. keeping'[c] = keeping[c] /\ next'[c] = next[c]
        BY <1>3, <1>4 DEF WInv, TypeOK
    <2>. QED
        BY <2>1, <1>3 DEF WInv, KeepAliveGoesOn
<1>8. StreamsInv' /\ StreamsMapped'
    BY DEF WInv, StreamsInv, StreamsMapped, KeptAlive, serverVars
<1>. QED
    BY <1>1, <1>6, <1>7, <1>8 DEF WInv, CoreInv

\* A job that finds a later one scheduled leaves it alone; the one that was scheduled last is due.
LEMMA KeepAliveInv ==
    ASSUME BinanceAssumption, WInv, KeepAlive
    PROVE  WInv'
<1>1. CoreInv'
    BY CoreSame, Parts DEF KeepAlive
<1>2. PICK job \in jobs :
        /\ job.when <= now
        /\ jobs' = jobs \ {job}
        /\ keeping' = IF IsDue(job.channel) THEN [keeping EXCEPT ![job.channel] = @ + 1] ELSE keeping
    BY DEF KeepAlive
<1>3. job.channel \in UserChannels /\ job.when \in Nat
    BY DEF WInv, TypeOK, Job
<1>4. /\ keeping' \in [UserChannels -> Nat]
      /\ \A c \in UserChannels : keeping[c] > 0 => keeping'[c] > 0
      /\ IsDue(job.channel) => keeping'[job.channel] > 0
    BY <1>2, <1>3 DEF WInv, TypeOK
<1>5. TypeOK'
    BY <1>1, <1>2, <1>4 DEF WInv, TypeOK, CoreInv, KeepAlive, serverVars
<1>6. KeepAliveGoesOn'
    <2>. SUFFICES ASSUME NEW c \in UserChannels, next[c] # 0
                  PROVE  keeping'[c] > 0 \/ \E j \in jobs' : j.channel = c /\ j.when = next[c]
        BY DEF KeepAliveGoesOn, KeepAlive
    <2>1. CASE keeping[c] > 0
        BY <2>1, <1>4
    <2>2. CASE \E j \in jobs : j.channel = c /\ j.when = next[c]
        <3>1. PICK j \in jobs : j.channel = c /\ j.when = next[c]
            BY <2>2
        <3>2. CASE j = job
            BY <3>1, <3>2, <1>2, <1>4 DEF IsDue
        <3>3. CASE j # job
            BY <3>1, <3>3, <1>2
        <3>. QED
            BY <3>2, <3>3
    <2>. QED
        BY <2>1, <2>2 DEF WInv, KeepAliveGoesOn
<1>7. StreamsInv' /\ StreamsMapped'
    BY DEF WInv, StreamsInv, StreamsMapped, KeepAlive, serverVars
<1>. QED
    BY <1>1, <1>5, <1>6, <1>7 DEF WInv, CoreInv

LEMMA TickInv ==
    ASSUME WInv, Tick
    PROVE  WInv'
<1>1. CoreInv'
    BY CoreSame, Parts DEF Tick
<1>2. TypeOK'
    BY <1>1 DEF WInv, TypeOK, CoreInv, Tick, serverVars
<1>3. OwnInv'
    BY DEF WInv, OwnInv, StreamsInv, StreamsMapped, KeepAliveGoesOn, Tick, serverVars
<1>. QED
    BY <1>1, <1>2, <1>3 DEF WInv, CoreInv, OwnInv

\* Messages are sent on streams that were subscribed to, which are mapped.
LEMMA TellInv ==
    ASSUME WInv, NEW s \in streams, NEW kind \in {"data", "listenKeyExpired"}, Tell(s, kind),
           mapped' = mapped
    PROVE  inbox' \in Seq(Message) /\ StreamsMapped'
<1>. DEFINE message == [stream |-> s, kind |-> kind]
<1>1. message \in Message /\ message.stream \in mapped /\ inbox' = Append(inbox, message)
    BY DEF WInv, TypeOK, StreamsInv, Message, Tell
<1>2. inbox \in Seq(Message)
    BY DEF WInv, TypeOK, Message
<1>. HIDE DEF message
<1>3. /\ inbox' \in Seq(Message) /\ Len(inbox') = Len(inbox) + 1
      /\ \A i \in 1..Len(inbox) : inbox'[i] = inbox[i]
      /\ inbox'[Len(inbox) + 1] = message
    BY <1>1, <1>2, AppendProperties
<1>4. DOMAIN inbox' = 1..(Len(inbox) + 1) /\ DOMAIN inbox = 1..Len(inbox) /\ Len(inbox) \in Nat
    BY <1>2, <1>3, LenProperties
<1>5. ASSUME NEW i \in DOMAIN inbox'
      PROVE  inbox'[i].stream \in mapped'
    <2>1. CASE i = Len(inbox) + 1
        BY <2>1, <1>1, <1>3
    <2>2. CASE i \in 1..Len(inbox)
        BY <2>2, <1>3, <1>4 DEF WInv, StreamsMapped
    <2>. QED
        BY <2>1, <2>2, <1>4
<1>. QED
    BY <1>3, <1>5 DEF StreamsMapped

LEMMA PublishInv ==
    ASSUME WInv, Publish
    PROVE  WInv'
<1>1. CoreInv'
    BY CoreSame, Parts DEF Publish
<1>2. PICK s \in streams : Tell(s, "data")
    BY DEF Publish
<1>3. inbox' \in Seq(Message) /\ StreamsMapped'
    BY <1>2, TellInv DEF Publish, clientVars
<1>4. TypeOK'
    BY <1>1, <1>3 DEF WInv, TypeOK, CoreInv, Publish, clientVars, Message
<1>5. StreamsInv' /\ KeepAliveGoesOn'
    BY DEF WInv, StreamsInv, KeepAliveGoesOn, Publish, clientVars
<1>. QED
    BY <1>1, <1>3, <1>4, <1>5 DEF WInv, CoreInv

LEMMA ExpireInv ==
    ASSUME BinanceAssumption, WInv, NEW c \in UserChannels, Expire(c)
    PROVE  WInv'
<1>1. CoreInv'
    BY CoreSame, Parts DEF Expire
<1>2. inbox' \in Seq(Message) /\ StreamsMapped'
    <2>1. CASE <<c, live[c]>> \in streams
        <3>. DEFINE s == <<c, live[c]>>
        <3>1. s \in streams /\ Tell(s, "listenKeyExpired") /\ mapped' = mapped
            BY <2>1 DEF Expire, clientVars
        <3>. HIDE DEF s
        <3>. QED
            BY <3>1, TellInv
    <2>2. CASE <<c, live[c]>> \notin streams
        BY <2>2 DEF WInv, TypeOK, StreamsMapped, Expire, clientVars, Message
    <2>. QED
        BY <2>1, <2>2
<1>3. expired' \in [UserChannels -> BOOLEAN]
    BY DEF WInv, TypeOK, Expire
<1>4. TypeOK'
    BY <1>1, <1>2, <1>3 DEF WInv, TypeOK, CoreInv, Expire, clientVars, Message
<1>5. StreamsInv' /\ KeepAliveGoesOn'
    BY DEF WInv, StreamsInv, KeepAliveGoesOn, Expire, clientVars
<1>. QED
    BY <1>1, <1>2, <1>4, <1>5 DEF WInv, CoreInv

LEMMA HandleInv ==
    ASSUME WInv, Handle
    PROVE  WInv'
<1>1. inbox \in Seq(Message) /\ inbox # <<>>
    BY DEF WInv, TypeOK, Message, Handle
<1>2. /\ Head(inbox) \in Message /\ Tail(inbox) \in Seq(Message)
      /\ Len(Tail(inbox)) = Len(inbox) - 1
      /\ \A i \in 1..Len(Tail(inbox)) : Tail(inbox)[i] = inbox[i + 1]
    BY <1>1, HeadTailProperties
<1>3. inbox' = Tail(inbox)
    BY DEF Handle
<1>4. CoreInv'
    <2>1. Head(inbox).stream[1] \in Channels
        BY <1>2 DEF Message, Stream
    <2>2. CoreStep \/ UNCHANGED wsVars
        BY <2>1 DEF Handle, CoreStep, Failures
    <2>. QED
        BY <2>2, CoreStepInv, CoreSame, Parts
<1>5. TypeOK'
    BY <1>2, <1>3, <1>4 DEF WInv, TypeOK, CoreInv, Handle, clientVars, Message
<1>6. StreamsMapped'
    <2>1. DOMAIN inbox' = 1..Len(Tail(inbox)) /\ DOMAIN inbox = 1..Len(inbox) /\ Len(inbox) \in Nat
        BY <1>1, <1>2, <1>3, LenProperties
    <2>2. \A i \in DOMAIN inbox' : i + 1 \in DOMAIN inbox /\ inbox'[i] = inbox[i + 1]
        BY <2>1, <1>2, <1>3
    <2>. QED
        BY <2>2 DEF WInv, StreamsMapped, Handle, clientVars
<1>7. StreamsInv' /\ KeepAliveGoesOn'
    BY DEF WInv, StreamsInv, KeepAliveGoesOn, Handle, clientVars
<1>. QED
    BY <1>4, <1>5, <1>6, <1>7 DEF WInv, CoreInv

LEMMA LeaveInv ==
    ASSUME WInv, LeaveConnection
    PROVE  WInv'
<1>1. CoreInv'
    BY CoreStepInv, Parts DEF CoreStep, LeaveConnection
<1>2. inbox' \in Seq(Message) /\ DOMAIN inbox' = {}
    BY EmptySeq DEF LeaveConnection
<1>3. TypeOK'
    BY <1>1, <1>2 DEF WInv, TypeOK, CoreInv, LeaveConnection, Message
<1>4. OwnInv'
    BY <1>2 DEF WInv, OwnInv, StreamsInv, StreamsMapped, KeepAliveGoesOn, LeaveConnection
<1>. QED
    BY <1>1, <1>3, <1>4 DEF WInv, CoreInv, OwnInv

LEMMA StutterInv ==
    ASSUME WInv, UNCHANGED vars
    PROVE  WInv'
<1>1. CoreInv'
    BY CoreSame, Parts DEF vars
<1>2. TypeOK'
    BY <1>1 DEF WInv, TypeOK, CoreInv, vars, clientVars, serverVars
<1>3. OwnInv'
    BY DEF WInv, OwnInv, StreamsInv, StreamsMapped, KeepAliveGoesOn, vars, clientVars, serverVars
<1>. QED
    BY <1>1, <1>2, <1>3 DEF WInv, CoreInv, OwnInv

LEMMA NextInv ==
    ASSUME BinanceAssumption, WInv, [Next]_vars
    PROVE  WInv'
BY OthersInv, ResolveInv, SendInv, ReturnsInv, HandleInv, LeaveInv, KeepAliveInv, KeptAliveInv, TickInv,
   PublishInv, ExpireInv, StutterInv DEF Next

LEMMA Invariance == Spec => []WInv
<1>1. Init => WInv
    BY InitWInv
<1>2. WInv /\ [Next]_vars => WInv'
    BY NextInv, BinanceAssumption
<1>. QED
    BY <1>1, <1>2, PTL DEF Spec
-----------------------------------------------------------------------------
\* The client's and Binance's state has its type, whatever is registered, lost or expires.
THEOREM WebSocketTypeCorrect == Spec => []TypeOK
<1>1. WInv => TypeOK
    BY DEF WInv
<1>. QED
    BY <1>1, Invariance, PTL

\* While a connection works, every channel that was registered, before it or during it, was subscribed
\* to or is about to be (websockets.py:108, 151-158).
THEOREM NoChannelForgotten == Spec => []NoneForgotten
<1>1. WInv => NoneForgotten
    BY DEF WInv
<1>. QED
    BY <1>1, Invariance, PTL

\* The assertion of handle_message holds (binance/websockets.py:128): a message is on a stream that the
\* client mapped, of whichever key.
THEOREM MessagesFindTheirChannel == Spec => []StreamsMapped
<1>1. WInv => StreamsMapped
    BY DEF WInv
<1>. QED
    BY <1>1, Invariance, PTL

\* The chain of keep alive jobs of a channel never breaks (binance/websockets.py:154-171).
THEOREM KeepAlivesGoOn == Spec => []KeepAliveGoesOn
<1>1. WInv => KeepAliveGoesOn
    BY DEF WInv
<1>. QED
    BY <1>1, Invariance, PTL

\* A connection that works is closed only when that was asked for while it lasted (websockets.py:104).
THEOREM ClosedOnRequestOnly == Spec => ClosesOnRequest
<1>1. WInv /\ [Next]_vars => [reconnector = "waiting" /\ reconnector' = "done" /\ ws = "open" => asked]_vars
    <2>. SUFFICES ASSUME WInv, Next, reconnector = "waiting", reconnector' = "done", ws = "open"
                  PROVE  asked
        OBVIOUS
    <2>1. Reconnect
        BY DEF Next, Requests, Failures, ClientTask, Register, ScheduleReconnection, Lose, MessagesFail,
               SubscribeFails, MessagesEnd, TakePending, Connect, Resolve, Send, SendRequest,
               SubscribeToChannelsReturns, SubscribeReturns, Handle, ScheduleResubscription,
               LeaveConnection, TearDown, KeepAlive, KeptAlive, Tick, Publish, Expire, wsVars
    <2>. QED
        BY <2>1 DEF WInv, RequestsInv, Reconnect
<1>. QED
    BY <1>1, Invariance, PTL DEF Spec, ClosesOnRequest
=============================================================================
