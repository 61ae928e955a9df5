----------------------------- MODULE LiveTrading -----------------------------
(***************************************************************************)
(* Live trading: trades of an exchange become bars, the dispatcher hands   *)
(* them to a handler that checks the barriers of a position, and meanwhile *)
(* there are order updates, which an exchange may send out of order, and   *)
(* jobs.                                                                   *)
(***************************************************************************)
EXTENDS RealtimeDispatcher, TradesToBars, TripleBarrier

CONSTANTS
    StartTime,   \* the time of day when trading starts
    Starts,      \* is the position long, when was it entered, and is the first window skipped?
    Prices,      \* of trades
    Lags,        \* how old trades and order updates may be when they are received
    MaxMessages, \* bound: trades and order updates received
    Delays,      \* from now to when handlers schedule jobs, no two at the same time
    MaxJobs,     \* bound: jobs scheduled
    MayStop      \* is the dispatcher stopped?

ASSUME LiveAssumption ==
    /\ Prices \cup Lags \cup Delays \cup {MaxMessages, MaxJobs} \subseteq Nat
    /\ 0 \notin Prices /\ StartTime \in Nat \ {0}
    /\ FlushDelay < BarDuration
    /\ Starts \subseteq [long : BOOLEAN, entered : Nat, skip : BOOLEAN]
    /\ MayStop \in BOOLEAN
    /\ {"bars", "orders"} = SourceSet

VARIABLES
    agg,        \* the aggregator of trades
    barrier,    \* the barriers of the position
    exit,       \* why the position was closed, or "none"
    received,   \* how many trades and order updates there were
    scheduled,  \* how many jobs there were
    accepted,   \* history: the trades push_trade took, with the window that was open then
    bars,       \* history: the bars that were published
    closes,     \* history: what the barriers saw and said
    firstBar,   \* history: the beginning of the first window that gets a bar
    begun       \* history: the time of the last event of each source that handlers got

position == <<barrier, exit, closes>>
trading == <<agg, accepted, bars, firstBar>>
vars == <<handlerPool, dispatcher, clock, position, trading, received, scheduled, begun>>

Init ==
    /\ DispatcherInit
    /\ clock = StartTime
    /\ \E start \in Starts :
        /\ agg = NewAggregator(clock, start.skip)
        /\ firstBar = agg.begin + (IF start.skip THEN BarDuration ELSE 0)
        /\ barrier = NewBarrier(start.long, start.entered)
    /\ exit = "none" /\ scheduled = 0 /\ received = 0
    /\ accepted = <<>> /\ bars = <<>> /\ closes = <<>>
    /\ begun = [s \in SourceSet |-> 0]

-----------------------------------------------------------------------------
(* The exchange.                                                           *)

Received == {clock - lag : lag \in Lags} \cap 1..MaxTime

ReceiveTrade ==
    /\ ~stopped /\ received < MaxMessages
    /\ \E when \in Received, price \in Prices :
        LET trade == [when |-> when, price |-> price]
        IN  /\ agg' = PushTrade(agg, trade)
            /\ accepted' = IF InOrder(agg, trade)
                           THEN Append(accepted, [trade |-> trade, open |-> agg.begin])
                           ELSE accepted
    /\ received' = received + 1
    /\ UNCHANGED <<handlerPool, dispatcher, clock, position, bars, firstBar, scheduled, begun>>

ReceiveUpdate ==
    /\ ~stopped /\ received < MaxMessages
    /\ \E when \in Received :
        pending' = [pending EXCEPT !["orders"] = Append(@, [when |-> when])]
    /\ received' = received + 1
    /\ UNCHANGED <<handlerPool, jobs, prevDt, now, loop, jobHeld, eventHeld, stopped, clock,
                   position, trading, scheduled, begun>>

\* main(): it slept until a while after the end of the window.
FlushDue == clock >= End(agg.begin) + FlushDelay

Flush ==
    /\ ~stopped /\ FlushDue
    /\ agg' = AfterFlush(agg)
    /\ bars' = bars \o Flushed(agg)
    /\ pending' = [pending EXCEPT !["bars"] = @ \o Flushed(agg)]
    /\ UNCHANGED <<handlerPool, jobs, prevDt, now, loop, jobHeld, eventHeld, stopped, clock,
                   position, accepted, firstBar, received, scheduled, begun>>

\* The event loop is never so late that two windows are due at once.
Tick ==
    /\ ~stopped /\ clock < MaxTime
    /\ FlushDue => clock + 1 < End(agg.begin) + BarDuration + FlushDelay
    /\ clock' = clock + 1
    /\ UNCHANGED <<handlerPool, dispatcher, position, trading, received, scheduled, begun>>

-----------------------------------------------------------------------------
(* Handlers.                                                               *)

\* The dispatching of an item begins.  It calls the front-run sniffers, then the
\* handlers, then the other sniffers; of these the handler of bars is modelled,
\* which checks the barriers of an open position.
Called(item) ==
    IF item.kind # "event" THEN UNCHANGED <<position, begun>>
    ELSE /\ begun' = [begun EXCEPT ![item.source] = item.event.when]
         /\ IF item.source = "bars" /\ exit \in {"none", "partial_take_profit"}
            THEN LET result == Check(barrier, item.event.close, item.event.when)
                 IN  /\ barrier' = result.barrier
                     /\ exit' = IF result.reason = "none" THEN exit ELSE result.reason
                     /\ closes' = Append(closes, [price |-> item.event.close, when |-> item.event.when,
                                                   reason |-> result.reason])
            ELSE UNCHANGED position

Handle(w) ==
    /\ Begin(w) /\ Called(Head(waiting))
    /\ UNCHANGED <<dispatcher, clock, trading, received, scheduled>>

HandlerEnds(w) ==
    /\ Finish(w)
    /\ UNCHANGED <<dispatcher, clock, position, trading, received, scheduled, begun>>

Schedule(w) ==
    /\ running[w].kind = "event" /\ scheduled < MaxJobs
    /\ \E delay \in Delays :
        /\ clock + delay \notin jobs
        /\ jobs' = jobs \cup {clock + delay}
    /\ scheduled' = scheduled + 1
    /\ UNCHANGED <<handlerPool, pending, prevDt, now, loop, jobHeld, eventHeld, stopped, clock,
                   position, trading, received, begun>>

Dispatch ==
    LoopStep /\ UNCHANGED <<clock, position, trading, received, scheduled, begun>>

StopTrading ==
    /\ MayStop /\ Stop
    /\ UNCHANGED <<clock, position, trading, received, scheduled, begun>>

Next ==
    \/ ReceiveTrade \/ ReceiveUpdate \/ Flush \/ Tick
    \/ Dispatch \/ StopTrading
    \/ \E w \in Workers : Handle(w) \/ HandlerEnds(w) \/ Schedule(w)

Spec == Init /\ [][Next]_vars

\* The event loop runs every task that is ready, handlers end, and time passes.
Fairness ==
    /\ WF_vars(Dispatch) /\ WF_vars(Flush) /\ WF_vars(Tick)
    /\ WF_vars(\E w \in Workers : Handle(w))
    /\ \A w \in Workers : WF_vars(HandlerEnds(w))

FairSpec == Spec /\ Fairness

-----------------------------------------------------------------------------
(* Properties.                                                             *)

Trades == [when : Nat, price : Prices]
Reasons ==
    {"none", "partial_take_profit", "take_profit", "break_even_stop", "trailing_stop",
     "stop_loss", "time_exit"}
Closes == [price : Prices, when : Nat, reason : Reasons]
Updates == [when : Nat]
BarEvents ==
    [begin : Nat, when : Nat, open : Prices, close : Prices, high : Int, low : Int, volume : Nat]

Jobs == [kind : {"job"}, when : Nat]
Events == [kind : {"event"}, source : {"bars"}, event : BarEvents]
          \cup [kind : {"event"}, source : {"orders"}, event : Updates]

\* The types of the variables.
TypeOK ==
    /\ waiting \in Seq(Jobs \cup Events) /\ running \in [Workers -> Jobs \cup Events \cup {Nothing}]
    /\ DOMAIN pending = SourceSet
    /\ pending["bars"] \in Seq(BarEvents) /\ pending["orders"] \in Seq(Updates)
    /\ jobs \in SUBSET Nat /\ prevDt \in [SourceSet -> Nat]
    /\ clock \in Nat /\ now \in Nat /\ loop \in {"between", "pushing"} /\ stopped \in BOOLEAN
    /\ jobHeld \in Jobs \cup {Nothing} /\ eventHeld \in Events \cup {Nothing}
    /\ agg \in [trades : Seq(Trades), nextGe : Nat, skip : BOOLEAN, begin : Nat]
    /\ barrier \in [long : BOOLEAN, entered : Nat, peak : Nat \ {0}, trough : Nat \ {0},
                    armed : BOOLEAN, partial : BOOLEAN]
    /\ exit \in Reasons
    /\ received \in Nat /\ scheduled \in Nat /\ firstBar \in Nat
    /\ accepted \in Seq([trade : Trades, open : Nat])
    /\ bars \in Seq(BarEvents) /\ closes \in Seq(Closes)
    /\ begun \in [SourceSet -> Nat]

\* The trades of a window that were received before it was flushed.
Its(a, begin) == a.trade.when \in begin..End(begin) /\ a.open <= begin
TradesOf(begin) ==
    FoldLeft(LAMBDA found, a : IF Its(a, begin) THEN Append(found, a.trade) ELSE found,
             <<>>, accepted)

WindowOf(when) == when - (when % BarDuration)

\* A bar is made of exactly the trades of its window that were received before
\* it was flushed, and a trade that push_trade took is in a bar once its window
\* was flushed, unless
\*   - the window is older than the first that gets a bar,
\*   - it is of the last millisecond before the next window begins, which main()
\*     leaves to neither, or
\*   - it is of the last instant of the window and came after the flush, when
\*     push_trade still takes it.
BarsComplete ==
    /\ \A i \in DOMAIN bars :
        /\ TradesOf(bars[i].begin) # <<>>
        /\ bars[i] = BarOf(bars[i].begin, TradesOf(bars[i].begin))
        /\ i > 1 => bars[i - 1].begin < bars[i].begin
    /\ \A i \in DOMAIN accepted :
        LET when == accepted[i].trade.when
            begin == WindowOf(when)
        IN  begin < agg.begin =>
                \/ Its(accepted[i], begin) /\ \E j \in DOMAIN bars : bars[j].begin = begin
                \/ begin < firstBar
                \/ when > End(begin)
                \/ when = End(begin) /\ accepted[i].open > begin

\* Handlers get the events of a source in the order of their times, whatever
\* order they were received in and however many run at once.
HandledInOrder == [][\A s \in SourceSet : begun[s] <= begun'[s]]_vars

\* A position that is still open, all or the rest of it, has not lost so much at
\* the last close, from its entry or from the best close since, that it is to be
\* stopped, and it gains if it ever gained enough to be stopped at no gain.  If
\* nothing was taken at that close, it is not gain enough to take any, but for a
\* part that was taken before, and it is not yet time.  A part is taken once.
InsideBarriers ==
    /\ exit \in {"none", "partial_take_profit"} /\ closes # <<>> =>
        LET last == closes[Len(closes)]
            Gains(close, pct) == Gained(barrier, EntryPrice, close.price, pct)
        IN  /\ ~Lost(barrier, EntryPrice, last.price, StopLoss)
            /\ \A i \in DOMAIN closes : ~Lost(barrier, closes[i].price, last.price, TrailingStop)
            /\ (\E i \in DOMAIN closes : Gains(closes[i], BreakEven))
                 => Gain(barrier, EntryPrice, last.price) > 0
            /\ last.reason = "none" =>
                /\ ~Gains(last, TakeProfit) /\ last.when - barrier.entered < TimeLimit
                /\ Gains(last, Partial) =>
                    \E i \in DOMAIN closes : closes[i].reason = "partial_take_profit"
    /\ \A i, j \in DOMAIN closes :
        closes[i].reason = "partial_take_profit" /\ closes[j].reason = "partial_take_profit" => i = j

\* In the end every bar has reached the handler, every event and job whose time
\* came was handled or, of the events, refused for its age, and the pushers
\* wait for nothing; unless the dispatcher is stopped.
UpToDate ==
    /\ bars # <<>> => begun["bars"] = bars[Len(bars)].when
    /\ \A s \in SourceSet : pending[s] = <<>>
    /\ \A t \in jobs : t > clock
    /\ jobHeld = Nothing /\ eventHeld = Nothing
    /\ waiting = <<>>

CatchesUp == <>[](stopped \/ UpToDate)
=============================================================================
