--------------------------- MODULE PositionManager ---------------------------
(***************************************************************************)
(* The position manager of the samples, which turns trading signals into   *)
(* market orders and keeps track of the position with the order it last    *)
(* created.  One pair is modelled: pairs have a lock and a position each   *)
(* and share nothing.                                                      *)
(*                                                                         *)
(* The two copies of the code differ in what suspends.  With Binance every *)
(* call to the exchange is a REST call, answered some time after it was    *)
(* made; in a backtest only the lock and the gather() of the prices let    *)
(* another coroutine run.  Acquiring a free lock does not suspend; a lock  *)
(* that is taken is handed over in the order it was asked for.             *)
(*                                                                         *)
(* The exchange is external: it fills an open order, in parts or at once,  *)
(* lets it expire, and reports every change of it in order.  A call to it  *)
(* may raise, and whoever made it does not learn what came of it.  Amounts *)
(* are signed; of a price only matters whether it is known.                *)
(***************************************************************************)
EXTENDS Integers, Sequences, FiniteSets, FiniteSetsExt

CONSTANTS
    Tasks,          \* coroutines that handle signals and bars
    Amounts,        \* what a position may amount to, in base units
    MaxOrders       \* bound: orders created

ASSUME PositionAssumption ==
    /\ IsFiniteSet(Tasks)
    /\ Amounts \subseteq Nat \ {0}
    /\ MaxOrders \in Nat
    /\ "handler" \notin Tasks

VARIABLES
    suspends,   \* whether the calls to the exchange suspend: Binance
    orders,     \* the orders of the exchange, by id
    events,     \* updates of orders that were not handled yet, in order
    tracked,    \* _positions[pair]
    lock,       \* _pos_mutex[pair]: its holder, then those waiting
    task,       \* where each coroutine stands
    astray      \* history: some order was left out of the position

vars == <<suspends, orders, events, tracked, lock, task, astray>>

Handler == "handler"        \* the coroutine that handles order events
Coroutines == Tasks \cup {Handler}

-----------------------------------------------------------------------------
(* PositionInfo.  The order it holds is a copy of what was last known.     *)
(* History: counted, the orders whose fills make up the initial amount.    *)

NoPosition == [id |-> 0, initial |-> 0, target |-> 0,
               side |-> 1, filled |-> 0, open |-> FALSE, counted |-> {}]

Counted(info) == IF info.id = 0 THEN {} ELSE info.counted \cup {info.id}

Current(info) == info.initial + info.side * info.filled

\* update_from_order_info, update_from_order_update.
Updated(info, order) == [info EXCEPT !.filled = order.filled, !.open = order.open]

Signum(n) == IF n > 0 THEN 1 ELSE IF n < 0 THEN -1 ELSE 0

TargetReached(info) == Current(info) = info.target

\* avg_price multiplies by a fill price that is None: the position was being
\* increased and nothing was filled.
AvgPriceFails(info) ==
    /\ Current(info) # 0 /\ info.initial # 0
    /\ info.initial * info.target > 0
    /\ info.side = Signum(info.target)
    /\ info.filled = 0

-----------------------------------------------------------------------------
Idle == [at |-> "idle", position |-> 0, check |-> FALSE, force |-> FALSE,
         copy |-> NoPosition, answer |-> [filled |-> 0, open |-> FALSE]]

State(id) == [filled |-> orders[id].filled, open |-> orders[id].open]

Init ==
    /\ suspends \in BOOLEAN
    /\ orders = <<>>
    /\ events = <<>>
    /\ tracked = NoPosition
    /\ lock = <<>>
    /\ task = [c \in Coroutines |-> Idle]
    /\ astray = FALSE

Holds(c) == lock # <<>> /\ Head(lock) = c

\* The coroutine that runs: it holds the lock and has nothing to wait for.
Runs(c) ==
    /\ Holds(c)
    /\ \/ task[c].at \in {"info", "begin", "event"}
       \/ ~suspends /\ task[c].at \in {"refresh", "cancel", "track"}

\* Every coroutine waits for something, and any answer may be the next.
Quiet == \A c \in Coroutines : ~Runs(c)

MayRun(c) == Runs(c) \/ Quiet

Goes(c, at) == task' = [task EXCEPT ![c].at = at]
Ends(c) == task' = [task EXCEPT ![c] = Idle]

-----------------------------------------------------------------------------
(* The exchange.                                                           *)

Report(id, order) ==
    events' = Append(events, [id |-> id, filled |-> order.filled, open |-> order.open])

Filled(order, n) ==
    [order EXCEPT !.filled = @ + n, !.open = order.filled + n < order.amount]

\* How much of an order is filled at once: a backtest fills market orders
\* whole.
Fills(order) ==
    LET pending == order.amount - order.filled
    IN  IF suspends THEN 1..pending ELSE {pending}

\* An order is filled, or expires.
OrderChanges ==
    /\ Quiet
    /\ \E id \in {i \in DOMAIN orders : orders[i].open} :
        \E changed \in {Filled(orders[id], n) : n \in Fills(orders[id])}
                        \cup {[orders[id] EXCEPT !.open = FALSE]} :
            /\ orders' = [orders EXCEPT ![id] = changed]
            /\ Report(id, changed)
    /\ UNCHANGED <<suspends, tracked, lock, task, astray>>

-----------------------------------------------------------------------------
(* on_order_event.                                                         *)

EventArrives ==
    /\ Quiet /\ events # <<>> /\ task[Handler].at = "idle"
    /\ Goes(Handler, "event")
    /\ lock' = Append(lock, Handler)
    /\ UNCHANGED <<suspends, orders, events, tracked, astray>>

\* Mutation of UpdateApplied: only what fills more.
UpdateThatFills(update) ==
    IF update.id = tracked.id /\ update.filled > tracked.filled
    THEN Updated(tracked, update) ELSE tracked

\* Mutation of UpdateApplied: any update of the order.
AnyUpdate(update) ==
    IF update.id = tracked.id THEN Updated(tracked, update) ELSE tracked

\* An update of another order, or an older one, is ignored.
UpdateApplied(update) ==
    IF update.id = tracked.id /\ update.filled >= tracked.filled
    THEN Updated(tracked, update) ELSE tracked

HandleEvent ==
    /\ task[Handler].at = "event" /\ Runs(Handler)
    /\ tracked' = UpdateApplied(Head(events))
    /\ events' = Tail(events)
    /\ lock' = Tail(lock)
    /\ Ends(Handler)
    /\ UNCHANGED <<suspends, orders, astray>>

-----------------------------------------------------------------------------
(* on_trading_signal and on_bar_event: both begin with get_position_info.  *)

Busy == {t \in Tasks : task[t].at # "idle"}

Start(t, work) ==
    /\ Quiet /\ task[t].at = "idle"
    /\ Len(orders) + Cardinality(Busy) < MaxOrders
    /\ task' = [task EXCEPT ![t] = work]
    /\ lock' = Append(lock, t)
    /\ UNCHANGED <<suspends, orders, events, tracked, astray>>

\* A signal arrives.  A spot account does not go short.
Signal(t) ==
    \E position \in IF suspends THEN {0, 1} ELSE {-1, 0, 1} :
        Start(t, [Idle EXCEPT !.at = "info", !.position = position])

\* A bar arrives and the loss of the position is checked.
CheckLoss(t) ==
    /\ tracked # NoPosition
    /\ Start(t, [Idle EXCEPT !.at = "info", !.check = TRUE])

\* What get_position_info returned is the position to be.
There(info, position) ==
    IF info = NoPosition THEN position = 0
    ELSE Signum(info.target) = position /\ TargetReached(info)

\* check_loss goes on to the prices when there is a position.
LossMatters(info) == Current(info) # 0 /\ ~AvgPriceFails(info)

\* Mutation of Informed: when there is nothing to do, the lock is kept.
InformedKeepingLock(t, info) ==
    IF task[t].force \/ (~task[t].check /\ ~There(info, task[t].position))
    THEN /\ lock' = Append(Tail(lock), t)
         /\ task' = [task EXCEPT ![t].at = "begin", ![t].copy = info]
    ELSE /\ UNCHANGED lock
         /\ IF task[t].check /\ LossMatters(info) THEN Goes(t, "loss") ELSE Ends(t)

\* get_position_info has returned a copy and released the lock.
Informed(t, info) ==
    IF task[t].check
    THEN /\ lock' = Tail(lock)
         /\ IF LossMatters(info) THEN Goes(t, "loss") ELSE Ends(t)
    ELSE IF task[t].force \/ ~There(info, task[t].position)
    THEN /\ lock' = Append(Tail(lock), t)
         /\ task' = [task EXCEPT ![t].at = "begin", ![t].copy = info]
    ELSE /\ lock' = Tail(lock)
         /\ Ends(t)

\* An order that was open is asked for again before the copy is made.
GetInfo(t) ==
    /\ task[t].at = "info" /\ Runs(t)
    /\ IF tracked.open
       THEN /\ task' = [task EXCEPT ![t].at = "refresh", ![t].answer = State(tracked.id)]
            /\ UNCHANGED lock
       ELSE Informed(t, tracked)
    /\ UNCHANGED <<suspends, orders, events, tracked, astray>>

\* The answer is from when the call was made, or any time up to now.
Answers(t, id) == {task[t].answer, State(id)}

Refresh(t) ==
    /\ task[t].at = "refresh" /\ MayRun(t)
    /\ \E answer \in Answers(t, tracked.id) :
        /\ tracked' = Updated(tracked, answer)
        /\ Informed(t, tracked')
    /\ UNCHANGED <<suspends, orders, events, astray>>

\* The prices of check_loss arrive and the stop loss is hit, or it is not or
\* the prices can't be had.
CheckPrices(t) ==
    /\ task[t].at = "loss" /\ Quiet
    /\ \/ /\ task' = [task EXCEPT ![t] = [Idle EXCEPT !.at = "info", !.force = TRUE]]
          /\ lock' = Append(lock, t)
       \/ /\ Ends(t)
          /\ UNCHANGED lock
    /\ UNCHANGED <<suspends, orders, events, tracked, astray>>

-----------------------------------------------------------------------------
(* switch_position, with the lock.                                         *)

\* Mutation of Begin: the order is left open.
BeginBeside(t) ==
    /\ task[t].at = "begin" /\ Runs(t)
    /\ Goes(t, "prices")
    /\ UNCHANGED <<suspends, orders, events, tracked, lock, astray>>

Begin(t) ==
    /\ task[t].at = "begin" /\ Runs(t)
    /\ Goes(t, IF task[t].copy.open THEN "cancel" ELSE "prices")
    /\ UNCHANGED <<suspends, orders, events, tracked, lock, astray>>

\* The order of the copy is canceled, and read again.  The exchange refuses
\* to cancel an order that is no longer open, and the switch ends there, as
\* it does when the order was canceled and reading it raises.
CancelOrder(t) ==
    /\ task[t].at = "cancel" /\ MayRun(t)
    /\ LET id == task[t].copy.id
           canceled == [orders[id] EXCEPT !.open = FALSE]
       IN  IF orders[id].open
           THEN /\ orders' = [orders EXCEPT ![id] = canceled]
                /\ Report(id, canceled)
                /\ \/ /\ task' = [task EXCEPT ![t].at = "prices",
                                              ![t].copy = Updated(@, canceled)]
                      /\ UNCHANGED lock
                   \/ /\ suspends
                      /\ lock' = Tail(lock)
                      /\ Ends(t)
           ELSE /\ lock' = Tail(lock)
                /\ Ends(t)
                /\ UNCHANGED <<orders, events>>
    /\ UNCHANGED <<suspends, tracked, astray>>

Targets(position) == {position * amount : amount \in Amounts}

\* The prices arrive, and the order for the difference is created.
CreateOrder(t) ==
    /\ task[t].at = "prices" /\ Quiet
    /\ \E target \in Targets(task[t].position) :
        LET copy == task[t].copy
            delta == target - Current(copy)
            order == [side |-> Signum(delta), amount |-> Signum(delta) * delta,
                      filled |-> 0, open |-> TRUE]
            id == Len(orders) + 1
        IN  IF delta = 0
            THEN /\ lock' = Tail(lock)
                 /\ Ends(t)
                 /\ UNCHANGED <<orders, events>>
            ELSE /\ orders' = Append(orders, order)
                 /\ Report(id, order)
                 /\ task' = [task EXCEPT
                        ![t].at = "track", ![t].answer = [filled |-> 0, open |-> TRUE],
                        ![t].position = target]
                 /\ UNCHANGED lock
    /\ UNCHANGED <<suspends, tracked, astray>>

\* The new order is read, and tracked in place of the one that is tracked
\* now; or the average price of the position it starts from can't be told,
\* and the switch ends without tracking it.
Track(t) ==
    /\ task[t].at = "track" /\ MayRun(t)
    /\ LET copy == task[t].copy
           id == Len(orders)
           info == [id |-> id, initial |-> Current(copy), target |-> task[t].position,
                    side |-> orders[id].side, filled |-> 0, open |-> TRUE,
                    counted |-> Counted(copy)]
       IN  IF AvgPriceFails(copy)
           THEN /\ astray' = TRUE
                /\ UNCHANGED tracked
           ELSE /\ \E answer \in Answers(t, id) : tracked' = Updated(info, answer)
                /\ astray' = (astray \/ copy.id # tracked.id)
    /\ lock' = Tail(lock)
    /\ Ends(t)
    /\ UNCHANGED <<suspends, orders, events>>

(***************************************************************************)
(* A call raises: a REST call of an exchange that suspends, or, in a       *)
(* backtest too, asking for a price that is not known and creating an      *)
(* order that is refused.  The lock is released on the way out.  An order  *)
(* that was created, whether creating or reading it raised, is not tracked.*)
(***************************************************************************)
CallRaises(t) ==
    /\ Quiet
    /\ task[t].at \in IF suspends THEN {"refresh", "cancel", "prices", "track"} ELSE {"prices"}
    /\ astray' = (astray \/ task[t].at = "track")
    /\ lock' = Tail(lock)
    /\ Ends(t)
    /\ UNCHANGED <<suspends, orders, events, tracked>>

Step(t) ==
    \/ GetInfo(t)
    \/ Refresh(t)
    \/ CheckPrices(t)
    \/ Begin(t)
    \/ CancelOrder(t)
    \/ CreateOrder(t)
    \/ Track(t)
    \/ CallRaises(t)

Next ==
    \/ OrderChanges
    \/ EventArrives
    \/ HandleEvent
    \/ \E t \in Tasks : Signal(t) \/ CheckLoss(t) \/ Step(t)

\* Calls to the exchange are answered, and the event loop serves the ready
\* coroutines in turn, so those that others run before are not put off for
\* ever.  Nothing makes the exchange change an order, or signals arrive.
Fairness ==
    /\ SF_vars(EventArrives)
    /\ WF_vars(HandleEvent)
    /\ \A t \in Tasks : SF_vars(Step(t))

Spec == Init /\ [][Next]_vars /\ Fairness

-----------------------------------------------------------------------------
OrderRecords == [side: {-1, 1}, amount: Nat \ {0}, filled: Nat, open: BOOLEAN]
OrderStates == [filled: Nat, open: BOOLEAN]
Updates == [id: Nat, filled: Nat, open: BOOLEAN]
Positions == [id: Nat, initial: Int, target: Int, side: {-1, 1},
              filled: Nat, open: BOOLEAN, counted: SUBSET (Nat \ {0})]
Works == [at: {"idle", "info", "refresh", "loss", "begin", "cancel", "prices",
               "track", "event"},
          position: Int, check: BOOLEAN, force: BOOLEAN, copy: Positions,
          answer: OrderStates]

\* The state of the exchange, of the manager and of its coroutines.
TypeOK ==
    /\ suspends \in BOOLEAN
    /\ orders \in Seq(OrderRecords)
    /\ \A id \in DOMAIN orders : orders[id].filled <= orders[id].amount
    /\ events \in Seq(Updates)
    /\ tracked \in Positions
    /\ lock \in Seq(Coroutines)
    /\ task \in [Coroutines -> Works]
    /\ astray \in BOOLEAN

Signed == [id \in DOMAIN orders |-> orders[id].side * orders[id].filled]

(***************************************************************************)
(* The manager knows its position (switch_position, on_order_event).       *)
(* Whatever coroutines are at work and whichever calls raise, the position *)
(* it takes the tracked order to start from is what the orders before it   *)
(* filled that it accounts for, and those are closed.  They are all there  *)
(* were, and the tracked one is the last, unless an order went astray: one *)
(* was created that could not be read or priced, or was replaced by one    *)
(* created from an older position.                                         *)
(***************************************************************************)
PositionKnown ==
    /\ \A id \in tracked.counted : ~orders[id].open
    /\ tracked.initial = SumFunctionOnSet(Signed, tracked.counted)
    /\ (~astray /\ \A t \in Tasks : task[t].at # "track") =>
        /\ tracked.id = Len(orders)
        /\ tracked.counted = 1..(Len(orders) - 1)

(***************************************************************************)
(* When every update was handled and no coroutine is at work, the order    *)
(* tracked is as the exchange has it: a call's answer that is older than   *)
(* an update does not undo it, as the update waits for the lock            *)
(* (get_position_info, on_order_event).                                    *)
(***************************************************************************)
Settled ==
    (events = <<>> /\ Busy = {} /\ tracked.id # 0) =>
        [filled |-> tracked.filled, open |-> tracked.open] = State(tracked.id)

(***************************************************************************)
(* What the manager knows to be filled of an order never goes back, in     *)
(* whichever order answers and updates arrive (on_order_event).            *)
(***************************************************************************)
FillsGoForward ==
    [][tracked'.id = tracked.id => tracked'.filled >= tracked.filled]_vars

(***************************************************************************)
(* A signal or a check of the loss comes to its end: whoever holds the     *)
(* lock releases it on every path, and those who wait are served in turn.  *)
(***************************************************************************)
SwitchesEnd == \A t \in Tasks : (task[t].at # "idle") ~> (task[t].at = "idle")

(***************************************************************************)
(* "If the current position is not 0, then the order will have a fill      *)
(* price" (PositionInfo.avg_price), whenever a new order needs it.         *)
(***************************************************************************)
FillPriceKnown == \A t \in Tasks : task[t].at = "track" => ~AvgPriceFails(task[t].copy)

(***************************************************************************)
(* "Exclusive access to the position since we're going to modify it"       *)
(* (switch_position): an order is created for the position as it is.       *)
(***************************************************************************)
ExclusiveAccess ==
    \A t \in Tasks : task[t].at = "track" => task[t].copy.id = tracked.id
=============================================================================
