# A verification project for Basana

Basana is a Python framework for event driven algorithmic trading: a strategy is a set of handlers
that are called with bars, trades, signals and order updates, either from historical data (a
backtest, with a simulated exchange) or from Binance, Bitstamp or Hyperliquid. These modules model
the parts where its own logic lives, check them with TLC on small instances and prove some of what
is checked for every instance with TLAPS.

Contents: 1 the system, 2 the plan, 3 the modules, 4 the runs, 5 disagreements with the code,
6 the proofs, 7 what is not modelled.

## 1. The system

All of it runs in one asyncio event loop: code is atomic between two `await`s, and what is hard is
what happens at an `await`, what happens when one of several updates fails, and what arithmetic does
at its edges.

| component (source under `src/basana`) | state | operations | hard behaviour | correct if |
|---|---|---|---|---|
| **Backtesting account** `backtesting/account_balances.py`, `value_map.py` | balances, holds, borrowed | `update` (all or nothing, under rules) | a dozen callers change two of three maps | nothing negative, nothing on hold that is not owned |
| **Order types, liquidity** `backtesting/orders.py`, `liquidity.py` | an order's state, fills, stop; used volume | `try_fill`, `add_fill`, `not_filled`, `take_liquidity` | partial fills, rounding, slippage, stops | limits respected, volume sold once, no fill beyond the amount |
| **Loans** `backtesting/loan_mgr.py`, `lending/*`, `prices.py` | loans, last prices | `create_loan`, `cancel_loan`, `repay_loan`, `get_loans` | an update committed before a conversion raises | debts are the open loans; no loan without equity |
| **Order manager** `backtesting/order_mgr.py`, `fees.py` | orders, holds per order, liquidity per pair, updates | `add_order`, `on_bar_event`, `cancel_order` | borrow, roll back, hold, fill, release, repay: each may fail | holds and records agree; refusals leave no trace; updates are published |
| **Exchange** `backtesting/exchange.py` | the above | requests of a strategy, bars | requests between any two bars | the whole keeps the promise of an order's life |
| **Backtesting dispatcher** `core/dispatcher.py` | sources, scheduled jobs, `_last_dt`, stop flag | `run`, `stop`, `schedule`, the loop | handlers run while the loop pops; stop at any `await` | events in order, clock still while handlers run, nothing lost, run ends |
| **Task pool** `core/helpers.py` | queue, workers, counters | `push`, `wait`, `cancel`, `idle` | timeouts against puts, cancellation of workers in any state | what waits is served, `wait` returns when all is done |
| **Realtime dispatcher** `core/dispatcher.py:410` | last time per source, jobs, what waits for room | the loop, `stop` | handlers of different events overlap; a full pool; events that are old | events of a source in order, nothing waits for ever |
| **WebSocket clients** `core/websockets.py`, `external/*/websockets.py` | connection, channels, pending subscriptions | connect, subscribe, resubscribe, keep alive | reconnecting while subscribing; expired keys | every channel is subscribed in the end |
| **Risk manager, portfolio** `core/risk/*`, `external/telegram/handlers.py` | mode, kill switch, positions, daily loss | signals, fills, bars, commands | fills that flip a position; fills told late; buttons pressed late | with the switch on no position grows; equity is what was paid, received and held |
| **Ledger** `core/ledger/*` | positions, trades, equity curve | `record_fill`, `update_price`, metrics | flips of a position; a curve that falls below zero | agrees with the portfolio; profits and drawdown right |
| **Trades to bars** `core/bar.py:105` | the window's trades | `push_trade`, `_flush` | trades at the edge of a window, late ones | a bar has exactly its trades, and which trades are in no bar is known |
| **Exit barriers** `core/strategy/*` | best price, what is armed | `check` | barriers that move, looked at in turn | an open position is not beyond its stops, and a part is taken once |
| **Order book mirror** `samples/binance/order_book_mirror.py` | book, buffer of diffs, snapshot | diffs, snapshots, checks, restarts | diffs lost or overlapping a snapshot; REST calls that raise | the book is the exchange's; restarts end, and only with a reason |
| **Position managers** `samples/*/position_manager.py` | the position and its order, a lock per pair | signals, bars, order events | the position is read before the lock is taken; answers older than updates | the position is what its orders filled, fills never go back, the lock is released |
| **Token bucket** `core/token_bucket.py` | tokens, time | `consume` | clock | never above the rate |
| **Evaluation** `core/evaluation/*` | windows | `run` | off by one | no test data in training |
| **Clients** `external/*` | none of their own | REST requests, parsing | - | not ours to state |
| **Telegram, plugins, charts, CSV** | text, registry, points | - | - | - |

How they meet: the dispatcher pops events from its sources and hands them to the task pool, whose
workers call the handlers. The exchange handles bars: it sets prices, lets the order manager process
the open orders of the pair, and passes the bar on to a source of its own, which strategies
subscribe to. A strategy's handler calls the exchange (`create_order`, `cancel_order`,
`create_loan`, ...); order updates go to a source of higher priority. The risk manager handles
signals and passes on those its limits allow.

PROJECT.json lists the hazards of all of these at their lines. The properties below are aimed at
them.

## 2. The plan

| step | modules | abstract specification | runs | theorems |
|---|---|---|---|---|
| A (done) | ValueMap, AccountBalances, Orders, LoanManager, OrderManager, Exchange | OrderLifecycle: an order's life, implemented by the exchange | Exchange; LeakedLoan | types, holds, debts and balances against the records, liquidity, limits, fees, refusals, repayment, updates, the refinement |
| B (done) | TaskPool, BacktestingDispatcher | HandlerPool: what a dispatcher relies on of its pool, implemented by the pool under a backtest | Backtest; LateEvents | pool counters, the end of a run, the clock, nothing left over, the refinement |
| C (done) | WebSocketClient, BinanceWebSocket | - | WebSocket; ListenKeyExpired | no channel forgotten, streams mapped, keep alives go on |
| D (done) | PortfolioTracker, TradingLedger, RiskLimits, Trading | - | Trading | the two books agree, nothing grows with the kill switch on, the metrics, equity |
| E (done) | RealtimeDispatcher over HandlerPool, TradesToBars, TripleBarrier, LiveTrading | HandlerPool again, in place of the pool | Live | events in order, bars complete, no stop passed |
| F (done) | OrderBookMirror, PositionManager | the exchange's book, the exchange's orders | Mirror, Positions; UnknownFillPrice, StalePosition | fills go forward, the lock excludes, settled, the position known, the book accurate, restarts |
| then | - | - | - | EventsInOrder, with the wiring under which it holds as a premise |

## 3. The modules

Everything is one state machine per process, composed with EXTENDS: each module adds its variables
and operations to the ones of the module it is built on.

**ValueMap, AccountBalances.** A `ValueMap` is a function from symbols to integers, absent symbols
being zero. `Update` is `AccountBalances.update`: the rules accept the outcome and the three maps
change, or nothing does.

**Orders.** `TryFill` is `try_fill` of the four classes, `CanceledIfNotFilled` is `not_filled`. The
code writes each price comparison for buying and for selling; here a sale is a purchase with negated
prices. Amounts, prices and volumes are integers in the units of the pair's precisions
(`BaseScale` base units to a whole), so rounding to the quote precision (half to even), truncation
of liquidity to the base precision and fees that are rounded up are what the code computes. The
price impact of a volume is an input from the set `Slips`.

**LoanManager.** `create_loan`, `cancel_loan`, `repay_loan` with interest per bar and the margin
check as the code computes it, a division by a negative position included. `InfoFails` is the set of
conditions under which building a `LoanInfo` raises: no precision configured or no price to convert.
All pairs are quoted in `Quote`. Collateral is left out: both lending strategies ask for none.

**OrderManager.** No method awaits, so methods do not interleave, but a method makes several updates
of the account, each of which may fail with the earlier ones made. A method is therefore a run of
steps with at most one update each; `task` says which comes next, and `task = Idle` is the exchange
at rest. `add_order`: AddOrder, BorrowNext/BorrowFails, RollbackNext/Refuse, HoldRequired/HoldFails,
then, with immediate processing, Process*, and PushOrderUpdate. `on_bar_event`: for each open order
of the pair, Process*. `_order_closed`: RepayNext/SkipRepayment/RepaymentDone. `cancel_order`:
CancelOrder. An exception that nothing catches sends `task` back to `Idle`, with the rest of the bar
undone. Refused orders stay in `orders` as records (`REJECTED`) so that properties can speak of them.
`published` is what a subscriber of order events saw last.

**Exchange.** Requests and bars from given sets, in any order, between any two methods.
`ExchangeProperties` states what is correct; `OrderLifecycle` is the abstract specification, which
`KeepsLifecycle` says the exchange implements, with the order records restricted to amount, status
and filled amount as refinement mapping.

**TaskPool.** Workers, the bounded queue, `active` and `unfinished` (what `queue.join()` waits for).
A worker is `created`, `waiting` in `wait_for(queue.get())`, `handed` an item, `running` it. Under
Python 3.10 and 3.11 `wait_for` runs `get()` in a task of its own, so an item spends a turn of the
event loop in neither the queue nor `active`, and a cancelation at that moment is dropped; under 3.12
and later `handed` takes no time, which is one of the model's behaviours. A task that is canceled
before its first step never runs its `finally`: `abandoned`. Timeouts may happen at any time.

**BacktestingDispatcher.** The loop, with a state for each `await`: Peek, RunJob/JobDone/JobsDone
(`_dispatch_scheduled`), PopEvent/PushBlocked/EventsPushed/EventsDone (`_dispatch_events`), CleanUp and
Finalize (the end of `run`). A source and its prefetched event are one queue. `Better` and `Chosen`
are the multiplexer's `pop` as it iterates over the sources. Handlers are modelled by what they may
do while they run: pass their event on (Forward), make an event of the current time (Emit), schedule a
job, stop the dispatcher. `Forwards`, `Emits`, `JobEmits` say which sources are wired to which; stop
also comes from signals, at any moment. The handlers of one event and its sniffers are one handler.
The scheduler's heap is a bag: jobs of the same time come in any order.

**WebSocketClient.** What all clients share: the main loop and the three tasks of a connection, each with
a variable that says where it is. Every `await` ends an action, so channels are registered, connections
lost and reconnections asked for between any two. `failed` is that a task raised, after which the
TaskGroup cancels the others: TearDown leaves the connection in that case, or when all three are done,
which is why the message loop has to wake the other two up. The events are Booleans. The backoff between
attempts to connect keeps no state, so Connect is the attempt that succeeds. `served` and `asked` are
histories of a connection for the properties.

**BinanceWebSocket.** `subscribe_to_channels`, `handle_message` and the keep alive jobs, with the part of
Binance they need as an external environment: listen keys, which are numbered for each channel and
expire at any time, and the streams of a connection, in the order of `inbox`. Resolve is one of the calls
`resolve_stream_name`, which run at the same time; Send is the request once all have returned;
SubscribeToChannelsReturns schedules the keep alives. A job that runs while a later one is scheduled does
nothing (`IsDue`). Jobs are a set, as two of one channel are never scheduled in the same microsecond.

**HandlerPool.** The task pool as a dispatcher sees it: work begins in the order it was pushed, each once,
on so many workers, and a cancelation drops the last part of what has not begun. TaskPool implements it
(PoolImplemented, with what a worker was handed and has not begun counted as waiting), so the realtime
dispatcher is composed with it instead of the pool's workers, queue and timeouts.

**RealtimeDispatcher, TradesToBars, TripleBarrier, LiveTrading.** The loop pushes the jobs and events
whose time has come, without waiting for handlers. `_push_scheduled` and `_push_events` run at the same
time, but the second gets a turn only when the first is through or waits for room: PushScheduled,
PushEvents, and PushHeldJob, PushHeldEvent for what waits. TradesToBars is the aggregator as a record and
its methods as operators; time is in half milliseconds, because a window ends one millisecond before the
next begins and a trade may fall between the two. TripleBarrier is `check()`, in the order of the code.
LiveTrading composes them: trades arrive late or out of order, Flush pushes bars, a handler checks the
barriers with each bar, order updates come from a source of higher priority, and handlers schedule jobs.
Trading starts at `StartTime`, so trades may be older than the first window. Called is `_dispatch_event` as it
begins: the three stages it awaits one after the other, sniffers before, handlers, other sniffers
(`dispatcher.py:297-308`), are one, so `begun` says when the dispatching of an event begins. With front-run
sniffers that wait, the handlers of two events may still cross. `accepted`, `bars`, `closes`, `firstBar` and
`begun` are histories for the properties.

**PortfolioTracker, TradingLedger, RiskLimits, Trading.** The two books are records and their methods
operators; a position that is absent has quantity 0. RiskLimits has one operator for each class of limit.
Trading composes them: OnTradingSignal is `on_trading_signal` with the snapshot it takes, which may begin
a day; TakeSignal is the position manager, which orders the difference to the position it has, and StopLoss
its `check_loss`, which closes a position without asking the risk manager; RecordTheFill tells both books of
a part of an order; Press is a button of the Telegram bot, whose keyboards stay until they are used. There is
no common clock: signals, fills and prices carry a time of their caller's, any of `Times`, and an earlier one
may follow a later one. `paid` and `late` are histories: what the fills cost, and the profit, since the
tracker's day began, of fills dated before it.

**OrderBookMirror.** A price is its rank on its side. The exchange numbers its updates (`log`), streams
them in diffs of any length and answers a request with its book at any update since. A diff is handled
without suspending, so DiffArrives is one action: it is buffered, or applied and the book checked.
SnapshotStarts, WakeUp and SnapshotChecks are the two tasks that fetch.

**PositionManager.** Both copies of the sample: `suspends` says whether calls to the exchange suspend
(Binance) or only the lock and the prices do (a backtest). A step of a coroutine is what it does between
two suspensions: GetInfo and Refresh are `get_position_info`, Begin to Track `switch_position`,
CheckPrices the middle of `check_loss`, EventArrives and HandleEvent `on_order_event`. `lock` is the
holder and those who wait, in order. A REST call is answered with the order as it is, or as it was when
the call was made, or raises (CallRaises), the creation of an order and the request that reads it afterwards
included. Amounts are signed; of a fill price only matters whether it is known. Two histories: `counted`, the
orders whose fills a tracked position says it starts from, and `astray`, that some order was left out of it.

**MCExchange, MCDispatcher, MCTrading, MCLive, MCPositions** give the constants their values. Operators commented
"Mutation of X" are plausible bugs of X; PROJECT.json pairs each with the property that notices it.

## 4. The runs

| run | question | bounds | why they are enough |
|---|---|---|---|
| Exchange | does the account agree with orders and loans when orders of any type meet bars, borrow and repay? | 2 orders of 6 requests, 2 of 2 bars, 1 direct loan, slippage 0 or 1, half units of the base, fee 25 % and at least 3, margin requirement 25 %, immediate processing | two orders share the liquidity and the balance of a bar, which the first may use up as soon as it is created; orders filled in parts, each rounded and one charged the minimum; a part that needs more than is held for it; an order that needs two loans of which the second is refused; one that repays a loan and cannot afford another |
| Backtest | does the dispatcher keep time and order while handlers act, and end? | 4 sources, 3 initial bars, 3 initial jobs, 3 created events, 1 created job, 2 workers, queue of 1, stop at any time | bars of the same and of different times; a chain bar, passed on, order update; a job in the past, present and future; a full queue; cancelation of a worker in each state |
| WebSocket | is every channel subscribed whatever ends a connection, and are keys kept alive? | 2 channels, one with user data; a clock of 3 instants, a period of 1; 2 keys, 1 message under way; any number of connections | a channel registered before, while and after the other is subscribed; a key that is replaced while its stream is still subscribed; jobs of the last and of this connection due together |
| Mirror | is the mirror's book the exchange's, and does it come back after what was lost? | 3 prices on a side, amounts 0 and 1, 3 updates, 1 diff lost, 1 REST call that raises | diffs of one to three updates, before, across and after a snapshot; a book that loses its best, its worst and a middle level; a gap while starting and while updating |
| Positions | does the position manager know its position while coroutines, answers and updates cross? | 3 orders for positions of 2 units, filled in parts; two coroutines at once beside the event handler, in a backtest and with a live exchange; any call may raise | a position that is increased, closed, flipped, and canceled after a part of it; an update before, during and after the call about its order; two switches of one pair, the second started from what the first replaces |
| Trading | do the two books agree, and does the kill switch halt? | 2 pairs, 2 signals, prices 8 and 16, 3 fills, 1 signal waiting, 3 instants on 2 days told in any order, the stop loss at any time, nine limits | three fills open, add to and flip a position, or reduce and close it; a limit of each kind in the list; a day that begins between any two steps, and fills of the day before after it; equity below zero |
| Live | do bars, barriers and order survive late trades and a full pool? | 5 half milliseconds from the 4th on, windows of 3, flushed 1 late; 2 messages up to 2 late, prices 80, 95 and 110 on an entry at 100, 1 job, 2 workers, room for 1, 3 starts, stop at any time | trades in, before, after and between windows, and older than the first; the first window skipped or not; long and short; two closes of one position; a part taken and the position still open; each kind of exit; a job and an event held back by a full pool |
| LeakedLoan, LateEvents, ListenKeyExpired, UnknownFillPrice, StalePosition | section 5 | as the runs above | a counterexample needs no argument |

*Exchange* checks HoldsMatchOrders, OnlyOpenOrdersHold, BorrowedMatchesLoans and BalancesReconcile (the
account against the records of orders and loans); LiquidityBounded, FeesChargedOnce and LimitsRespected (the
arithmetic of partial fills); UpdatesPublished, KeepsLifecycle and MethodsReturn (the life of an order);
LoansSuffice, RefusalLeavesNoTrace and RepaysAllItCan (what fails half way). *Backtest* checks
PoolImplemented, ClockWaits, EventsInOrder, EverythingDispatched and RunEnds. *WebSocket* checks NoneForgotten, StreamsMapped, KeepAliveGoesOn and ClosesOnRequest
(registrations, reconnections and jobs against each other); Subscribed and Reconnects. *Mirror* checks
Accurate, RestartsForAReason and Resynchronizes; *Positions* PositionKnown, Settled, FillsGoForward and
SwitchesEnd; *Trading* BooksAgree, EquityAccounted, MetricsAgree and KillSwitchHalts; *Live*
BarsComplete, InsideBarriers, HandledInOrder and CatchesUp.

Some properties are narrower than one would like, because the wider ones are false. UpdatesPublished
leaves out orders created before the first event (there is no current time for their update).
PositionKnown says of every state that the position the tracked order starts from is what the closed orders
it accounts for filled; that these are all the orders there were it says only while none went astray, and
they do when a call raises after an order was created, when a price is unknown (UnknownFillPrice) and when a
switch works with a position that another one replaced meanwhile (StalePosition). KillSwitchHalts says where
positions can still come to: what was approved before the switch is dispatched and filled, the stop loss
closes positions, and monitor mode lets everything through. BarsComplete names the three ways in which a
trade that `push_trade` accepted is in no bar: it is of a window before the first that gets a bar; it is of
the last millisecond before the next window, which `main` leaves to neither; or it is of the last instant of
a window and came after the flush. BooksAgree leaves out of the tracker's day the fills that were told late,
MetricsAgree speaks of the largest fall once a trade was closed, and calls it a fraction only while the equity
is not below zero. InsideBarriers asks for take profit and time limit only if nothing was said at the last
close, because a part that is taken is all a check does. HandledInOrder is about when the dispatching of
events begins. Section 5 has what the documentation says of these.

In Exchange every symbol is configured and priced, since otherwise LeakedLoan shows: that repaying raises is
not met there, and the theorems about refusals and updates have it as a premise. Its accounts may be worth
less than nothing, after interest. The types of all variables are proved, for the modules with proofs, and no
run is spent on them.

**Fairness.** MethodsReturn assumes WF(MethodStep): a method that started goes on, because nothing in
it awaits. RunEnds assumes weak fairness of the loop, of each worker and of the end of each handler:
asyncio runs every ready task, and a backtest with a handler that never returns never ends. Timeouts,
requests, bars, pushes and stops are not fair. Subscribed and Reconnects assume that each task of a
connection goes on when it can, that REST calls and requests return, with or without success, and that
an attempt to connect succeeds in the end; losing a connection, failing, registering, time and expiry are
not fair. `CHECK_DEADLOCK FALSE` in the dispatcher's runs, because a backtest that ended stands still,
and in the client's, because its clock is bounded and nobody has to register or lose anything; the
exchange has a step `Rest` instead. CatchesUp assumes weak fairness of the dispatcher's loop, of the flush,
of the beginning and the end of handlers, and that time passes. Resynchronizes assumes that a REST call
ends, in an answer or an error, and that the stream delivers what it covers; the exchange's updates, lost
diffs and failures are not fair. SwitchesEnd assumes strong fairness of the coroutines, because the event
loop serves those that are ready in turn, while others run in between, and that calls are answered; orders
need not be filled and signals need not come. The bounded clocks, streams and signals end, which is why
Mirror, Positions and Live say `CHECK_DEADLOCK FALSE`, too.

## 5. Disagreements with the code

The first five are runs that TLC finds violated, and findings in PROJECT.json.

- **LeakedLoan.** `create_loan` commits the loan, then builds the info it returns; if that raises, the
  order manager rolls back the loans it knows of, and this one stays.
- **LateEvents.** An event made by a job waits for the next event of a source. A handler that passes
  it on (as the risk manager does) makes an event older than the clock, and the loop's assertion ends
  the backtest.
- **ListenKeyExpired.** `schedule_resubscription` makes a channel pending without waking the subscribe loop:
  after a listen key expired, no user data arrives until another channel is registered or the connection
  ends. This is why Subscribed speaks of `served`, not of `pending`.
- **UnknownFillPrice.** When a position is increased and nothing of the order was filled yet, the current
  position is the old one, not 0, and `avg_price` multiplies a fill price that is `None`: `check_loss`
  raises, or `switch_position` does after it created an order, which is then not tracked.
- **StalePosition.** `switch_position` reads the position, then takes the lock for "exclusive access to the
  position" (`samples/binance/position_manager.py:198` and 213) and does not read it again. The second of two
  switches creates its order for the position that the first has replaced, and the order of the first is
  forgotten. In a backtest, where reading does not suspend, it takes three coroutines.

Not given a run, but met while modelling:

- The hold of an order is an estimate for one fill (`order_mgr.py:343`); with a minimum fee, the first part
  of a sale can need quote balance of which nothing is on hold.
- With interest above the balances the margin level is a quotient of two negative numbers, and a loan is
  granted to an account worth less than nothing (`lending/margin.py:154`).
- With auto repay and interest in a symbol without a price, closing an order raises after the hold was
  released (`order_mgr.py:234`): no update, and the rest of the bar is skipped.
- A worker canceled before its first step stays registered and counts as idle (`helpers.py:103`): a later
  push creates no worker, and its work waits for ever. The dispatchers do not push after a cancel.
- Limits see fills only: two signals approved before the first is filled may exceed a limit together
  (`limits.py:47`, where MaxPositionsLimit bounds the open positions), and MaxGrossExposureLimit also
  blocks a signal that closes a position.
- `risk/types.py:33` says that live mode engages the kill switch on critical breaches; nothing but an operator
  does, and live is treated like paper.
- `update_from_diff` skips a diff that overlaps the book's update (`order_book_mirror.py:80`), so the next one
  is too old and the mirror starts again, although nothing was lost.

Where the words of the code say more than it does, and a property says what it does:

- `activate_kill_switch` is "blocking all new risk-increasing signals" (`risk/manager.py:90`), but
  `on_trading_signal` blocks every signal, those that close a position included (`manager.py:131`); the stop
  loss of the samples' position managers goes past it. KillSwitchHalts is the documented half: nothing grows.
- The tracker adds the profit of a fill to its `realized_pnl_today` whatever day the fill is of, unless it is
  a later one (`risk/portfolio.py:59`, 106), the ledger to the day of the fill (`ledger/ledger.py:128`): after
  a fill that was told late the daily loss cap and the report differ.
- `max_drawdown` is documented as "a fraction (0-1)" (`ledger/types.py:81`): it exceeds 1 when the equity falls
  below zero, and it is 0 while no trade was closed, whatever the curve (`ledger/metrics.py:126`). The Calmar
  ratio, "None if max drawdown is zero", divides by the first equity of the curve (`metrics.py:172`), which is
  zero with the default `initial_cash` of a ledger.
- A bar is "the summary of the trading activity in a given period" (`core/bar.py:37`), but a window ends one
  millisecond before the next begins (`bar.py:177`), and trades in between, which have microseconds, are
  accepted and are in no bar.
- The trailing stop "replaces the fixed stop loss once the position is profitable by at least this amount"
  (`strategy/types.py:50`), but `check` trails from the entry on and keeps the fixed stop, too
  (`barriers.py:149`). And a check that takes a part looks at nothing else (`barriers.py:127`): a position
  past its take profit stays until the next one.

And `exchange.py:273` says a stop order becomes a market order when the stop price is
reached, but `StopOrder.try_fill` returns before it looks at the price when the bar's liquidity is
below the pending amount (`orders.py:383`), so the order stays a stop order. And pushes that do not
yield create one worker (`helpers.py:104`: a worker that has not started counts as idle), so the
handlers of events of the same time mostly run one after the other; nothing promises otherwise.

## 6. The proofs

Eight modules hold theorems; every leaf is checked by tlapm with Z3, Zenon and LS4. Each theorem is about
every value of the constants, from the named assumptions that the modules state of them and from the
premises named below.

**Foundations** has what the others need and the libraries do not have in a form the provers can use.
The induction theorems of the library take a predicate as a parameter, which cannot be instantiated;
InductionOverNat says the same of a set of numbers, and from it follow the values of the community modules'
folds and sums: FoldExists (the recursion that FoldLeft and MapThenFoldSet choose has a solution),
SumOverMore, SumChanged and their like, the least and greatest elements of sets, and GreatestOfList.
All that the code adds up, filters or passes over in a loop is proved from these.

**The exchange** (`ExchangeProofs`), from BalancesAssumption, OrdersAssumption, LoansAssumption,
OrderManagerAssumption and ExchangeAssumption (balances are integers, scales positive, requests and bars
what `validate` and `Bar.__init__` let through): any symbols, pairs, balances, fees, requests, bars,
slippage and bounds.

- TypeCorrect: `Spec => []TypeOK`. Inductive with TypeInv, which adds that a running method is about an
  existing order.
- ClosedOrdersHoldNothing and LiquidityNeverOversold need IInv == TypeInv, TaskInv, OrdersInv and
  LiquidityBounded. TaskInv says what status the task's order has at each step (an order is `NEW` while
  it is borrowed for, `OPEN` while it is processed); without it a step could close an order that is not
  open, or hold for one that is. OrdersInv bounds the filled amount by the amount and ties status and
  holds together; without it a fill could take more than is pending, hence more than is left.
- LifecycleKept: `Spec => Lifecycle!Spec`. Each step is a step of OrderLifecycle or leaves the book
  alone, by the same invariant.
- HoldsAgree, DebtsAgree and BalancesAgree are one invariant, BooksInv: IInv, the three sums over all
  orders and all loans, and that an open loan has not paid interest yet. Each operation changes one term
  of a sum by what it changes the account (SumOfChanged) or appends one (SumAppended); the sums are functions
  on the numbers up to that of the records, by induction over it.
- LoansAlwaysSuffice needs ShortInv: while an order is borrowed for, what is short is only in symbols still
  to be borrowed, and nothing is short when it comes to the hold. It rests on
  the lemma AlwaysSolvent: what the rules of `Update` let through is all that ever changes the account.
- RefusalsLeaveNoTrace needs TraceInv: while loans are granted or rolled back, the account and the open
  loans are what add_order found, or that and the one loan that is remembered. Its premise NewInfosBuild
  says that the info of a loan just created can be built; LeakedLoan is the run without it.
- AllThatCanBeIsRepaid needs RepayInv: a loan of the symbol that is no longer on the list cannot be paid
  with what is left, because repaying only takes from what is available.
- LimitsAlwaysRespected is about one step: the slipped price is capped by the limit (a sale being a
  purchase with negated prices), and rounding is monotone (RoundingOrder), so the rounded quote amount is
  not worse than the rounded limit.
- FeesAreChargedOnce needs FeesInv: what an order was charged is the fee of what it traded. The part charged
  for a fill is the difference of two such fees, which is not negative since the fee grows with the amount.
- EveryUpdateIsPublished needs UpdatesInv (an accepted order was told of, or the task is about to) and
  LoansPriced. Its premise InfosAlwaysBuild says that `get_loans` does not raise: if it did after an order
  closed, the update would be lost, which is one of the disagreements of section 5.

**The dispatcher and its pool** (`DispatcherProofs`), from PoolAssumption and DispatcherAssumption: any number
of workers, sources and priorities, any initial events, finitely many initial jobs, any wiring of the
sources and any bounds. One lemma per operation of the pool says that PoolInv is kept and what it does to the
set of items in the pool; PoolInv adds to the counters that a worker waits at most once in `handed`, and only
while it is handed something (without it `Begin` could count a worker twice), and that a worker without a
place in the registry has not begun. The loop's steps combine them with DInv:

- Quiet: at the top of the loop, between jobs and after the end the pool is empty. It is what makes
  `wait` in the middle of the loop matter, and FinalizedAfterHandlers and half of ClockStandsStill follow.
- TargetAhead and NotStarted: the time the loop works up to is not past, and before there is a clock
  nothing runs. The other half of ClockStandsStill.
- NotOverdue: the clock does not pass a job that waits, since the least of the jobs is run first and
  `_last_dt` becomes the time of the next event only when no job is due. With PoolOnTime, which says the
  same of the items in the pool, it gives JobsSeeTheirTime.
- CountersRight: PoolInv itself, whatever handlers push and whenever the dispatcher is stopped.
- NothingIsLeftOver needs EndInv: from the moment the loop found no event, all events left are marked as
  late, and so are the jobs after the time up to which they are run. That nothing but a job runs while the
  loop drains comes from Quiet.
- PoolKeepsOrder: `Spec => PoolImplemented`, step by step. The mapping joins the queue with what workers
  were handed and have not begun. A worker that begins takes the first of the joined list, because of
  HandedOnce and because the queue is first in first out; BusyWithWork says that who runs, runs something.

**The WebSocket client** (`WebSocketProofs`), from BinanceAssumption: any channels, user data channels and
period. WInv is the conjunction of the properties with what makes them inductive:

- BatchInv: the batch is empty unless the subscribe loop works on it, and served once it was sent; without
  it NoneForgotten would be lost when `subscribe_to_channels` returns, or with a new connection.
- RequestsInv: a request to reconnect that is pending on a working connection was made during it, because
  `main` clears the event; ClosedOnRequestOnly follows in one step.
- StreamsInv: what is subscribed to is mapped, because the map only grows; MessagesFindTheirChannel follows,
  messages that are already under way included.
- KeepAlivesGoOn is inductive by itself: a job that is removed either was the last one scheduled, and then
  it is due and its call in progress, or leaves the last one in place.

CoreStepInv proves the part of the core client once, for every client.

**Trading** (`TradingProofs`), from PortfolioAssumption, LedgerAssumption and TradingAssumption: any finite
set of pairs, any limits, signals, prices, times told in any order, and bounds.

- BooksNeverTellApart needs BooksInv. AddingAgrees and ReducingAgrees are one fill: both books average and
  realize alike, although one works with what is left of a position and the other with what it was.
  DaysPassed says that the ledger has no profit for days that the tracker has not begun, without which
  the two would differ when the tracker resets its day; the profit of a fill of an earlier day
  goes to `late`, which is all they differ by, whatever the order of times; ClosedForgotten that a closed position leaves
  nothing, without which the next fill of the pair would start from an old price.
- KillSwitchAlwaysHalts: Ahead is where a position can come to. No step with the switch on takes the ends of
  that range further out: a signal is not approved, one that was is taken from the list and becomes orders
  that lead to the same place, a part of an order leads to between where the position is and where the order
  ends, and the stop loss leads to nothing held. It is a property of steps that needs the types only.
- MetricsAlwaysAgree needs LedgerInv: the cash is what there was and what the trades made, a sum to which
  each fill adds one term. That the one pass over the equity curve finds the largest fall is an induction
  over the curve: Seen says that the pass has found the greatest fall of those seen so far, compared as
  fractions, which needs products of unknowns and is split until each leaf has one.
- EquityAlwaysAgrees: the sums over pairs of the two books are term by term the same.
- EquityAlwaysAccounted needs CostInv: what was paid is what positions cost at their averages. It has the
  premise `[][Exact]_vars`: averages come out even in the unit of money. Without it the property is false by
  the rounding of an average, which shifts profit between what is held and what is realized. The amounts of
  the Trading run are chosen so that it holds there.
- TradingTypeCorrect: `Spec => []TypeOK`.

**The position manager** (`PositionProofs`), from PositionAssumption: any finite set of coroutines, any
amounts, and calls that raise whenever they may.

- LockExcludes: a coroutine with a call under way holds the lock. Others append to the lock's queue, and
  only the holder removes itself.
- FillsNeverGoBack needs PInv: what is tracked, and every update under way, says at most what the order has
  filled (InfoInv, EventsInv); the answer to a call about the tracked order says at least what is tracked
  (AnswerInv), because nobody else writes it without the lock; and a coroutine that has just created an
  order has not tracked it yet, so tracking it changes the order and not its fills.
- AlwaysSettled needs SInv, which adds that the last report of an order tells how it is (NewsInv), and that
  what is known of an order is how it is unless a report is still to come (FreshInv; an order known to be
  closed is as it is known anyway).
- PositionAlwaysKnown needs KInv: what is tracked, and each copy a switch works with, starts from what orders
  that are closed and came before filled, and knows its own order as it is once that is closed (Sound,
  CopySound), so that a switch, which creates an order only after the one of its copy is closed, adds exactly
  that one to what is counted. Unless an order went astray, the last one is tracked or about to be (LastInv).
  There is no premise on how many coroutines are at work: a copy that was replaced while its switch waited for
  the lock is as sound as any, and what replaced it is what is left out, which `astray` says.
- PositionTypeCorrect: `Spec => []TypeOK`.

**The order book mirror** (`MirrorProofs`), from MirrorAssumption: any prices, amounts, depths, and numbers of
updates, losses and failures.

- BookIsAccurate needs MInv: the book is the exchange's at the update it claims, down to its bounds
  (GoodBook), and the buffered diffs are of updates that were made. The amount at a price after some updates
  is that of the latest one that touches it, so a diff that begins right after the book's update, or before
  it, makes it the book of the diff's last update; applying the buffer to a snapshot is a fold, by induction
  over the buffer.
- NoRestartForNothing: a snapshot of the same update as the book shows the same amounts above both bounds, so
  no check finds a difference (NoMismatch), and the other ways back to Initializing are the reasons named.
- MirrorTypes: `Spec => []TypeOK`.

**Live trading** (`LiveProofs`), from BarAssumption, BarrierAssumption, RealtimeAssumption and
LiveAssumption: any trades, lags, windows, delays, barriers, priorities, workers and room.

- EventsStayInOrder needs InTurn: what handlers got of a source is not later than what waits in the pool,
  which is in order, and that is not later than the last event the loop took; an event held for want of room
  is that last one. It uses of the pool only what HandlerPool promises.
- BarsAlwaysComplete needs InStep. Holds: what the aggregator holds is the last part of what it accepted, in
  order, and what came before is of windows that were flushed. Opened: the window begins at a multiple of its
  length, trades of earlier ones are no longer accepted but for their last instant, only the first one is
  skipped. From these a flush takes exactly the trades of its window (WindowTrades), a trade accepted later is of
  no earlier window (LaterTrade), and a window that has trades when it is flushed gets its bar (HasTrades). The lists are folds that filter: FiltersAgree says that two of them make the same list when
  they agree on a part and take nothing else.
- AlwaysInsideBarriers needs BarrierInv: the barriers remember the best and the worst price since the entry,
  whether the break even stop is armed and whether a part was taken, which is the case if some check said so, and
  then one check only. A price inside the stop that trails the best price is
  inside one that trails any other (TrailsTheBest); after taking a part the price is the best there was.

**Only checked.** Liveness and what rests on fairness: MethodsReturn, RunEnds, Subscribed, Reconnects,
Resynchronizes, SwitchesEnd and CatchesUp. And EventsInOrder of a backtest, which depends on the wiring: with a
job that emits into a source whose events are passed on it is false, which is the LateEvents run, so that a
theorem would have to take the wiring of the Backtest run as its premise.

## 7. What is not modelled

PROJECT.json has the reason for each component: charts, plugins, the REST clients of the exchanges, Yahoo and
CSV files are drawing, loading, requests and parsing; the token bucket has one caller at a time and no state
but its own; the engine and the windows of the evaluation are wiring and arithmetic over dates; the other
samples are strategies made of indicators.

Within the modelled components:

- Exchange: queries (`get_balance`, `get_order_info`, ...) change nothing; validation of requests is a
  precondition of the inputs; the order container's reindexing every 50 orders only drops closed orders from a
  list that is filtered anyway; `InfiniteLiquidity` is a volume that never ends.
- Dispatchers: producers read files or connections; the realtime dispatcher's idle handlers and the warnings
  of `wait_all_timeout`.
- WebSocket clients: the parsing of messages, the calls `resolve_stream_name` that `gather` leaves running when
  one of them raises (in the model the calls of a batch end with the batch), the cancelation of the main
  task when the program stops, and the messages of Bitstamp and Hyperliquid, whose subscribe loops have fewer
  steps than Binance's.
- Risk, ledger, bot: the position size a signal suggests, of the metrics all but profits and drawdown, who
  may use the bot, its texts and its rate limiter, which only refuses messages.
- Samples: several pairs at once (they share nothing), borrowing and checkpoints of the position managers,
  the web server of the mirror's sample.
