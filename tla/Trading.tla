------------------------------- MODULE Trading -------------------------------
(***************************************************************************)
(* The risk manager between strategies and the position manager, with the  *)
(* two books that are told of every fill, the portfolio tracker (for the   *)
(* limits) and the trading ledger (for the reports), and the operators who *)
(* steer it through the Telegram bot.  Signals are decided on against what *)
(* was filled so far; what was approved waits in a queue, and what was     *)
(* taken from it waits for its fills.  Everyone dates what they tell as    *)
(* they like: the time of a fill is the exchange's, that of a signal its   *)
(* strategy's, and none has to be later than those told before.            *)
(***************************************************************************)
EXTENDS TradingLedger, RiskLimits

CONSTANTS
    Limits,        \* the limits in the order they are checked
    Modes, InitialMode,   \* the deployment modes operators use, and the first
    Signals,       \* the signals strategies give: pairs to targets
    Prices,        \* the prices each pair may have
    MaxFills,      \* bound: fills
    MaxWaiting     \* bound: approved signals waiting

ASSUME TradingAssumption ==
    /\ InitialMode \in Modes
    /\ Modes \subseteq {"monitor", "paper", "live"}
    /\ \A signal \in Signals :
        DOMAIN signal \subseteq Pairs /\ \A p \in DOMAIN signal : signal[p] \in Int
    /\ \A p \in Pairs : Prices[p] \subseteq Nat \ {0}
    /\ {MaxFills, MaxWaiting} \subseteq Nat

VARIABLES
    portfolio,   \* PortfolioTracker
    ledger,      \* TradingLedger
    mode, killed,
    approved,    \* signals pushed and not yet dispatched
    working,     \* what the orders of the position manager have still to fill
    fills,       \* how many there were
    paid,        \* history: what they cost in all, less what they brought
    late         \* history: the profit, since the day of the tracker began, of
                 \* fills dated before it

steering == <<mode, killed>>
books == <<portfolio, ledger, fills, paid, late>>
vars == <<books, steering, approved, working>>

Init ==
    /\ portfolio = NewPortfolio
    /\ ledger = NewLedger
    /\ mode = InitialMode
    /\ killed = FALSE
    /\ approved = <<>>
    /\ working = [p \in Pairs |-> 0]
    /\ fills = 0
    /\ paid = 0
    /\ late = 0

-----------------------------------------------------------------------------
(* Signals.                                                                *)

\* Mutation of Blocked: the kill switch goes unseen while no limit is exceeded.
BlockedByLimits(signal, snap) ==
    /\ mode # "monitor"
    /\ \E i \in DOMAIN Limits : ~Allows(Limits[i], signal, snap)

Blocked(signal, snap) ==
    /\ mode # "monitor"
    /\ killed \/ \E i \in DOMAIN Limits : ~Allows(Limits[i], signal, snap)

\* The tracker is asked for a snapshot, which may begin a day.
AsksSnapshot(when) ==
    /\ portfolio' = ResetDaily(portfolio, Day(when))
    /\ late' = IF Day(when) > portfolio.day THEN 0 ELSE late
    /\ UNCHANGED <<ledger, fills, paid>>

\* on_trading_signal.
OnTradingSignal(signal) ==
    /\ Len(approved) < MaxWaiting
    /\ \E when \in Times :
        /\ AsksSnapshot(when)
        /\ approved' = IF Blocked(signal, Snapshot(ResetDaily(portfolio, Day(when))))
                       THEN approved ELSE Append(approved, signal)
    /\ UNCHANGED <<steering, working>>

\* The position manager takes a signal: its orders go from the position it
\* has to the one it wants, instead of those still open.
TakeSignal ==
    /\ approved # <<>>
    /\ LET signal == Head(approved)
       IN  working' = [p \in Pairs |-> IF p \in DOMAIN signal
                                       THEN signal[p] - portfolio.qty[p]
                                       ELSE working[p]]
    /\ approved' = Tail(approved)
    /\ UNCHANGED <<books, steering>>

\* check_loss: on any bar the position manager may find the loss of a position
\* too large, and closes it, instead of what is still open, without asking the
\* risk manager.  The loss is of its own entry price, bid and ask: any.
StopLoss(pair) ==
    /\ portfolio.qty[pair] # 0
    /\ working' = [working EXCEPT ![pair] = -portfolio.qty[pair]]
    /\ UNCHANGED <<books, steering, approved>>

-----------------------------------------------------------------------------
(* Fills and prices, which both books are told of.                         *)

Part(n) == IF n > 0 THEN 1..n ELSE n..(-1)

RecordTheFill(pair) ==
    /\ working[pair] # 0
    /\ fills < MaxFills
    /\ \E qty \in Part(working[pair]), price \in Prices[pair], when \in Times :
        /\ portfolio' = RecordFill(portfolio, pair, qty, price, Day(when))
        /\ ledger' = LedgerFill(ledger, pair, qty, price, when)
        /\ working' = [working EXCEPT ![pair] = @ - qty]
        /\ paid' = paid + qty * price
        /\ late' = CASE Day(when) > portfolio.day -> 0
                     [] Day(when) = portfolio.day -> late
                     [] Day(when) < portfolio.day -> late + (ledger'.cash - ledger.cash)
    /\ fills' = fills + 1
    /\ UNCHANGED <<steering, approved>>

OnBarEvent(pair) ==
    /\ \E close \in Prices[pair], when \in Times :
        /\ portfolio' = UpdatePrice(portfolio, pair, close)
        /\ ledger' = LedgerPrice(ledger, pair, close, when)
    /\ UNCHANGED <<steering, approved, working, fills, paid, late>>

-----------------------------------------------------------------------------
(* The commands of an authorized user.  /kill_switch and /mode answer with  *)
(* a keyboard that stays until one of its buttons is pressed, whatever     *)
(* happened to the risk manager since; what its confirm button does is a   *)
(* matter of the button alone, so any of them may be pressed at any time.  *)

\* /status and /positions.
Status ==
    /\ \E now \in Times : AsksSnapshot(now)
    /\ UNCHANGED <<steering, approved, working>>

Buttons == ({"kill"} \X BOOLEAN) \cup ({"mode"} \X Modes)

\* callback_handler; the cancel buttons only edit the message.
Press(button) ==
    /\ killed' = IF button[1] = "kill" THEN button[2] ELSE killed
    /\ mode' = IF button[1] = "mode" THEN button[2] ELSE mode
    /\ UNCHANGED <<books, approved, working>>

Next ==
    \/ \E signal \in Signals : OnTradingSignal(signal)
    \/ TakeSignal
    \/ \E p \in Pairs : RecordTheFill(p) \/ OnBarEvent(p) \/ StopLoss(p)
    \/ Status
    \/ \E button \in Buttons : Press(button)

Spec == Init /\ [][Next]_vars

-----------------------------------------------------------------------------
(* Properties.                                                             *)

Position == [qty : Int, avg : Int, price : Int]

\* The state of the books, of the risk manager and of the orders (portfolio.py,
\* ledger.py, manager.py).
TypeOK ==
    /\ portfolio \in [qty : [Pairs -> Int], avg : [Pairs -> Int], price : [Pairs -> Int],
                      cash : Int, today : Int, total : Int, day : Days \cup {NoDay}]
    /\ DOMAIN ledger = {"cash", "positions", "trades", "curve", "taken", "daily"}
    /\ ledger.cash \in Int
    /\ ledger.positions \in [Pairs -> Position]
    /\ ledger.daily \in [Days -> Int]
    /\ mode \in Modes /\ killed \in BOOLEAN
    /\ approved \in Seq(Signals)
    /\ working \in [Pairs -> Int]
    /\ fills \in Nat /\ paid \in Int /\ late \in Int

\* The tracker and the ledger, two implementations of the same accounting,
\* never tell apart positions, entry prices, the marks of what is held and cash.
\* What the tracker has for its day (realized_pnl_today), which the daily loss
\* cap goes by, is what the ledger has for that date but for the fills of earlier
\* days that were told late, which only the tracker counts there.
PositionsAgree ==
    \A p \in Pairs :
        /\ portfolio.qty[p] = ledger.positions[p].qty
        /\ portfolio.avg[p] = ledger.positions[p].avg
        /\ portfolio.qty[p] # 0 => portfolio.price[p] = ledger.positions[p].price

ProfitAgrees ==
    /\ portfolio.cash = ledger.cash
    /\ portfolio.cash = InitialCash + portfolio.total
    /\ portfolio.day # NoDay => portfolio.today - late = ledger.daily[portfolio.day]

BooksAgree == PositionsAgree /\ ProfitAgrees

\* What the limits see and the reports say of equity is what was paid and
\* received in the fills, with what is held at its mark: adding to a position,
\* closing parts of it and flipping it lose nothing and count nothing twice.
EquityAccounted ==
    /\ EquityOf(ledger)
        = InitialCash - paid
          + MapThenSumSet(LAMBDA p : ledger.positions[p].qty * ledger.positions[p].price,
                          Pairs)
    /\ Snapshot(portfolio).equity = EquityOf(ledger)

\* The profits of the metrics, by winners and losers, add up to the cash.  Once
\* a trade was closed, the one pass over the equity curve finds the largest fall
\* from a peak, as a fraction of the peak, and none if there is none.  It is a
\* fraction (types.py says 0-1) while the curve does not go below zero.
MetricsAgree ==
    LET t == ledger.trades
        c == ledger.curve
        Peak(j) == Max({c[i] : i \in 1..j})
        m == ReportedDrawdown(t, c)
        falls == {j \in 2..Len(c) : Peak(j) > c[j] /\ Peak(j) > 0}
    IN  /\ Gross(t, Winners(t)) - Gross(t, Losers(t)) = ledger.cash - InitialCash
        /\ t # <<>> =>
            /\ \A j \in falls : (Peak(j) - c[j]) * m.of <= m.drop * Peak(j)
            /\ IF falls = {} THEN m.drop = 0
               ELSE \E j \in falls : (Peak(j) - c[j]) * m.of = m.drop * Peak(j)
        /\ (\A j \in DOMAIN c : c[j] >= 0) => m.drop <= m.of

\* Where the position in a pair can come to: closed, as it is, as the orders
\* under way leave it, or as a signal that was let through wants it.
Ahead(p) ==
    {0, portfolio.qty[p], portfolio.qty[p] + working[p]}
        \cup {approved[i][p] : i \in {j \in DOMAIN approved : p \in DOMAIN approved[j]}}

\* The kill switch blocks what increases risk (activate_kill_switch): while it is
\* on, and monitor mode does not let everything through, no position can come to
\* be larger than it already could, or to be on a side it could not, whatever
\* strategies signal, orders under way fill and the stop loss of the position
\* manager closes.
KillSwitchHalts ==
    [][killed /\ mode # "monitor" =>
        \A p \in Pairs : \A q \in Ahead(p)' :
            \E least, most \in Ahead(p) : least <= q /\ q <= most]_vars
=============================================================================
