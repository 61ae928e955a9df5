---------------------------- MODULE TradingLedger ----------------------------
(***************************************************************************)
(* The trading ledger: the same fills, kept as open positions, the profit  *)
(* of each trade that closed, profit by day (by week goes alike), and a    *)
(* curve of the equity, from which the metrics are calculated.             *)
(***************************************************************************)
EXTENDS PortfolioTracker, Sequences, SequencesExt

CONSTANTS
    DayLength,          \* units of time in a day
    SnapshotInterval,   \* equity_snapshot_interval
    MaxTime             \* bound: the times callers give

ASSUME LedgerAssumption ==
    /\ DayLength \in Nat \ {0}
    /\ {SnapshotInterval, MaxTime} \subseteq Nat

Times == 0..MaxTime
Day(when) == when \div DayLength
Days == 0..Day(MaxTime)

\* A pair without an open position, which is absent from _positions.
Closed == [qty |-> 0, avg |-> 0, price |-> 0]
OpenPosition(qty, price) == [qty |-> qty, avg |-> price, price |-> price]

NeverTaken == -1

NewLedger ==
    [cash |-> InitialCash, positions |-> [p \in Pairs |-> Closed],
     trades |-> <<>>, curve |-> <<>>, taken |-> NeverTaken,
     daily |-> [d \in Days |-> 0]]

UnrealizedPnl(g) ==
    MapThenSumSet(LAMBDA p : (g.positions[p].price - g.positions[p].avg)
                                * g.positions[p].qty, Pairs)

EquityOf(g) == g.cash + UnrealizedPnl(g)

TakeSnapshot(g, when) ==
    [g EXCEPT !.curve = Append(@, EquityOf(g)), !.taken = when]

\* _maybe_snapshot.
MaybeSnapshot(g, when) ==
    IF g.taken = NeverTaken \/ when - g.taken >= SnapshotInterval
    THEN TakeSnapshot(g, when) ELSE g

\* A fill that adds to a position.
Added(pos, qty, price) ==
    [pos EXCEPT !.qty = @ + qty,
                !.avg = (Abs(pos.qty) * pos.avg + Abs(qty) * price) \div Abs(pos.qty + qty),
                !.price = price]

\* Mutation of Remaining: the new side keeps the average of the old one.
RemainingAtCost(pos, qty, price) ==
    IF pos.qty + qty = 0 THEN Closed ELSE [pos EXCEPT !.qty = @ + qty, !.price = price]

\* What is left of a position after a fill of the other side.
Remaining(pos, qty, price) ==
    CASE pos.qty + qty = 0 -> Closed
      [] pos.qty * (pos.qty + qty) < 0 -> OpenPosition(pos.qty + qty, price)
      [] OTHER -> [pos EXCEPT !.qty = @ + qty, !.price = price]

\* Mutation of ClosedQty: all of the fill.
WholeQty(pos, qty) == Abs(qty)

ClosedQty(pos, qty) == Smaller(Abs(qty), Abs(pos.qty))

Pnl(pos, qty, price) ==
    (IF pos.qty > 0 THEN price - pos.avg ELSE pos.avg - price) * ClosedQty(pos, qty)

\* A fill that reduces, closes or flips a position.
Reduce(g, pair, qty, price, when) ==
    LET pos == g.positions[pair]
        pnl == Pnl(pos, qty, price)
    IN  [g EXCEPT !.positions[pair] = Remaining(pos, qty, price),
                  !.trades = Append(@, pnl),
                  !.cash = @ + pnl,
                  !.daily[Day(when)] = @ + pnl]

LedgerFill(g, pair, qty, price, when) ==
    LET pos == g.positions[pair]
        filled == IF pos = Closed
                  THEN [g EXCEPT !.positions[pair] = OpenPosition(qty, price)]
                  ELSE IF pos.qty * qty > 0
                  THEN [g EXCEPT !.positions[pair] = Added(pos, qty, price)]
                  ELSE Reduce(g, pair, qty, price, when)
    IN  MaybeSnapshot(filled, when)

LedgerPrice(g, pair, price, when) ==
    MaybeSnapshot(IF g.positions[pair] = Closed THEN g
                  ELSE [g EXCEPT !.positions[pair].price = price], when)

-----------------------------------------------------------------------------
(* The metrics.                                                            *)

\* Mutation of MaxDrawdown: the peak is the first value.
DrawdownFromStart(curve) ==
    LET Further(r, equity) ==
            LET drop == r.peak - equity
            IN  IF r.peak > 0 /\ drop * r.of > r.drop * r.peak
                THEN [r EXCEPT !.drop = drop, !.of = r.peak] ELSE r
    IN  FoldLeft(Further, [peak |-> curve[1], drop |-> 0, of |-> 1], Tail(curve))

\* The loop of calculate_max_drawdown: one pass with a running peak.  A drawdown
\* is the fraction drop / peak, and fractions are compared multiplied out.
MaxDrawdown(curve) ==
    LET Further(r, equity) ==
            LET peak == IF equity > r.peak THEN equity ELSE r.peak
                drop == peak - equity
            IN  IF peak > 0 /\ drop * r.of > r.drop * peak
                THEN [peak |-> peak, drop |-> drop, of |-> peak]
                ELSE [r EXCEPT !.peak = peak]
    IN  FoldLeft(Further, [peak |-> curve[1], drop |-> 0, of |-> 1], Tail(curve))

\* The drawdown that calculate_metrics reports: none until a trade was closed,
\* whatever the curve, or before there are two values.
ReportedDrawdown(trades, curve) ==
    IF trades = <<>> \/ Len(curve) < 2
    THEN [peak |-> 0, drop |-> 0, of |-> 1]
    ELSE MaxDrawdown(curve)

Winners(trades) == {i \in DOMAIN trades : trades[i] > 0}
Losers(trades) == {i \in DOMAIN trades : trades[i] < 0}
Gross(trades, some) == Abs(MapThenSumSet(LAMBDA i : trades[i], some))
=============================================================================
