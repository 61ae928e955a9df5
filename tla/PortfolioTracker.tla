-------------------------- MODULE PortfolioTracker --------------------------
(***************************************************************************)
(* The portfolio tracker of the risk manager: positions, cash and profit,  *)
(* told from fills and prices.  A position that was never traded is one of *)
(* quantity 0, which snapshots leave out.  Amounts of money are integers,  *)
(* in a unit small enough for the average prices of a run to be exact.     *)
(***************************************************************************)
EXTENDS Integers, FiniteSets, FiniteSetsExt

CONSTANTS Pairs, InitialCash

ASSUME PortfolioAssumption == IsFiniteSet(Pairs) /\ InitialCash \in Int

Abs(n) == IF n < 0 THEN -n ELSE n
Smaller(a, b) == IF a < b THEN a ELSE b

NoDay == -1

NewPortfolio ==
    [qty |-> [p \in Pairs |-> 0], avg |-> [p \in Pairs |-> 0],
     price |-> [p \in Pairs |-> 0],
     cash |-> InitialCash, today |-> 0, total |-> 0, day |-> NoDay]

\* _maybe_reset_daily_pnl: the day only goes forward.
ResetDaily(f, day) ==
    IF day > f.day THEN [f EXCEPT !.day = day, !.today = 0] ELSE f

UpdatePrice(f, pair, price) == [f EXCEPT !.price[pair] = price]

\* The profit of what a fill closes of a position.
Realized(old, avg, qty, price) ==
    IF old * qty < 0
    THEN (IF old > 0 THEN price - avg ELSE avg - price) * Smaller(Abs(qty), Abs(old))
    ELSE 0

Weighted(old, avg, qty, price) ==
    (Abs(old) * avg + Abs(qty) * price) \div (Abs(old) + Abs(qty))

\* The average entry price after a fill: opened, added to, flipped, closed or
\* reduced.
NewAverage(old, avg, qty, price) ==
    CASE old = 0 -> price
      [] old * qty > 0 -> Weighted(old, avg, qty, price)
      [] old * qty <= 0 /\ old * (old + qty) < 0 -> price
      [] old # 0 /\ old + qty = 0 -> 0
      [] OTHER -> avg

RecordFill(f, pair, qty, price, day) ==
    LET g == ResetDaily(f, day)
        old == f.qty[pair]
        realized == Realized(old, f.avg[pair], qty, price)
    IN  [g EXCEPT !.qty[pair] = old + qty,
                  !.avg[pair] = NewAverage(old, f.avg[pair], qty, price),
                  !.price[pair] = price,
                  !.cash = @ + realized,
                  !.today = @ + realized,
                  !.total = @ + realized]

-----------------------------------------------------------------------------
(* What snapshot() tells of a portfolio that was reset for the day.        *)

Held(f) == {p \in Pairs : f.qty[p] # 0}
Notional(f, p) == Abs(f.qty[p] * f.price[p])
Unrealized(f) ==
    MapThenSumSet(LAMBDA p : (f.price[p] - f.avg[p]) * f.qty[p], Held(f))

Snapshot(f) ==
    [held |-> Held(f),
     notional |-> [p \in Pairs |-> Notional(f, p)],
     equity |-> f.cash + Unrealized(f),
     gross |-> MapThenSumSet(LAMBDA p : Notional(f, p), Held(f)),
     today |-> f.today,
     unrealized |-> Unrealized(f)]
=============================================================================
