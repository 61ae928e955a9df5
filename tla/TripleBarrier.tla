---------------------------- MODULE TripleBarrier ----------------------------
(***************************************************************************)
(* The exits of a position (core/strategy/barriers.py): barriers on its    *)
(* profit, on the fall from its best price, and on time.                   *)
(***************************************************************************)
EXTENDS Integers

CONSTANTS
    EntryPrice,
    StopLoss, TakeProfit, TrailingStop, BreakEven, Partial,  \* in percent
    TimeLimit

ASSUME BarrierAssumption ==
    /\ EntryPrice \in Nat \ {0}
    /\ {StopLoss, TakeProfit, TrailingStop, BreakEven, Partial, TimeLimit} \subseteq Nat \ {0}

NewBarrier(long, when) ==
    [long |-> long, entered |-> when, peak |-> EntryPrice, trough |-> EntryPrice,
     armed |-> FALSE, partial |-> FALSE]

Gain(b, from, price) == IF b.long THEN price - from ELSE from - price

\* A gain or loss of so many percent of what it is measured from.
Gained(b, from, price, pct) == Gain(b, from, price) * 100 >= pct * from
Lost(b, from, price, pct) == Gain(b, from, price) * 100 <= -pct * from

Best(b) == IF b.long THEN b.peak ELSE b.trough

\* Mutation of Tracked: only the highest price is kept.
TrackedHigh(b, price) ==
    [b EXCEPT !.peak = IF price > @ THEN price ELSE @,
              !.armed = @ \/ Gained(b, EntryPrice, price, BreakEven)]

Tracked(b, price) ==
    [b EXCEPT !.peak = IF price > @ THEN price ELSE @,
              !.trough = IF price < @ THEN price ELSE @,
              !.armed = @ \/ Gained(b, EntryPrice, price, BreakEven)]

\* Why check() says to exit, of a barrier that has seen the price.
Reason(b, price, when) ==
    CASE ~b.partial /\ Gained(b, EntryPrice, price, Partial) -> "partial_take_profit"
      [] OTHER ->
    CASE Gained(b, EntryPrice, price, TakeProfit) -> "take_profit"
      [] OTHER ->
    CASE b.armed /\ Gain(b, EntryPrice, price) <= 0 -> "break_even_stop"
      [] OTHER ->
    CASE Lost(b, Best(b), price, TrailingStop) -> "trailing_stop"
      [] OTHER ->
    CASE Lost(b, EntryPrice, price, StopLoss) -> "stop_loss"
      [] OTHER -> IF when - b.entered >= TimeLimit THEN "time_exit" ELSE "none"

\* check().
Check(b, price, when) ==
    LET seen == Tracked(b, price)
        reason == Reason(seen, price, when)
    IN  [barrier |-> [seen EXCEPT !.partial = @ \/ reason = "partial_take_profit"],
         reason |-> reason]
=============================================================================
