---------------------------- MODULE TradesToBars ----------------------------
(***************************************************************************)
(* RealTimeTradesToBar (core/bar.py): trades are collected and, a while    *)
(* after a window ended, made into its bar.  Times are in half             *)
(* milliseconds, since a window ends a millisecond before the next begins  *)
(* and trades may fall between the two.                                    *)
(***************************************************************************)
EXTENDS Integers, Sequences, SequencesExt

CONSTANTS
    BarDuration,   \* from the beginning of a window to that of the next
    FlushDelay     \* how long after its end a window is flushed

ASSUME BarAssumption ==
    /\ BarDuration \in Nat /\ BarDuration > 2
    /\ FlushDelay \in Nat

End(begin) == begin + BarDuration - 2

\* What main() starts with; the first window is usually incomplete, and skipped.
NewAggregator(now, skip) ==
    [trades |-> <<>>, nextGe |-> 0, skip |-> skip,
     begin |-> now - (now % BarDuration)]

\* push_trade: the first trade may have any time.
InOrder(agg, trade) == trade.when >= agg.nextGe
PushTrade(agg, trade) ==
    IF InOrder(agg, trade)
    THEN [agg EXCEPT !.trades = Append(@, trade), !.nextGe = trade.when]
    ELSE agg

Later(a, b) == IF a > b THEN a ELSE b

\* The first trades, up to one of a future window.
Current(agg) ==
    LET future == {i \in DOMAIN agg.trades : agg.trades[i].when > End(agg.begin)}
    IN  IF future = {} THEN agg.trades
        ELSE SubSeq(agg.trades, 1, (CHOOSE i \in future : \A j \in future : i <= j) - 1)

\* Of those, the ones of the window: older ones are reported and left out.
InWindow(agg) ==
    FoldLeft(LAMBDA found, t : IF t.when >= agg.begin THEN Append(found, t) ELSE found,
             <<>>, Current(agg))

BarOf(begin, trades) ==
    [begin |-> begin, when |-> End(begin),
     open |-> trades[1].price, close |-> trades[Len(trades)].price,
     high |-> FoldLeft(LAMBDA p, t : Later(p, t.price), trades[1].price, trades),
     low |-> -FoldLeft(LAMBDA p, t : Later(p, -t.price), -trades[1].price, trades),
     volume |-> Len(trades)]

\* _flush: the bars to publish, none or one, and what is left.
Flushed(agg) ==
    IF agg.skip \/ InWindow(agg) = <<>> THEN <<>>
    ELSE <<BarOf(agg.begin, InWindow(agg))>>

\* Mutation of AfterFlush: the trades of the next window are dropped.
AfterClear(agg) ==
    [trades |-> <<>>,
     nextGe |-> Later(agg.nextGe, End(agg.begin)),
     skip |-> FALSE,
     begin |-> agg.begin + BarDuration]

AfterFlush(agg) ==
    [trades |-> SubSeq(agg.trades, Len(Current(agg)) + 1, Len(agg.trades)),
     nextGe |-> Later(agg.nextGe, End(agg.begin)),
     skip |-> FALSE,
     begin |-> agg.begin + BarDuration]
=============================================================================
