------------------------------- MODULE Orders -------------------------------
(***************************************************************************)
(* How an order of each type is filled by a bar                            *)
(* (basana/backtesting/orders.py), with the liquidity the bar offers       *)
(* (liquidity.py, VolumeShareImpact).                                      *)
(*                                                                         *)
(* Prices are in units of the quote precision per whole base, amounts in   *)
(* units of the base precision, BaseScale of which make a whole base.      *)
(* Liquidity is in 1/100 of a base unit, because the strategy offers a     *)
(* percentage of the volume.                                               *)
(***************************************************************************)
EXTENDS ValueMap

CONSTANTS BaseScale,        \* 10^base_precision of a pair
          VolumeLimitPct    \* VolumeShareImpact's volume_limit_pct

ASSUME OrdersAssumption ==
    /\ BaseScale \in Nat \ {0}
    /\ VolumeLimitPct \in Nat

Types == {"Market", "Limit", "Stop", "StopLimit"}
Operations == {"BUY", "SELL"}

\* OrderState, before an order is accepted (NEW), and after it is refused (REJECTED).
Statuses == {"NEW", "OPEN", "COMPLETED", "CANCELED", "REJECTED"}

\* A bar as far as filling is concerned.  Bar.__init__ refuses any other shape.
IsBar(bar) ==
    /\ bar.open \in bar.low..bar.high
    /\ bar.close \in bar.low..bar.high

\* The bar immediate order processing synthesizes from the last close.
FlatBar(bar) == [bar EXCEPT !.open = bar.close, !.high = bar.close, !.low = bar.close]

(***************************************************************************)
(* round_decimal to the quote precision (half to even) and                 *)
(* truncate_decimal to the base precision.                                 *)
(***************************************************************************)
RoundQuote(n) ==
    LET q == n \div BaseScale
        r == n % BaseScale
    IN  IF 2 * r > BaseScale \/ (2 * r = BaseScale /\ q % 2 = 1) THEN q + 1 ELSE q

TruncateBase(liquidity) == liquidity \div 100

\* Mutation of AvailableLiquidity: what was used stays available.
TotalLiquidity(liq) == liq.total

\* VolumeShareImpact.on_bar and available_liquidity
LiquidityOfBar(bar) == [total |-> bar.volume * VolumeLimitPct, used |-> 0]
AvailableLiquidity(liq) == liq.total - liq.used

\* Mutation of AmountPending: partial fills are forgotten.
WholeAmount(o) == o.amount

AmountPending(o) == o.amount - o.filled
-----------------------------------------------------------------------------
(***************************************************************************)
(* The code spells out every price comparison twice, once per operation.   *)
(* A SELL is a BUY with prices negated, so both are written once, for a    *)
(* BUY: lower prices are better, a stop is reached from below.             *)
(***************************************************************************)
Sign(o) == IF o.operation = "BUY" THEN 1 ELSE -1

Seen(o, bar) ==
    IF o.operation = "BUY" THEN bar
    ELSE [bar EXCEPT !.open = -bar.open, !.high = -bar.low,
                     !.low = -bar.high, !.close = -bar.close]

\* Mutation of Capped: the limit does not cap the slippage.
Uncapped(price, slip, cap) == price + slip

\* slipped_price, without and with the cap; the impact of the taken volume is the input slip.
Slipped(price, slip) == price + slip
Capped(price, slip, cap) == Smaller(Slipped(price, slip), cap)

NoPrice == [found |-> FALSE, price |-> 0]
At(price) == [found |-> TRUE, price |-> price]

\* LimitOrder.try_fill
LimitPrice(limit, bar, slip) ==
    IF bar.open <= limit THEN At(Capped(bar.open, slip, limit))
    ELSE IF bar.low <= limit THEN At(limit)
    ELSE NoPrice

\* The stop price was reached at the open, or later within the bar.
StopReached(stop, bar) == bar.open >= stop \/ bar.high >= stop

\* StopOrder.try_fill
StopPrice(stop, bar, slip) ==
    IF StopReached(stop, bar) THEN At(Slipped(Larger(bar.open, stop), slip)) ELSE NoPrice

\* StopLimitOrder.try_fill_before_stop_hit
StopLimitPriceBefore(stop, limit, bar, slip) ==
    IF ~StopReached(stop, bar) THEN NoPrice
    ELSE IF bar.open >= stop /\ bar.open <= limit THEN At(Capped(bar.open, slip, limit))
    ELSE IF bar.low <= limit /\ limit <= bar.high THEN At(limit)
    ELSE NoPrice

\* StopLimitOrder.try_fill_after_stop_hit
StopLimitPriceAfter(limit, bar, slip) ==
    IF bar.open < limit THEN At(Capped(bar.open, slip, limit))
    ELSE IF bar.low <= limit THEN At(limit)
    ELSE NoPrice
-----------------------------------------------------------------------------
\* How much of the order the liquidity lets it fill: all or nothing for Market and Stop.
FillableAmount(o, avail) ==
    IF o.type \in {"Market", "Stop"}
    THEN IF AmountPending(o) * 100 > avail THEN 0 ELSE AmountPending(o)
    ELSE Smaller(AmountPending(o), TruncateBase(avail))

\* The price of the fill, as the order's side sees it.
FillPrice(o, bar, slip) ==
    LET seen  == Seen(o, bar)
        stop  == Sign(o) * o.stop
        limit == Sign(o) * o.limit
    IN  CASE o.type = "Market"    -> At(Slipped(seen.open, slip))
          [] o.type = "Limit"     -> LimitPrice(limit, seen, slip)
          [] o.type = "Stop"      -> StopPrice(stop, seen, slip)
          [] o.type = "StopLimit" -> IF o.hit THEN StopLimitPriceAfter(limit, seen, slip)
                                     ELSE StopLimitPriceBefore(stop, limit, seen, slip)

(***************************************************************************)
(* try_fill: whether the order is filled, by how much, at which price, and *)
(* whether its stop price has been hit.  Nothing at all happens, not even  *)
(* to the stop, when there is no liquidity for the order; a Stop remembers *)
(* that it was hit only when it is filled.                                 *)
(***************************************************************************)
TryFill(o, bar, avail, slip) ==
    LET amount == FillableAmount(o, avail)
        found  == FillPrice(o, bar, slip)
        price  == Sign(o) * found.price
        filled == amount # 0 /\ found.found /\ price # 0
        hit    == CASE o.type = "Stop"      -> filled
                    [] o.type = "StopLimit" -> amount # 0 /\ StopReached(Sign(o) * o.stop, Seen(o, bar))
                    [] OTHER                -> FALSE
    IN  [filled |-> filled, amount |-> amount, price |-> price, hit |-> o.hit \/ hit]

\* not_filled: what becomes of the order when a bar did not fill it.
CanceledIfNotFilled(o) == o.type = "Market" \/ (o.type = "Stop" /\ o.hit)
=============================================================================
