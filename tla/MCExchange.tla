----------------------------- MODULE MCExchange -----------------------------
(***************************************************************************)
(* Values for the constants of the exchange that a .cfg cannot spell out:  *)
(* balances, requests and bars of the runs.                                *)
(***************************************************************************)
EXTENDS ExchangeProperties

Order(type, operation, amount, limit, stop, autoBorrow, autoRepay) ==
    [type |-> type, operation |-> operation, pair |-> "BTC", amount |-> amount, limit |-> limit,
     stop |-> stop, autoBorrow |-> autoBorrow, autoRepay |-> autoRepay]

BarOf(open, high, low, close, volume) ==
    [open |-> open, high |-> high, low |-> low, close |-> close, volume |-> volume]

MCSymbols == {"BTC", "USD"}
MCBalances == [s \in MCSymbols |-> IF s = "USD" THEN 10 ELSE 0]

\* All order types.  Amounts are in half units of the base, so that amounts and fees round.
\* Some orders the account can pay for, others it can't, or only with a loan; a sale whose fee
\* exceeds its proceeds may need a loan of both symbols, of which the second may be refused.
MCRequests == {
    Order("Market", "BUY", 5, 0, 0, TRUE, FALSE), Order("Market", "SELL", 3, 0, 0, TRUE, FALSE),
    Order("Limit", "BUY", 5, 6, 0, TRUE, TRUE), Order("Limit", "SELL", 3, 1, 0, TRUE, TRUE),
    Order("Stop", "SELL", 1, 0, 4, TRUE, FALSE), Order("StopLimit", "BUY", 2, 7, 6, FALSE, FALSE)}

\* Bars that fill orders whole, in parts or not at all.
MCBars == [b \in {"BTC"} |-> {BarOf(4, 6, 3, 5, 20), BarOf(6, 7, 1, 4, 5)}]
=============================================================================
