------------------------------ MODULE Exchange ------------------------------
(***************************************************************************)
(* The backtesting exchange (basana/backtesting/exchange.py): the account, *)
(* the loan manager and the order manager, driven by the bars of a         *)
(* backtest and by the requests of a trading strategy, in any order.       *)
(***************************************************************************)
EXTENDS OrderManager

CONSTANTS Requests,      \* the orders a strategy may ask for
          LoanAmounts,   \* the amounts it may borrow directly
          Bars,          \* what a bar of each pair may look like
          Slips,         \* the price impacts a fill may suffer
          MaxOrders, MaxLoans, MaxBars   \* bounds: requests and bars of a behaviour

managers == <<orders, holdsByOrder, liquidity, published, task>>
vars == <<account, now, lastBar, loans, managers>>

\* What a request that passed validate() looks like.
Request == [type : Types, operation : Operations, pair : Bases, amount : Nat \ {0},
            limit : Nat, stop : Nat, autoBorrow : BOOLEAN, autoRepay : BOOLEAN]

Bar == [open : Nat \ {0}, high : Nat \ {0}, low : Nat \ {0}, close : Nat \ {0}, volume : Nat]

ASSUME ExchangeAssumption ==
    /\ Requests \subseteq Request
    /\ \A r \in Requests : /\ r.type \in {"Limit", "StopLimit"} => r.limit > 0
                           /\ r.type \in {"Stop", "StopLimit"} => r.stop > 0
    /\ LoanAmounts \subseteq Nat \ {0}
    /\ Bars \in [Bases -> SUBSET Bar]
    /\ \A b \in Bases : \A bar \in Bars[b] : IsBar(bar)
    /\ Slips \subseteq Nat
    /\ MaxOrders \in Nat /\ MaxLoans \in Nat /\ MaxBars \in Nat

Init ==
    /\ AccountInit
    /\ LoansInit
    /\ OrdersInit

-----------------------------------------------------------------------------
\* create_order
RequestOrder == \E req \in Requests : Len(orders) < MaxOrders /\ AddOrder(req)

\* cancel_order
RequestCancel == \E id \in OrderIds : CancelOrder(id)

\* create_loan: the loan is committed even when building its info raises.
RequestLoan ==
    /\ task = Idle
    /\ Len(loans) < MaxLoans
    /\ \E s \in Symbols, amount \in LoanAmounts : CreateLoan(s, amount)
    /\ UNCHANGED <<now, lastBar, managers>>

\* repay_loan
RequestRepayment ==
    /\ task = Idle
    /\ \E l \in LoanIds : RepayLoan(l)
    /\ UNCHANGED <<now, lastBar, managers>>

\* _on_bar_event: the price first, then the orders.
NewBar ==
    /\ task = Idle
    /\ now < MaxBars
    /\ \E b \in Bases : \E bar \in Bars[b] :
        /\ lastBar' = [lastBar EXCEPT ![b] = bar]
        /\ OnBarEvent(b, bar)
    /\ now' = now + 1
    /\ UNCHANGED <<account, loans, orders, holdsByOrder, published>>

\* The next step of the method being run.
MethodStep ==
    \/ BorrowNext
    \/ BorrowFails
    \/ RollbackNext
    \/ Refuse
    \/ HoldRequired
    \/ HoldFails
    \/ \E slip \in Slips : ProcessFilled(slip)
    \/ \E slip \in Slips : ProcessCanceled(slip)
    \/ \E slip \in Slips : ProcessUnfilled(slip)
    \/ RepayNext
    \/ SkipRepayment
    \/ RepaymentDone
    \/ PushOrderUpdate

\* Nothing more is asked of the exchange.
Rest == task = Idle /\ UNCHANGED vars

Next ==
    \/ RequestOrder
    \/ RequestCancel
    \/ RequestLoan
    \/ RequestRepayment
    \/ NewBar
    \/ MethodStep
    \/ Rest

Spec == Init /\ [][Next]_vars

\* A method runs to its end: nothing in it awaits.
FairSpec == Spec /\ WF_vars(MethodStep)
=============================================================================
