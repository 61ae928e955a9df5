---------------------------- MODULE OrderManager ----------------------------
(***************************************************************************)
(* The life of the orders of the backtesting exchange                      *)
(* (basana/backtesting/order_mgr.py): an order is accepted with the        *)
(* balance it needs on hold, borrowed if need be, processed against bars,  *)
(* and closed, its hold released and loans repaid.                         *)
(*                                                                         *)
(* No method awaits, so a method runs alone, but it changes the account    *)
(* several times and may fail between two changes.  A method is therefore  *)
(* a run of steps, each with at most one call of the account's update; the *)
(* variable task says which step comes next and nothing else happens until *)
(* the method returned (task.at = "idle").                                 *)
(***************************************************************************)
EXTENDS LoanManager

CONSTANTS ImmediateProcessing,   \* immediate_order_processing
          FeePct, MinFee         \* fees.Percentage

ASSUME OrderManagerAssumption ==
    /\ ImmediateProcessing \in BOOLEAN
    /\ FeePct \in 0..99
    /\ MinFee \in Nat

VARIABLES orders,          \* OrderManager._orders, and the orders it refused
          holdsByOrder,    \* _holds_by_order, in the same positions
          liquidity,       \* _liquidity_strategies, per pair
          published,       \* the last order update pushed for each order
          task             \* the method being run

OrderIds == 1..Len(orders)
IsOpen(o) == orders[o].status = "OPEN"
NoUpdate == [status |-> "NEW", filled |-> 0]

\* The caller's view of an order in an update: get_order_info.
OrderInfo(o) == [status |-> orders[o].status, filled |-> orders[o].filled]

\* History: the account and the open loans, as add_order found them.
Snapshot == [balances |-> balances, holds |-> holds, borrowed |-> borrowed, loans |-> OpenLoans]
NoSnapshot == [balances |-> Zero, holds |-> Zero, borrowed |-> Zero, loans |-> {}]

\* at: the next step; order: the order being handled; caller: the method it is handled for;
\* short: symbols still to borrow; loanIds: loans granted so far, or still to be repaid.
Idle == [at |-> "idle", order |-> 0, caller |-> "none", short |-> {}, loanIds |-> {},
         before |-> NoSnapshot]

OrdersInit ==
    /\ orders = << >>
    /\ holdsByOrder = << >>
    /\ liquidity = [b \in Bases |-> [total |-> 0, used |-> 0]]
    /\ published = << >>
    /\ task = Idle

\* Order.__init__
NewOrder(req) ==
    [type |-> req.type, operation |-> req.operation, pair |-> req.pair, amount |-> req.amount,
     limit |-> req.limit, stop |-> req.stop,
     autoBorrow |-> req.autoBorrow, autoRepay |-> req.autoRepay,
     createdAt |-> now, status |-> "NEW", hit |-> FALSE,
     filled |-> 0, quote |-> 0, fees |-> 0, loans |-> {}]
-----------------------------------------------------------------------------
\* Mutation of Fee: every fill is charged as if it were the first.
FeePerFill(o, quoteAmount) == Larger((quoteAmount * FeePct + 99) \div 100, MinFee)

\* fees.Percentage.calculate_fees with round_fees: the fee due so far, less what was charged.
FeeDue(quoteFilled) == Larger((quoteFilled * FeePct + 99) \div 100, MinFee)
Fee(o, quoteAmount) == Larger(FeeDue(o.quote + quoteAmount) - o.fees, 0)

\* The balance updates of trading the amounts in the direction of the order, and paying the fee.
BalanceUpdates(o, baseAmount, quoteAmount, fee) ==
    [s \in Symbols |->
        IF s = o.pair THEN Sign(o) * baseAmount
        ELSE IF s = Quote THEN -Sign(o) * quoteAmount - fee
        ELSE 0]

(***************************************************************************)
(* _estimate_required_balances: what the order will take from the account  *)
(* at its own price, or the last one.  Without a price only the base       *)
(* amount is known, and there is no fee for a quote amount that rounds to  *)
(* nothing.                                                                *)
(***************************************************************************)
EstimatedPrice(o) ==
    CASE o.type = "Market"               -> lastBar[o.pair].close
      [] o.type = "Stop"                 -> o.stop
      [] o.type \in {"Limit", "StopLimit"} -> o.limit

RequiredBalances(o) ==
    LET quoteAmount == RoundQuote(o.amount * EstimatedPrice(o))
        fee         == IF quoteAmount = 0 THEN 0 ELSE Fee(o, quoteAmount)
        updates     == BalanceUpdates(o, o.amount, quoteAmount, fee)
    IN  [s \in Symbols |-> Larger(-updates[s], 0)]

\* Mutation of Shortfall: what is on hold counts as available.
HoldsIgnored(o, s) == RequiredBalances(o)[s] - balances[s]

\* What _borrow has to borrow before the required balances can be put on hold.
Shortfall(o, s) == RequiredBalances(o)[s] - Available(s)
-----------------------------------------------------------------------------
\* The next open order of the pair, once the order o was processed (on_bar_event's loop).
OpenOrdersAfter(o, pair) == {p \in OrderIds : p > o /\ IsOpen(p) /\ orders[p].pair = pair}

ProcessNextAfter(o, pair) ==
    LET rest == OpenOrdersAfter(o, pair)
    IN  IF rest = {} THEN Idle
        ELSE [Idle EXCEPT !.at = "process", !.order = Min(rest), !.caller = "on_bar_event"]

\* What follows once the task's order is done with: the next order of the bar, or returning.
NextTask == IF task.caller = "on_bar_event" THEN ProcessNextAfter(task.order, orders[task.order].pair)
            ELSE Idle

\* The symbol an order of this kind credits, whose loans auto_repay repays.
CreditSymbol(o) == IF o.operation = "BUY" THEN o.pair ELSE Quote

\* Mutation of TaskAfterClosing: an order is forgotten once it is canceled.
CanceledSilently(t, o) == IF o.status = "CANCELED" THEN Idle ELSE [t EXCEPT !.at = "push"]

(***************************************************************************)
(* _order_closed, once the hold was released: repay loans if asked to.     *)
(* get_loans raises when the info of any open loan can't be built, and     *)
(* nothing catches that: the method, and the bar it processes, end here.   *)
(***************************************************************************)
TaskAfterClosing(t, o) ==
    IF ~(o.autoRepay /\ o.filled > 0) THEN [t EXCEPT !.at = "push"]
    ELSE IF GetLoansFails THEN Idle
    ELSE [t EXCEPT !.at = "repay",
                   !.loanIds = {l \in OpenLoans : loans[l].symbol = CreditSymbol(o)}]
-----------------------------------------------------------------------------
(***************************************************************************)
(* add_order: create the order and find out what to borrow and to hold.    *)
(***************************************************************************)
AddOrder(req) ==
    LET o        == NewOrder(req)
        required == RequiredBalances(o)
        short    == {s \in Symbols : required[s] > 0 /\ Shortfall(o, s) > 0}
    IN  /\ task = Idle
        /\ orders' = Append(orders, o)
        /\ holdsByOrder' = Append(holdsByOrder, Zero)
        /\ published' = Append(published, NoUpdate)
        /\ task' = [Idle EXCEPT !.at = IF o.autoBorrow /\ short # {} THEN "borrow" ELSE "hold",
                                !.order = Len(orders) + 1,
                                !.caller = "add_order",
                                !.short = IF o.autoBorrow THEN short ELSE {},
                                !.before = Snapshot]
        /\ UNCHANGED <<account, now, lastBar, loans, liquidity>>

\* The base symbol is borrowed before the quote symbol.
NextShort == IF orders[task.order].pair \in task.short THEN orders[task.order].pair ELSE Quote

(***************************************************************************)
(* _borrow: one loan per symbol the account is short of.  create_loan      *)
(* commits the loan before it builds the info it returns; when that raises *)
(* the id of the loan is lost.                                             *)
(***************************************************************************)
BorrowNext ==
    LET s      == NextShort
        amount == Shortfall(orders[task.order], s)
        l      == Len(loans) + 1
        rest   == task.short \ {s}
        ids    == task.loanIds \union {l}
    IN  /\ task.at = "borrow"
        /\ CreateLoan(s, amount)
        /\ IF InfoFails(NewLoan(s, amount))
           THEN /\ task' = [task EXCEPT !.at = "rollback"]
                /\ UNCHANGED orders
           ELSE /\ task' = [task EXCEPT !.at = IF rest = {} THEN "hold" ELSE "borrow",
                                        !.short = rest, !.loanIds = ids]
                /\ orders' = IF rest = {} THEN [orders EXCEPT ![task.order].loans = ids] ELSE orders
        /\ UNCHANGED <<now, lastBar, holdsByOrder, liquidity, published>>

BorrowFails ==
    /\ task.at = "borrow"
    /\ ~CanCreateLoan(NextShort, Shortfall(orders[task.order], NextShort))
    /\ task' = [task EXCEPT !.at = "rollback"]
    /\ UNCHANGED <<account, now, lastBar, loans, orders, holdsByOrder, liquidity, published>>

\* _borrow's error path: cancel the loans already created ...
RollbackNext ==
    /\ task.at = "rollback"
    /\ task.loanIds # {}
    /\ CancelLoan(Min(task.loanIds))
    /\ task' = [task EXCEPT !.loanIds = task.loanIds \ {Min(task.loanIds)}]
    /\ UNCHANGED <<now, lastBar, orders, holdsByOrder, liquidity, published>>

\* Mutation of Refuse: the loans granted so far are kept.
RefuseAtOnce ==
    /\ task.at = "rollback"
    /\ orders' = [orders EXCEPT ![task.order].status = "REJECTED"]
    /\ task' = Idle
    /\ UNCHANGED <<account, now, lastBar, loans, holdsByOrder, liquidity, published>>

\* ... and raise.
Refuse ==
    /\ task.at = "rollback"
    /\ task.loanIds = {}
    /\ orders' = [orders EXCEPT ![task.order].status = "REJECTED"]
    /\ task' = Idle
    /\ UNCHANGED <<account, now, lastBar, loans, holdsByOrder, liquidity, published>>

(***************************************************************************)
(* add_order: hold the required balances; the order is accepted, and       *)
(* processed at once if immediate order processing is enabled.             *)
(***************************************************************************)
HoldRequired ==
    LET o        == task.order
        required == RequiredBalances(orders[o])
    IN  /\ task.at = "hold"
        /\ Update(Zero, required, Zero)
        /\ holdsByOrder' = [holdsByOrder EXCEPT ![o] = required]
        /\ orders' = [orders EXCEPT ![o].status = "OPEN"]
        /\ task' = [task EXCEPT !.at = IF ImmediateProcessing THEN "process" ELSE "push",
                                !.loanIds = {}, !.before = NoSnapshot]
        /\ UNCHANGED <<now, lastBar, loans, liquidity, published>>

\* add_order: not enough balance to accept the order.
HoldFails ==
    LET o == task.order
    IN  /\ task.at = "hold"
        /\ ~CanUpdate(Zero, RequiredBalances(orders[o]), Zero)
        /\ orders' = [orders EXCEPT ![o].status = "REJECTED"]
        /\ task' = Idle
        /\ UNCHANGED <<account, now, lastBar, loans, holdsByOrder, liquidity, published>>
-----------------------------------------------------------------------------
\* on_bar_event: new liquidity, then the open orders of the pair, oldest first.
OnBarEvent(b, bar) ==
    /\ liquidity' = [liquidity EXCEPT ![b] = LiquidityOfBar(bar)]
    /\ task' = ProcessNextAfter(0, b)

\* The bar the task's order is processed against, and what try_fill makes of it.
ProcessingBar ==
    LET bar == lastBar[orders[task.order].pair]
    IN  IF task.caller = "add_order" THEN FlatBar(bar) ELSE bar

FillOf(o, slip) ==
    TryFill(o, ProcessingBar, AvailableLiquidity(liquidity[o.pair]), slip)

\* _update_balances while the order is open: spend the hold first, as far as it goes.
HoldUpdates(hold, updates) ==
    [s \in Symbols |-> IF updates[s] < 0 THEN Larger(updates[s], -hold[s]) ELSE 0]

\* There is a fill, with both amounts, and the account can pay for it.
CanFill(o, hold, slip) ==
    /\ HasPrice(o.pair)
    /\ LET fill        == FillOf(o, slip)
           quoteAmount == RoundQuote(fill.amount * fill.price)
           updates     == BalanceUpdates(o, fill.amount, quoteAmount, Fee(o, quoteAmount))
       IN  /\ fill.filled
           /\ quoteAmount # 0
           /\ CanUpdate(updates, HoldUpdates(hold, updates), Zero)

(***************************************************************************)
(* _process_order, filled: the account pays, the liquidity is taken, the   *)
(* fill is added and an order filled in full is closed, which releases     *)
(* what is left of its hold.                                               *)
(***************************************************************************)
ProcessFilled(slip) ==
    LET id          == task.order
        o           == orders[id]
        hold        == holdsByOrder[id]
        fill        == FillOf(o, slip)
        quoteAmount == RoundQuote(fill.amount * fill.price)
        fee         == Fee(o, quoteAmount)
        updates     == BalanceUpdates(o, fill.amount, quoteAmount, fee)
        completed   == o.filled + fill.amount >= o.amount
        released    == IF completed THEN Negate(hold) ELSE HoldUpdates(hold, updates)
        filledOrder == [o EXCEPT !.filled = o.filled + fill.amount,
                                 !.quote = o.quote + quoteAmount,
                                 !.fees = o.fees + fee,
                                 !.hit = fill.hit,
                                 !.status = IF completed THEN "COMPLETED" ELSE "OPEN"]
    IN  /\ task.at = "process"
        /\ CanFill(o, hold, slip)
        /\ Update(updates, released, Zero)
        /\ holdsByOrder' = [holdsByOrder EXCEPT ![id] = Plus(hold, released)]
        /\ liquidity' = [liquidity EXCEPT ![o.pair].used = liquidity[o.pair].used + 100 * fill.amount]
        /\ orders' = [orders EXCEPT ![id] = filledOrder]
        /\ task' = IF completed THEN TaskAfterClosing(task, filledOrder)
                   ELSE [task EXCEPT !.at = "push"]
        /\ UNCHANGED <<now, lastBar, loans, published>>

(***************************************************************************)
(* _process_order and _order_not_filled: no fill, no balance for it, or no *)
(* price at all.  What try_fill noticed about the stop price stays.        *)
(***************************************************************************)
Tried(id, slip) ==
    IF HasPrice(orders[id].pair)
    THEN [orders[id] EXCEPT !.hit = FillOf(orders[id], slip).hit]
    ELSE orders[id]

\* A Market order, and a Stop order that was hit, are canceled.
ProcessCanceled(slip) ==
    LET id       == task.order
        canceled == [Tried(id, slip) EXCEPT !.status = "CANCELED"]
    IN  /\ task.at = "process"
        /\ ~CanFill(orders[id], holdsByOrder[id], slip)
        /\ CanceledIfNotFilled(Tried(id, slip))
        /\ orders' = [orders EXCEPT ![id] = canceled]
        /\ Update(Zero, Negate(holdsByOrder[id]), Zero)
        /\ holdsByOrder' = [holdsByOrder EXCEPT ![id] = Zero]
        /\ task' = TaskAfterClosing(task, canceled)
        /\ UNCHANGED <<now, lastBar, loans, liquidity, published>>

\* The others stay open; add_order publishes an order even if nothing happened to it.
ProcessUnfilled(slip) ==
    LET id == task.order
    IN  /\ task.at = "process"
        /\ ~CanFill(orders[id], holdsByOrder[id], slip)
        /\ ~CanceledIfNotFilled(Tried(id, slip))
        /\ orders' = [orders EXCEPT ![id] = Tried(id, slip)]
        /\ task' = IF task.caller = "add_order" THEN [task EXCEPT !.at = "push"] ELSE NextTask
        /\ UNCHANGED <<account, now, lastBar, loans, holdsByOrder, liquidity, published>>
-----------------------------------------------------------------------------
\* Mutation of CancelOrder: the hold is not released.
CancelKeepingHold(id) ==
    /\ task = Idle
    /\ IsOpen(id)
    /\ orders' = [orders EXCEPT ![id].status = "CANCELED"]
    /\ task' = TaskAfterClosing([Idle EXCEPT !.order = id, !.caller = "cancel_order"], orders[id])
    /\ UNCHANGED <<account, now, lastBar, loans, holdsByOrder, liquidity, published>>

\* cancel_order: only an open order; its hold is released.
CancelOrder(id) ==
    /\ task = Idle
    /\ IsOpen(id)
    /\ orders' = [orders EXCEPT ![id].status = "CANCELED"]
    /\ Update(Zero, Negate(holdsByOrder[id]), Zero)
    /\ holdsByOrder' = [holdsByOrder EXCEPT ![id] = Zero]
    /\ task' = TaskAfterClosing([Idle EXCEPT !.order = id, !.caller = "cancel_order"], orders[id])
    /\ UNCHANGED <<now, lastBar, loans, liquidity, published>>

\* Bigger loans are repaid first, and equal ones in the order they were made.
Biggest(ids) ==
    CHOOSE l \in ids : \A k \in ids : \/ loans[l].amount > loans[k].amount
                                      \/ loans[l].amount = loans[k].amount /\ l <= k

\* _repay_loans: repay what the balance allows ...
RepayNext ==
    LET id == task.order
        l  == Biggest(task.loanIds)
    IN  /\ task.at = "repay"
        /\ task.loanIds # {}
        /\ RepayLoan(l)
        /\ orders' = [orders EXCEPT ![id].loans = orders[id].loans \union {l}]
        /\ task' = [task EXCEPT !.loanIds = task.loanIds \ {l}]
        /\ UNCHANGED <<now, lastBar, holdsByOrder, liquidity, published>>

\* Mutations of SkipRepayment: the first loan that can't be repaid ends it, or is retried.
StopRepaying ==
    /\ task.at = "repay"
    /\ task.loanIds # {}
    /\ ~CanRepayLoan(Biggest(task.loanIds))
    /\ task' = [task EXCEPT !.loanIds = {}]
    /\ UNCHANGED <<account, now, lastBar, loans, orders, holdsByOrder, liquidity, published>>

RetryRepayment ==
    /\ task.at = "repay"
    /\ task.loanIds # {}
    /\ ~CanRepayLoan(Biggest(task.loanIds))
    /\ UNCHANGED <<account, now, lastBar, loans, orders, holdsByOrder, liquidity, published, task>>

\* ... skip what it does not ...
SkipRepayment ==
    LET l == Biggest(task.loanIds)
    IN  /\ task.at = "repay"
        /\ task.loanIds # {}
        /\ ~CanRepayLoan(l)
        /\ task' = [task EXCEPT !.loanIds = task.loanIds \ {l}]
        /\ UNCHANGED <<account, now, lastBar, loans, orders, holdsByOrder, liquidity, published>>

\* ... to the end of the list.
RepaymentDone ==
    /\ task.at = "repay"
    /\ task.loanIds = {}
    /\ task' = [task EXCEPT !.at = "push"]
    /\ UNCHANGED <<account, now, lastBar, loans, orders, holdsByOrder, liquidity, published>>

\* _push_order_update, once the dispatcher has a time; then the method goes on or returns.
PushOrderUpdate ==
    LET id == task.order
    IN  /\ task.at = "push"
        /\ published' = IF now > 0 THEN [published EXCEPT ![id] = OrderInfo(id)] ELSE published
        /\ task' = NextTask
        /\ UNCHANGED <<account, now, lastBar, loans, orders, holdsByOrder, liquidity>>
=============================================================================
