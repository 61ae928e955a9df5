------------------------- MODULE ExchangeProperties -------------------------
(***************************************************************************)
(* What makes the backtesting exchange correct.                            *)
(***************************************************************************)
EXTENDS Exchange

OrderRecord ==
    [type : Types, operation : Operations, pair : Bases, amount : Nat \ {0},
     limit : Nat, stop : Nat, autoBorrow : BOOLEAN, autoRepay : BOOLEAN,
     createdAt : Nat, status : Statuses, hit : BOOLEAN,
     filled : Int, quote : Int, fees : Int, loans : SUBSET (Nat \ {0})]

LoanRecord == [symbol : Symbols, amount : Int, createdAt : Nat, isOpen : BOOLEAN, interest : Int]

Task == [at : {"idle", "borrow", "rollback", "hold", "process", "repay", "push"},
         order : Nat, caller : {"none", "add_order", "on_bar_event", "cancel_order"},
         short : SUBSET Symbols, loanIds : SUBSET (Nat \ {0}),
         before : [balances : [Symbols -> Int], holds : [Symbols -> Int],
                   borrowed : [Symbols -> Int], loans : SUBSET (Nat \ {0})]]

\* The types of the exchange's state (account_balances.py, loan_mgr.py, order_mgr.py).
TypeOK ==
    /\ AccountTypeOK
    /\ now \in Nat
    /\ lastBar \in [Bases -> Bar \union {NoBar}]
    /\ loans \in Seq(LoanRecord)
    /\ orders \in Seq(OrderRecord)
    /\ holdsByOrder \in Seq([Symbols -> Int]) /\ Len(holdsByOrder) = Len(orders)
    /\ published \in Seq([status : Statuses, filled : Int]) /\ Len(published) = Len(orders)
    /\ liquidity \in [Bases -> [total : Int, used : Int]]
    /\ task \in Task
-----------------------------------------------------------------------------
\* Between any two steps, what is on hold for a symbol is what the orders hold of it together
\* (order_mgr.py keeps _holds_by_order beside the account's own holds).
HoldsMatchOrders ==
    \A s \in Symbols :
        holds[s] = SumUpTo([o \in OrderIds |-> holdsByOrder[o][s]], Len(orders))

\* What the account owes is what it owed at the start and the principal of the open loans
\* (loan_mgr.py keeps its loans beside the account's borrowed map).
BorrowedMatchesLoans ==
    \A s \in Symbols :
        borrowed[s] = Larger(-InitialBalances[s], 0)
            + SumUpTo([l \in LoanIds |-> IF loans[l].symbol = s /\ loans[l].isOpen
                                         THEN loans[l].amount ELSE 0], Len(loans))

\* What the fills of an order brought and took, its fees included.
Traded(o, s) ==
    IF s = o.pair THEN Sign(o) * o.filled
    ELSE IF s = Quote THEN -Sign(o) * o.quote - o.fees
    ELSE 0

\* What a loan still adds to the balance of a symbol, and the interest it took.
Lent(l, s) ==
    (IF l.isOpen /\ l.symbol = s THEN l.amount ELSE 0) - (IF s = InterestSymbol THEN l.interest ELSE 0)

\* Every unit is accounted for: a balance is the initial one, what the orders' records say
\* was traded and charged, and what the loans' records say was lent and paid as interest
\* (order_mgr.py:_process_order and loan_mgr.py book the account and the records separately).
BalancesReconcile ==
    \A s \in Symbols :
        balances[s] = Larger(InitialBalances[s], 0)
            + SumUpTo([o \in OrderIds |-> Traded(orders[o], s)], Len(orders))
            + SumUpTo([l \in LoanIds |-> Lent(loans[l], s)], Len(loans))

\* An order holds nothing before it is accepted and after it is closed, however it was closed
\* (order_mgr.py:_order_closed is called on every path that closes an order).
OnlyOpenOrdersHold ==
    \A o \in OrderIds : orders[o].status # "OPEN" => holdsByOrder[o] = Zero

\* The bar's volume is never sold twice: the fills of a bar stay within the share of its
\* volume the strategy offers (liquidity.py:take_liquidity would raise in mid-fill).
LiquidityBounded ==
    \A b \in Bases : 0 <= liquidity[b].used /\ liquidity[b].used <= liquidity[b].total

\* However an order was split into fills, the fees charged are those of the whole amount traded,
\* rounded up once (fees.py: "we calculate the total fees to charge, and subtract what we have charged").
FeesChargedOnce ==
    \A o \in OrderIds : orders[o].filled > 0 => orders[o].fees = FeeDue(orders[o].quote)

\* Whoever subscribed to order events knows the state of every accepted order whenever the
\* exchange is at rest, except of orders created and left unfilled before the first event.
UpdatesPublished ==
    task = Idle =>
        \A o \in OrderIds :
            orders[o].status \in {"OPEN", "COMPLETED", "CANCELED"} =>
                \/ published[o] = OrderInfo(o)
                \/ published[o] = NoUpdate /\ orders[o].createdAt = 0 /\ orders[o].filled = 0

\* Once every loan an order needs was granted, the order is accepted
\* (order_mgr.py:add_order does not undo the loans when the hold fails).
LoansSuffice ==
    task.at = "hold" /\ orders[task.order].loans # {} =>
        CanUpdate(Zero, RequiredBalances(orders[task.order]), Zero)

-----------------------------------------------------------------------------
Rejects(o) == orders[o].status # "REJECTED" /\ orders'[o].status = "REJECTED"

\* A refused order leaves the account and the open loans as it found them: order_mgr.py:217, "If
\* there are any errors borrowing money we'll rollback everything before propagating the exception".
RefusalLeavesNoTrace ==
    [][\A o \in OrderIds : Rejects(o) => Snapshot' = task.before]_vars

\* Whatever the volume, the slippage and the rounding, no fill of a Limit or StopLimit order is
\* worse than its limit (orders.py: slipped_price is capped, and a stop that was hit keeps the limit).
LimitsRespected ==
    [][\A o \in OrderIds :
        orders[o].type \in {"Limit", "StopLimit"} =>
            LET base  == orders'[o].filled - orders[o].filled
                quote == orders'[o].quote - orders[o].quote
            IN  Sign(orders[o]) * quote <= Sign(orders[o]) * RoundQuote(base * orders[o].limit)]_vars

\* auto_repay repays all it can: when it is done, no open loan of the credited symbol could
\* still be repaid (order_mgr.py:_repay_loans goes on after a loan it cannot afford).
RepaysAllItCan ==
    [][task.at = "repay" /\ task'.at = "push" =>
        \A l \in OpenLoans :
            loans[l].symbol = CreditSymbol(orders[task.order]) => ~CanRepayLoan(l)]_vars

\* Every method of the exchange returns.
MethodsReturn == task.at # "idle" ~> task.at = "idle"

\* The orders of the exchange keep the promise of OrderLifecycle.
Entry(o) == [amount |-> o.amount, status |-> o.status, filled |-> o.filled]
Book == [o \in OrderIds |-> Entry(orders[o])]
Amounts == {r.amount : r \in Requests}
Lifecycle == INSTANCE OrderLifecycle WITH Amounts <- Amounts, book <- Book

KeepsLifecycle == Lifecycle!Spec
=============================================================================
