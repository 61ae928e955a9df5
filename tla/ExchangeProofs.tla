--------------------------- MODULE ExchangeProofs ---------------------------
(***************************************************************************)
(* The backtesting exchange, for every account, every set of requests and  *)
(* bars, and any bounds: it is type correct, the account is always         *)
(* solvent, a closed order holds nothing, the volume of a bar is not sold  *)
(* twice, and the orders keep the promise of OrderLifecycle; no fill is    *)
(* worse than the limit, the fee of an order does not depend on how it was *)
(* split into fills, and whatever becomes of an accepted order is told.    *)
(*                                                                         *)
(* The second half is about the books: what is on hold is what the orders  *)
(* hold, what is owed is what the open loans say, and every unit of a      *)
(* balance was there at the start, traded, charged, lent or paid back.     *)
(* The loans granted for an order are enough to accept it, an order that   *)
(* is refused leaves nothing behind as long as the info of a new loan can  *)
(* be built, and auto_repay repays all it can.                             *)
(***************************************************************************)
EXTENDS ExchangeProperties, Foundations, TLAPS, SequenceTheorems

-----------------------------------------------------------------------------
(***************************************************************************)
(* Arithmetic.                                                             *)
(***************************************************************************)

\* The ceilings, floors and roundings of the code yield integers.
LEMMA Rounded ==
    ASSUME NEW n \in Int
    PROVE  RoundQuote(n) \in Int /\ TruncateBase(n) \in Int
BY OrdersAssumption DEF RoundQuote, TruncateBase

\* Sums and differences of maps are maps.
LEMMA MapArithmetic ==
    ASSUME NEW f \in [Symbols -> Int], NEW g \in [Symbols -> Int]
    PROVE  /\ Plus(f, g) \in [Symbols -> Int]
           /\ Minus(f, g) \in [Symbols -> Int]
           /\ Negate(f) \in [Symbols -> Int]
BY DEF Plus, Minus, Negate

LEMMA ZeroType == Zero \in [Symbols -> Int]
BY DEF Zero, ZeroMap

LEMMA SingleType ==
    ASSUME NEW s \in Symbols, NEW a \in Int
    PROVE  Single(Symbols, s, a) \in [Symbols -> Int]
BY DEF Single
-----------------------------------------------------------------------------
(***************************************************************************)
(* What an order requires, pays and holds.                                 *)
(***************************************************************************)

LEMMA QuoteNotBase ==
    /\ Bases \subseteq Symbols /\ Quote \in Symbols /\ Quote \notin Bases
    /\ InterestSymbol \in Symbols
BY LoansAssumption DEF Bases

LEMMA FeeType ==
    ASSUME NEW o \in OrderRecord, NEW q \in Int
    PROVE  FeeDue(q) \in Int /\ Fee(o, q) \in Int
<1>1. FeePct \in Int /\ MinFee \in Int
    BY OrderManagerAssumption
<1>2. \A n \in Int : (n * FeePct + 99) \div 100 \in Int
    BY <1>1
<1>3. \A n \in Int : FeeDue(n) \in Int
    BY <1>1, <1>2 DEF FeeDue, Larger
<1>4. o.quote \in Int /\ o.fees \in Int
    BY DEF OrderRecord
<1>5. FeeDue(o.quote + q) - o.fees \in Int
    BY <1>3, <1>4
<1>. QED
    BY <1>3, <1>5 DEF Fee, Larger

LEMMA BalanceUpdatesType ==
    ASSUME NEW o \in OrderRecord, NEW b \in Int, NEW q \in Int, NEW f \in Int
    PROVE  BalanceUpdates(o, b, q, f) \in [Symbols -> Int]
BY DEF BalanceUpdates, Sign

LEMMA EstimatedPriceType ==
    ASSUME TypeOK, NEW o \in OrderRecord
    PROVE  EstimatedPrice(o) \in Int
<1>1. o.type \in Types /\ o.pair \in Bases /\ o.stop \in Int /\ o.limit \in Int
    BY DEF OrderRecord
<1>2. lastBar[o.pair].close \in Int
    BY <1>1 DEF TypeOK, Bar, NoBar
<1>. QED
    BY <1>1, <1>2 DEF EstimatedPrice, Types

LEMMA RequiredBalancesType ==
    ASSUME TypeOK, NEW o \in OrderRecord
    PROVE  /\ RequiredBalances(o) \in [Symbols -> Int]
           /\ \A s \in Symbols : RequiredBalances(o)[s] >= 0 /\ Shortfall(o, s) \in Int
<1>. DEFINE quoteAmount == RoundQuote(o.amount * EstimatedPrice(o))
            fee == IF quoteAmount = 0 THEN 0 ELSE Fee(o, quoteAmount)
            updates == BalanceUpdates(o, o.amount, quoteAmount, fee)
<1>1. o.amount \in Int
    BY DEF OrderRecord
<1>2. o.amount * EstimatedPrice(o) \in Int
    BY <1>1, EstimatedPriceType
<1>3. quoteAmount \in Int
    BY <1>2, Rounded
<1>4. fee \in Int
    BY <1>3, FeeType
<1>5. updates \in [Symbols -> Int]
    BY <1>1, <1>3, <1>4, BalanceUpdatesType
<1>6. RequiredBalances(o) = [s \in Symbols |-> Larger(-updates[s], 0)]
    BY DEF RequiredBalances
<1>7. \A s \in Symbols : -updates[s] \in Int
    BY <1>5
<1>. HIDE DEF updates
<1>8. \A s \in Symbols : Larger(-updates[s], 0) \in Int /\ Larger(-updates[s], 0) >= 0
    BY <1>7 DEF Larger
<1>9. /\ RequiredBalances(o) \in [Symbols -> Int]
      /\ \A s \in Symbols : RequiredBalances(o)[s] >= 0
    BY <1>6, <1>8
<1>10. \A s \in Symbols : Shortfall(o, s) \in Int
    BY <1>9 DEF Shortfall, Available, TypeOK, AccountTypeOK
<1>. QED
    BY <1>9, <1>10

LEMMA HoldUpdatesType ==
    ASSUME NEW hold \in [Symbols -> Int], NEW updates \in [Symbols -> Int]
    PROVE  HoldUpdates(hold, updates) \in [Symbols -> Int]
BY DEF HoldUpdates, Larger
-----------------------------------------------------------------------------
(***************************************************************************)
(* What a bar makes of an order.                                           *)
(***************************************************************************)

IntBar == [open : Int, high : Int, low : Int, close : Int, volume : Int]

\* A price that was found or not.
IntPrice == [found : BOOLEAN, price : Int]

LEMMA PricesFound ==
    ASSUME NEW bar \in IntBar, NEW limit \in Int, NEW stop \in Int, NEW slip \in Int
    PROVE  /\ LimitPrice(limit, bar, slip) \in IntPrice
           /\ StopPrice(stop, bar, slip) \in IntPrice
           /\ StopLimitPriceBefore(stop, limit, bar, slip) \in IntPrice
           /\ StopLimitPriceAfter(limit, bar, slip) \in IntPrice
<1>1. /\ bar.open \in Int /\ bar.high \in Int /\ bar.low \in Int
      /\ NoPrice \in IntPrice
      /\ \A p \in Int : At(p) \in IntPrice
    BY DEF IntBar, IntPrice, NoPrice, At
<1>2. \A p, cap \in Int : Slipped(p, slip) \in Int /\ Capped(p, slip, cap) \in Int
    BY DEF Slipped, Capped, Smaller
<1>3. Larger(bar.open, stop) \in Int
    BY <1>1 DEF Larger
<1>4. LimitPrice(limit, bar, slip) \in IntPrice
    BY <1>1, <1>2 DEF LimitPrice
<1>5. StopPrice(stop, bar, slip) \in IntPrice
    BY <1>1, <1>2, <1>3 DEF StopPrice
<1>6. StopLimitPriceBefore(stop, limit, bar, slip) \in IntPrice
    BY <1>1, <1>2 DEF StopLimitPriceBefore
<1>7. StopLimitPriceAfter(limit, bar, slip) \in IntPrice
    BY <1>1, <1>2 DEF StopLimitPriceAfter
<1>. QED
    BY <1>4, <1>5, <1>6, <1>7

LEMMA FillPriceType ==
    ASSUME NEW o \in OrderRecord, NEW bar \in IntBar, NEW slip \in Int
    PROVE  FillPrice(o, bar, slip) \in IntPrice
<1>. DEFINE seen == Seen(o, bar)
            stop == Sign(o) * o.stop
            limit == Sign(o) * o.limit
<1>1. o.type \in Types /\ o.hit \in BOOLEAN /\ o.stop \in Int /\ o.limit \in Int /\ Sign(o) \in Int
    BY DEF OrderRecord, Sign
<1>2. seen \in IntBar
    <2>1. /\ -bar.open \in Int /\ -bar.high \in Int /\ -bar.low \in Int /\ -bar.close \in Int
        BY DEF IntBar
    <2>2. [bar EXCEPT !.open = -bar.open, !.high = -bar.low,
                      !.low = -bar.high, !.close = -bar.close] \in IntBar
        BY <2>1 DEF IntBar
    <2>. QED
        BY <2>2 DEF Seen
<1>3. stop \in Int /\ limit \in Int
    BY <1>1
<1>4. At(Slipped(seen.open, slip)) \in IntPrice
    BY <1>2 DEF At, Slipped, IntPrice, IntBar
<1>. HIDE DEF seen, stop, limit
<1>5. /\ LimitPrice(limit, seen, slip) \in IntPrice
      /\ StopPrice(stop, seen, slip) \in IntPrice
      /\ StopLimitPriceBefore(stop, limit, seen, slip) \in IntPrice
      /\ StopLimitPriceAfter(limit, seen, slip) \in IntPrice
    BY <1>2, <1>3, PricesFound
<1>. QED
    BY <1>1, <1>4, <1>5 DEF FillPrice, seen, stop, limit, Types

LEMMA TryFillType ==
    ASSUME NEW o \in OrderRecord, NEW bar \in IntBar, NEW avail \in Int, NEW slip \in Int
    PROVE  TryFill(o, bar, avail, slip)
               \in [filled : BOOLEAN, amount : Int, price : Int, hit : BOOLEAN]
<1>1. /\ o.hit \in BOOLEAN /\ o.type \in Types /\ Sign(o) \in Int
      /\ o.amount \in Int /\ o.filled \in Int
    BY DEF OrderRecord, Sign
<1>2. FillableAmount(o, avail) \in Int
    <2>1. AmountPending(o) \in Int /\ TruncateBase(avail) \in Int
        BY <1>1, Rounded DEF AmountPending
    <2>. QED
        BY <2>1 DEF FillableAmount, Smaller
<1>3. FillPrice(o, bar, slip) \in IntPrice
    BY FillPriceType
<1>4. /\ FillPrice(o, bar, slip).found \in BOOLEAN
      /\ FillPrice(o, bar, slip).price \in Int
    BY <1>3 DEF IntPrice
<1>5. Sign(o) * FillPrice(o, bar, slip).price \in Int
    BY <1>1, <1>4
<1>. QED
    BY <1>1, <1>2, <1>4, <1>5 DEF TryFill
-----------------------------------------------------------------------------
(***************************************************************************)
(* The inductive invariant: the method being run handles an order.         *)
(***************************************************************************)

TypeInv == TypeOK /\ (task.at # "idle" => task.order \in OrderIds)

LEMMA OrderTypes ==
    ASSUME TypeOK, NEW o \in OrderIds
    PROVE  /\ orders[o] \in OrderRecord
           /\ orders[o].pair \in Bases
           /\ holdsByOrder[o] \in [Symbols -> Int]
<1>1. /\ orders \in Seq(OrderRecord)
      /\ holdsByOrder \in Seq([Symbols -> Int]) /\ Len(holdsByOrder) = Len(orders)
    BY DEF TypeOK
<1>2. o \in 1..Len(orders) /\ o \in 1..Len(holdsByOrder)
    BY <1>1 DEF OrderIds
<1>3. orders[o] \in OrderRecord /\ holdsByOrder[o] \in [Symbols -> Int]
    BY <1>1, <1>2, ElementOfSeq
<1>. QED
    BY <1>3 DEF OrderRecord

LEMMA TheTasksOrder ==
    ASSUME TypeInv, task.at # "idle"
    PROVE  /\ task.order \in OrderIds
           /\ orders[task.order] \in OrderRecord
           /\ orders[task.order].pair \in Bases
           /\ holdsByOrder[task.order] \in [Symbols -> Int]
BY OrderTypes DEF TypeInv

LEMMA FillOfType ==
    ASSUME TypeInv, task.at # "idle", NEW slip \in Slips
    PROVE  FillOf(orders[task.order], slip)
               \in [filled : BOOLEAN, amount : Int, price : Int, hit : BOOLEAN]
<1>. DEFINE o == orders[task.order]
<1>1. o \in OrderRecord /\ o.pair \in Bases
    BY TheTasksOrder
<1>2. lastBar[o.pair] \in IntBar
    BY <1>1 DEF TypeInv, TypeOK, Bar, NoBar, IntBar
<1>3. FlatBar(lastBar[o.pair]) \in IntBar
    BY <1>2 DEF FlatBar, IntBar
<1>4. ProcessingBar \in IntBar
    BY <1>2, <1>3 DEF ProcessingBar
<1>5. AvailableLiquidity(liquidity[o.pair]) \in Int
    BY <1>1 DEF TypeInv, TypeOK, AvailableLiquidity
<1>6. slip \in Int
    BY ExchangeAssumption
<1>. HIDE DEF o
<1>7. FillOf(o, slip) \in [filled : BOOLEAN, amount : Int, price : Int, hit : BOOLEAN]
    BY <1>1, <1>4, <1>5, <1>6, TryFillType DEF FillOf
<1>. QED
    BY <1>7 DEF o

LEMMA InterestType ==
    ASSUME TypeOK, NEW loan \in LoanRecord, ~InfoFails(loan)
    PROVE  Interest(loan) \in Int /\ Repayment(loan) \in [Symbols -> Int]
<1>1. /\ loan.amount \in Int /\ loan.createdAt \in Int /\ now \in Int /\ loan.symbol \in Symbols
      /\ InterestPct \in Int /\ InterestPeriod \in Nat /\ MinInterest \in Int
      /\ InterestSymbol \in Symbols /\ BaseScale \in Nat \ {0}
    BY LoansAssumption, OrdersAssumption DEF TypeOK, LoanRecord
<1>2. now - loan.createdAt \in Int
    BY <1>1
<1>3. loan.amount * InterestPct \in Int
    BY <1>1
<1>4. InterestNum(loan) \in Int
    <2>1. CASE InterestPeriod = 0
        BY <1>3, <2>1 DEF InterestNum
    <2>2. CASE InterestPeriod # 0
        BY <1>2, <1>3, <2>2 DEF InterestNum
    <2>. QED
        BY <2>1, <2>2
<1>5. InterestDen \in Nat \ {0}
    BY <1>1 DEF InterestDen
<1>6. ASSUME NEW n \in Int, NEW d \in Nat \ {0}, Convertible(loan.symbol, InterestSymbol)
      PROVE  Convert(n, d, loan.symbol, InterestSymbol) \in Int
    <2>1. CASE loan.symbol = InterestSymbol
        BY <2>1 DEF Convert
    <2>2. CASE loan.symbol # InterestSymbol /\ InterestSymbol = Quote
        <3>1. loan.symbol \in Bases
            BY <1>1, <2>2 DEF Bases
        <3>2. lastBar[loan.symbol].close \in Int
            BY <3>1 DEF TypeOK, Bar, NoBar
        <3>3. n * lastBar[loan.symbol].close \in Int /\ d * BaseScale \in Nat \ {0}
            BY <1>1, <3>2
        <3>. QED
            BY <2>2, <3>3 DEF Convert
    <2>3. CASE loan.symbol # InterestSymbol /\ InterestSymbol # Quote
        <3>1. InterestSymbol \in Bases /\ HasPrice(InterestSymbol)
            BY <1>1, <1>6, <2>3 DEF Bases, Convertible
        <3>2. lastBar[InterestSymbol].close \in Nat \ {0}
            BY <3>1 DEF TypeOK, Bar, HasPrice
        <3>3. n * BaseScale \in Int /\ d * lastBar[InterestSymbol].close \in Nat \ {0}
            BY <1>1, <3>2
        <3>. QED
            BY <2>3, <3>3 DEF Convert
    <2>. QED
        BY <2>1, <2>2, <2>3
<1>7. Interest(loan) \in Int
    <2>1. CASE InterestNum(loan) = 0
        BY <1>1, <2>1 DEF Interest, Larger
    <2>2. CASE InterestNum(loan) # 0
        <3>1. Convertible(loan.symbol, InterestSymbol)
            BY <2>2 DEF InfoFails
        <3>2. Convert(InterestNum(loan), InterestDen, loan.symbol, InterestSymbol) \in Int
            BY <1>4, <1>5, <1>6, <3>1
        <3>. QED
            BY <1>1, <2>2, <3>2 DEF Interest, Larger
    <2>. QED
        BY <2>1, <2>2
<1>8. Repayment(loan) \in [Symbols -> Int]
    BY <1>1, <1>7, SingleType, MapArithmetic DEF Repayment
<1>. QED
    BY <1>7, <1>8
-----------------------------------------------------------------------------
(***************************************************************************)
(* The pieces of a step: the account, an order, the task.                  *)
(***************************************************************************)

LEMMA AccountUpdated ==
    ASSUME AccountTypeOK,
           NEW dBal \in [Symbols -> Int], NEW dHold \in [Symbols -> Int], NEW dBor \in [Symbols -> Int],
           Update(dBal, dHold, dBor)
    PROVE  AccountTypeOK'
BY MapArithmetic DEF Update, AccountTypeOK

\* An order, or what it holds, is replaced.
LEMMA OrderReplaced ==
    ASSUME TypeOK, NEW id \in OrderIds, NEW o \in OrderRecord, NEW hold \in [Symbols -> Int]
    PROVE  /\ [orders EXCEPT ![id] = o] \in Seq(OrderRecord)
           /\ Len([orders EXCEPT ![id] = o]) = Len(orders)
           /\ [holdsByOrder EXCEPT ![id] = hold] \in Seq([Symbols -> Int])
           /\ Len([holdsByOrder EXCEPT ![id] = hold]) = Len(orders)
<1>1. /\ orders \in Seq(OrderRecord)
      /\ holdsByOrder \in Seq([Symbols -> Int]) /\ Len(holdsByOrder) = Len(orders)
    BY DEF TypeOK
<1>2. id \in 1..Len(orders) /\ id \in 1..Len(holdsByOrder)
    BY <1>1 DEF OrderIds
<1>. QED
    BY <1>1, <1>2, ExceptSeq

LEMMA IdleType == Idle \in Task /\ Idle.at = "idle"
BY ZeroType DEF Idle, NoSnapshot, Task

\* on_bar_event goes on with an open order of the pair.
LEMMA ProcessNextType ==
    ASSUME TypeOK, NEW o \in Nat, NEW pair
    PROVE  /\ ProcessNextAfter(o, pair) \in Task
           /\ \/ ProcessNextAfter(o, pair) = Idle
              \/ /\ ProcessNextAfter(o, pair).at = "process"
                 /\ ProcessNextAfter(o, pair).order \in OpenOrdersAfter(o, pair)
<1>. DEFINE rest == OpenOrdersAfter(o, pair)
<1>1. CASE rest = {}
    BY <1>1, IdleType DEF ProcessNextAfter
<1>2. CASE rest # {}
    <2>1. rest \in SUBSET Nat
        BY DEF OpenOrdersAfter, OrderIds
    <2>2. Min(rest) \in rest /\ Min(rest) \in Nat
        BY <1>2, <2>1, MinIsLeast
    <2>3. ProcessNextAfter(o, pair)
              = [Idle EXCEPT !.at = "process", !.order = Min(rest), !.caller = "on_bar_event"]
        BY <1>2 DEF ProcessNextAfter
    <2>. QED
        BY <2>2, <2>3, IdleType DEF Task, Idle
<1>. QED
    BY <1>1, <1>2

LEMMA NextTaskType ==
    ASSUME TypeInv, task.at # "idle"
    PROVE  /\ NextTask \in Task
           /\ \/ NextTask = Idle
              \/ /\ NextTask.at = "process"
                 /\ NextTask.order \in OpenOrdersAfter(task.order, orders[task.order].pair)
<1>1. task.order \in Nat
    BY TheTasksOrder DEF OrderIds
<1>. QED
    BY <1>1, ProcessNextType, IdleType DEF NextTask, TypeInv

\* Closing an order goes on with the same order, or ends the method.
LEMMA TaskAfterClosingType ==
    ASSUME TypeOK, NEW t \in Task, NEW o
    PROVE  /\ TaskAfterClosing(t, o) \in Task
           /\ \/ TaskAfterClosing(t, o) = Idle
              \/ /\ TaskAfterClosing(t, o).at \in {"push", "repay"}
                 /\ TaskAfterClosing(t, o).order = t.order
<1>1. [t EXCEPT !.at = "push"] \in Task
    BY DEF Task
<1>2. {l \in OpenLoans : loans[l].symbol = CreditSymbol(o)} \in SUBSET (Nat \ {0})
    BY DEF OpenLoans, LoanIds, TypeOK
<1>3. ASSUME NEW ids \in SUBSET (Nat \ {0})
      PROVE  /\ [t EXCEPT !.at = "repay", !.loanIds = ids] \in Task
             /\ [t EXCEPT !.at = "repay", !.loanIds = ids].at = "repay"
             /\ [t EXCEPT !.at = "repay", !.loanIds = ids].order = t.order
    BY DEF Task
<1>4. [t EXCEPT !.at = "push"].at = "push" /\ [t EXCEPT !.at = "push"].order = t.order
    BY DEF Task
<1>. QED
    BY <1>1, <1>2, <1>3, <1>4, IdleType DEF TaskAfterClosing
-----------------------------------------------------------------------------
(***************************************************************************)
(* The initial state, and every action.                                    *)
(***************************************************************************)

LEMMA InitType == Init => TypeInv
<1>. SUFFICES ASSUME Init
              PROVE  TypeInv
    OBVIOUS
<1>. USE DEF Init, AccountInit, LoansInit, OrdersInit
<1>1. AccountTypeOK
    BY BalancesAssumption, ZeroType DEF AccountTypeOK, Larger
<1>2. /\ now \in Nat
      /\ lastBar \in [Bases -> Bar \union {NoBar}]
      /\ loans \in Seq(LoanRecord)
      /\ liquidity \in [Bases -> [total : Int, used : Int]]
    BY EmptySeq
<1>3. /\ orders \in Seq(OrderRecord)
      /\ holdsByOrder \in Seq([Symbols -> Int]) /\ Len(holdsByOrder) = Len(orders)
      /\ published \in Seq([status : Statuses, filled : Int]) /\ Len(published) = Len(orders)
    BY EmptySeq
<1>4. task \in Task /\ task.at = "idle"
    BY IdleType
<1>. QED
    BY <1>1, <1>2, <1>3, <1>4 DEF TypeInv, TypeOK

LEMMA AddOrderType ==
    ASSUME TypeInv, NEW req \in Requests, AddOrder(req)
    PROVE  TypeInv'
<1>. DEFINE o == NewOrder(req)
            required == RequiredBalances(o)
            short == {s \in Symbols : required[s] > 0 /\ Shortfall(o, s) > 0}
<1>1. o \in OrderRecord
    BY ExchangeAssumption DEF NewOrder, OrderRecord, Request, Statuses, TypeInv, TypeOK
<1>2. NoUpdate \in [status : Statuses, filled : Int]
    BY DEF NoUpdate, Statuses
<1>3. /\ orders' = Append(orders, o)
      /\ holdsByOrder' = Append(holdsByOrder, Zero)
      /\ published' = Append(published, NoUpdate)
      /\ UNCHANGED <<account, now, lastBar, loans, liquidity>>
    BY DEF AddOrder
<1>4. /\ orders' \in Seq(OrderRecord) /\ Len(orders') = Len(orders) + 1
      /\ holdsByOrder' \in Seq([Symbols -> Int]) /\ Len(holdsByOrder') = Len(holdsByOrder) + 1
      /\ published' \in Seq([status : Statuses, filled : Int])
      /\ Len(published') = Len(published) + 1
    BY <1>1, <1>2, <1>3, ZeroType, AppendProperties DEF TypeInv, TypeOK
<1>5. Len(orders) \in Nat
    BY LenProperties DEF TypeInv, TypeOK
<1>6. task' \in Task /\ task'.order = Len(orders) + 1
    <2>1. Snapshot \in [balances : [Symbols -> Int], holds : [Symbols -> Int],
                        borrowed : [Symbols -> Int], loans : SUBSET (Nat \ {0})]
        BY DEF Snapshot, TypeInv, TypeOK, AccountTypeOK, OpenLoans, LoanIds
    <2>2. short \in SUBSET Symbols
        OBVIOUS
    <2>3. task' = [Idle EXCEPT !.at = IF o.autoBorrow /\ short # {} THEN "borrow" ELSE "hold",
                               !.order = Len(orders) + 1,
                               !.caller = "add_order",
                               !.short = IF o.autoBorrow THEN short ELSE {},
                               !.before = Snapshot]
        BY DEF AddOrder
    <2>4. PICK at \in {"borrow", "hold"}, symbols \in SUBSET Symbols :
              task' = [Idle EXCEPT !.at = at, !.order = Len(orders) + 1, !.caller = "add_order",
                                   !.short = symbols, !.before = Snapshot]
        BY <2>2, <2>3
    <2>5. task' = [at |-> at, order |-> Len(orders) + 1, caller |-> "add_order",
                   short |-> symbols, loanIds |-> {}, before |-> Snapshot]
        BY <2>4 DEF Idle
    <2>. HIDE DEF short, o
    <2>. QED
        BY <1>5, <2>1, <2>5 DEF Task
<1>7. task'.order \in OrderIds'
    BY <1>4, <1>5, <1>6 DEF OrderIds
<1>. QED
    BY <1>3, <1>4, <1>6, <1>7 DEF TypeInv, TypeOK, AccountTypeOK, account

\* A loan is granted: create_loan.
LEMMA CreateLoanType ==
    ASSUME TypeOK, NEW s \in Symbols, NEW amount \in Int, CreateLoan(s, amount)
    PROVE  /\ AccountTypeOK'
           /\ loans' \in Seq(LoanRecord) /\ Len(loans') = Len(loans) + 1 /\ Len(loans) \in Nat
<1>1. Single(Symbols, s, amount) \in [Symbols -> Int]
    BY SingleType
<1>2. AccountTypeOK'
    BY <1>1, ZeroType, AccountUpdated DEF CreateLoan, TypeOK
<1>3. NewLoan(s, amount) \in LoanRecord
    BY DEF NewLoan, LoanRecord, TypeOK
<1>. QED
    BY <1>2, <1>3, AppendProperties, LenProperties DEF CreateLoan, TypeOK

LEMMA LoanTypes ==
    ASSUME TypeOK, NEW l \in LoanIds
    PROVE  loans[l] \in LoanRecord
BY ElementOfSeq DEF TypeOK, LoanIds

\* A loan is closed: repay_loan and cancel_loan.
LEMMA LoanClosed ==
    ASSUME TypeOK, NEW l \in LoanIds, NEW interest \in Int
    PROVE  /\ [loans EXCEPT ![l].isOpen = FALSE, ![l].interest = interest] \in Seq(LoanRecord)
           /\ [loans EXCEPT ![l].isOpen = FALSE] \in Seq(LoanRecord)
<1>1. loans \in Seq(LoanRecord) /\ l \in 1..Len(loans)
    BY DEF TypeOK, LoanIds
<1>2. loans[l] \in LoanRecord
    BY LoanTypes
<1>3. /\ [loans[l] EXCEPT !.isOpen = FALSE, !.interest = interest] \in LoanRecord
      /\ [loans[l] EXCEPT !.isOpen = FALSE] \in LoanRecord
    BY <1>2 DEF LoanRecord
<1>4. /\ [loans EXCEPT ![l] = [loans[l] EXCEPT !.isOpen = FALSE, !.interest = interest]]
             \in Seq(LoanRecord)
      /\ [loans EXCEPT ![l] = [loans[l] EXCEPT !.isOpen = FALSE]] \in Seq(LoanRecord)
    BY <1>1, <1>3, ExceptSeq
<1>. QED
    BY <1>1, <1>4

LEMMA RepayLoanType ==
    ASSUME TypeOK, NEW l, RepayLoan(l)
    PROVE  AccountTypeOK' /\ loans' \in Seq(LoanRecord) /\ l \in LoanIds
<1>1. l \in LoanIds /\ ~InfoFails(loans[l])
    BY DEF RepayLoan, CanRepayLoan, IsOpenLoan
<1>2. loans[l] \in LoanRecord
    BY <1>1, LoanTypes
<1>3. Interest(loans[l]) \in Int /\ Repayment(loans[l]) \in [Symbols -> Int]
    BY <1>1, <1>2, InterestType
<1>4. Single(Symbols, loans[l].symbol, -loans[l].amount) \in [Symbols -> Int]
    BY <1>2, SingleType DEF LoanRecord
<1>5. AccountTypeOK'
    BY <1>3, <1>4, ZeroType, MapArithmetic, AccountUpdated DEF RepayLoan, TypeOK
<1>6. loans' \in Seq(LoanRecord)
    BY <1>1, <1>3, LoanClosed DEF RepayLoan
<1>. QED
    BY <1>1, <1>5, <1>6

LEMMA CancelLoanType ==
    ASSUME TypeOK, NEW l, CancelLoan(l)
    PROVE  AccountTypeOK' /\ loans' \in Seq(LoanRecord) /\ l \in LoanIds
<1>1. l \in LoanIds
    BY DEF CancelLoan, IsOpenLoan
<1>2. loans[l] \in LoanRecord
    BY <1>1, LoanTypes
<1>3. Single(Symbols, loans[l].symbol, -loans[l].amount) \in [Symbols -> Int]
    BY <1>2, SingleType DEF LoanRecord
<1>4. AccountTypeOK'
    BY <1>3, ZeroType, AccountUpdated DEF CancelLoan, TypeOK
<1>5. loans' \in Seq(LoanRecord)
    BY <1>1, 0 \in Int, LoanClosed DEF CancelLoan
<1>. QED
    BY <1>1, <1>4, <1>5

\* A step that changes nothing but the task, which stays with its order.
LEMMA TaskOnlyType ==
    ASSUME TypeInv, UNCHANGED <<account, now, lastBar, loans, orders, holdsByOrder, liquidity, published>>,
           task' \in Task, task'.order = task.order, task.at # "idle"
    PROVE  TypeInv'
BY DEF TypeInv, TypeOK, AccountTypeOK, account, OrderIds

\* A step that changes the account, orders and the task's order.
LEMMA OrderStepType ==
    ASSUME TypeInv,
           task.at # "idle",
           NEW id \in OrderIds,
           NEW o \in OrderRecord, orders' = [orders EXCEPT ![id] = o],
           NEW hold \in [Symbols -> Int],
           holdsByOrder' \in {holdsByOrder, [holdsByOrder EXCEPT ![id] = hold]},
           liquidity' \in [Bases -> [total : Int, used : Int]],
           loans' \in Seq(LoanRecord),
           AccountTypeOK',
           UNCHANGED <<now, lastBar, published>>,
           task' \in Task, task'.at # "idle" => task'.order \in OrderIds
    PROVE  TypeInv'
<1>1. /\ [orders EXCEPT ![id] = o] \in Seq(OrderRecord)
      /\ Len([orders EXCEPT ![id] = o]) = Len(orders)
      /\ [holdsByOrder EXCEPT ![id] = hold] \in Seq([Symbols -> Int])
      /\ Len([holdsByOrder EXCEPT ![id] = hold]) = Len(orders)
    BY OrderReplaced DEF TypeInv
<1>2. /\ orders' \in Seq(OrderRecord) /\ Len(orders') = Len(orders)
      /\ holdsByOrder' \in Seq([Symbols -> Int]) /\ Len(holdsByOrder') = Len(orders)
    BY <1>1 DEF TypeInv, TypeOK
<1>3. OrderIds' = OrderIds
    BY <1>2 DEF OrderIds
<1>. QED
    BY <1>2, <1>3 DEF TypeInv, TypeOK

LEMMA BorrowNextType ==
    ASSUME TypeInv, BorrowNext
    PROVE  TypeInv'
<1>. DEFINE o == orders[task.order]
            s == NextShort
            l == Len(loans) + 1
            ids == task.loanIds \union {l}
<1>1. /\ task.at = "borrow" /\ task.order \in OrderIds
      /\ o \in OrderRecord /\ o.pair \in Bases
      /\ holdsByOrder[task.order] \in [Symbols -> Int]
    BY TheTasksOrder DEF BorrowNext
<1>2. s \in Symbols
    BY <1>1, QuoteNotBase DEF NextShort
<1>3. Shortfall(o, s) \in Int
    BY <1>1, <1>2, RequiredBalancesType DEF TypeInv
<1>4. CreateLoan(s, Shortfall(o, s))
    BY DEF BorrowNext
<1>5. /\ AccountTypeOK'
      /\ loans' \in Seq(LoanRecord) /\ Len(loans') = Len(loans) + 1 /\ Len(loans) \in Nat
    BY <1>2, <1>3, <1>4, CreateLoanType DEF TypeInv
<1>6. task \in Task /\ task.loanIds \in SUBSET (Nat \ {0}) /\ ids \in SUBSET (Nat \ {0})
    BY <1>5 DEF TypeInv, TypeOK, Task
<1>7. task' \in Task /\ task'.order = task.order
    <2>1. CASE task' = [task EXCEPT !.at = "rollback"]
        BY <1>6, <2>1 DEF Task
    <2>2. CASE \E at \in {"hold", "borrow"} :
                  task' = [task EXCEPT !.at = at, !.short = task.short \ {s}, !.loanIds = ids]
        <3>1. task.short \ {s} \in SUBSET Symbols
            BY <1>6 DEF Task
        <3>. HIDE DEF ids, s
        <3>. QED
            BY <1>6, <2>2, <3>1 DEF Task
    <2>. QED
        BY <2>1, <2>2 DEF BorrowNext
<1>8. PICK r \in OrderRecord : orders' = [orders EXCEPT ![task.order] = r]
    <2>1. CASE UNCHANGED orders
        <3>1. orders = [orders EXCEPT ![task.order] = o]
            BY <1>1 DEF TypeInv, TypeOK, OrderIds
        <3>. QED
            BY <1>1, <2>1, <3>1
    <2>2. CASE orders' = [orders EXCEPT ![task.order].loans = ids]
        <3>1. [o EXCEPT !.loans = ids] \in OrderRecord
            BY <1>1, <1>6 DEF OrderRecord
        <3>. QED
            BY <2>2, <3>1
    <2>. QED
        BY <2>1, <2>2 DEF BorrowNext
<1>9. UNCHANGED <<now, lastBar, holdsByOrder, liquidity, published>>
    BY DEF BorrowNext
<1>. QED
    BY <1>1, <1>5, <1>7, <1>8, <1>9, OrderStepType DEF TypeInv, TypeOK

LEMMA BorrowFailsType ==
    ASSUME TypeInv, BorrowFails
    PROVE  TypeInv'
<1>1. task.at = "borrow" /\ task' = [task EXCEPT !.at = "rollback"]
    BY DEF BorrowFails
<1>2. task' \in Task /\ task'.order = task.order
    BY <1>1 DEF TypeInv, TypeOK, Task
<1>. QED
    BY <1>1, <1>2, TaskOnlyType DEF BorrowFails

LEMMA RollbackNextType ==
    ASSUME TypeInv, RollbackNext
    PROVE  TypeInv'
<1>1. AccountTypeOK' /\ loans' \in Seq(LoanRecord)
    BY CancelLoanType DEF RollbackNext, TypeInv
<1>2. task' \in Task /\ task'.order = task.order
    BY DEF RollbackNext, TypeInv, TypeOK, Task
<1>. QED
    BY <1>1, <1>2 DEF RollbackNext, TypeInv, TypeOK, OrderIds

LEMMA RefuseType ==
    ASSUME TypeInv, Refuse
    PROVE  TypeInv'
<1>1. task.at = "rollback" /\ task.order \in OrderIds /\ orders[task.order] \in OrderRecord
    BY TheTasksOrder DEF Refuse
<1>2. [orders[task.order] EXCEPT !.status = "REJECTED"] \in OrderRecord
    BY <1>1 DEF OrderRecord, Statuses
<1>3. AccountTypeOK'
    BY DEF Refuse, TypeInv, TypeOK, AccountTypeOK, account
<1>4. orders' = [orders EXCEPT ![task.order] = [orders[task.order] EXCEPT !.status = "REJECTED"]]
    BY DEF Refuse
<1>. QED
    BY <1>1, <1>2, <1>3, <1>4, IdleType, ZeroType, OrderStepType DEF Refuse, TypeInv, TypeOK

LEMMA HoldRequiredType ==
    ASSUME TypeInv, HoldRequired
    PROVE  TypeInv'
<1>. DEFINE id == task.order
            required == RequiredBalances(orders[id])
<1>1. task.at = "hold" /\ id \in OrderIds /\ orders[id] \in OrderRecord
    BY TheTasksOrder DEF HoldRequired
<1>2. required \in [Symbols -> Int]
    BY <1>1, RequiredBalancesType DEF TypeInv
<1>3. AccountTypeOK'
    BY <1>2, ZeroType, AccountUpdated DEF HoldRequired, TypeInv, TypeOK
<1>4. [orders[id] EXCEPT !.status = "OPEN"] \in OrderRecord
    BY <1>1 DEF OrderRecord, Statuses
<1>5. task' \in Task /\ task'.order = id
    <2>1. NoSnapshot \in [balances : [Symbols -> Int], holds : [Symbols -> Int],
                          borrowed : [Symbols -> Int], loans : SUBSET (Nat \ {0})]
        BY ZeroType DEF NoSnapshot
    <2>. QED
        BY <2>1 DEF HoldRequired, TypeInv, TypeOK, Task
<1>6. /\ orders' = [orders EXCEPT ![id] = [orders[id] EXCEPT !.status = "OPEN"]]
      /\ holdsByOrder' = [holdsByOrder EXCEPT ![id] = required]
      /\ UNCHANGED <<now, lastBar, loans, liquidity, published>>
    BY DEF HoldRequired
<1>. QED
    BY <1>1, <1>2, <1>3, <1>4, <1>5, <1>6, OrderStepType DEF TypeInv, TypeOK

LEMMA HoldFailsType ==
    ASSUME TypeInv, HoldFails
    PROVE  TypeInv'
<1>1. task.at = "hold" /\ task.order \in OrderIds /\ orders[task.order] \in OrderRecord
    BY TheTasksOrder DEF HoldFails
<1>2. [orders[task.order] EXCEPT !.status = "REJECTED"] \in OrderRecord
    BY <1>1 DEF OrderRecord, Statuses
<1>3. AccountTypeOK'
    BY DEF HoldFails, TypeInv, TypeOK, AccountTypeOK, account
<1>4. orders' = [orders EXCEPT ![task.order] = [orders[task.order] EXCEPT !.status = "REJECTED"]]
    BY DEF HoldFails
<1>. QED
    BY <1>1, <1>2, <1>3, <1>4, IdleType, ZeroType, OrderStepType DEF HoldFails, TypeInv, TypeOK

LEMMA ProcessFilledType ==
    ASSUME TypeInv, NEW slip \in Slips, ProcessFilled(slip)
    PROVE  TypeInv'
<1>. DEFINE id          == task.order
            o           == orders[id]
            hold        == holdsByOrder[id]
            fill        == FillOf(o, slip)
            quoteAmount == RoundQuote(fill.amount * fill.price)
            fee         == Fee(o, quoteAmount)
            updates     == BalanceUpdates(o, fill.amount, quoteAmount, fee)
            completed   == o.filled + fill.amount >= o.amount
            released    == IF completed THEN Negate(hold) ELSE HoldUpdates(hold, updates)
            filledOrder == [o EXCEPT !.filled = o.filled + fill.amount,
                                     !.quote = o.quote + quoteAmount,
                                     !.fees = o.fees + fee,
                                     !.hit = fill.hit,
                                     !.status = IF completed THEN "COMPLETED" ELSE "OPEN"]
<1>1. /\ task.at = "process" /\ id \in OrderIds /\ o \in OrderRecord /\ o.pair \in Bases
      /\ hold \in [Symbols -> Int]
    BY TheTasksOrder DEF ProcessFilled
<1>2. fill.amount \in Int /\ fill.price \in Int /\ fill.hit \in BOOLEAN
    BY <1>1, FillOfType
<1>. HIDE DEF fill
<1>3. fill.amount * fill.price \in Int
    BY <1>2
<1>4. quoteAmount \in Int /\ fee \in Int
    BY <1>1, <1>3, Rounded, FeeType
<1>. HIDE DEF quoteAmount, fee
<1>5. updates \in [Symbols -> Int]
    BY <1>1, <1>2, <1>4, BalanceUpdatesType
<1>. HIDE DEF updates
<1>6. released \in [Symbols -> Int] /\ Plus(hold, released) \in [Symbols -> Int]
    BY <1>1, <1>5, MapArithmetic, HoldUpdatesType
<1>7. filledOrder \in OrderRecord
    <2>1. /\ o.filled + fill.amount \in Int /\ o.quote + quoteAmount \in Int
          /\ o.fees + fee \in Int
        BY <1>1, <1>2, <1>4 DEF OrderRecord
    <2>2. (IF completed THEN "COMPLETED" ELSE "OPEN") \in Statuses
        BY DEF Statuses
    <2>. HIDE DEF completed
    <2>. QED
        BY <1>1, <1>2, <2>1, <2>2 DEF OrderRecord
<1>8. /\ Update(updates, released, Zero)
      /\ holdsByOrder' = [holdsByOrder EXCEPT ![id] = Plus(hold, released)]
      /\ liquidity' = [liquidity EXCEPT ![o.pair].used = liquidity[o.pair].used + 100 * fill.amount]
      /\ orders' = [orders EXCEPT ![id] = filledOrder]
      /\ task' = IF completed THEN TaskAfterClosing(task, filledOrder)
                 ELSE [task EXCEPT !.at = "push"]
      /\ UNCHANGED <<now, lastBar, loans, published>>
    BY DEF ProcessFilled, fill, quoteAmount, fee, updates
<1>. HIDE DEF completed, released, filledOrder, hold, o, id
<1>9. AccountTypeOK'
    BY <1>5, <1>6, <1>8, ZeroType, AccountUpdated DEF TypeInv, TypeOK
<1>10. liquidity' \in [Bases -> [total : Int, used : Int]]
    <2>1. /\ liquidity \in [Bases -> [total : Int, used : Int]]
          /\ liquidity[o.pair] \in [total : Int, used : Int]
        BY <1>1 DEF TypeInv, TypeOK
    <2>2. liquidity[o.pair].used + 100 * fill.amount \in Int
        BY <1>2, <2>1
    <2>3. [liquidity[o.pair] EXCEPT !.used = liquidity[o.pair].used + 100 * fill.amount]
              \in [total : Int, used : Int]
        BY <2>1, <2>2
    <2>. QED
        BY <1>1, <1>8, <2>1, <2>3
<1>11. task' \in Task /\ (task'.at # "idle" => task'.order = task.order)
    <2>1. task \in Task
        BY DEF TypeInv, TypeOK
    <2>2. [task EXCEPT !.at = "push"] \in Task /\ [task EXCEPT !.at = "push"].order = task.order
        BY <2>1 DEF Task
    <2>. QED
        BY <1>8, <2>1, <2>2, TaskAfterClosingType, IdleType DEF TypeInv
<1>12. task'.at # "idle" => task'.order \in OrderIds
    BY <1>1, <1>11 DEF id
<1>. QED
    BY <1>1, <1>6, <1>7, <1>8, <1>9, <1>10, <1>11, <1>12, OrderStepType DEF TypeInv, TypeOK

LEMMA TriedType ==
    ASSUME TypeInv, task.at # "idle", NEW slip \in Slips
    PROVE  Tried(task.order, slip) \in OrderRecord
<1>1. orders[task.order] \in OrderRecord
    BY TheTasksOrder
<1>2. FillOf(orders[task.order], slip).hit \in BOOLEAN
    BY FillOfType
<1>3. [orders[task.order] EXCEPT !.hit = FillOf(orders[task.order], slip).hit] \in OrderRecord
    BY <1>1, <1>2 DEF OrderRecord
<1>. QED
    BY <1>1, <1>3 DEF Tried

\* What the two ways of closing an order without a fill have in common.
LEMMA OrderClosedType ==
    ASSUME TypeInv, NEW id \in OrderIds, NEW o \in OrderRecord, NEW t \in Task, t.order = id,
           orders' = [orders EXCEPT ![id] = o],
           Update(Zero, Negate(holdsByOrder[id]), Zero),
           holdsByOrder' = [holdsByOrder EXCEPT ![id] = Zero],
           task' = TaskAfterClosing(t, o),
           UNCHANGED <<now, lastBar, loans, liquidity, published>>
    PROVE  TypeInv'
<1>1. holdsByOrder[id] \in [Symbols -> Int]
    BY OrderTypes DEF TypeInv
<1>2. AccountTypeOK'
    BY <1>1, ZeroType, MapArithmetic, AccountUpdated DEF TypeInv, TypeOK
<1>3. task' \in Task /\ (task'.at # "idle" => task'.order \in OrderIds)
    BY TaskAfterClosingType, IdleType DEF TypeInv
<1>4. /\ orders' \in Seq(OrderRecord) /\ Len(orders') = Len(orders)
      /\ holdsByOrder' \in Seq([Symbols -> Int]) /\ Len(holdsByOrder') = Len(orders)
    BY ZeroType, OrderReplaced DEF TypeInv
<1>5. OrderIds' = OrderIds
    BY <1>4 DEF OrderIds
<1>. QED
    BY <1>2, <1>3, <1>4, <1>5 DEF TypeInv, TypeOK

LEMMA ProcessCanceledType ==
    ASSUME TypeInv, NEW slip \in Slips, ProcessCanceled(slip)
    PROVE  TypeInv'
<1>1. task.at # "idle" /\ task.order \in OrderIds
    BY TheTasksOrder DEF ProcessCanceled
<1>2. Tried(task.order, slip) \in OrderRecord
    BY <1>1, TriedType
<1>3. [Tried(task.order, slip) EXCEPT !.status = "CANCELED"] \in OrderRecord
    BY <1>2 DEF OrderRecord, Statuses
<1>4. task \in Task
    BY DEF TypeInv, TypeOK
<1>. QED
    BY <1>1, <1>3, <1>4, OrderClosedType DEF ProcessCanceled

LEMMA CancelOrderType ==
    ASSUME TypeInv, NEW id \in OrderIds, CancelOrder(id)
    PROVE  TypeInv'
<1>. DEFINE t == [Idle EXCEPT !.order = id, !.caller = "cancel_order"]
            o == [orders[id] EXCEPT !.status = "CANCELED"]
<1>1. orders[id] \in OrderRecord /\ o \in OrderRecord
    BY OrderTypes DEF TypeInv, OrderRecord, Statuses
<1>2. t \in Task /\ t.order = id
    <2>1. id \in Nat
        BY DEF OrderIds
    <2>2. Idle \in Task
        BY IdleType
    <2>. QED
        BY <2>1, <2>2 DEF Task
<1>3. TaskAfterClosing(t, orders[id]) = TaskAfterClosing(t, o)
    BY <1>1 DEF TaskAfterClosing, CreditSymbol, OrderRecord
<1>4. /\ orders' = [orders EXCEPT ![id] = o]
      /\ task' = TaskAfterClosing(t, o)
    BY <1>3 DEF CancelOrder
<1>. QED
    BY <1>1, <1>2, <1>4, OrderClosedType DEF CancelOrder

LEMMA ProcessUnfilledType ==
    ASSUME TypeInv, NEW slip \in Slips, ProcessUnfilled(slip)
    PROVE  TypeInv'
<1>1. task.at # "idle" /\ task.order \in OrderIds
    BY TheTasksOrder DEF ProcessUnfilled
<1>2. Tried(task.order, slip) \in OrderRecord
    BY <1>1, TriedType
<1>3. task' \in Task /\ (task'.at # "idle" => task'.order \in OrderIds)
    <2>1. CASE task' = [task EXCEPT !.at = "push"]
        BY <1>1, <2>1 DEF TypeInv, TypeOK, Task
    <2>2. CASE task' = NextTask
        BY <1>1, <2>2, NextTaskType, IdleType DEF OpenOrdersAfter
    <2>. QED
        BY <2>1, <2>2 DEF ProcessUnfilled
<1>4. AccountTypeOK'
    BY DEF ProcessUnfilled, TypeInv, TypeOK, AccountTypeOK, account
<1>5. orders' = [orders EXCEPT ![task.order] = Tried(task.order, slip)]
    BY DEF ProcessUnfilled
<1>. QED
    BY <1>1, <1>2, <1>3, <1>4, <1>5, ZeroType, OrderStepType DEF ProcessUnfilled, TypeInv, TypeOK

LEMMA RepayNextType ==
    ASSUME TypeInv, RepayNext
    PROVE  TypeInv'
<1>. DEFINE id == task.order
            l  == Biggest(task.loanIds)
            o  == [orders[id] EXCEPT !.loans = orders[id].loans \union {l}]
<1>1. task.at = "repay" /\ id \in OrderIds /\ orders[id] \in OrderRecord
    BY TheTasksOrder DEF RepayNext
<1>2. AccountTypeOK' /\ loans' \in Seq(LoanRecord) /\ l \in LoanIds
    BY RepayLoanType DEF RepayNext, TypeInv
<1>3. l \in Nat \ {0}
    BY <1>2 DEF LoanIds
<1>. HIDE DEF l
<1>4. o \in OrderRecord
    BY <1>1, <1>3 DEF OrderRecord
<1>5. task' \in Task /\ task'.order = id
    BY DEF RepayNext, TypeInv, TypeOK, Task
<1>6. orders' = [orders EXCEPT ![id] = o]
    BY DEF RepayNext, l
<1>. QED
    BY <1>1, <1>2, <1>4, <1>5, <1>6, ZeroType, OrderStepType DEF RepayNext, TypeInv, TypeOK

LEMMA SkipRepaymentType ==
    ASSUME TypeInv, SkipRepayment
    PROVE  TypeInv'
<1>1. task.at # "idle" /\ task' \in Task /\ task'.order = task.order
    BY DEF SkipRepayment, TypeInv, TypeOK, Task
<1>. QED
    BY <1>1, TaskOnlyType DEF SkipRepayment

LEMMA RepaymentDoneType ==
    ASSUME TypeInv, RepaymentDone
    PROVE  TypeInv'
<1>1. task.at # "idle" /\ task' \in Task /\ task'.order = task.order
    BY DEF RepaymentDone, TypeInv, TypeOK, Task
<1>. QED
    BY <1>1, TaskOnlyType DEF RepaymentDone

LEMMA PushOrderUpdateType ==
    ASSUME TypeInv, PushOrderUpdate
    PROVE  TypeInv'
<1>1. task.at # "idle" /\ task.order \in OrderIds /\ orders[task.order] \in OrderRecord
    BY TheTasksOrder DEF PushOrderUpdate
<1>2. OrderInfo(task.order) \in [status : Statuses, filled : Int]
    BY <1>1 DEF OrderInfo, OrderRecord
<1>3. /\ published' \in Seq([status : Statuses, filled : Int])
      /\ Len(published') = Len(orders)
    <2>1. /\ published \in Seq([status : Statuses, filled : Int])
          /\ Len(published) = Len(orders) /\ task.order \in 1..Len(published)
        BY <1>1 DEF TypeInv, TypeOK, OrderIds
    <2>2. /\ [published EXCEPT ![task.order] = OrderInfo(task.order)]
                 \in Seq([status : Statuses, filled : Int])
          /\ Len([published EXCEPT ![task.order] = OrderInfo(task.order)]) = Len(published)
        BY <1>2, <2>1, ExceptSeq
    <2>. QED
        BY <2>1, <2>2 DEF PushOrderUpdate
<1>4. task' \in Task /\ (task'.at # "idle" => task'.order \in OrderIds)
    BY <1>1, NextTaskType, IdleType DEF PushOrderUpdate, OpenOrdersAfter
<1>5. UNCHANGED <<account, now, lastBar, loans, orders, holdsByOrder, liquidity>>
    BY DEF PushOrderUpdate
<1>6. OrderIds' = OrderIds
    BY <1>5 DEF OrderIds
<1>. QED
    BY <1>3, <1>4, <1>5, <1>6 DEF TypeInv, TypeOK, AccountTypeOK, account

LEMMA NewBarType ==
    ASSUME TypeInv, NewBar
    PROVE  TypeInv'
<1>0. PICK b \in Bases : \E bar \in Bars[b] :
          /\ lastBar' = [lastBar EXCEPT ![b] = bar]
          /\ OnBarEvent(b, bar)
    BY DEF NewBar
<1>1. PICK bar \in Bars[b] :
          /\ lastBar' = [lastBar EXCEPT ![b] = bar]
          /\ OnBarEvent(b, bar)
    BY <1>0
<1>2. bar \in Bar
    BY ExchangeAssumption
<1>3. now' \in Nat /\ lastBar' \in [Bases -> Bar \union {NoBar}]
    BY <1>1, <1>2 DEF NewBar, TypeInv, TypeOK
<1>4. liquidity' \in [Bases -> [total : Int, used : Int]]
    <2>1. bar.volume * VolumeLimitPct \in Int
        BY <1>2, OrdersAssumption DEF Bar
    <2>2. LiquidityOfBar(bar) \in [total : Int, used : Int]
        BY <2>1 DEF LiquidityOfBar
    <2>. QED
        BY <1>1, <2>2 DEF OnBarEvent, TypeInv, TypeOK
<1>5. task' \in Task /\ (task'.at # "idle" => task'.order \in OrderIds)
    BY <1>1, 0 \in Nat, ProcessNextType, IdleType DEF OnBarEvent, OpenOrdersAfter, TypeInv
<1>6. UNCHANGED <<account, loans, orders, holdsByOrder, published>>
    BY DEF NewBar
<1>7. OrderIds' = OrderIds
    BY <1>6 DEF OrderIds
<1>. QED
    BY <1>3, <1>4, <1>5, <1>6, <1>7 DEF TypeInv, TypeOK, AccountTypeOK, account

LEMMA RequestLoanType ==
    ASSUME TypeInv, RequestLoan
    PROVE  TypeInv'
<1>1. PICK s \in Symbols, amount \in LoanAmounts : CreateLoan(s, amount)
    BY DEF RequestLoan
<1>2. amount \in Int
    BY ExchangeAssumption
<1>3. AccountTypeOK' /\ loans' \in Seq(LoanRecord)
    BY <1>1, <1>2, CreateLoanType DEF TypeInv
<1>. QED
    BY <1>3 DEF RequestLoan, TypeInv, TypeOK, managers, OrderIds

LEMMA RequestRepaymentType ==
    ASSUME TypeInv, RequestRepayment
    PROVE  TypeInv'
<1>1. AccountTypeOK' /\ loans' \in Seq(LoanRecord)
    BY RepayLoanType DEF RequestRepayment, TypeInv
<1>. QED
    BY <1>1 DEF RequestRepayment, TypeInv, TypeOK, managers, OrderIds

LEMMA NoStepType ==
    ASSUME TypeInv, UNCHANGED vars
    PROVE  TypeInv'
BY DEF TypeInv, TypeOK, AccountTypeOK, OrderIds, vars, account, managers
-----------------------------------------------------------------------------
LEMMA TypeStep == TypeInv /\ [Next]_vars => TypeInv'
<1>. SUFFICES ASSUME TypeInv, [Next]_vars
              PROVE  TypeInv'
    OBVIOUS
<1>1. CASE RequestOrder
    BY <1>1, AddOrderType DEF RequestOrder
<1>2. CASE RequestCancel
    BY <1>2, CancelOrderType DEF RequestCancel
<1>3. CASE RequestLoan
    BY <1>3, RequestLoanType
<1>4. CASE RequestRepayment
    BY <1>4, RequestRepaymentType
<1>5. CASE NewBar
    BY <1>5, NewBarType
<1>6. CASE MethodStep
    BY <1>6, BorrowNextType, BorrowFailsType, RollbackNextType, RefuseType, HoldRequiredType,
       HoldFailsType, ProcessFilledType, ProcessCanceledType, ProcessUnfilledType, RepayNextType,
       SkipRepaymentType, RepaymentDoneType, PushOrderUpdateType
       DEF MethodStep
<1>7. CASE UNCHANGED vars
    BY <1>7, NoStepType
<1>. QED
    BY <1>1, <1>2, <1>3, <1>4, <1>5, <1>6, <1>7 DEF Next, Rest

LEMMA TypeInvariant == Spec => []TypeInv
BY InitType, TypeStep, PTL DEF Spec

\* Every variable of the exchange keeps its type, and the maps of the order manager stay in step
\* with its orders.
THEOREM TypeCorrect == Spec => []TypeOK
<1>1. TypeInv => TypeOK
    BY DEF TypeInv
<1>. QED
    BY <1>1, TypeInvariant, PTL
-----------------------------------------------------------------------------
(***************************************************************************)
(* A loan keeps its symbol and its amount; it is new only if it was        *)
(* granted.                                                                *)
(***************************************************************************)
LEMMA LoanSteps ==
    ASSUME TypeInv, [Next]_vars
    PROVE  \/ UNCHANGED loans
           \/ \E s \in Symbols, amount \in Int : CreateLoan(s, amount)
           \/ \E l : RepayLoan(l) \/ CancelLoan(l)
<1>1. CASE RequestOrder \/ RequestCancel \/ NewBar
    BY <1>1 DEF RequestOrder, AddOrder, RequestCancel, CancelOrder, NewBar
<1>2. CASE RequestLoan \/ RequestRepayment
    BY <1>2, ExchangeAssumption DEF RequestLoan, RequestRepayment
<1>3. CASE BorrowNext
    <2>1. CreateLoan(NextShort, Shortfall(orders[task.order], NextShort))
        BY <1>3 DEF BorrowNext
    <2>2. NextShort \in Symbols
        BY <2>1, LoansAssumption DEF CreateLoan, CanCreateLoan
    <2>3. orders[task.order] \in OrderRecord /\ TypeOK
        BY <1>3, TheTasksOrder DEF BorrowNext, TypeInv
    <2>4. Shortfall(orders[task.order], NextShort) \in Int
        BY <2>2, <2>3, RequiredBalancesType
    <2>. QED
        BY <2>1, <2>2, <2>4
<1>4. CASE RollbackNext
    BY <1>4 DEF RollbackNext
<1>5. CASE RepayNext
    BY <1>5 DEF RepayNext
<1>6. CASE \/ BorrowFails \/ Refuse \/ HoldRequired \/ HoldFails \/ SkipRepayment
           \/ RepaymentDone \/ PushOrderUpdate
           \/ \E slip \in Slips : \/ ProcessFilled(slip) \/ ProcessCanceled(slip)
                                  \/ ProcessUnfilled(slip)
    BY <1>6 DEF BorrowFails, Refuse, HoldRequired, HoldFails, SkipRepayment, RepaymentDone,
                PushOrderUpdate, ProcessFilled, ProcessCanceled, ProcessUnfilled
<1>7. CASE UNCHANGED vars
    BY <1>7 DEF vars
<1>. QED
    BY <1>1, <1>2, <1>3, <1>4, <1>5, <1>6, <1>7 DEF Next, MethodStep, Rest

LEMMA LoanFate ==
    ASSUME TypeInv, [Next]_vars, NEW l \in LoanIds'
    PROVE  \/ /\ l \in LoanIds
              /\ loans'[l].symbol = loans[l].symbol /\ loans'[l].amount = loans[l].amount
           \/ \E s \in Symbols, amount \in Int :
                  CanCreateLoan(s, amount) /\ loans'[l] = NewLoan(s, amount)
<1>1. TypeOK /\ loans \in Seq(LoanRecord) /\ Len(loans) \in Nat
    BY LenProperties DEF TypeInv, TypeOK
<1>2. CASE UNCHANGED loans
    BY <1>2 DEF LoanIds
<1>3. ASSUME NEW s \in Symbols, NEW amount \in Int, CreateLoan(s, amount)
      PROVE  \/ l \in LoanIds /\ loans'[l] = loans[l]
             \/ CanCreateLoan(s, amount) /\ loans'[l] = NewLoan(s, amount)
    <2>1. PICK loan : loan = NewLoan(s, amount) /\ loans' = Append(loans, loan)
        BY <1>3 DEF CreateLoan
    <2>2. CanCreateLoan(s, amount)
        BY <1>3 DEF CreateLoan
    <2>. QED
        BY <1>1, <2>1, <2>2 DEF LoanIds
<1>4. ASSUME NEW k, RepayLoan(k) \/ CancelLoan(k)
      PROVE  /\ l \in LoanIds
             /\ loans'[l].symbol = loans[l].symbol /\ loans'[l].amount = loans[l].amount
    <2>1. k \in 1..Len(loans) /\ loans[k] \in LoanRecord
        BY <1>1, <1>4, LoanTypes DEF RepayLoan, CancelLoan, IsOpenLoan, LoanIds
    <2>. DEFINE repaid == [loans[k] EXCEPT !.isOpen = FALSE, !.interest = Interest(loans[k])]
                canceled == [loans[k] EXCEPT !.isOpen = FALSE]
    <2>2. /\ repaid.amount = loans[k].amount /\ canceled.amount = loans[k].amount
          /\ repaid.symbol = loans[k].symbol /\ canceled.symbol = loans[k].symbol
        BY <2>1 DEF LoanRecord
    <2>3. loans' = [loans EXCEPT ![k] = repaid] \/ loans' = [loans EXCEPT ![k] = canceled]
        BY <1>4 DEF RepayLoan, CancelLoan
    <2>. HIDE DEF repaid, canceled
    <2>4. PICK loan : /\ loans' = [loans EXCEPT ![k] = loan]
                      /\ loan.amount = loans[k].amount /\ loan.symbol = loans[k].symbol
        BY <2>2, <2>3
    <2>5. Len(loans') = Len(loans) /\ \A i \in 1..Len(loans) : loans'[i] = IF i = k THEN loan ELSE loans[i]
        BY <1>1, <2>1, <2>4
    <2>. QED
        BY <2>4, <2>5 DEF LoanIds
<1>. QED
    BY <1>2, <1>3, <1>4, LoanSteps
-----------------------------------------------------------------------------
(***************************************************************************)
(* The account changes through update only, and update keeps it solvent:   *)
(* that is what its rules say, and what other lemmas need.                 *)
(***************************************************************************)

Solvent ==
    /\ NonZero(balances, holds, borrowed)
    /\ ValidHold(balances, holds)

LEMMA UpdateKeepsSolvent ==
    ASSUME NEW dBal, NEW dHold, NEW dBor, Update(dBal, dHold, dBor)
    PROVE  Solvent'
BY DEF Update, CanUpdate, Solvent

LEMMA SameAccountSolvent ==
    ASSUME Solvent, UNCHANGED account
    PROVE  Solvent'
BY DEF account, Solvent, NonZero, ValidHold

LEMMA InitSolvent == Init => Solvent
BY BalancesAssumption DEF Init, AccountInit, Solvent, NonZero, ValidHold, Zero, ZeroMap, Larger

LEMMA SolventStep == Solvent /\ [Next]_vars => Solvent'
<1>. SUFFICES ASSUME Solvent, [Next]_vars PROVE Solvent'
    OBVIOUS
<1>1. CASE RequestOrder
    BY <1>1, SameAccountSolvent DEF RequestOrder, AddOrder
<1>2. CASE RequestCancel
    BY <1>2, UpdateKeepsSolvent DEF RequestCancel, CancelOrder
<1>3. CASE RequestLoan
    BY <1>3, UpdateKeepsSolvent DEF RequestLoan, CreateLoan
<1>4. CASE RequestRepayment
    BY <1>4, UpdateKeepsSolvent DEF RequestRepayment, RepayLoan
<1>5. CASE NewBar
    BY <1>5, SameAccountSolvent DEF NewBar
<1>6. CASE MethodStep
    <2>1. CASE BorrowNext
        BY <2>1, UpdateKeepsSolvent DEF BorrowNext, CreateLoan
    <2>2. CASE RollbackNext
        BY <2>2, UpdateKeepsSolvent DEF RollbackNext, CancelLoan
    <2>3. CASE HoldRequired
        BY <2>3, UpdateKeepsSolvent DEF HoldRequired
    <2>4. CASE \E slip \in Slips : ProcessFilled(slip)
        BY <2>4, UpdateKeepsSolvent DEF ProcessFilled
    <2>5. CASE \E slip \in Slips : ProcessCanceled(slip)
        BY <2>5, UpdateKeepsSolvent DEF ProcessCanceled
    <2>6. CASE RepayNext
        BY <2>6, UpdateKeepsSolvent DEF RepayNext, RepayLoan
    <2>7. CASE \/ BorrowFails \/ Refuse \/ HoldFails \/ SkipRepayment \/ RepaymentDone
               \/ PushOrderUpdate \/ \E slip \in Slips : ProcessUnfilled(slip)
        BY <2>7, SameAccountSolvent
           DEF BorrowFails, Refuse, HoldFails, SkipRepayment, RepaymentDone, PushOrderUpdate,
               ProcessUnfilled
    <2>. QED
        BY <1>6, <2>1, <2>2, <2>3, <2>4, <2>5, <2>6, <2>7 DEF MethodStep
<1>7. CASE UNCHANGED vars
    BY <1>7, SameAccountSolvent DEF vars
<1>. QED
    BY <1>1, <1>2, <1>3, <1>4, <1>5, <1>6, <1>7 DEF Next, Rest

\* No step of any method leaves a negative amount in the account, or on hold what it does not own.
LEMMA AlwaysSolvent == Spec => []Solvent
BY InitSolvent, SolventStep, PTL DEF Spec
-----------------------------------------------------------------------------
(***************************************************************************)
(* The inductive invariant of the orders.  What closes an order depends on *)
(* the step the method is at: an order is accepted or refused only while   *)
(* it is NEW, and filled only while it is OPEN, which TaskInv says.  That  *)
(* a fill is positive and does not exceed what is pending takes the bound  *)
(* on the liquidity of the bar.                                            *)
(***************************************************************************)

TaskInv ==
    /\ task.at \in {"borrow", "rollback", "hold"} => orders[task.order].status = "NEW"
    /\ task.at = "process" => orders[task.order].status = "OPEN"

OrderInv(o, hold) ==
    /\ o.status = "NEW" => o.filled = 0
    /\ o.status = "OPEN" => 0 <= o.filled /\ o.filled < o.amount
    /\ o.status # "OPEN" => hold = Zero

OrdersInv == \A o \in OrderIds : OrderInv(orders[o], holdsByOrder[o])

IInv == TypeInv /\ TaskInv /\ OrdersInv /\ LiquidityBounded

\* What the positions hold after a step that replaces the order at one of them.
LEMMA OrderAt ==
    ASSUME TypeInv,
           NEW id \in OrderIds, NEW o \in OrderRecord, NEW hold \in [Symbols -> Int],
           orders' = [orders EXCEPT ![id] = o],
           \/ holdsByOrder' = [holdsByOrder EXCEPT ![id] = hold]
           \/ UNCHANGED holdsByOrder /\ hold = holdsByOrder[id]
    PROVE  /\ OrderIds' = OrderIds
           /\ orders'[id] = o
           /\ holdsByOrder'[id] = hold
           /\ \A p \in OrderIds :
                p # id => orders'[p] = orders[p] /\ holdsByOrder'[p] = holdsByOrder[p]
<1>1. /\ orders \in Seq(OrderRecord)
      /\ holdsByOrder \in Seq([Symbols -> Int]) /\ Len(holdsByOrder) = Len(orders)
    BY DEF TypeInv, TypeOK
<1>2. id \in 1..Len(orders) /\ id \in 1..Len(holdsByOrder)
    BY <1>1 DEF OrderIds
<1>3. /\ Len(orders') = Len(orders)
      /\ \A p \in 1..Len(orders) : orders'[p] = IF p = id THEN o ELSE orders[p]
    BY <1>1, <1>2, ExceptSeq
<1>4. \A p \in 1..Len(orders) : holdsByOrder'[p] = IF p = id THEN hold ELSE holdsByOrder[p]
    <2>1. CASE holdsByOrder' = [holdsByOrder EXCEPT ![id] = hold]
        BY <1>1, <1>2, <2>1, ExceptSeq
    <2>2. CASE UNCHANGED holdsByOrder /\ hold = holdsByOrder[id]
        BY <2>2
    <2>. QED
        BY <2>1, <2>2
<1>. QED
    BY <1>2, <1>3, <1>4 DEF OrderIds

\* It is enough to look at that order.
LEMMA OrderKept ==
    ASSUME IInv,
           NEW id \in OrderIds, NEW o \in OrderRecord, NEW hold \in [Symbols -> Int],
           orders' = [orders EXCEPT ![id] = o],
           \/ holdsByOrder' = [holdsByOrder EXCEPT ![id] = hold]
           \/ UNCHANGED holdsByOrder /\ hold = holdsByOrder[id],
           OrderInv(o, hold)
    PROVE  OrdersInv'
<1>1. TypeInv /\ OrdersInv
    BY DEF IInv
<1>2. /\ OrderIds' = OrderIds
      /\ orders'[id] = o
      /\ holdsByOrder'[id] = hold
      /\ \A p \in OrderIds :
           p # id => orders'[p] = orders[p] /\ holdsByOrder'[p] = holdsByOrder[p]
    BY <1>1, OrderAt
<1>3. ASSUME NEW p \in OrderIds
      PROVE  OrderInv(orders'[p], holdsByOrder'[p])
    BY <1>1, <1>2 DEF OrdersInv
<1>. QED
    BY <1>2, <1>3 DEF OrdersInv, OrderInv, Zero, ZeroMap

\* The order the method goes on with is open, and none of the others changed.
LEMMA NextIsOpen ==
    ASSUME IInv, task.at # "idle", task' = NextTask,
           \A p \in OrderIds : p # task.order => orders'[p] = orders[p]
    PROVE  TaskInv'
<1>1. CASE task' = Idle
    BY <1>1 DEF Idle, TaskInv
<1>2. CASE /\ NextTask.at = "process"
           /\ NextTask.order \in OpenOrdersAfter(task.order, orders[task.order].pair)
    <2>1. /\ task'.order \in OrderIds /\ task'.order > task.order
          /\ orders[task'.order].status = "OPEN"
        BY <1>2 DEF OpenOrdersAfter, IsOpen
    <2>2. task.order \in Nat
        BY TheTasksOrder DEF IInv, OrderIds
    <2>3. orders'[task'.order].status = "OPEN"
        BY <2>1, <2>2 DEF OrderIds
    <2>. QED
        BY <1>2, <2>3 DEF TaskInv
<1>. QED
    BY <1>1, <1>2, NextTaskType DEF IInv

\* A fill is positive, and exceeds neither what is pending nor the liquidity of the bar.
LEMMA FillBounds ==
    ASSUME IInv, task.at = "process", NEW slip \in Slips,
           FillOf(orders[task.order], slip).filled
    PROVE  LET o      == orders[task.order]
               amount == FillOf(o, slip).amount
           IN  /\ amount \in Nat /\ 0 < amount
               /\ amount <= o.amount - o.filled
               /\ amount * 100 <= liquidity[o.pair].total - liquidity[o.pair].used
<1>. DEFINE o == orders[task.order]
            avail == AvailableLiquidity(liquidity[o.pair])
            amount == FillableAmount(o, avail)
<1>1. TypeInv /\ task.order \in OrderIds /\ o \in OrderRecord /\ o.pair \in Bases
    BY TheTasksOrder DEF IInv
<1>2. /\ liquidity[o.pair].total \in Int /\ liquidity[o.pair].used \in Int
      /\ liquidity[o.pair].used <= liquidity[o.pair].total
    BY <1>1 DEF TypeInv, TypeOK, IInv, LiquidityBounded
<1>3. avail \in Nat /\ avail = liquidity[o.pair].total - liquidity[o.pair].used
    BY <1>2 DEF AvailableLiquidity
<1>4. AmountPending(o) = o.amount - o.filled /\ AmountPending(o) \in Nat /\ AmountPending(o) > 0
    <2>1. o.amount \in Nat /\ o.filled \in Int /\ 0 <= o.filled /\ o.filled < o.amount
        BY <1>1 DEF IInv, TaskInv, OrdersInv, OrderInv, OrderRecord
    <2>. QED
        BY <2>1 DEF AmountPending
<1>5. FillOf(o, slip).amount = amount /\ amount # 0
    BY DEF FillOf, TryFill
<1>. HIDE DEF o, avail
<1>6. TruncateBase(avail) \in Nat /\ TruncateBase(avail) * 100 <= avail
    BY <1>3 DEF TruncateBase
<1>7. amount \in Nat /\ amount <= AmountPending(o) /\ amount * 100 <= avail
    BY <1>3, <1>4, <1>6 DEF FillableAmount, Smaller
<1>. QED
    BY <1>3, <1>4, <1>5, <1>7 DEF o
-----------------------------------------------------------------------------
\* Steps that leave the orders, their holds and the liquidity alone.
LEMMA OnlyTheTask ==
    ASSUME IInv, UNCHANGED <<orders, holdsByOrder, liquidity>>, TaskInv'
    PROVE  OrdersInv' /\ LiquidityBounded'
BY DEF IInv, OrdersInv, OrderInv, OrderIds, Zero, ZeroMap, LiquidityBounded

LEMMA InitInv == Init => IInv
<1>. SUFFICES ASSUME Init PROVE IInv
    OBVIOUS
<1>1. OrderIds = {}
    BY EmptySeq DEF Init, OrdersInit, OrderIds
<1>. QED
    BY <1>1, InitType
       DEF IInv, Init, OrdersInit, Idle, TaskInv, OrdersInv, LiquidityBounded

\* add_order appends an order that is NEW and holds nothing.
LEMMA AddOrderInv ==
    ASSUME IInv, NEW req \in Requests, AddOrder(req)
    PROVE  TaskInv' /\ OrdersInv' /\ LiquidityBounded'
<1>. DEFINE o == NewOrder(req)
            n == Len(orders) + 1
<1>1. /\ orders \in Seq(OrderRecord) /\ holdsByOrder \in Seq([Symbols -> Int])
      /\ Len(holdsByOrder) = Len(orders) /\ Len(orders) \in Nat
    BY LenProperties DEF IInv, TypeInv, TypeOK
<1>2. o \in OrderRecord /\ o.status = "NEW" /\ o.filled = 0
    BY ExchangeAssumption
       DEF NewOrder, OrderRecord, Request, Statuses, IInv, TypeInv, TypeOK
<1>3. orders' = Append(orders, o) /\ holdsByOrder' = Append(holdsByOrder, Zero)
    BY DEF AddOrder
<1>. HIDE DEF o
<1>4. /\ Len(orders') = n
      /\ orders'[n] = o /\ holdsByOrder'[n] = Zero
      /\ \A p \in 1..Len(orders) : orders'[p] = orders[p] /\ holdsByOrder'[p] = holdsByOrder[p]
    BY <1>1, <1>2, <1>3, ZeroType, AppendProperties
<1>5. TaskInv'
    <2>1. task'.order = n /\ task'.at \in {"borrow", "hold"}
        BY DEF AddOrder, Idle
    <2>. QED
        BY <1>2, <1>4, <2>1 DEF TaskInv
<1>6. ASSUME NEW p \in OrderIds'
      PROVE  OrderInv(orders'[p], holdsByOrder'[p])
    <2>1. CASE p = n
        BY <1>2, <1>4, <2>1 DEF OrderInv
    <2>2. CASE p \in OrderIds
        BY <1>4, <2>2 DEF IInv, OrdersInv, OrderIds
    <2>. QED
        BY <1>1, <1>4, <2>1, <2>2 DEF OrderIds
<1>7. OrdersInv'
    BY <1>6 DEF OrdersInv, OrderInv, Zero, ZeroMap
<1>. QED
    BY <1>5, <1>7 DEF AddOrder, IInv, LiquidityBounded

LEMMA BorrowNextInv ==
    ASSUME IInv, BorrowNext
    PROVE  TaskInv' /\ OrdersInv' /\ LiquidityBounded'
<1>. DEFINE id == task.order
            ids == task.loanIds \union {Len(loans) + 1}
            o == [orders[id] EXCEPT !.loans = ids]
<1>1. /\ TypeInv /\ id \in OrderIds /\ orders[id] \in OrderRecord
      /\ holdsByOrder[id] \in [Symbols -> Int] /\ task \in Task
    BY TheTasksOrder DEF BorrowNext, IInv, TypeInv, TypeOK
<1>2. orders[id].status = "NEW"
    BY DEF BorrowNext, IInv, TaskInv
<1>3. task'.order = id /\ task'.at \in {"borrow", "rollback", "hold"}
    BY <1>1 DEF BorrowNext, Task
<1>4. UNCHANGED <<holdsByOrder, liquidity>>
    BY DEF BorrowNext
<1>5. CASE UNCHANGED orders
    BY <1>2, <1>3, <1>4, <1>5, OnlyTheTask DEF TaskInv
<1>6. CASE orders' = [orders EXCEPT ![id] = o]
    <2>1. ids \in SUBSET (Nat \ {0})
        <3>1. Len(loans) \in Nat
            BY LenProperties DEF IInv, TypeInv, TypeOK
        <3>. QED
            BY <1>1, <3>1 DEF Task
    <2>. HIDE DEF ids
    <2>2. o \in OrderRecord /\ o.status = "NEW" /\ o.filled = orders[id].filled
        BY <1>1, <1>2, <2>1 DEF OrderRecord
    <2>. HIDE DEF o
    <2>3. OrderInv(o, holdsByOrder[id])
        BY <1>1, <1>2, <2>2 DEF IInv, OrdersInv, OrderInv
    <2>4. OrdersInv'
        BY <1>1, <1>4, <1>6, <2>2, <2>3, OrderKept
    <2>5. orders'[id] = o
        BY <1>1, <1>4, <1>6, <2>2, OrderAt
    <2>. QED
        BY <1>3, <1>4, <2>2, <2>4, <2>5 DEF TaskInv, IInv, LiquidityBounded
<1>. QED
    BY <1>5, <1>6 DEF BorrowNext

\* An order that is refused was NEW, so it holds nothing.
LEMMA RefusedInv ==
    ASSUME IInv, task.at \in {"rollback", "hold"},
           orders' = [orders EXCEPT ![task.order].status = "REJECTED"],
           task' = Idle,
           UNCHANGED <<holdsByOrder, liquidity>>
    PROVE  TaskInv' /\ OrdersInv' /\ LiquidityBounded'
<1>. DEFINE id == task.order
            o == [orders[id] EXCEPT !.status = "REJECTED"]
<1>1. /\ TypeInv /\ id \in OrderIds /\ orders[id] \in OrderRecord
      /\ holdsByOrder[id] \in [Symbols -> Int]
    BY TheTasksOrder DEF IInv
<1>2. orders[id].status = "NEW"
    BY DEF IInv, TaskInv
<1>3. o \in OrderRecord /\ o.status = "REJECTED"
    BY <1>1 DEF OrderRecord, Statuses
<1>4. orders' = [orders EXCEPT ![id] = o]
    OBVIOUS
<1>. HIDE DEF o
<1>5. OrderInv(o, holdsByOrder[id])
    BY <1>1, <1>2, <1>3 DEF IInv, OrdersInv, OrderInv
<1>6. OrdersInv'
    BY <1>1, <1>3, <1>4, <1>5, OrderKept
<1>. QED
    BY <1>6 DEF TaskInv, Idle, IInv, LiquidityBounded

\* An order is accepted with something to fill.
LEMMA HoldRequiredInv ==
    ASSUME IInv, HoldRequired
    PROVE  TaskInv' /\ OrdersInv' /\ LiquidityBounded'
<1>. DEFINE id == task.order
            o == [orders[id] EXCEPT !.status = "OPEN"]
            required == RequiredBalances(orders[id])
<1>1. /\ TypeInv /\ id \in OrderIds /\ orders[id] \in OrderRecord /\ task \in Task
    BY TheTasksOrder DEF HoldRequired, IInv, TypeInv, TypeOK
<1>2. orders[id].filled = 0 /\ orders[id].amount \in Nat \ {0}
    BY <1>1 DEF HoldRequired, IInv, TaskInv, OrdersInv, OrderInv, OrderRecord
<1>3. o \in OrderRecord /\ o.status = "OPEN" /\ o.filled = 0 /\ o.amount = orders[id].amount
    BY <1>1, <1>2 DEF OrderRecord, Statuses
<1>4. required \in [Symbols -> Int]
    BY <1>1, RequiredBalancesType DEF TypeInv
<1>5. /\ orders' = [orders EXCEPT ![id] = o]
      /\ holdsByOrder' = [holdsByOrder EXCEPT ![id] = required]
      /\ UNCHANGED liquidity
    BY DEF HoldRequired
<1>. HIDE DEF o, required
<1>6. OrderInv(o, required)
    BY <1>2, <1>3 DEF OrderInv
<1>7. OrdersInv' /\ orders'[id] = o
    BY <1>1, <1>3, <1>4, <1>5, <1>6, OrderKept, OrderAt
<1>8. task'.order = id /\ task'.at \in {"process", "push"}
    BY <1>1 DEF HoldRequired, Task
<1>. QED
    BY <1>3, <1>5, <1>7, <1>8 DEF TaskInv, IInv, LiquidityBounded
-----------------------------------------------------------------------------
\* What a fill makes of the order, its hold and the liquidity of the bar.
LEMMA FillOutcome ==
    ASSUME IInv, NEW slip \in Slips, ProcessFilled(slip)
    PROVE  \E o \in OrderRecord, amount \in Nat \ {0}, hold \in [Symbols -> Int] :
               LET id == task.order
                   liq == liquidity[orders[id].pair]
               IN  /\ orders' = [orders EXCEPT ![id] = o]
                   /\ holdsByOrder' = [holdsByOrder EXCEPT ![id] = hold]
                   /\ liquidity' = [liquidity EXCEPT ![orders[id].pair].used = liq.used + 100 * amount]
                   /\ o.amount = orders[id].amount
                   /\ o.filled = orders[id].filled + amount
                   /\ o.filled <= o.amount
                   /\ o.status = IF o.filled = o.amount THEN "COMPLETED" ELSE "OPEN"
                   /\ o.status = "COMPLETED" => hold = Zero
                   /\ amount * 100 <= liq.total - liq.used
<1>. DEFINE id          == task.order
            o           == orders[id]
            hold        == holdsByOrder[id]
            fill        == FillOf(o, slip)
            quoteAmount == RoundQuote(fill.amount * fill.price)
            fee         == Fee(o, quoteAmount)
            updates     == BalanceUpdates(o, fill.amount, quoteAmount, fee)
            completed   == o.filled + fill.amount >= o.amount
            released    == IF completed THEN Negate(hold) ELSE HoldUpdates(hold, updates)
            status      == IF completed THEN "COMPLETED" ELSE "OPEN"
            filledOrder == [o EXCEPT !.filled = o.filled + fill.amount,
                                     !.quote = o.quote + quoteAmount,
                                     !.fees = o.fees + fee,
                                     !.hit = fill.hit,
                                     !.status = status]
<1>1. /\ TypeInv /\ id \in OrderIds /\ o \in OrderRecord /\ o.pair \in Bases
      /\ hold \in [Symbols -> Int]
    BY TheTasksOrder DEF ProcessFilled, IInv
<1>2. fill.amount \in Int /\ fill.price \in Int /\ fill.hit \in BOOLEAN
    BY <1>1, FillOfType DEF ProcessFilled
<1>3. /\ fill.amount \in Nat \ {0}
      /\ fill.amount <= o.amount - o.filled
      /\ fill.amount * 100 <= liquidity[o.pair].total - liquidity[o.pair].used
    <2>1. task.at = "process" /\ FillOf(orders[task.order], slip).filled
        BY DEF ProcessFilled, CanFill
    <2>. QED
        BY <2>1, FillBounds
<1>. HIDE DEF fill
<1>4. fill.amount * fill.price \in Int
    BY <1>2
<1>5. quoteAmount \in Int /\ fee \in Int
    BY <1>1, <1>4, Rounded, FeeType
<1>. HIDE DEF quoteAmount, fee
<1>6. updates \in [Symbols -> Int]
    BY <1>1, <1>2, <1>5, BalanceUpdatesType
<1>. HIDE DEF updates
<1>7. released \in [Symbols -> Int] /\ Plus(hold, released) \in [Symbols -> Int]
    BY <1>1, <1>6, MapArithmetic, HoldUpdatesType
<1>8. status \in Statuses
    BY DEF Statuses
<1>9. /\ o.filled \in Int /\ o.amount \in Int
      /\ o.filled + fill.amount \in Int /\ o.quote + quoteAmount \in Int /\ o.fees + fee \in Int
    BY <1>1, <1>2, <1>5 DEF OrderRecord
<1>10. completed <=> o.filled + fill.amount = o.amount
    BY <1>3, <1>9
<1>11. completed => Plus(hold, released) = Zero
    BY <1>1 DEF Plus, Negate, Zero, ZeroMap
<1>12. status = "COMPLETED" <=> completed
    OBVIOUS
<1>13. /\ holdsByOrder' = [holdsByOrder EXCEPT ![id] = Plus(hold, released)]
       /\ liquidity' = [liquidity EXCEPT ![o.pair].used = liquidity[o.pair].used + 100 * fill.amount]
       /\ orders' = [orders EXCEPT ![id] = filledOrder]
    BY DEF ProcessFilled, fill, quoteAmount, fee, updates
<1>14. status = IF o.filled + fill.amount = o.amount THEN "COMPLETED" ELSE "OPEN"
    BY <1>10
<1>. HIDE DEF completed, released, status
<1>15. /\ filledOrder \in OrderRecord
       /\ filledOrder.amount = o.amount
       /\ filledOrder.filled = o.filled + fill.amount
       /\ filledOrder.status = status
    BY <1>1, <1>2, <1>8, <1>9 DEF OrderRecord
<1>. HIDE DEF filledOrder
<1>16. filledOrder.filled <= filledOrder.amount
    BY <1>2, <1>3, <1>9, <1>15
<1>. USE <1>3, <1>7, <1>15
<1>. WITNESS filledOrder \in OrderRecord, fill.amount \in Nat \ {0},
             Plus(hold, released) \in [Symbols -> Int]
<1>. QED
    BY <1>3, <1>11, <1>12, <1>13, <1>14, <1>15, <1>16

LEMMA ProcessFilledInv ==
    ASSUME IInv, NEW slip \in Slips, ProcessFilled(slip)
    PROVE  TaskInv' /\ OrdersInv' /\ LiquidityBounded'
<1>. DEFINE id == task.order
            pair == orders[id].pair
            liq == liquidity[pair]
<1>1. /\ TypeInv /\ id \in OrderIds /\ orders[id] \in OrderRecord /\ pair \in Bases
      /\ task \in Task /\ orders[id].status = "OPEN"
    BY TheTasksOrder DEF ProcessFilled, IInv, TypeInv, TypeOK, TaskInv
<1>2. PICK o \in OrderRecord, amount \in Nat \ {0}, hold \in [Symbols -> Int] :
          /\ orders' = [orders EXCEPT ![id] = o]
          /\ holdsByOrder' = [holdsByOrder EXCEPT ![id] = hold]
          /\ liquidity' = [liquidity EXCEPT ![pair].used = liq.used + 100 * amount]
          /\ o.amount = orders[id].amount
          /\ o.filled = orders[id].filled + amount
          /\ o.filled <= o.amount
          /\ o.status = IF o.filled = o.amount THEN "COMPLETED" ELSE "OPEN"
          /\ o.status = "COMPLETED" => hold = Zero
          /\ amount * 100 <= liq.total - liq.used
    BY FillOutcome
<1>3. OrderInv(o, hold)
    <2>1. 0 <= orders[id].filled /\ orders[id].filled \in Int
        BY <1>1 DEF IInv, OrdersInv, OrderInv, OrderRecord
    <2>2. o.filled \in Int /\ o.amount \in Int
        BY DEF OrderRecord
    <2>. QED
        BY <1>2, <2>1, <2>2 DEF OrderInv
<1>4. OrdersInv'
    BY <1>1, <1>2, <1>3, OrderKept
<1>5. LiquidityBounded'
    <2>1. /\ liquidity \in [Bases -> [total : Int, used : Int]]
          /\ \A b \in Bases : 0 <= liquidity[b].used /\ liquidity[b].used <= liquidity[b].total
        BY DEF IInv, TypeInv, TypeOK, LiquidityBounded
    <2>2. liq.used \in Int /\ liq.total \in Int
        BY <1>1, <2>1
    <2>3. /\ 0 <= liq.used + 100 * amount
          /\ liq.used + 100 * amount <= liq.total
        BY <1>1, <1>2, <2>1, <2>2
    <2>4. \A b \in Bases : /\ liquidity'[b].total = liquidity[b].total
                           /\ b # pair => liquidity'[b].used = liquidity[b].used
                           /\ b = pair => liquidity'[b].used = liq.used + 100 * amount
        BY <1>2, <2>1
    <2>. QED
        BY <2>1, <2>3, <2>4 DEF LiquidityBounded
<1>6. task'.at \in {"idle", "push", "repay"}
    <2>1. [task EXCEPT !.at = "push"].at = "push"
        BY <1>1 DEF Task
    <2>2. PICK closed : \/ task' = TaskAfterClosing(task, closed)
                        \/ task' = [task EXCEPT !.at = "push"]
        BY DEF ProcessFilled
    <2>3. \/ TaskAfterClosing(task, closed) = Idle
          \/ TaskAfterClosing(task, closed).at \in {"push", "repay"}
        BY <1>1, TaskAfterClosingType DEF TypeInv
    <2>. QED
        BY <2>1, <2>2, <2>3, IdleType
<1>. QED
    BY <1>4, <1>5, <1>6 DEF TaskInv
-----------------------------------------------------------------------------
\* An order that is closed without a fill releases what it held.
LEMMA OrderClosedInv ==
    ASSUME IInv, NEW id \in OrderIds, NEW o \in OrderRecord, NEW t \in Task,
           o.status = "CANCELED",
           orders' = [orders EXCEPT ![id] = o],
           holdsByOrder' = [holdsByOrder EXCEPT ![id] = Zero],
           task' = TaskAfterClosing(t, o),
           UNCHANGED liquidity
    PROVE  TaskInv' /\ OrdersInv' /\ LiquidityBounded'
<1>1. OrdersInv'
    BY ZeroType, OrderKept DEF OrderInv
<1>2. task'.at \in {"idle", "push", "repay"}
    BY TaskAfterClosingType, IdleType DEF IInv, TypeInv
<1>. QED
    BY <1>1, <1>2 DEF TaskInv, IInv, LiquidityBounded

LEMMA ProcessCanceledInv ==
    ASSUME IInv, NEW slip \in Slips, ProcessCanceled(slip)
    PROVE  TaskInv' /\ OrdersInv' /\ LiquidityBounded'
<1>. DEFINE id == task.order
            o == [Tried(id, slip) EXCEPT !.status = "CANCELED"]
<1>1. id \in OrderIds /\ task \in Task /\ Tried(id, slip) \in OrderRecord
    BY TheTasksOrder, TriedType DEF ProcessCanceled, IInv, TypeInv, TypeOK
<1>2. o \in OrderRecord /\ o.status = "CANCELED"
    BY <1>1 DEF OrderRecord, Statuses
<1>3. /\ orders' = [orders EXCEPT ![id] = o]
      /\ holdsByOrder' = [holdsByOrder EXCEPT ![id] = Zero]
      /\ task' = TaskAfterClosing(task, o)
      /\ UNCHANGED liquidity
    BY DEF ProcessCanceled
<1>. QED
    BY <1>1, <1>2, <1>3, OrderClosedInv

LEMMA CancelOrderInv ==
    ASSUME IInv, NEW id \in OrderIds, CancelOrder(id)
    PROVE  TaskInv' /\ OrdersInv' /\ LiquidityBounded'
<1>. DEFINE t == [Idle EXCEPT !.order = id, !.caller = "cancel_order"]
            o == [orders[id] EXCEPT !.status = "CANCELED"]
<1>1. orders[id] \in OrderRecord /\ o \in OrderRecord /\ o.status = "CANCELED"
    BY OrderTypes DEF IInv, TypeInv, OrderRecord, Statuses
<1>2. t \in Task
    <2>1. id \in Nat /\ Idle \in Task
        BY IdleType DEF OrderIds
    <2>. QED
        BY <2>1 DEF Task
<1>3. TaskAfterClosing(t, orders[id]) = TaskAfterClosing(t, o)
    BY <1>1 DEF TaskAfterClosing, CreditSymbol, OrderRecord
<1>4. /\ orders' = [orders EXCEPT ![id] = o]
      /\ holdsByOrder' = [holdsByOrder EXCEPT ![id] = Zero]
      /\ task' = TaskAfterClosing(t, o)
      /\ UNCHANGED liquidity
    BY <1>3 DEF CancelOrder
<1>. QED
    BY <1>1, <1>2, <1>4, OrderClosedInv

\* Only whether the stop was hit may change.
LEMMA TriedOrder ==
    ASSUME TypeInv, task.at # "idle", NEW slip \in Slips
    PROVE  /\ Tried(task.order, slip).status = orders[task.order].status
           /\ Tried(task.order, slip).filled = orders[task.order].filled
           /\ Tried(task.order, slip).amount = orders[task.order].amount
<1>1. orders[task.order] \in OrderRecord
    BY TheTasksOrder
<1>. QED
    BY <1>1 DEF Tried, OrderRecord

LEMMA ProcessUnfilledInv ==
    ASSUME IInv, NEW slip \in Slips, ProcessUnfilled(slip)
    PROVE  TaskInv' /\ OrdersInv' /\ LiquidityBounded'
<1>. DEFINE id == task.order
            o == Tried(id, slip)
<1>1. /\ TypeInv /\ task.at # "idle" /\ id \in OrderIds /\ task \in Task
      /\ holdsByOrder[id] \in [Symbols -> Int]
    BY TheTasksOrder DEF ProcessUnfilled, IInv, TypeInv, TypeOK
<1>2. o \in OrderRecord
    BY <1>1, TriedType
<1>3. orders' = [orders EXCEPT ![id] = o] /\ UNCHANGED <<holdsByOrder, liquidity>>
    BY DEF ProcessUnfilled
<1>4. OrderInv(o, holdsByOrder[id])
    <2>1. OrderInv(orders[id], holdsByOrder[id])
        BY <1>1 DEF IInv, OrdersInv
    <2>. QED
        BY <1>1, <2>1, TriedOrder DEF OrderInv
<1>. HIDE DEF o
<1>5. OrdersInv' /\ \A p \in OrderIds : p # id => orders'[p] = orders[p]
    BY <1>1, <1>2, <1>3, <1>4, OrderKept, OrderAt
<1>6. TaskInv'
    <2>1. CASE task' = [task EXCEPT !.at = "push"]
        BY <1>1, <2>1 DEF TaskInv, Task
    <2>2. CASE task' = NextTask
        BY <1>1, <1>5, <2>2, NextIsOpen
    <2>. QED
        BY <2>1, <2>2 DEF ProcessUnfilled
<1>. QED
    BY <1>3, <1>5, <1>6 DEF IInv, LiquidityBounded

LEMMA RepayNextInv ==
    ASSUME IInv, RepayNext
    PROVE  TaskInv' /\ OrdersInv' /\ LiquidityBounded'
<1>. DEFINE id == task.order
            l  == Biggest(task.loanIds)
            o  == [orders[id] EXCEPT !.loans = orders[id].loans \union {l}]
<1>1. /\ TypeInv /\ id \in OrderIds /\ orders[id] \in OrderRecord /\ task \in Task
      /\ holdsByOrder[id] \in [Symbols -> Int]
    BY TheTasksOrder DEF RepayNext, IInv, TypeInv, TypeOK
<1>2. l \in Nat \ {0}
    BY DEF RepayNext, RepayLoan, IsOpenLoan, LoanIds
<1>3. orders' = [orders EXCEPT ![id] = o] /\ UNCHANGED <<holdsByOrder, liquidity>>
    BY DEF RepayNext
<1>. HIDE DEF l
<1>4. /\ o \in OrderRecord
      /\ o.status = orders[id].status /\ o.filled = orders[id].filled
      /\ o.amount = orders[id].amount
    BY <1>1, <1>2 DEF OrderRecord
<1>. HIDE DEF o
<1>5. OrderInv(o, holdsByOrder[id])
    BY <1>1, <1>4 DEF IInv, OrdersInv, OrderInv
<1>6. OrdersInv'
    BY <1>1, <1>3, <1>4, <1>5, OrderKept
<1>7. task'.at = "repay"
    BY <1>1 DEF RepayNext, Task
<1>. QED
    BY <1>3, <1>6, <1>7 DEF TaskInv, IInv, LiquidityBounded

LEMMA NewBarInv ==
    ASSUME IInv, NewBar
    PROVE  TaskInv' /\ OrdersInv' /\ LiquidityBounded'
<1>0. PICK b \in Bases : \E bar \in Bars[b] : OnBarEvent(b, bar)
    BY DEF NewBar
<1>1. PICK bar \in Bars[b] : OnBarEvent(b, bar)
    BY <1>0
<1>2. UNCHANGED <<orders, holdsByOrder>>
    BY DEF NewBar
<1>3. TaskInv'
    <2>1. CASE task' = Idle
        BY <2>1 DEF Idle, TaskInv
    <2>2. CASE task'.order \in OpenOrdersAfter(0, b)
        BY <1>1, <1>2, <2>2, ProcessNextType, IdleType
           DEF OpenOrdersAfter, IsOpen, TaskInv, OnBarEvent, IInv, TypeInv
    <2>. QED
        BY <1>1, <2>1, <2>2, ProcessNextType DEF OnBarEvent, IInv, TypeInv
<1>4. OrdersInv'
    BY <1>2 DEF IInv, OrdersInv, OrderInv, OrderIds, Zero, ZeroMap
<1>5. LiquidityBounded'
    <2>1. liquidity \in [Bases -> [total : Int, used : Int]]
        BY DEF IInv, TypeInv, TypeOK
    <2>2. bar.volume \in Nat
        BY ExchangeAssumption DEF Bar
    <2>3. LiquidityOfBar(bar).used = 0 /\ LiquidityOfBar(bar).total \in Nat
        BY <2>2, OrdersAssumption DEF LiquidityOfBar
    <2>4. \A c \in Bases : liquidity'[c] = IF c = b THEN LiquidityOfBar(bar) ELSE liquidity[c]
        BY <1>1, <2>1 DEF OnBarEvent
    <2>. QED
        BY <2>3, <2>4 DEF IInv, LiquidityBounded
<1>. QED
    BY <1>3, <1>4, <1>5
-----------------------------------------------------------------------------
LEMMA InvStep == IInv /\ [Next]_vars => IInv'
<1>. SUFFICES ASSUME IInv, [Next]_vars PROVE TaskInv' /\ OrdersInv' /\ LiquidityBounded'
    BY TypeStep DEF IInv
<1>1. CASE RequestOrder
    BY <1>1, AddOrderInv DEF RequestOrder
<1>2. CASE RequestCancel
    BY <1>2, CancelOrderInv DEF RequestCancel
<1>3. CASE RequestLoan \/ RequestRepayment \/ UNCHANGED vars
    <2>1. UNCHANGED <<orders, holdsByOrder, liquidity, task>>
        BY <1>3 DEF RequestLoan, RequestRepayment, managers, vars
    <2>. QED
        BY <2>1, OnlyTheTask DEF IInv, TaskInv
<1>4. CASE NewBar
    BY <1>4, NewBarInv
<1>5. CASE BorrowNext
    BY <1>5, BorrowNextInv
<1>6. CASE \/ BorrowFails \/ RollbackNext \/ SkipRepayment \/ RepaymentDone
    <2>1. UNCHANGED <<orders, holdsByOrder, liquidity>>
        BY <1>6 DEF BorrowFails, RollbackNext, SkipRepayment, RepaymentDone
    <2>2. task \in Task
        BY DEF IInv, TypeInv, TypeOK
    <2>3. CASE BorrowFails \/ RollbackNext
        BY <2>1, <2>2, <2>3, OnlyTheTask DEF BorrowFails, RollbackNext, Task, IInv, TaskInv
    <2>4. CASE SkipRepayment \/ RepaymentDone
        BY <2>1, <2>2, <2>4, OnlyTheTask DEF SkipRepayment, RepaymentDone, Task, TaskInv
    <2>. QED
        BY <1>6, <2>3, <2>4
<1>7. CASE Refuse \/ HoldFails
    BY <1>7, RefusedInv DEF Refuse, HoldFails
<1>8. CASE HoldRequired
    BY <1>8, HoldRequiredInv
<1>9. CASE \E slip \in Slips : ProcessFilled(slip) \/ ProcessCanceled(slip) \/ ProcessUnfilled(slip)
    BY <1>9, ProcessFilledInv, ProcessCanceledInv, ProcessUnfilledInv
<1>10. CASE RepayNext
    BY <1>10, RepayNextInv
<1>11. CASE PushOrderUpdate
    <2>1. UNCHANGED <<orders, holdsByOrder, liquidity>> /\ task.at # "idle" /\ task' = NextTask
        BY <1>11 DEF PushOrderUpdate
    <2>. QED
        BY <2>1, NextIsOpen, OnlyTheTask
<1>. QED
    BY <1>1, <1>2, <1>3, <1>4, <1>5, <1>6, <1>7, <1>8, <1>9, <1>10, <1>11
       DEF Next, MethodStep, Rest

LEMMA Invariant == Spec => []IInv
BY InitInv, InvStep, PTL DEF Spec

\* An order that is not open holds nothing, on whichever path of _order_closed, add_order or
\* cancel_order it came there.
THEOREM ClosedOrdersHoldNothing == Spec => []OnlyOpenOrdersHold
<1>1. IInv => OnlyOpenOrdersHold
    BY DEF IInv, OrdersInv, OrderInv, OnlyOpenOrdersHold
<1>. QED
    BY <1>1, Invariant, PTL

\* However many orders share a bar, their fills stay within the share of its volume on offer:
\* take_liquidity never raises.
THEOREM LiquidityNeverOversold == Spec => []LiquidityBounded
<1>1. IInv => LiquidityBounded
    BY DEF IInv
<1>. QED
    BY <1>1, Invariant, PTL
-----------------------------------------------------------------------------
(***************************************************************************)
(* The exchange implements OrderLifecycle: every step moves one order the  *)
(* way the lifecycle allows, or none.                                      *)
(***************************************************************************)

LEMMA BookDomain ==
    ASSUME TypeOK
    PROVE  /\ Book \in Seq([amount : Nat, status : Statuses, filled : Int])
           /\ Len(Book) = Len(orders) /\ DOMAIN Book = OrderIds
<1>. DEFINE S == [amount : Nat, status : Statuses, filled : Int]
<1>1. Len(orders) \in Nat
    BY LenProperties DEF TypeOK
<1>2. \A o \in OrderIds : Entry(orders[o]) \in S
    BY OrderTypes DEF Entry, OrderRecord
<1>3. Book \in [1..Len(orders) -> S]
    BY <1>2 DEF Book, OrderIds
<1>4. Book \in Seq(S)
    BY <1>1, <1>3, SeqDef
<1>. QED
    BY <1>1, <1>3, <1>4, LenProperties DEF OrderIds

LEMMA BookReplaced ==
    ASSUME TypeInv,
           NEW id \in OrderIds, NEW o \in OrderRecord, orders' = [orders EXCEPT ![id] = o]
    PROVE  Book' = [Book EXCEPT ![id] = Entry(o)]
<1>1. orders \in Seq(OrderRecord) /\ id \in 1..Len(orders)
    BY DEF TypeInv, TypeOK, OrderIds
<1>2. /\ Len(orders') = Len(orders)
      /\ \A p \in 1..Len(orders) : orders'[p] = IF p = id THEN o ELSE orders[p]
    BY <1>1, ExceptSeq
<1>. QED
    BY <1>2 DEF Book, OrderIds, Entry

\* A step that changes neither the status nor what is filled.
LEMMA BookStutters ==
    ASSUME TypeInv,
           NEW id \in OrderIds, NEW o \in OrderRecord, orders' = [orders EXCEPT ![id] = o],
           o.status = orders[id].status, o.filled = orders[id].filled, o.amount = orders[id].amount
    PROVE  UNCHANGED Book
<1>1. Entry(o) = Entry(orders[id])
    BY DEF Entry
<1>. QED
    BY <1>1, BookReplaced DEF Book, OrderIds

\* A step that changes the status only.
LEMMA BookMoves ==
    ASSUME TypeInv, NEW id \in OrderIds,
           NEW o \in OrderRecord, orders' = [orders EXCEPT ![id] = o],
           o.filled = orders[id].filled, o.amount = orders[id].amount
    PROVE  Lifecycle!Move(id, orders[id].status, o.status)
<1>1. Book[id] = Entry(orders[id])
    BY DEF Book
<1>2. Entry(o) = [Entry(orders[id]) EXCEPT !.status = o.status]
    BY DEF Entry
<1>3. Book' = [Book EXCEPT ![id] = Entry(o)]
    BY BookReplaced
<1>4. Book' = [Book EXCEPT ![id].status = o.status]
    BY <1>1, <1>2, <1>3
<1>5. Book[id].status = orders[id].status
    BY <1>1 DEF Entry
<1>. QED
    BY <1>4, <1>5 DEF Lifecycle!Move

LEMMA AddOrderCreates ==
    ASSUME TypeInv, NEW req \in Requests, AddOrder(req)
    PROVE  Lifecycle!Create
<1>. DEFINE o == NewOrder(req)
            n == Len(orders) + 1
<1>1. orders \in Seq(OrderRecord) /\ Len(orders) \in Nat
    BY LenProperties DEF TypeInv, TypeOK
<1>2. o \in OrderRecord /\ o.status = "NEW" /\ o.filled = 0 /\ o.amount = req.amount
    BY ExchangeAssumption DEF NewOrder, OrderRecord, Request, Statuses, TypeInv, TypeOK
<1>3. orders' = Append(orders, o)
    BY DEF AddOrder
<1>. HIDE DEF o
<1>4. /\ Len(orders') = n /\ orders'[n] = o
      /\ \A p \in 1..Len(orders) : orders'[p] = orders[p]
    BY <1>1, <1>2, <1>3, AppendProperties
<1>5. Book' = [p \in 1..n |-> IF p = n THEN Entry(o) ELSE Book[p]]
    BY <1>1, <1>4 DEF Book, OrderIds, Entry
<1>6. Append(Book, Entry(o)) = [p \in 1..n |-> IF p = n THEN Entry(o) ELSE Book[p]]
    <2>1. /\ Book \in Seq([amount : Nat, status : Statuses, filled : Int])
          /\ Len(Book) = Len(orders)
        BY BookDomain DEF TypeInv
    <2>2. Entry(o) \in [amount : Nat, status : Statuses, filled : Int]
        BY <1>2 DEF Entry, OrderRecord
    <2>3. /\ Append(Book, Entry(o)) \in Seq([amount : Nat, status : Statuses, filled : Int])
          /\ Len(Append(Book, Entry(o))) = n
          /\ \A p \in 1..Len(orders) : Append(Book, Entry(o))[p] = Book[p]
          /\ Append(Book, Entry(o))[n] = Entry(o)
        BY <2>1, <2>2, AppendProperties
    <2>4. Append(Book, Entry(o)) \in [1..n -> [amount : Nat, status : Statuses, filled : Int]]
        BY <2>3, LenProperties
    <2>5. \A p \in 1..n : Append(Book, Entry(o))[p] = IF p = n THEN Entry(o) ELSE Book[p]
        BY <1>1, <2>3
    <2>. HIDE DEF n
    <2>. QED
        BY <2>4, <2>5
<1>7. req.amount \in Amounts
    BY DEF Amounts
<1>8. Entry(o) = [amount |-> req.amount, status |-> "NEW", filled |-> 0]
    BY <1>2 DEF Entry
<1>. QED
    BY <1>5, <1>6, <1>7, <1>8 DEF Lifecycle!Create

LEMMA ProcessFilledFills ==
    ASSUME IInv, NEW slip \in Slips, ProcessFilled(slip)
    PROVE  Lifecycle!Fill(task.order)
<1>. DEFINE id == task.order
<1>1. /\ TypeInv /\ id \in OrderIds /\ orders[id] \in OrderRecord /\ orders[id].status = "OPEN"
    BY TheTasksOrder DEF ProcessFilled, IInv, TaskInv
<1>2. PICK o \in OrderRecord, amount \in Nat \ {0} :
          /\ orders' = [orders EXCEPT ![id] = o]
          /\ o.amount = orders[id].amount
          /\ o.filled = orders[id].filled + amount
          /\ o.filled <= o.amount
          /\ o.status = IF o.filled = o.amount THEN "COMPLETED" ELSE "OPEN"
    BY FillOutcome
<1>3. Book[id] = Entry(orders[id])
    BY <1>1 DEF Book
<1>4. Book' = [Book EXCEPT ![id] = Entry(o)]
    BY <1>1, <1>2, BookReplaced
<1>5. Entry(o) = [Entry(orders[id]) EXCEPT !.filled = o.filled, !.status = o.status]
    <2>1. o.amount = orders[id].amount
        BY <1>2
    <2>. DEFINE e == [amount |-> o.amount, status |-> orders[id].status, filled |-> o.filled]
    <2>2. [Entry(orders[id]) EXCEPT !.filled = o.filled] = e
        BY <2>1 DEF Entry
    <2>3. Entry(o) = [e EXCEPT !.status = o.status]
        BY DEF Entry
    <2>. QED
        BY <2>2, <2>3
<1>6. o.filled \in orders[id].filled + 1 .. orders[id].amount
    BY <1>1, <1>2 DEF OrderRecord
<1>7. /\ Book[id].status = "OPEN"
      /\ Book[id].filled = orders[id].filled /\ Book[id].amount = orders[id].amount
    BY <1>1, <1>3 DEF Entry
<1>8. Book' = [Book EXCEPT ![id].filled = o.filled, ![id].status = o.status]
    BY <1>1, <1>3, <1>4, <1>5, BookDomain DEF TypeInv
<1>9. o.status = IF o.filled = Book[id].amount THEN "COMPLETED" ELSE "OPEN"
    BY <1>2, <1>7
<1>. QED
    BY <1>6, <1>7, <1>8, <1>9 DEF Lifecycle!Fill

LEMMA LifecycleStep == IInv /\ [Next]_vars => [Lifecycle!Next]_Book
<1>. SUFFICES ASSUME IInv, [Next]_vars PROVE Lifecycle!Next \/ UNCHANGED Book
    OBVIOUS
<1>1. TypeInv
    BY DEF IInv
<1>2. \A id \in OrderIds : id \in DOMAIN Book
    BY <1>1, BookDomain DEF TypeInv
<1>3. CASE UNCHANGED orders
    BY <1>3 DEF Book, OrderIds
<1>4. CASE RequestOrder
    BY <1>1, <1>4, AddOrderCreates DEF RequestOrder, Lifecycle!Next
<1>5. CASE BorrowNext
    <2>. DEFINE id == task.order
                ids == task.loanIds \union {Len(loans) + 1}
                o == [orders[id] EXCEPT !.loans = ids]
    <2>1. id \in OrderIds /\ orders[id] \in OrderRecord /\ task \in Task /\ Len(loans) \in Nat
        BY <1>1, <1>5, TheTasksOrder, LenProperties DEF BorrowNext, TypeInv, TypeOK
    <2>2. ids \in SUBSET (Nat \ {0})
        BY <2>1 DEF Task
    <2>3. UNCHANGED orders \/ orders' = [orders EXCEPT ![id] = o]
        BY <1>5 DEF BorrowNext
    <2>. HIDE DEF ids
    <2>4. /\ o \in OrderRecord
          /\ o.status = orders[id].status /\ o.filled = orders[id].filled
          /\ o.amount = orders[id].amount
        BY <2>1, <2>2 DEF OrderRecord
    <2>. HIDE DEF o
    <2>. QED
        BY <1>1, <1>3, <2>1, <2>3, <2>4, BookStutters
<1>6. CASE Refuse \/ HoldFails
    <2>. DEFINE id == task.order
                o == [orders[id] EXCEPT !.status = "REJECTED"]
    <2>1. id \in OrderIds /\ orders[id] \in OrderRecord /\ orders[id].status = "NEW"
        BY <1>1, <1>6, TheTasksOrder DEF Refuse, HoldFails, IInv, TaskInv
    <2>2. orders' = [orders EXCEPT ![id] = o]
        BY <1>6 DEF Refuse, HoldFails
    <2>3. /\ o \in OrderRecord /\ o.status = "REJECTED"
          /\ o.filled = orders[id].filled /\ o.amount = orders[id].amount
        BY <2>1 DEF OrderRecord, Statuses
    <2>. HIDE DEF o
    <2>4. Lifecycle!Refuse(id)
        BY <1>1, <2>1, <2>2, <2>3, BookMoves DEF Lifecycle!Refuse
    <2>. QED
        BY <1>2, <2>1, <2>4 DEF Lifecycle!Next
<1>7. CASE HoldRequired
    <2>. DEFINE id == task.order
                o == [orders[id] EXCEPT !.status = "OPEN"]
    <2>1. id \in OrderIds /\ orders[id] \in OrderRecord /\ orders[id].status = "NEW"
        BY <1>1, <1>7, TheTasksOrder DEF HoldRequired, IInv, TaskInv
    <2>2. orders' = [orders EXCEPT ![id] = o]
        BY <1>7 DEF HoldRequired
    <2>3. /\ o \in OrderRecord /\ o.status = "OPEN"
          /\ o.filled = orders[id].filled /\ o.amount = orders[id].amount
        BY <2>1 DEF OrderRecord, Statuses
    <2>. HIDE DEF o
    <2>4. Lifecycle!Accept(id)
        BY <1>1, <2>1, <2>2, <2>3, BookMoves DEF Lifecycle!Accept
    <2>. QED
        BY <1>2, <2>1, <2>4 DEF Lifecycle!Next
<1>8. ASSUME NEW slip \in Slips, ProcessFilled(slip)
      PROVE  Lifecycle!Next
    <2>1. task.order \in OrderIds
        BY <1>1, <1>8, TheTasksOrder DEF ProcessFilled
    <2>. QED
        BY <1>2, <1>8, <2>1, ProcessFilledFills DEF Lifecycle!Next
<1>9. ASSUME NEW slip \in Slips, ProcessCanceled(slip)
      PROVE  Lifecycle!Next
    <2>. DEFINE id == task.order
                o == [Tried(id, slip) EXCEPT !.status = "CANCELED"]
    <2>1. /\ id \in OrderIds /\ Tried(id, slip) \in OrderRecord
          /\ orders[id].status = "OPEN"
        BY <1>1, <1>9, TheTasksOrder, TriedType DEF ProcessCanceled, IInv, TaskInv
    <2>2. orders' = [orders EXCEPT ![id] = o]
        BY <1>9 DEF ProcessCanceled
    <2>3. /\ o \in OrderRecord /\ o.status = "CANCELED"
          /\ o.filled = Tried(id, slip).filled /\ o.amount = Tried(id, slip).amount
        BY <2>1 DEF OrderRecord, Statuses
    <2>4. o.filled = orders[id].filled /\ o.amount = orders[id].amount
        BY <1>1, <1>9, <2>3, TriedOrder DEF ProcessCanceled
    <2>. HIDE DEF o
    <2>5. Lifecycle!Cancel(id)
        BY <1>1, <2>1, <2>2, <2>3, <2>4, BookMoves DEF Lifecycle!Cancel
    <2>. QED
        BY <1>2, <2>1, <2>5 DEF Lifecycle!Next
<1>10. ASSUME NEW id \in OrderIds, CancelOrder(id)
       PROVE  Lifecycle!Next
    <2>. DEFINE o == [orders[id] EXCEPT !.status = "CANCELED"]
    <2>1. orders[id] \in OrderRecord /\ orders[id].status = "OPEN"
        BY <1>1, <1>10, OrderTypes DEF CancelOrder, IsOpen, TypeInv
    <2>2. orders' = [orders EXCEPT ![id] = o]
        BY <1>10 DEF CancelOrder
    <2>3. /\ o \in OrderRecord /\ o.status = "CANCELED"
          /\ o.filled = orders[id].filled /\ o.amount = orders[id].amount
        BY <2>1 DEF OrderRecord, Statuses
    <2>. HIDE DEF o
    <2>4. Lifecycle!Cancel(id)
        BY <1>1, <2>1, <2>2, <2>3, BookMoves DEF Lifecycle!Cancel
    <2>. QED
        BY <1>2, <2>4 DEF Lifecycle!Next
<1>11. ASSUME NEW slip \in Slips, ProcessUnfilled(slip)
       PROVE  UNCHANGED Book
    <2>1. /\ task.at # "idle" /\ task.order \in OrderIds
          /\ Tried(task.order, slip) \in OrderRecord
        BY <1>1, <1>11, TheTasksOrder, TriedType DEF ProcessUnfilled
    <2>2. orders' = [orders EXCEPT ![task.order] = Tried(task.order, slip)]
        BY <1>11 DEF ProcessUnfilled
    <2>3. /\ Tried(task.order, slip).status = orders[task.order].status
          /\ Tried(task.order, slip).filled = orders[task.order].filled
          /\ Tried(task.order, slip).amount = orders[task.order].amount
        BY <1>1, <2>1, TriedOrder
    <2>. QED
        BY <1>1, <2>1, <2>2, <2>3, BookStutters
<1>12. CASE RepayNext
    <2>. DEFINE id == task.order
                l  == Biggest(task.loanIds)
                o  == [orders[id] EXCEPT !.loans = orders[id].loans \union {l}]
    <2>1. id \in OrderIds /\ orders[id] \in OrderRecord
        BY <1>1, <1>12, TheTasksOrder DEF RepayNext
    <2>2. l \in Nat \ {0}
        BY <1>12 DEF RepayNext, RepayLoan, IsOpenLoan, LoanIds
    <2>3. orders' = [orders EXCEPT ![id] = o]
        BY <1>12 DEF RepayNext
    <2>. HIDE DEF l
    <2>4. /\ o \in OrderRecord
          /\ o.status = orders[id].status /\ o.filled = orders[id].filled
          /\ o.amount = orders[id].amount
        BY <2>1, <2>2 DEF OrderRecord
    <2>. HIDE DEF o
    <2>. QED
        BY <1>1, <2>1, <2>3, <2>4, BookStutters
<1>13. CASE \/ RequestLoan \/ RequestRepayment \/ NewBar \/ BorrowFails \/ RollbackNext
            \/ SkipRepayment \/ RepaymentDone \/ PushOrderUpdate \/ UNCHANGED vars
    BY <1>3, <1>13
       DEF RequestLoan, RequestRepayment, NewBar, BorrowFails, RollbackNext, SkipRepayment,
           RepaymentDone, PushOrderUpdate, managers, vars
<1>. QED
    BY <1>4, <1>5, <1>6, <1>7, <1>8, <1>9, <1>10, <1>11, <1>12, <1>13
       DEF Next, MethodStep, RequestCancel, Rest

\* Whatever happens to the account, an order is accepted or refused once, is filled in positive
\* parts of at most its amount while it is open, and does not change once it is closed.
THEOREM LifecycleKept == Spec => KeepsLifecycle
<1>1. Init => Lifecycle!Init
    <2>. SUFFICES ASSUME Init PROVE Book = << >>
        BY DEF Lifecycle!Init
    <2>1. TypeOK /\ Len(orders) = 0
        BY InitType, EmptySeq DEF TypeInv, Init, OrdersInit
    <2>2. /\ Book \in Seq([amount : Nat, status : Statuses, filled : Int])
          /\ Len(Book) = 0
        BY <2>1, BookDomain
    <2>. QED
        BY <2>2, EmptySeq
<1>. QED
    BY <1>1, LifecycleStep, Invariant, PTL DEF Spec, KeepsLifecycle, Lifecycle!Spec
-----------------------------------------------------------------------------
(***************************************************************************)
(* Which step may change what of an order.                                 *)
(***************************************************************************)

SameTerms(o, p) ==
    /\ o.type = p.type /\ o.operation = p.operation /\ o.pair = p.pair
    /\ o.amount = p.amount /\ o.limit = p.limit /\ o.createdAt = p.createdAt

SameFills(o, p) == o.filled = p.filled /\ o.quote = p.quote /\ o.fees = p.fees

FillOfTask == \E slip \in Slips : ProcessFilled(slip)

\* The outcome of a fill for the order.
FilledBy(slip, o) ==
    LET old    == orders[task.order]
        fill   == FillOf(old, slip)
        quote  == RoundQuote(fill.amount * fill.price)
    IN  /\ SameTerms(o, old)
        /\ o.filled = old.filled + fill.amount
        /\ o.quote = old.quote + quote
        /\ o.fees = old.fees + Fee(old, quote)
        /\ o.status = IF o.filled >= o.amount THEN "COMPLETED" ELSE "OPEN"

LEMMA FilledOrder ==
    ASSUME TypeInv, NEW slip \in Slips, ProcessFilled(slip)
    PROVE  \E o \in OrderRecord :
               orders' = [orders EXCEPT ![task.order] = o] /\ FilledBy(slip, o)
<1>. DEFINE old    == orders[task.order]
            fill   == FillOf(old, slip)
            quote  == RoundQuote(fill.amount * fill.price)
            fee    == Fee(old, quote)
            status == IF old.filled + fill.amount >= old.amount THEN "COMPLETED" ELSE "OPEN"
            o      == [old EXCEPT !.filled = old.filled + fill.amount,
                                  !.quote = old.quote + quote,
                                  !.fees = old.fees + fee,
                                  !.hit = fill.hit,
                                  !.status = status]
<1>1. task.at # "idle" /\ old \in OrderRecord
    BY TheTasksOrder DEF ProcessFilled
<1>2. fill.amount \in Int /\ fill.price \in Int /\ fill.hit \in BOOLEAN
    BY <1>1, FillOfType
<1>3. orders' = [orders EXCEPT ![task.order] = o]
    BY DEF ProcessFilled
<1>. HIDE DEF fill
<1>4. fill.amount * fill.price \in Int
    BY <1>2
<1>5. quote \in Int /\ fee \in Int
    BY <1>1, <1>4, Rounded, FeeType
<1>6. status \in Statuses
    BY DEF Statuses
<1>7. /\ old.filled + fill.amount \in Int /\ old.quote + quote \in Int /\ old.fees + fee \in Int
    BY <1>1, <1>2, <1>5 DEF OrderRecord
<1>8. status = IF old.filled + fill.amount >= old.amount THEN "COMPLETED" ELSE "OPEN"
    OBVIOUS
<1>. HIDE DEF quote, fee, status
<1>9. o \in OrderRecord
    BY <1>1, <1>2, <1>6, <1>7 DEF OrderRecord
<1>10. /\ SameTerms(o, old) /\ o.filled = old.filled + fill.amount
       /\ o.quote = old.quote + quote /\ o.fees = old.fees + fee /\ o.status = status
    BY <1>1 DEF SameTerms, OrderRecord
<1>. HIDE DEF o, old
<1>11. o.amount = old.amount
    BY <1>10 DEF SameTerms
<1>12. FilledBy(slip, o)
    BY <1>8, <1>10, <1>11 DEF FilledBy, old, fill, quote, fee
<1>. QED
    BY <1>3, <1>9, <1>12

LEMMA OrdersReplaced ==
    ASSUME TypeInv, [Next]_vars
    PROVE  \/ UNCHANGED orders
           \/ RequestOrder
           \/ \E id \in OrderIds, o \in OrderRecord :
                  /\ orders' = [orders EXCEPT ![id] = o]
                  /\ SameTerms(o, orders[id])
                  /\ SameFills(o, orders[id])
           \/ FillOfTask
<1>. DEFINE Goal == \E id \in OrderIds, o \in OrderRecord :
                        /\ orders' = [orders EXCEPT ![id] = o]
                        /\ SameTerms(o, orders[id])
                        /\ SameFills(o, orders[id])
<1>1. ASSUME NEW id \in OrderIds, NEW status \in Statuses,
             orders' = [orders EXCEPT ![id].status = status]
      PROVE  Goal
    <2>. DEFINE o == [orders[id] EXCEPT !.status = status]
    <2>1. orders[id] \in OrderRecord
        BY OrderTypes DEF TypeInv
    <2>2. o \in OrderRecord /\ SameTerms(o, orders[id]) /\ SameFills(o, orders[id])
        BY <2>1 DEF OrderRecord, SameTerms, SameFills
    <2>3. orders' = [orders EXCEPT ![id] = o]
        BY <1>1
    <2>. HIDE DEF o
    <2>. QED
        BY <2>2, <2>3
<1>2. ASSUME NEW id \in OrderIds, NEW ids \in SUBSET (Nat \ {0}),
             orders' = [orders EXCEPT ![id].loans = ids]
      PROVE  Goal
    <2>. DEFINE o == [orders[id] EXCEPT !.loans = ids]
    <2>1. orders[id] \in OrderRecord
        BY OrderTypes DEF TypeInv
    <2>2. o \in OrderRecord /\ SameTerms(o, orders[id]) /\ SameFills(o, orders[id])
        BY <2>1 DEF OrderRecord, SameTerms, SameFills
    <2>3. orders' = [orders EXCEPT ![id] = o]
        BY <1>2
    <2>. HIDE DEF o
    <2>. QED
        BY <2>2, <2>3
<1>3. ASSUME NEW slip \in Slips, task.at # "idle"
      PROVE  /\ task.order \in OrderIds
             /\ Tried(task.order, slip) \in OrderRecord
             /\ SameTerms(Tried(task.order, slip), orders[task.order])
             /\ SameFills(Tried(task.order, slip), orders[task.order])
    <2>1. orders[task.order] \in OrderRecord /\ task.order \in OrderIds
        BY <1>3, TheTasksOrder
    <2>2. Tried(task.order, slip) \in OrderRecord
        BY <1>3, TriedType
    <2>. QED
        BY <2>1, <2>2 DEF Tried, OrderRecord, SameTerms, SameFills
<1>4. ASSUME RequestCancel
      PROVE  Goal
    BY <1>1, <1>4 DEF RequestCancel, CancelOrder, Statuses
<1>5. ASSUME Refuse \/ HoldFails \/ HoldRequired
      PROVE  Goal
    <2>1. task.order \in OrderIds
        BY <1>5, TheTasksOrder DEF Refuse, HoldFails, HoldRequired
    <2>2. PICK status \in Statuses : orders' = [orders EXCEPT ![task.order].status = status]
        BY <1>5 DEF Refuse, HoldFails, HoldRequired, Statuses
    <2>. QED
        BY <1>1, <2>1, <2>2
<1>6. ASSUME BorrowNext \/ RepayNext
      PROVE  UNCHANGED orders \/ Goal
    <2>1. /\ task.order \in OrderIds /\ orders[task.order] \in OrderRecord /\ task \in Task
          /\ Len(loans) \in Nat
        BY <1>6, TheTasksOrder, LenProperties DEF BorrowNext, RepayNext, TypeInv, TypeOK
    <2>2. CASE BorrowNext
        <3>. DEFINE ids == task.loanIds \union {Len(loans) + 1}
        <3>1. ids \in SUBSET (Nat \ {0})
            BY <2>1 DEF Task
        <3>2. UNCHANGED orders \/ orders' = [orders EXCEPT ![task.order].loans = ids]
            BY <2>2 DEF BorrowNext
        <3>. HIDE DEF ids
        <3>. QED
            BY <1>2, <2>1, <3>1, <3>2
    <2>3. CASE RepayNext
        <3>. DEFINE l == Biggest(task.loanIds)
                    ids == orders[task.order].loans \union {l}
        <3>1. l \in Nat \ {0}
            BY <2>3 DEF RepayNext, RepayLoan, IsOpenLoan, LoanIds
        <3>2. orders' = [orders EXCEPT ![task.order].loans = ids]
            BY <2>3 DEF RepayNext
        <3>. HIDE DEF l
        <3>3. ids \in SUBSET (Nat \ {0})
            BY <2>1, <3>1 DEF OrderRecord
        <3>. HIDE DEF ids
        <3>. QED
            BY <1>2, <2>1, <3>2, <3>3
    <2>. QED
        BY <1>6, <2>2, <2>3
<1>7. ASSUME NEW slip \in Slips, ProcessCanceled(slip)
      PROVE  Goal
    <2>1. PICK tried : tried = Tried(task.order, slip)
        OBVIOUS
    <2>. DEFINE o == [tried EXCEPT !.status = "CANCELED"]
    <2>2. /\ task.order \in OrderIds /\ tried \in OrderRecord
          /\ SameTerms(tried, orders[task.order]) /\ SameFills(tried, orders[task.order])
        BY <1>3, <1>7, <2>1 DEF ProcessCanceled
    <2>3. o \in OrderRecord /\ SameTerms(o, orders[task.order]) /\ SameFills(o, orders[task.order])
        BY <2>2 DEF OrderRecord, SameTerms, SameFills, Statuses
    <2>4. orders' = [orders EXCEPT ![task.order] = o]
        BY <1>7, <2>1 DEF ProcessCanceled
    <2>. HIDE DEF o
    <2>. QED
        BY <2>2, <2>3, <2>4
<1>8. ASSUME NEW slip \in Slips, ProcessUnfilled(slip)
      PROVE  Goal
    BY <1>3, <1>8 DEF ProcessUnfilled
<1>. HIDE DEF Goal
<1>9. ASSUME \/ RequestLoan \/ RequestRepayment \/ NewBar \/ BorrowFails \/ RollbackNext
             \/ SkipRepayment \/ RepaymentDone \/ PushOrderUpdate \/ UNCHANGED vars
      PROVE  UNCHANGED orders
    BY <1>9
       DEF RequestLoan, RequestRepayment, NewBar, BorrowFails, RollbackNext, SkipRepayment,
           RepaymentDone, PushOrderUpdate, managers, vars
<1>10. UNCHANGED orders \/ RequestOrder \/ Goal \/ FillOfTask
    BY <1>4, <1>5, <1>6, <1>7, <1>8, <1>9 DEF Next, MethodStep, Rest, FillOfTask
<1>. QED
    BY <1>10 DEF Goal

\* An order's terms stay; what was filled changes by a fill of the task's order.
LEMMA OrderFate ==
    ASSUME TypeInv, [Next]_vars, NEW p \in OrderIds
    PROVE  /\ p \in OrderIds' /\ SameTerms(orders'[p], orders[p])
           /\ \/ SameFills(orders'[p], orders[p])
              \/ p = task.order /\ FillOfTask
<1>1. orders \in Seq(OrderRecord) /\ Len(orders) \in Nat /\ p \in 1..Len(orders)
    BY LenProperties DEF TypeInv, TypeOK, OrderIds
<1>2. ASSUME NEW id \in OrderIds, NEW o \in OrderRecord, orders' = [orders EXCEPT ![id] = o]
      PROVE  p \in OrderIds' /\ orders'[p] = IF p = id THEN o ELSE orders[p]
    BY <1>1, <1>2, ExceptSeq DEF OrderIds
<1>3. CASE UNCHANGED orders
    BY <1>3 DEF OrderIds, SameTerms, SameFills
<1>4. CASE RequestOrder
    <2>1. PICK req \in Requests : AddOrder(req)
        BY <1>4 DEF RequestOrder
    <2>2. PICK o : o = NewOrder(req) /\ orders' = Append(orders, o)
        BY <2>1 DEF AddOrder
    <2>3. orders'[p] = orders[p] /\ p \in OrderIds'
        BY <1>1, <2>2 DEF OrderIds
    <2>. QED
        BY <2>3 DEF SameTerms, SameFills
<1>5. CASE \E id \in OrderIds, o \in OrderRecord :
               /\ orders' = [orders EXCEPT ![id] = o]
               /\ SameTerms(o, orders[id]) /\ SameFills(o, orders[id])
    BY <1>2, <1>5 DEF SameTerms, SameFills
<1>6. CASE FillOfTask
    <2>1. PICK slip \in Slips : ProcessFilled(slip)
        BY <1>6 DEF FillOfTask
    <2>2. task.order \in OrderIds
        BY <2>1, TheTasksOrder DEF ProcessFilled
    <2>3. PICK o \in OrderRecord : orders' = [orders EXCEPT ![task.order] = o] /\ FilledBy(slip, o)
        BY <2>1, FilledOrder
    <2>4. SameTerms(o, orders[task.order])
        BY <2>3 DEF FilledBy
    <2>. QED
        BY <1>2, <1>6, <2>2, <2>3, <2>4 DEF SameTerms, SameFills
<1>. QED
    BY <1>3, <1>4, <1>5, <1>6, OrdersReplaced
-----------------------------------------------------------------------------
(***************************************************************************)
(* The price of a fill.                                                    *)
(***************************************************************************)

LEMMA Product == \A a \in Nat : \A x, y \in Int : x <= y => a * x <= a * y
<1>. SUFFICES ASSUME NEW a \in Nat, NEW x \in Int, NEW y \in Int, x <= y PROVE a * x <= a * y
    OBVIOUS
<1>1. PICK d \in Nat : d = y - x
    OBVIOUS
<1>2. a * d \in Nat /\ a * y = a * x + a * d /\ a * x \in Int /\ a * y \in Int
    BY <1>1
<1>. QED
    BY <1>2

\* Rounding keeps the order of amounts.
LEMMA RoundingOrder == \A n, m \in Int : n <= m => RoundQuote(n) <= RoundQuote(m)
<1>. SUFFICES ASSUME NEW n \in Int, NEW m \in Int, n <= m PROVE RoundQuote(n) <= RoundQuote(m)
    OBVIOUS
<1>. DEFINE q == n \div BaseScale
            r == n % BaseScale
            t == m \div BaseScale
            u == m % BaseScale
<1>1. BaseScale \in Nat \ {0}
    BY OrdersAssumption
<1>2. /\ q \in Int /\ r \in 0..(BaseScale - 1) /\ n = BaseScale * q + r
      /\ t \in Int /\ u \in 0..(BaseScale - 1) /\ m = BaseScale * t + u
    BY <1>1
<1>3. /\ RoundQuote(n) = IF 2 * r > BaseScale \/ (2 * r = BaseScale /\ q % 2 = 1) THEN q + 1 ELSE q
      /\ RoundQuote(m) = IF 2 * u > BaseScale \/ (2 * u = BaseScale /\ t % 2 = 1) THEN t + 1 ELSE t
    BY DEF RoundQuote
<1>. HIDE DEF q, r, t, u
<1>4. q <= t
    <2>1. SUFFICES ASSUME t + 1 <= q PROVE FALSE
        BY <1>2
    <2>2. BaseScale * (t + 1) <= BaseScale * q
        BY <1>1, <1>2, <2>1, Product
    <2>3. BaseScale * (t + 1) = BaseScale * t + BaseScale /\ BaseScale * t \in Int /\ BaseScale * q \in Int
        BY <1>1, <1>2
    <2>. QED
        BY <1>1, <1>2, <2>2, <2>3
<1>5. CASE q = t
    <2>1. r <= u
        BY <1>1, <1>2, <1>5
    <2>. QED
        BY <1>1, <1>2, <1>3, <1>5, <2>1
<1>6. CASE q < t
    BY <1>2, <1>3, <1>6
<1>. QED
    BY <1>2, <1>4, <1>5, <1>6

LEMMA RoundedZero == RoundQuote(0) = 0
BY OrdersAssumption DEF RoundQuote

\* The price of an order with a limit, as its side sees it, is at most the limit.
LEMMA PriceWithinLimit ==
    ASSUME NEW o \in OrderRecord, NEW bar \in IntBar, NEW slip \in Int,
           o.type \in {"Limit", "StopLimit"}, FillPrice(o, bar, slip).found
    PROVE  FillPrice(o, bar, slip).price <= Sign(o) * o.limit
<1>. DEFINE limit == Sign(o) * o.limit
            stop == Sign(o) * o.stop
            seen == Seen(o, bar)
<1>1. limit \in Int /\ stop \in Int
    BY DEF OrderRecord, Sign
<1>2. seen.open \in Int
    BY DEF Seen, IntBar
<1>3. FillPrice(o, bar, slip) = IF o.type = "Limit" THEN LimitPrice(limit, seen, slip)
                                ELSE IF o.hit THEN StopLimitPriceAfter(limit, seen, slip)
                                ELSE StopLimitPriceBefore(stop, limit, seen, slip)
    BY DEF FillPrice
<1>. HIDE DEF limit, stop, seen
<1>4. Capped(seen.open, slip, limit) <= limit
    BY <1>1, <1>2 DEF Capped, Smaller, Slipped
<1>5. FillPrice(o, bar, slip) \in {NoPrice, At(limit), At(Capped(seen.open, slip, limit))}
    BY <1>3 DEF LimitPrice, StopLimitPriceAfter, StopLimitPriceBefore
<1>6. FillPrice(o, bar, slip).price \in {limit, Capped(seen.open, slip, limit)}
    BY <1>5 DEF NoPrice, At
<1>. QED
    BY <1>1, <1>4, <1>6 DEF limit

LEMMA ProcessingBarType ==
    ASSUME TypeInv, task.at # "idle"
    PROVE  ProcessingBar \in IntBar
<1>1. orders[task.order].pair \in Bases
    BY TheTasksOrder
<1>2. lastBar[orders[task.order].pair] \in IntBar
    BY <1>1 DEF TypeInv, TypeOK, Bar, NoBar, IntBar
<1>. QED
    BY <1>2 DEF ProcessingBar, FlatBar, IntBar

LEMMA FillWithinLimit ==
    ASSUME IInv, NEW slip \in Slips, ProcessFilled(slip),
           orders[task.order].type \in {"Limit", "StopLimit"}
    PROVE  LET o    == orders[task.order]
               fill == FillOf(o, slip)
           IN  /\ fill.amount \in Nat /\ fill.price \in Int /\ Sign(o) \in {1, -1}
               /\ Sign(o) * fill.price <= Sign(o) * o.limit
<1>. DEFINE o == orders[task.order]
            found == FillPrice(o, ProcessingBar, slip)
<1>1. /\ TypeInv /\ task.at = "process" /\ o \in OrderRecord /\ slip \in Int
      /\ FillOf(o, slip).filled
    BY TheTasksOrder, ExchangeAssumption DEF IInv, ProcessFilled, CanFill
<1>2. ProcessingBar \in IntBar
    BY <1>1, ProcessingBarType
<1>3. found.found /\ FillOf(o, slip).price = Sign(o) * found.price
    BY <1>1 DEF FillOf, TryFill
<1>4. FillOf(o, slip).amount \in Nat /\ FillOf(o, slip).price \in Int
    BY <1>1, FillBounds, FillOfType
<1>5. found.price \in Int
    BY <1>1, <1>2, FillPriceType DEF IntPrice
<1>. HIDE DEF o
<1>6. found.price <= Sign(o) * o.limit
    BY <1>1, <1>2, <1>3, PriceWithinLimit DEF o
<1>7. Sign(o) \in {1, -1}
    BY DEF Sign
<1>. HIDE DEF found
<1>8. Sign(o) * FillOf(o, slip).price = found.price
    BY <1>3, <1>5, <1>7
<1>. QED
    BY <1>4, <1>6, <1>7, <1>8 DEF o

LEMMA LimitsStep ==
    ASSUME IInv, [Next]_vars, NEW p \in OrderIds, orders[p].type \in {"Limit", "StopLimit"}
    PROVE  LET base  == orders'[p].filled - orders[p].filled
               quote == orders'[p].quote - orders[p].quote
           IN  Sign(orders[p]) * quote <= Sign(orders[p]) * RoundQuote(base * orders[p].limit)
<1>. DEFINE o == orders[p]
<1>1. /\ TypeInv /\ o \in OrderRecord
      /\ o.filled \in Int /\ o.quote \in Int /\ o.limit \in Int /\ Sign(o) \in {1, -1}
    BY OrderTypes DEF IInv, TypeInv, OrderRecord, Sign
<1>2. CASE SameFills(orders'[p], o)
    <2>1. /\ orders'[p].filled - o.filled = 0 /\ orders'[p].quote - o.quote = 0
          /\ 0 * o.limit = 0 /\ Sign(o) * 0 = 0
        BY <1>1, <1>2 DEF SameFills
    <2>. QED
        BY <2>1, RoundedZero
<1>3. CASE p = task.order /\ FillOfTask
    <2>1. PICK slip \in Slips : ProcessFilled(slip)
        BY <1>3 DEF FillOfTask
    <2>2. PICK n \in OrderRecord : orders' = [orders EXCEPT ![p] = n] /\ FilledBy(slip, n)
        BY <1>1, <1>3, <2>1, FilledOrder
    <2>3. orders'[p] = n
        BY <1>1, <2>2 DEF TypeInv, TypeOK, OrderIds
    <2>. DEFINE fill == FillOf(o, slip)
    <2>4. n.filled = o.filled + fill.amount /\ n.quote = o.quote + RoundQuote(fill.amount * fill.price)
        BY <1>3, <2>2 DEF FilledBy
    <2>5. fill.amount \in Nat /\ fill.price \in Int /\ Sign(o) * fill.price <= Sign(o) * o.limit
        BY <1>3, <2>1, FillWithinLimit
    <2>. HIDE DEF fill, o
    <2>6. /\ fill.amount * fill.price \in Int /\ fill.amount * o.limit \in Int
          /\ RoundQuote(fill.amount * fill.price) \in Int /\ RoundQuote(fill.amount * o.limit) \in Int
        BY <1>1, <2>5, Rounded
    <2>7. n.filled - o.filled = fill.amount /\ n.quote - o.quote = RoundQuote(fill.amount * fill.price)
        BY <1>1, <2>4, <2>5, <2>6
    <2>8. CASE Sign(o) = 1
        <3>1. fill.amount * fill.price <= fill.amount * o.limit
            BY <1>1, <2>5, <2>8, Product
        <3>2. RoundQuote(fill.amount * fill.price) <= RoundQuote(fill.amount * o.limit)
            BY <2>6, <3>1, RoundingOrder
        <3>. QED
            BY <2>3, <2>6, <2>7, <2>8, <3>2 DEF o
    <2>9. CASE Sign(o) = -1
        <3>1. o.limit <= fill.price
            BY <1>1, <2>5, <2>9
        <3>2. fill.amount * o.limit <= fill.amount * fill.price
            BY <1>1, <2>5, <3>1, Product
        <3>3. RoundQuote(fill.amount * o.limit) <= RoundQuote(fill.amount * fill.price)
            BY <2>6, <3>2, RoundingOrder
        <3>. QED
            BY <2>3, <2>6, <2>7, <2>9, <3>3 DEF o
    <2>. QED
        BY <1>1, <2>8, <2>9
<1>. QED
    BY <1>1, <1>2, <1>3, OrderFate

\* Whatever the bar, the slippage, the liquidity and the rounding, no fill of an order with a
\* limit is worse than its limit.
THEOREM LimitsAlwaysRespected == Spec => LimitsRespected
<1>. DEFINE Kept == \A o \in OrderIds :
                        orders[o].type \in {"Limit", "StopLimit"} =>
                            LET base  == orders'[o].filled - orders[o].filled
                                quote == orders'[o].quote - orders[o].quote
                            IN  Sign(orders[o]) * quote
                                    <= Sign(orders[o]) * RoundQuote(base * orders[o].limit)
<1>1. IInv /\ [Next]_vars => [Kept]_vars
    BY LimitsStep
<1>. QED
    BY <1>1, Invariant, PTL DEF Spec, LimitsRespected
-----------------------------------------------------------------------------
(***************************************************************************)
(* Fees.  The fee of a fill is what is due for all that was traded, less   *)
(* what was charged, and never negative.  Charging what is due in one part *)
(* or in many is the same as long as no part makes less due, that is, as   *)
(* long as no part of an order that is filled in parts has a negative      *)
(* price.  Slippage may push the price of a sale below zero, but only an   *)
(* order with a limit is filled in parts, and the limit stops it.          *)
(***************************************************************************)

FeesOfFills(o) ==
    /\ o.filled \in Nat
    /\ o.filled = 0 => o.quote = 0 /\ o.fees = 0
    /\ o.filled > 0 => o.fees = FeeDue(o.quote)
    /\ o.type \in {"Market", "Stop"} => o.filled \in {0, o.amount}

FeesInv == \A p \in OrderIds : FeesOfFills(orders[p])

LEMMA FeeOrder == \A q, r \in Int : q <= r => FeeDue(q) <= FeeDue(r)
<1>. SUFFICES ASSUME NEW q \in Int, NEW r \in Int, q <= r PROVE FeeDue(q) <= FeeDue(r)
    OBVIOUS
<1>1. FeePct \in Nat /\ MinFee \in Int
    BY OrderManagerAssumption
<1>2. FeePct * q <= FeePct * r
    BY <1>1, Product
<1>3. /\ q * FeePct \in Int /\ r * FeePct \in Int
      /\ q * FeePct <= r * FeePct
    BY <1>1, <1>2
<1>4. \A m, n \in Int : m <= n => (m + 99) \div 100 <= (n + 99) \div 100
    OBVIOUS
<1>5. (q * FeePct + 99) \div 100 <= (r * FeePct + 99) \div 100
    BY <1>3, <1>4
<1>6. (q * FeePct + 99) \div 100 \in Int /\ (r * FeePct + 99) \div 100 \in Int
    BY <1>3
<1>. QED
    BY <1>1, <1>5, <1>6 DEF FeeDue, Larger

LEMMA FeeNotNegative == \A q \in Int : FeeDue(q) \in Nat
<1>. SUFFICES ASSUME NEW q \in Int PROVE FeeDue(q) \in Nat
    OBVIOUS
<1>1. FeePct \in Nat /\ MinFee \in Nat
    BY OrderManagerAssumption
<1>2. (q * FeePct + 99) \div 100 \in Int
    BY <1>1
<1>. QED
    BY <1>1, <1>2 DEF FeeDue, Larger

\* A fill of an order with a limit brings or takes a quote amount, not a negative one.
LEMMA PartNotNegative ==
    ASSUME IInv, NEW slip \in Slips, ProcessFilled(slip),
           orders[task.order].type \in {"Limit", "StopLimit"}
    PROVE  FillOf(orders[task.order], slip).price >= 0
<1>. DEFINE o == orders[task.order]
            bar == ProcessingBar
            found == FillPrice(o, bar, slip)
            stop == Sign(o) * o.stop
<1>1. /\ TypeInv /\ task.at = "process" /\ o \in OrderRecord /\ slip \in Nat
      /\ o.limit \in Nat /\ o.pair \in Bases /\ FillOf(o, slip).filled
    BY TheTasksOrder, ExchangeAssumption DEF IInv, ProcessFilled, CanFill, OrderRecord
<1>2. FillOf(o, slip).price = Sign(o) * found.price /\ found.found
    BY <1>1 DEF FillOf, TryFill
<1>3. bar.open \in Nat
    <2>1. lastBar[o.pair] \in Bar \union {NoBar}
        BY <1>1 DEF TypeInv, TypeOK
    <2>. QED
        BY <2>1 DEF ProcessingBar, FlatBar, Bar, NoBar
<1>4. CASE o.operation = "BUY"
    <2>1. Sign(o) = 1 /\ Seen(o, bar) = bar /\ Sign(o) * o.limit = o.limit
        BY <1>1, <1>4 DEF Sign, Seen
    <2>2. found = IF o.type = "Limit" THEN LimitPrice(o.limit, bar, slip)
                  ELSE IF o.hit THEN StopLimitPriceAfter(o.limit, bar, slip)
                  ELSE StopLimitPriceBefore(stop, o.limit, bar, slip)
        BY <2>1 DEF FillPrice
    <2>. HIDE DEF bar, o, stop
    <2>3. found \in {NoPrice, At(o.limit), At(Capped(bar.open, slip, o.limit))}
        BY <2>2 DEF LimitPrice, StopLimitPriceAfter, StopLimitPriceBefore
    <2>4. found.price \in {0, o.limit, Capped(bar.open, slip, o.limit)}
        BY <2>3 DEF NoPrice, At
    <2>5. Capped(bar.open, slip, o.limit) \in Nat
        BY <1>1, <1>3 DEF Capped, Smaller, Slipped
    <2>6. found.price \in Nat
        BY <1>1, <2>4, <2>5
    <2>. QED
        BY <1>2, <2>1, <2>6 DEF o
<1>5. CASE o.operation # "BUY"
    <2>1. Sign(o) = -1
        BY <1>5 DEF Sign
    <2>2. FillOf(o, slip).price \in Int /\ Sign(o) * FillOf(o, slip).price <= Sign(o) * o.limit
        BY FillWithinLimit
    <2>. HIDE DEF o
    <2>3. o.limit <= FillOf(o, slip).price
        BY <1>1, <2>1, <2>2
    <2>. QED
        BY <1>1, <2>2, <2>3 DEF o
<1>. QED
    BY <1>4, <1>5

LEMMA FillFees ==
    ASSUME IInv, FeesInv, NEW slip \in Slips, ProcessFilled(slip),
           NEW n \in OrderRecord, FilledBy(slip, n)
    PROVE  FeesOfFills(n)
<1>. DEFINE o == orders[task.order]
            fill == FillOf(o, slip)
            quote == RoundQuote(fill.amount * fill.price)
<1>1. /\ TypeInv /\ task.at = "process" /\ task.order \in OrderIds /\ o \in OrderRecord
      /\ fill.filled /\ o.status = "OPEN"
    BY TheTasksOrder DEF IInv, TaskInv, ProcessFilled, CanFill
<1>2. /\ fill.amount \in Nat /\ 0 < fill.amount /\ fill.price \in Int
    BY <1>1, FillBounds, FillOfType
<1>3. FeesOfFills(o) /\ o.filled < o.amount
    BY <1>1 DEF FeesInv, IInv, OrdersInv, OrderInv
<1>4. o.type \in {"Market", "Stop"} => fill.amount = o.amount - o.filled
    BY <1>1, <1>2 DEF FillOf, TryFill, FillableAmount, AmountPending
<1>5. o.type \notin {"Market", "Stop"} => fill.price >= 0
    <2>1. o.type \in Types
        BY <1>1 DEF OrderRecord
    <2>. QED
        BY <2>1, PartNotNegative DEF Types
<1>6. /\ n.type = o.type /\ n.amount = o.amount
      /\ n.filled = o.filled + fill.amount /\ n.quote = o.quote + quote
      /\ n.fees = o.fees + Larger(FeeDue(o.quote + quote) - o.fees, 0)
    BY DEF FilledBy, SameTerms, Fee
<1>7. o.quote \in Int /\ o.fees \in Int /\ o.amount \in Nat /\ o.filled \in Nat
    BY <1>1, <1>3 DEF OrderRecord, FeesOfFills
<1>. HIDE DEF o, fill
<1>8. quote \in Int
    BY <1>2, Rounded
<1>9. fill.price >= 0 => quote >= 0
    <2>. SUFFICES ASSUME fill.price >= 0 PROVE quote >= 0
        OBVIOUS
    <2>1. fill.amount * 0 <= fill.amount * fill.price /\ fill.amount * 0 = 0
        BY <1>2, Product
    <2>. QED
        BY <1>2, <1>8, <2>1, RoundingOrder, RoundedZero
<1>. HIDE DEF quote
<1>10. n.filled \in Nat /\ n.filled > 0
    BY <1>2, <1>6, <1>7
<1>11. n.type \in {"Market", "Stop"} => n.filled = n.amount
    BY <1>2, <1>4, <1>6, <1>7
<1>12. FeeDue(o.quote + quote) \in Nat /\ FeeDue(o.quote + quote) >= o.fees
    <2>1. o.quote + quote \in Int
        BY <1>7, <1>8
    <2>2. FeeDue(o.quote + quote) \in Nat /\ FeeDue(o.quote) \in Nat
        BY <1>7, <2>1, FeeNotNegative
    <2>3. CASE o.filled = 0
        BY <1>3, <2>2, <2>3 DEF FeesOfFills
    <2>4. CASE o.filled > 0
        <3>1. o.type \notin {"Market", "Stop"} /\ o.fees = FeeDue(o.quote)
            BY <1>3, <1>7, <2>4 DEF FeesOfFills
        <3>2. o.quote <= o.quote + quote
            BY <1>5, <1>7, <1>8, <1>9, <3>1
        <3>. QED
            BY <1>7, <2>1, <2>2, <3>1, <3>2, FeeOrder
    <2>. QED
        BY <1>7, <2>3, <2>4
<1>13. n.fees = FeeDue(n.quote)
    BY <1>6, <1>7, <1>12 DEF Larger
<1>. QED
    BY <1>10, <1>11, <1>13 DEF FeesOfFills

LEMMA FeesStep == IInv /\ FeesInv /\ [Next]_vars => FeesInv'
<1>. SUFFICES ASSUME IInv, FeesInv, [Next]_vars, NEW p \in OrderIds'
              PROVE  FeesOfFills(orders'[p])
    BY DEF FeesInv, FeesOfFills, FeeDue, Larger
<1>1. TypeInv /\ orders \in Seq(OrderRecord) /\ Len(orders) \in Nat
    BY LenProperties DEF IInv, TypeInv, TypeOK
<1>2. CASE p \in OrderIds
    <2>1. CASE SameFills(orders'[p], orders[p]) /\ SameTerms(orders'[p], orders[p])
        BY <1>2, <2>1 DEF FeesInv, FeesOfFills, SameFills, SameTerms
    <2>2. CASE p = task.order /\ FillOfTask
        <3>1. PICK slip \in Slips : ProcessFilled(slip)
            BY <2>2 DEF FillOfTask
        <3>2. PICK n \in OrderRecord : orders' = [orders EXCEPT ![p] = n] /\ FilledBy(slip, n)
            BY <1>1, <2>2, <3>1, FilledOrder
        <3>3. orders'[p] = n
            BY <1>1, <1>2, <3>2 DEF OrderIds
        <3>. QED
            BY <3>1, <3>2, <3>3, FillFees
    <2>. QED
        BY <1>1, <1>2, <2>1, <2>2, OrderFate
<1>3. CASE p \notin OrderIds
    <2>1. CASE RequestOrder
        <3>1. PICK req \in Requests : AddOrder(req)
            BY <2>1 DEF RequestOrder
        <3>2. PICK o : o = NewOrder(req) /\ orders' = Append(orders, o)
            BY <3>1 DEF AddOrder
        <3>3. o.filled = 0 /\ o.quote = 0 /\ o.fees = 0
            BY <3>2 DEF NewOrder
        <3>4. orders'[p] = o
            BY <1>1, <1>3, <3>2 DEF OrderIds
        <3>. QED
            BY <3>3, <3>4 DEF FeesOfFills
    <2>2. CASE UNCHANGED orders
        BY <1>3, <2>2 DEF OrderIds
    <2>3. ASSUME NEW id \in OrderIds, NEW o \in OrderRecord, orders' = [orders EXCEPT ![id] = o]
          PROVE  FALSE
        BY <1>1, <1>3, <2>3 DEF OrderIds
    <2>4. CASE FillOfTask
        <3>1. PICK slip \in Slips : ProcessFilled(slip)
            BY <2>4 DEF FillOfTask
        <3>2. task.order \in OrderIds
            BY <1>1, <3>1, TheTasksOrder DEF ProcessFilled
        <3>. QED
            BY <1>1, <2>3, <3>1, <3>2, FilledOrder
    <2>. QED
        BY <1>1, <2>1, <2>2, <2>3, <2>4, OrdersReplaced
<1>. QED
    BY <1>2, <1>3

\* However an order is split into fills, what it was charged is the fee of the whole amount it
\* traded, for every fee, minimum and slippage.
THEOREM FeesAreChargedOnce == Spec => []FeesChargedOnce
<1>1. Init => FeesInv
    BY EmptySeq DEF Init, OrdersInit, FeesInv, OrderIds
<1>2. FeesInv => FeesChargedOnce
    BY DEF FeesInv, FeesOfFills, FeesChargedOnce
<1>. QED
    BY <1>1, <1>2, FeesStep, Invariant, PTL DEF Spec
-----------------------------------------------------------------------------
(***************************************************************************)
(* Order updates.  An order that is closed is told of last, once the loans *)
(* were looked at, and that raises when the info of an open loan cannot be *)
(* built: whoever subscribed never hears of the order.  It can always be   *)
(* built if nothing is lent, or the interest symbol has a precision and    *)
(* the interest, if there is any, a price: the margin level of the account *)
(* could be computed when the loan was granted, so what it owes had one.   *)
(***************************************************************************)

InfosAlwaysBuild ==
    \/ Lendable = {}
    \/ /\ InterestSymbol \in Configured
       /\ InterestSymbol = Quote \/ InterestPct = 0 \/ Lendable \subseteq {InterestSymbol}

LoansPriced ==
    \A l \in LoanIds : /\ loans[l].symbol \in Lendable
                       /\ loans[l].symbol \in Bases => HasPrice(loans[l].symbol)

Accepted == {"OPEN", "COMPLETED", "CANCELED"}

Told(p) ==
    \/ published[p] = OrderInfo(p)
    \/ published[p] = NoUpdate /\ orders[p].createdAt = 0 /\ orders[p].filled = 0

ToBeTold(p) ==
    /\ p = task.order
    /\ \/ task.at \in {"push", "repay"}
       \/ task.at = "process" /\ task.caller = "add_order"

BeforeFirstEvent ==
    /\ \A b \in Bases : ~HasPrice(b)
    /\ \A p \in OrderIds :
           orders[p].createdAt = 0 /\ orders[p].filled = 0 /\ published[p] = NoUpdate

UpdatesInv ==
    /\ \A p \in OrderIds : orders[p].status \in Accepted => Told(p) \/ ToBeTold(p)
    /\ now = 0 => BeforeFirstEvent
    /\ task.at \in {"borrow", "rollback", "hold"} => task.caller = "add_order"

LEMMA InfosBuildForever ==
    ASSUME TypeOK, LoansPriced, InfosAlwaysBuild
    PROVE  ~GetLoansFails
<1>. SUFFICES ASSUME NEW l \in OpenLoans PROVE ~InfoFails(loans[l])
    BY DEF GetLoansFails
<1>1. /\ l \in LoanIds /\ loans[l] \in LoanRecord /\ loans[l].symbol \in Lendable
      /\ loans[l].symbol \in Bases => HasPrice(loans[l].symbol)
    BY LoanTypes DEF OpenLoans, LoansPriced
<1>2. InterestSymbol \in Configured
    BY <1>1 DEF InfosAlwaysBuild
<1>3. CASE InterestSymbol = Quote
    BY <1>1, <1>2, <1>3 DEF InfoFails, Convertible, LoanRecord, Bases
<1>4. CASE Lendable \subseteq {InterestSymbol}
    BY <1>1, <1>2, <1>4 DEF InfoFails, Convertible
<1>5. CASE InterestPct = 0
    <2>1. loans[l].amount \in Int /\ loans[l].createdAt \in Int /\ now \in Int
        BY <1>1 DEF LoanRecord, TypeOK
    <2>2. PICK t \in Int : InterestNum(loans[l]) = loans[l].amount * 0 * t
        BY <1>5, <2>1 DEF InterestNum
    <2>3. InterestNum(loans[l]) = 0
        BY <2>1, <2>2
    <2>. QED
        BY <1>2, <2>3 DEF InfoFails
<1>. QED
    BY <1>1, <1>3, <1>4, <1>5 DEF InfosAlwaysBuild

\* A pair that has a price keeps one.
LEMMA PricesStay ==
    ASSUME TypeOK, [Next]_vars, NEW b \in Bases, HasPrice(b)
    PROVE  HasPrice(b)'
<1>1. CASE NewBar
    <2>1. PICK c \in Bases : \E bar \in Bars[c] : lastBar' = [lastBar EXCEPT ![c] = bar]
        BY <1>1 DEF NewBar
    <2>2. PICK bar \in Bars[c] : lastBar' = [lastBar EXCEPT ![c] = bar]
        BY <2>1
    <2>3. bar.open > 0
        BY ExchangeAssumption DEF Bar
    <2>4. bar # NoBar
        BY <2>3 DEF NoBar
    <2>. QED
        BY <2>2, <2>4 DEF HasPrice, TypeOK
<1>2. CASE UNCHANGED lastBar
    BY <1>2 DEF HasPrice
<1>3. NewBar \/ UNCHANGED lastBar
    <2>1. CASE RequestOrder \/ RequestCancel \/ RequestLoan \/ RequestRepayment \/ UNCHANGED vars
        BY <2>1 DEF RequestOrder, AddOrder, RequestCancel, CancelOrder, RequestLoan,
                    RequestRepayment, vars
    <2>2. CASE MethodStep
        BY <2>2 DEF MethodStep, BorrowNext, BorrowFails, RollbackNext, Refuse, HoldRequired, HoldFails,
                    ProcessFilled, ProcessCanceled, ProcessUnfilled, RepayNext, SkipRepayment,
                    RepaymentDone, PushOrderUpdate
    <2>. QED
        BY <2>1, <2>2 DEF Next, Rest
<1>. QED
    BY <1>1, <1>2, <1>3

LEMMA PricedStep ==
    TypeInv /\ Solvent /\ LoansPriced /\ [Next]_vars => LoansPriced'
<1>. SUFFICES ASSUME TypeInv, Solvent, LoansPriced, [Next]_vars, NEW l \in LoanIds'
              PROVE  /\ loans'[l].symbol \in Lendable
                     /\ loans'[l].symbol \in Bases => lastBar'[loans'[l].symbol] # NoBar
    BY DEF LoansPriced, HasPrice
<1>1. TypeOK
    BY DEF TypeInv
<1>2. CASE l \in LoanIds /\ loans'[l].symbol = loans[l].symbol
    <2>1. PICK s : s = loans[l].symbol
        OBVIOUS
    <2>2. s \in Lendable /\ (s \in Bases => HasPrice(s))
        BY <1>2, <2>1 DEF LoansPriced
    <2>3. s \in Bases => HasPrice(s)'
        BY <1>1, <2>2, PricesStay
    <2>. QED
        BY <1>2, <2>1, <2>2, <2>3 DEF HasPrice
<1>3. ASSUME NEW s \in Symbols, NEW amount \in Int,
             CanCreateLoan(s, amount), loans'[l] = NewLoan(s, amount)
      PROVE  /\ loans'[l].symbol \in Lendable
             /\ loans'[l].symbol \in Bases => lastBar'[loans'[l].symbol] # NoBar
    <2>1. loans'[l].symbol = s /\ s \in Lendable
        BY <1>3 DEF NewLoan, CanCreateLoan
    <2>2. ASSUME s \in Bases
          PROVE  HasPrice(s)
        <3>. DEFINE delta == Single(Symbols, s, amount)
        <3>1. HasWorth(Plus(borrowed, delta)) /\ amount > 0
            BY <1>3 DEF CanCreateLoan, MarginAllows
        <3>2. Plus(borrowed, delta)[s] = borrowed[s] + amount
            BY <1>1 DEF Plus, Single, TypeOK, AccountTypeOK
        <3>3. borrowed[s] \in Int /\ borrowed[s] >= 0
            BY <1>1 DEF TypeOK, AccountTypeOK, Solvent, NonZero
        <3>4. ~HasPrice(s) => Plus(borrowed, delta)[s] = 0
            BY <2>2, <3>1 DEF HasWorth
        <3>5. borrowed[s] + amount = 0 => FALSE
            BY <3>1, <3>3
        <3>. QED
            BY <3>2, <3>4, <3>5
    <2>3. s \in Bases => HasPrice(s)'
        BY <1>1, <2>2, PricesStay
    <2>. QED
        BY <2>1, <2>3 DEF HasPrice
<1>. QED
    BY <1>2, <1>3, LoanFate
(***************************************************************************)
(* A step that replaces one order keeps everyone else informed.            *)
(***************************************************************************)
LEMMA UpdatesKept ==
    ASSUME TypeInv, UpdatesInv,
           NEW id \in OrderIds, NEW o \in OrderRecord, orders' = [orders EXCEPT ![id] = o],
           SameTerms(o, orders[id]), UNCHANGED <<now, lastBar, published>>,
           \A p \in OrderIds : p # id => ~ToBeTold(p),
           now = 0 => o.filled = 0,
           \/ o.status \notin Accepted
           \/ ToBeTold(id)'
           \/ /\ ~ToBeTold(id)
              /\ o.status = orders[id].status /\ o.filled = orders[id].filled,
           task'.at \in {"borrow", "rollback", "hold"} => task'.caller = "add_order"
    PROVE  UpdatesInv'
<1>1. orders \in Seq(OrderRecord) /\ id \in 1..Len(orders)
    BY DEF TypeInv, TypeOK, OrderIds
<1>2. /\ OrderIds' = OrderIds /\ orders'[id] = o
      /\ \A p \in OrderIds : p # id => orders'[p] = orders[p]
    BY <1>1, ExceptSeq DEF OrderIds
<1>3. ASSUME NEW p \in OrderIds, orders'[p].status \in Accepted, ~ToBeTold(p)'
      PROVE  Told(p)'
    <2>1. /\ orders'[p].status = orders[p].status /\ orders'[p].filled = orders[p].filled
          /\ orders'[p].createdAt = orders[p].createdAt /\ ~ToBeTold(p)
        BY <1>2, <1>3 DEF SameTerms
    <2>2. Told(p)
        BY <1>3, <2>1 DEF UpdatesInv
    <2>. QED
        BY <2>1, <2>2 DEF Told, OrderInfo
<1>4. now' = 0 => BeforeFirstEvent'
    <2>. SUFFICES ASSUME now = 0 PROVE BeforeFirstEvent'
        OBVIOUS
    <2>1. BeforeFirstEvent
        BY DEF UpdatesInv
    <2>2. \A b \in Bases : ~HasPrice(b)'
        BY <2>1 DEF BeforeFirstEvent, HasPrice
    <2>3. \A p \in OrderIds :
              orders'[p].createdAt = 0 /\ orders'[p].filled = 0 /\ published'[p] = NoUpdate
        BY <1>2, <2>1 DEF BeforeFirstEvent, SameTerms
    <2>. QED
        BY <1>2, <2>2, <2>3 DEF BeforeFirstEvent, NoUpdate
<1>. QED
    BY <1>2, <1>3, <1>4 DEF UpdatesInv, Accepted

\* A step that leaves the orders, the prices and the updates alone.
LEMMA SameUpdates ==
    ASSUME UpdatesInv, UNCHANGED <<orders, now, lastBar, published>>,
           \A p \in OrderIds : ToBeTold(p) => ToBeTold(p)',
           task'.at \in {"borrow", "rollback", "hold"} => task'.caller = "add_order"
    PROVE  UpdatesInv'
<1>1. OrderIds' = OrderIds
    BY DEF OrderIds
<1>2. ASSUME NEW p \in OrderIds, orders[p].status \in Accepted
      PROVE  Told(p)' \/ ToBeTold(p)'
    BY <1>2 DEF UpdatesInv, Told, OrderInfo
<1>3. now' = 0 => BeforeFirstEvent'
    BY <1>1 DEF UpdatesInv, BeforeFirstEvent, HasPrice
<1>. QED
    BY <1>1, <1>2, <1>3 DEF UpdatesInv, Accepted

\* The method that closed an order goes on to tell of it.
LEMMA ClosedIsToBeTold ==
    ASSUME TypeOK, LoansPriced, InfosAlwaysBuild, NEW t \in Task, NEW o,
           task' = TaskAfterClosing(t, o) \/ task' = [t EXCEPT !.at = "push"]
    PROVE  task'.at \in {"push", "repay"} /\ task'.order = t.order
<1>1. ~GetLoansFails
    BY InfosBuildForever
<1>2. /\ [t EXCEPT !.at = "push"].at = "push" /\ [t EXCEPT !.at = "push"].order = t.order
      /\ \A ids : /\ [t EXCEPT !.at = "repay", !.loanIds = ids].at = "repay"
                  /\ [t EXCEPT !.at = "repay", !.loanIds = ids].order = t.order
    BY DEF Task
<1>. QED
    BY <1>1, <1>2 DEF TaskAfterClosing

LEMMA AddOrderUpdates ==
    ASSUME TypeInv, UpdatesInv, NEW req \in Requests, AddOrder(req)
    PROVE  UpdatesInv'
<1>1. PICK o : o = NewOrder(req)
    OBVIOUS
<1>2. /\ o.status = "NEW" /\ o.filled = 0 /\ o.createdAt = now
    BY <1>1 DEF NewOrder
<1>3. /\ orders' = Append(orders, o) /\ published' = Append(published, NoUpdate)
      /\ task.at = "idle" /\ UNCHANGED <<now, lastBar>>
    BY <1>1 DEF AddOrder, Idle
<1>4. task'.caller = "add_order" /\ task'.at \in {"borrow", "hold"}
    BY DEF AddOrder, Idle
<1>5. /\ orders \in Seq(OrderRecord) /\ Len(orders) \in Nat
      /\ published \in Seq([status : Statuses, filled : Int]) /\ Len(published) = Len(orders)
    BY LenProperties DEF TypeInv, TypeOK
<1>6. /\ OrderIds = 1..Len(orders) /\ OrderIds' = 1..(Len(orders) + 1)
      /\ orders'[Len(orders) + 1] = o /\ published'[Len(orders) + 1] = NoUpdate
      /\ \A p \in OrderIds : orders'[p] = orders[p] /\ published'[p] = published[p]
    BY <1>3, <1>5 DEF OrderIds
<1>7. ASSUME NEW p \in OrderIds', orders'[p].status \in Accepted
      PROVE  Told(p)'
    <2>1. p \in OrderIds
        BY <1>2, <1>5, <1>6, <1>7 DEF Accepted
    <2>2. Told(p)
        BY <1>3, <1>6, <1>7, <2>1 DEF UpdatesInv, ToBeTold
    <2>. QED
        BY <1>6, <2>1, <2>2 DEF Told, OrderInfo
<1>8. now' = 0 => BeforeFirstEvent'
    <2>. SUFFICES ASSUME now = 0 PROVE BeforeFirstEvent'
        BY <1>3
    <2>1. BeforeFirstEvent
        BY DEF UpdatesInv
    <2>2. \A b \in Bases : ~HasPrice(b)'
        BY <1>3, <2>1 DEF BeforeFirstEvent, HasPrice
    <2>3. \A p \in OrderIds' :
              orders'[p].createdAt = 0 /\ orders'[p].filled = 0 /\ published'[p] = NoUpdate
        BY <1>2, <1>5, <1>6, <2>1 DEF BeforeFirstEvent
    <2>. QED
        BY <2>2, <2>3 DEF BeforeFirstEvent, NoUpdate
<1>. QED
    BY <1>4, <1>7, <1>8 DEF UpdatesInv, Accepted

LEMMA CancelUpdates ==
    ASSUME TypeInv, UpdatesInv, LoansPriced, InfosAlwaysBuild, NEW id \in OrderIds, CancelOrder(id)
    PROVE  UpdatesInv'
<1>. DEFINE t == [Idle EXCEPT !.order = id, !.caller = "cancel_order"]
            o == [orders[id] EXCEPT !.status = "CANCELED"]
<1>1. TypeOK /\ orders[id] \in OrderRecord
    BY OrderTypes DEF TypeInv
<1>2. t \in Task /\ t.order = id
    <2>1. id \in Nat /\ Idle \in Task
        BY IdleType DEF OrderIds
    <2>. QED
        BY <2>1 DEF Task
<1>3. o \in OrderRecord /\ SameTerms(o, orders[id]) /\ o.filled = orders[id].filled
    BY <1>1 DEF OrderRecord, SameTerms, Statuses
<1>4. /\ orders' = [orders EXCEPT ![id] = o] /\ task.at = "idle"
      /\ task' = TaskAfterClosing(t, orders[id]) /\ UNCHANGED <<now, lastBar, published>>
    BY DEF CancelOrder, Idle
<1>. HIDE DEF t, o
<1>5. task'.at \in {"push", "repay"} /\ task'.order = id
    BY <1>1, <1>2, <1>4, ClosedIsToBeTold
<1>6. ToBeTold(id)' /\ \A p \in OrderIds : ~ToBeTold(p)
    BY <1>4, <1>5 DEF ToBeTold
<1>7. now = 0 => o.filled = 0
    BY <1>3 DEF UpdatesInv, BeforeFirstEvent
<1>. QED
    BY <1>3, <1>4, <1>5, <1>6, <1>7, UpdatesKept

\* A step that refuses or accepts the task's order, or notes its loans.
LEMMA BorrowingUpdates ==
    ASSUME IInv, UpdatesInv, BorrowNext \/ Refuse \/ HoldRequired \/ HoldFails
    PROVE  UpdatesInv'
<1>1. /\ TypeInv /\ task \in Task /\ task.order \in OrderIds /\ orders[task.order] \in OrderRecord
      /\ task.at \in {"borrow", "rollback", "hold"} /\ orders[task.order].status = "NEW"
      /\ task.caller = "add_order"
    BY TheTasksOrder
       DEF IInv, TypeInv, TypeOK, TaskInv, UpdatesInv, BorrowNext, Refuse, HoldRequired, HoldFails
<1>2. UNCHANGED <<now, lastBar, published>>
    BY DEF BorrowNext, Refuse, HoldRequired, HoldFails
<1>3. \A p \in OrderIds : ~ToBeTold(p)
    BY <1>1 DEF ToBeTold
<1>4. now = 0 => orders[task.order].filled = 0
    BY <1>1 DEF UpdatesInv, BeforeFirstEvent
<1>5. ASSUME BorrowNext
      PROVE  UpdatesInv'
    <2>. DEFINE ids == task.loanIds \union {Len(loans) + 1}
                o == [orders[task.order] EXCEPT !.loans = ids]
    <2>1. UNCHANGED orders \/ orders' = [orders EXCEPT ![task.order] = o]
        BY <1>5 DEF BorrowNext
    <2>2. task'.caller = "add_order"
        <3>. DEFINE rest == task.short \ {NextShort}
                    at == IF rest = {} THEN "hold" ELSE "borrow"
        <3>1. \/ task' = [task EXCEPT !.at = "rollback"]
              \/ task' = [task EXCEPT !.at = at, !.short = rest, !.loanIds = ids]
            BY <1>5 DEF BorrowNext
        <3>. HIDE DEF rest, at, ids
        <3>. QED
            BY <1>1, <3>1 DEF Task
    <2>3. ids \in SUBSET (Nat \ {0})
        BY <1>1, LenProperties DEF Task, TypeInv, TypeOK
    <2>. HIDE DEF ids
    <2>4. /\ o \in OrderRecord /\ SameTerms(o, orders[task.order]) /\ o.status = "NEW"
          /\ o.filled = orders[task.order].filled
        BY <1>1, <2>3 DEF OrderRecord, SameTerms
    <2>. HIDE DEF o
    <2>5. "NEW" \notin Accepted
        BY DEF Accepted
    <2>. QED
        BY <1>1, <1>2, <1>3, <1>4, <2>1, <2>2, <2>4, <2>5, UpdatesKept, SameUpdates
<1>6. ASSUME Refuse \/ HoldFails
      PROVE  UpdatesInv'
    <2>. DEFINE o == [orders[task.order] EXCEPT !.status = "REJECTED"]
    <2>1. orders' = [orders EXCEPT ![task.order] = o] /\ task'.at = "idle"
        BY <1>6 DEF Refuse, HoldFails, Idle
    <2>2. /\ o \in OrderRecord /\ SameTerms(o, orders[task.order]) /\ o.status \notin Accepted
          /\ o.filled = orders[task.order].filled
        BY <1>1 DEF OrderRecord, SameTerms, Statuses, Accepted
    <2>. HIDE DEF o
    <2>. QED
        BY <1>1, <1>2, <1>3, <1>4, <2>1, <2>2, UpdatesKept
<1>7. ASSUME HoldRequired
      PROVE  UpdatesInv'
    <2>. DEFINE o == [orders[task.order] EXCEPT !.status = "OPEN"]
    <2>1. orders' = [orders EXCEPT ![task.order] = o]
        BY <1>7 DEF HoldRequired
    <2>2. PICK at \in {"process", "push"} :
              task' = [task EXCEPT !.at = at, !.loanIds = {}, !.before = NoSnapshot]
        BY <1>7 DEF HoldRequired
    <2>3. task'.at \in {"process", "push"} /\ task'.caller = "add_order" /\ task'.order = task.order
        BY <1>1, <2>2 DEF Task
    <2>4. /\ o \in OrderRecord /\ SameTerms(o, orders[task.order])
          /\ o.filled = orders[task.order].filled
        BY <1>1 DEF OrderRecord, SameTerms, Statuses
    <2>. HIDE DEF o
    <2>5. PICK id \in OrderIds : id = task.order
        BY <1>1
    <2>6. ToBeTold(id)'
        BY <2>3, <2>5 DEF ToBeTold
    <2>. QED
        BY <1>1, <1>2, <1>3, <1>4, <2>1, <2>3, <2>4, <2>5, <2>6, UpdatesKept
<1>. QED
    BY <1>5, <1>6, <1>7
\* A fill needs a price, so none happens before the first bar.
LEMMA FilledUpdates ==
    ASSUME IInv, UpdatesInv, LoansPriced, InfosAlwaysBuild, NEW slip \in Slips, ProcessFilled(slip)
    PROVE  UpdatesInv'
<1>1. /\ TypeInv /\ TypeOK /\ task \in Task /\ task.order \in OrderIds
      /\ orders[task.order].pair \in Bases
    BY TheTasksOrder DEF ProcessFilled, IInv, TypeInv, TypeOK
<1>2. HasPrice(orders[task.order].pair)
    BY DEF ProcessFilled, CanFill
<1>3. now # 0
    BY <1>1, <1>2 DEF UpdatesInv, BeforeFirstEvent
<1>4. PICK o \in OrderRecord : orders' = [orders EXCEPT ![task.order] = o] /\ FilledBy(slip, o)
    BY <1>1, FilledOrder
<1>5. SameTerms(o, orders[task.order])
    BY <1>4 DEF FilledBy
<1>6. PICK closed : task' = TaskAfterClosing(task, closed) \/ task' = [task EXCEPT !.at = "push"]
    BY DEF ProcessFilled
<1>7. task'.at \in {"push", "repay"} /\ task'.order = task.order
    BY <1>1, <1>6, ClosedIsToBeTold
<1>8. PICK id \in OrderIds : id = task.order
    BY <1>1
<1>9. ToBeTold(id)' /\ \A p \in OrderIds : p # id => ~ToBeTold(p)
    BY <1>7, <1>8 DEF ToBeTold
<1>10. UNCHANGED <<now, lastBar, published>>
    BY DEF ProcessFilled
<1>. QED
    BY <1>1, <1>3, <1>4, <1>5, <1>7, <1>8, <1>9, <1>10, UpdatesKept

LEMMA TriedTerms ==
    ASSUME TypeInv, task.at # "idle", NEW slip \in Slips
    PROVE  /\ Tried(task.order, slip) \in OrderRecord
           /\ SameTerms(Tried(task.order, slip), orders[task.order])
           /\ SameFills(Tried(task.order, slip), orders[task.order])
           /\ Tried(task.order, slip).status = orders[task.order].status
<1>1. orders[task.order] \in OrderRecord
    BY TheTasksOrder
<1>2. /\ SameTerms(Tried(task.order, slip), orders[task.order])
      /\ SameFills(Tried(task.order, slip), orders[task.order])
    BY <1>1 DEF Tried, OrderRecord, SameTerms, SameFills
<1>. QED
    BY <1>2, TriedType, TriedOrder

LEMMA CanceledUpdates ==
    ASSUME IInv, UpdatesInv, LoansPriced, InfosAlwaysBuild, NEW slip \in Slips, ProcessCanceled(slip)
    PROVE  UpdatesInv'
<1>. DEFINE tried == Tried(task.order, slip)
            o == [tried EXCEPT !.status = "CANCELED"]
<1>1. /\ TypeInv /\ TypeOK /\ task \in Task /\ task.order \in OrderIds /\ task.at = "process"
    BY TheTasksOrder DEF ProcessCanceled, IInv, TypeInv, TypeOK
<1>2. /\ orders' = [orders EXCEPT ![task.order] = o] /\ task' = TaskAfterClosing(task, o)
      /\ UNCHANGED <<now, lastBar, published>>
    BY DEF ProcessCanceled
<1>3. /\ tried \in OrderRecord /\ SameTerms(tried, orders[task.order])
      /\ tried.filled = orders[task.order].filled
    BY <1>1, TriedTerms DEF SameFills
<1>. HIDE DEF tried
<1>4. o \in OrderRecord /\ SameTerms(o, orders[task.order]) /\ o.filled = orders[task.order].filled
    BY <1>3 DEF OrderRecord, SameTerms, Statuses
<1>. HIDE DEF o
<1>5. task'.at \in {"push", "repay"} /\ task'.order = task.order
    BY <1>1, <1>2, ClosedIsToBeTold
<1>6. PICK id \in OrderIds : id = task.order
    BY <1>1
<1>7. ToBeTold(id)' /\ \A p \in OrderIds : p # id => ~ToBeTold(p)
    BY <1>5, <1>6 DEF ToBeTold
<1>8. now = 0 => o.filled = 0
    BY <1>1, <1>4 DEF UpdatesInv, BeforeFirstEvent
<1>. QED
    BY <1>1, <1>2, <1>4, <1>5, <1>6, <1>7, <1>8, UpdatesKept

\* The method goes on with an order of the bar, or returns.
LEMMA NextTaskFate ==
    ASSUME TypeInv, task.at # "idle", task' = NextTask
    PROVE  /\ task'.at \in {"idle", "process"}
           /\ task'.at = "process" => task'.caller = "on_bar_event"
<1>1. task.order \in Nat
    BY TheTasksOrder DEF OrderIds
<1>2. Idle.at = "idle"
    BY DEF Idle
<1>3. \A o : /\ [Idle EXCEPT !.at = "process", !.order = o, !.caller = "on_bar_event"].at = "process"
             /\ [Idle EXCEPT !.at = "process", !.order = o, !.caller = "on_bar_event"].caller
                    = "on_bar_event"
    BY DEF Idle
<1>. QED
    BY <1>2, <1>3 DEF NextTask, ProcessNextAfter

LEMMA UnfilledUpdates ==
    ASSUME IInv, UpdatesInv, NEW slip \in Slips, ProcessUnfilled(slip)
    PROVE  UpdatesInv'
<1>1. /\ TypeInv /\ task \in Task /\ task.order \in OrderIds /\ task.at = "process"
    BY TheTasksOrder DEF ProcessUnfilled, IInv, TypeInv, TypeOK
<1>2. PICK o : o = Tried(task.order, slip)
    OBVIOUS
<1>3. orders' = [orders EXCEPT ![task.order] = o] /\ UNCHANGED <<now, lastBar, published>>
    BY <1>2 DEF ProcessUnfilled
<1>4. /\ o \in OrderRecord /\ SameTerms(o, orders[task.order])
      /\ o.filled = orders[task.order].filled /\ o.status = orders[task.order].status
    BY <1>1, <1>2, TriedTerms DEF SameFills
<1>5. PICK id \in OrderIds : id = task.order
    BY <1>1
<1>6. \A p \in OrderIds : p # id => ~ToBeTold(p)
    BY <1>5 DEF ToBeTold
<1>7. now = 0 => o.filled = 0
    BY <1>1, <1>4 DEF UpdatesInv, BeforeFirstEvent
<1>8. CASE task.caller = "add_order"
    <2>1. task' = [task EXCEPT !.at = "push"]
        BY <1>8 DEF ProcessUnfilled
    <2>2. task'.at = "push" /\ task'.order = task.order
        BY <1>1, <2>1 DEF Task
    <2>3. ToBeTold(id)'
        BY <1>5, <2>2 DEF ToBeTold
    <2>. QED
        BY <1>1, <1>3, <1>4, <1>5, <1>6, <1>7, <2>2, <2>3, UpdatesKept
<1>9. CASE task.caller # "add_order"
    <2>1. task'.at \in {"idle", "process"}
        BY <1>1, <1>9, NextTaskFate DEF ProcessUnfilled
    <2>2. ~ToBeTold(id)
        BY <1>1, <1>9 DEF ToBeTold
    <2>. QED
        BY <1>1, <1>3, <1>4, <1>5, <1>6, <1>7, <2>1, <2>2, UpdatesKept
<1>. QED
    BY <1>8, <1>9
LEMMA RepayUpdates ==
    ASSUME IInv, UpdatesInv, RepayNext
    PROVE  UpdatesInv'
<1>. DEFINE l == Biggest(task.loanIds)
            o == [orders[task.order] EXCEPT !.loans = orders[task.order].loans \union {l}]
<1>1. /\ TypeInv /\ task \in Task /\ task.order \in OrderIds /\ orders[task.order] \in OrderRecord
      /\ task.at = "repay"
    BY TheTasksOrder DEF RepayNext, IInv, TypeInv, TypeOK
<1>2. l \in Nat \ {0}
    BY DEF RepayNext, RepayLoan, IsOpenLoan, LoanIds
<1>3. /\ orders' = [orders EXCEPT ![task.order] = o] /\ UNCHANGED <<now, lastBar, published>>
      /\ task' = [task EXCEPT !.loanIds = task.loanIds \ {l}]
    BY DEF RepayNext
<1>. HIDE DEF l
<1>4. task'.at = "repay" /\ task'.order = task.order
    BY <1>1, <1>3 DEF Task
<1>5. o \in OrderRecord /\ SameTerms(o, orders[task.order]) /\ o.filled = orders[task.order].filled
    BY <1>1, <1>2 DEF OrderRecord, SameTerms
<1>. HIDE DEF o
<1>6. PICK id \in OrderIds : id = task.order
    BY <1>1
<1>7. ToBeTold(id)' /\ \A p \in OrderIds : p # id => ~ToBeTold(p)
    BY <1>4, <1>6 DEF ToBeTold
<1>8. now = 0 => o.filled = 0
    BY <1>1, <1>5 DEF UpdatesInv, BeforeFirstEvent
<1>. QED
    BY <1>1, <1>3, <1>4, <1>5, <1>6, <1>7, <1>8, UpdatesKept

\* Steps that change the task, but not whom it tells of.
LEMMA TaskUpdates ==
    ASSUME IInv, UpdatesInv, BorrowFails \/ RollbackNext \/ SkipRepayment \/ RepaymentDone
    PROVE  UpdatesInv'
<1>1. task \in Task /\ UNCHANGED <<orders, now, lastBar, published>>
    BY DEF IInv, TypeInv, TypeOK, BorrowFails, RollbackNext, SkipRepayment, RepaymentDone
<1>2. CASE BorrowFails \/ RollbackNext
    <2>1. task.at \in {"borrow", "rollback"} /\ task.caller = "add_order"
        BY <1>2 DEF BorrowFails, RollbackNext, UpdatesInv
    <2>2. \/ task' = [task EXCEPT !.at = "rollback"]
          \/ \E ids : task' = [task EXCEPT !.loanIds = ids]
        BY <1>2 DEF BorrowFails, RollbackNext
    <2>3. task'.caller = "add_order"
        BY <1>1, <2>1, <2>2 DEF Task
    <2>4. \A p \in OrderIds : ~ToBeTold(p)
        BY <2>1 DEF ToBeTold
    <2>. QED
        BY <1>1, <2>3, <2>4, SameUpdates
<1>3. CASE SkipRepayment \/ RepaymentDone
    <2>1. \/ task' = [task EXCEPT !.at = "push"]
          \/ task.at = "repay" /\ \E ids : task' = [task EXCEPT !.loanIds = ids]
        BY <1>3 DEF SkipRepayment, RepaymentDone
    <2>2. task'.at \in {"push", "repay"} /\ task'.order = task.order
        BY <1>1, <2>1 DEF Task
    <2>3. \A p \in OrderIds : ToBeTold(p) => ToBeTold(p)'
        BY <2>2 DEF ToBeTold
    <2>. QED
        BY <1>1, <2>2, <2>3, SameUpdates
<1>. QED
    BY <1>2, <1>3

\* The task's order is told of, if there is a time to tell it.
LEMMA PushUpdates ==
    ASSUME IInv, UpdatesInv, PushOrderUpdate
    PROVE  UpdatesInv'
<1>1. /\ TypeInv /\ task \in Task /\ task.order \in OrderIds /\ task.at = "push"
      /\ published \in Seq([status : Statuses, filled : Int]) /\ Len(published) = Len(orders)
      /\ UNCHANGED <<orders, now, lastBar>>
    BY TheTasksOrder DEF PushOrderUpdate, IInv, TypeInv, TypeOK
<1>2. OrderIds' = OrderIds /\ OrderIds = 1..Len(published)
    BY <1>1 DEF OrderIds
<1>3. task'.at \in {"idle", "process"}
    BY <1>1, NextTaskFate DEF PushOrderUpdate
<1>4. PICK info : info = OrderInfo(task.order)
    OBVIOUS
<1>5. info \in [status : Statuses, filled : Int]
    BY <1>1, <1>4, TheTasksOrder DEF OrderInfo, OrderRecord
<1>6. CASE now > 0
    <2>1. published' = [published EXCEPT ![task.order] = info]
        BY <1>4, <1>6 DEF PushOrderUpdate
    <2>2. \A p \in OrderIds : published'[p] = IF p = task.order THEN info ELSE published[p]
        BY <1>1, <1>2, <1>5, <2>1, ExceptSeq
    <2>3. ASSUME NEW p \in OrderIds, orders[p].status \in Accepted
          PROVE  Told(p)'
        <3>1. CASE p = task.order
            BY <1>1, <1>4, <2>2, <3>1 DEF Told, OrderInfo
        <3>2. CASE p # task.order
            <4>1. Told(p)
                BY <2>3, <3>2 DEF UpdatesInv, ToBeTold
            <4>. QED
                BY <1>1, <2>2, <3>2, <4>1 DEF Told, OrderInfo
        <3>. QED
            BY <3>1, <3>2
    <2>. QED
        BY <1>1, <1>2, <1>3, <1>6, <2>3 DEF UpdatesInv, Accepted
<1>7. CASE ~(now > 0)
    <2>1. published' = published
        BY <1>7 DEF PushOrderUpdate
    <2>2. now = 0
        BY <1>1, <1>7 DEF TypeInv, TypeOK
    <2>3. BeforeFirstEvent
        BY <2>2 DEF UpdatesInv
    <2>4. \A p \in OrderIds : Told(p)'
        BY <1>1, <2>1, <2>3 DEF Told, BeforeFirstEvent
    <2>5. BeforeFirstEvent'
        BY <1>1, <1>2, <2>1, <2>3 DEF BeforeFirstEvent, HasPrice
    <2>. QED
        BY <1>2, <1>3, <2>4, <2>5 DEF UpdatesInv
<1>. QED
    BY <1>6, <1>7

\* The first event ends the time before it.
LEMMA NewBarUpdates ==
    ASSUME IInv, UpdatesInv, NewBar
    PROVE  UpdatesInv'
<1>1. /\ task.at = "idle" /\ UNCHANGED <<orders, published>> /\ now \in Nat /\ now' = now + 1
      /\ TypeOK
    BY DEF NewBar, Idle, IInv, TypeInv, TypeOK
<1>2. OrderIds' = OrderIds /\ now' # 0
    BY <1>1 DEF OrderIds
<1>3. ASSUME NEW p \in OrderIds, orders[p].status \in Accepted
      PROVE  Told(p)'
    <2>1. Told(p)
        BY <1>1, <1>3 DEF UpdatesInv, ToBeTold
    <2>. QED
        BY <1>1, <2>1 DEF Told, OrderInfo
<1>4. PICK b \in Bases : task' = ProcessNextAfter(0, b)
    BY DEF NewBar, OnBarEvent
<1>5. task'.at \in {"idle", "process"}
    BY <1>1, <1>4, ProcessNextType, IdleType
<1>. QED
    BY <1>1, <1>2, <1>3, <1>5 DEF UpdatesInv, Accepted

LEMMA UpdatesStep ==
    ASSUME InfosAlwaysBuild
    PROVE  IInv /\ LoansPriced /\ UpdatesInv /\ [Next]_vars => UpdatesInv'
<1>. SUFFICES ASSUME IInv, LoansPriced, UpdatesInv, [Next]_vars PROVE UpdatesInv'
    OBVIOUS
<1>1. TypeInv
    BY DEF IInv
<1>2. CASE RequestOrder
    BY <1>1, <1>2, AddOrderUpdates DEF RequestOrder
<1>3. CASE RequestCancel
    BY <1>1, <1>3, CancelUpdates DEF RequestCancel
<1>4. CASE RequestLoan \/ RequestRepayment \/ UNCHANGED vars
    <2>1. UNCHANGED <<orders, now, lastBar, published, task>>
        BY <1>4 DEF RequestLoan, RequestRepayment, managers, vars
    <2>2. \A p \in OrderIds : ToBeTold(p) => ToBeTold(p)'
        BY <2>1 DEF ToBeTold
    <2>. QED
        BY <2>1, <2>2, SameUpdates DEF UpdatesInv
<1>5. CASE NewBar
    BY <1>5, NewBarUpdates
<1>6. CASE MethodStep
    BY <1>6, BorrowingUpdates, TaskUpdates, FilledUpdates, CanceledUpdates, UnfilledUpdates,
       RepayUpdates, PushUpdates
       DEF MethodStep
<1>. QED
    BY <1>2, <1>3, <1>4, <1>5, <1>6 DEF Next, Rest

\* Whatever is asked of the exchange and whatever fails, whoever subscribed to order events has
\* been told how every accepted order stands by the time the exchange is at rest.
THEOREM EveryUpdateIsPublished ==
    ASSUME InfosAlwaysBuild
    PROVE  Spec => []UpdatesPublished
<1>1. Init => LoansPriced /\ UpdatesInv
    <2>. SUFFICES ASSUME Init PROVE LoansPriced /\ UpdatesInv
        OBVIOUS
    <2>1. OrderIds = {} /\ LoanIds = {}
        BY EmptySeq DEF Init, OrdersInit, LoansInit, OrderIds, LoanIds
    <2>2. task.at = "idle" /\ \A b \in Bases : ~HasPrice(b)
        BY DEF Init, OrdersInit, LoansInit, AccountInit, Idle, HasPrice
    <2>. QED
        BY <2>1, <2>2 DEF LoansPriced, UpdatesInv, BeforeFirstEvent
<1>2. IInv /\ Solvent /\ LoansPriced /\ UpdatesInv /\ [Next]_vars => LoansPriced' /\ UpdatesInv'
    BY PricedStep, UpdatesStep DEF IInv
<1>3. UpdatesInv => UpdatesPublished
    BY DEF UpdatesInv, UpdatesPublished, Accepted, Told, ToBeTold, Idle
<1>. QED
    BY <1>1, <1>2, <1>3, Invariant, AlwaysSolvent, PTL DEF Spec
-----------------------------------------------------------------------------

(***************************************************************************)
(* Sums, by induction over the number of terms.                            *)
(***************************************************************************)

\* g holds the sums of f up to n.
Adds(f, n, g) == g = [i \in 0..n |-> IF i = 0 THEN 0 ELSE g[i - 1] + f[i]]

LEMMA SumsExist ==
    ASSUME NEW f
    PROVE  \A n \in Nat : \E g : Adds(f, n, g)
<1>. DEFINE S == {n \in Nat : \E g : Adds(f, n, g)}
<1>1. 0 \in S
    <2>. DEFINE g == [i \in 0..0 |-> 0]
    <2>1. Adds(f, 0, g)
        BY DEF Adds
    <2>. QED
        BY <2>1
<1>2. ASSUME NEW n \in Nat, n \in S
      PROVE  n + 1 \in S
    <2>1. PICK g : Adds(f, n, g)
        BY <1>2
    <2>. DEFINE h == [i \in 0..(n + 1) |-> IF i = n + 1 THEN g[n] + f[n + 1] ELSE g[i]]
    <2>2. /\ DOMAIN g = 0..n
          /\ \A i \in 0..n : g[i] = IF i = 0 THEN 0 ELSE g[i - 1] + f[i]
        BY <2>1 DEF Adds
    <2>3. ASSUME NEW i \in 0..(n + 1)
          PROVE  h[i] = IF i = 0 THEN 0 ELSE h[i - 1] + f[i]
        <3>1. CASE i = n + 1
            <4>1. h[i - 1] = g[n] /\ i # 0
                BY <3>1
            <4>. QED
                BY <3>1, <4>1
        <3>2. CASE i # n + 1
            <4>1. i \in 0..n /\ h[i] = g[i]
                BY <3>2
            <4>2. i # 0 => h[i - 1] = g[i - 1]
                BY <4>1
            <4>. QED
                BY <2>2, <4>1, <4>2
        <3>. QED
            BY <3>1, <3>2
    <2>4. Adds(f, n + 1, h)
        <3>1. h = [i \in 0..(n + 1) |-> h[i]]
            OBVIOUS
        <3>. HIDE DEF h
        <3>. QED
            BY <2>3, <3>1 DEF Adds
    <2>5. n + 1 \in Nat
        OBVIOUS
    <2>. HIDE DEF h
    <2>. QED
        BY <2>4, <2>5
<1>3. \A n \in Nat : n \in S
    <2>. HIDE DEF S
    <2>. QED
        BY <1>1, <1>2, InductionOverNat
<1>. QED
    BY <1>3

LEMMA SumAdds ==
    ASSUME NEW f, NEW n \in Nat
    PROVE  \E g : Adds(f, n, g) /\ SumUpTo(f, n) = g[n]
<1>. DEFINE g == CHOOSE g : g = [i \in 0..n |-> IF i = 0 THEN 0 ELSE g[i - 1] + f[i]]
<1>1. Adds(f, n, g)
    BY SumsExist DEF Adds
<1>2. SumUpTo(f, n) = g[n]
    BY DEF SumUpTo
<1>. QED
    BY <1>1, <1>2

\* Lists with the same first terms have the same first sums.
LEMMA SameSums ==
    ASSUME NEW f, NEW g, NEW n \in Nat, NEW m \in Nat, NEW F, NEW G,
           Adds(f, n, F), Adds(g, m, G), n <= m, \A i \in 1..n : f[i] = g[i]
    PROVE  F[n] = G[n]
<1>. DEFINE S == {i \in Nat : i <= n => F[i] = G[i]}
<1>1. \A i \in 0..n : F[i] = IF i = 0 THEN 0 ELSE F[i - 1] + f[i]
    BY DEF Adds
<1>2. \A i \in 0..n : G[i] = IF i = 0 THEN 0 ELSE G[i - 1] + g[i]
    BY DEF Adds
<1>3. 0 \in S
    BY <1>1, <1>2
<1>4. ASSUME NEW i \in Nat, i \in S
      PROVE  i + 1 \in S
    <2>1. CASE i + 1 <= n
        <3>1. F[i] = G[i] /\ f[i + 1] = g[i + 1] /\ i + 1 \in 0..n /\ i + 1 # 0 /\ (i + 1) - 1 = i
            BY <1>4, <2>1
        <3>2. F[i + 1] = F[i] + f[i + 1] /\ G[i + 1] = G[i] + g[i + 1]
            BY <1>1, <1>2, <3>1
        <3>. QED
            BY <3>1, <3>2
    <2>. QED
        BY <2>1
<1>5. \A i \in Nat : i \in S
    <2>. HIDE DEF S
    <2>. QED
        BY <1>3, <1>4, InductionOverNat
<1>. QED
    BY <1>5

LEMMA SumOfNone == ASSUME NEW f PROVE SumUpTo(f, 0) = 0
<1>1. PICK g : Adds(f, 0, g) /\ SumUpTo(f, 0) = g[0]
    BY SumAdds, 0 \in Nat
<1>. QED
    BY <1>1 DEF Adds

LEMMA SumOfNext ==
    ASSUME NEW f, NEW n \in Nat
    PROVE  SumUpTo(f, n + 1) = SumUpTo(f, n) + f[n + 1]
<1>1. n + 1 \in Nat /\ n <= n + 1
    OBVIOUS
<1>2. PICK F : Adds(f, n, F) /\ SumUpTo(f, n) = F[n]
    BY SumAdds
<1>3. PICK G : Adds(f, n + 1, G) /\ SumUpTo(f, n + 1) = G[n + 1]
    BY <1>1, SumAdds
<1>4. F[n] = G[n]
    <2>1. \A i \in 1..n : f[i] = f[i]
        OBVIOUS
    <2>. QED
        BY <1>1, <1>2, <1>3, <2>1, SameSums
<1>5. G[n + 1] = G[n] + f[n + 1]
    <2>1. n + 1 \in 0..(n + 1) /\ n + 1 # 0 /\ (n + 1) - 1 = n
        OBVIOUS
    <2>. QED
        BY <1>3, <2>1 DEF Adds
<1>. QED
    BY <1>2, <1>3, <1>4, <1>5

LEMMA SumOfSame ==
    ASSUME NEW f, NEW g, NEW n \in Nat, \A i \in 1..n : f[i] = g[i]
    PROVE  SumUpTo(f, n) = SumUpTo(g, n)
<1>1. PICK F : Adds(f, n, F) /\ SumUpTo(f, n) = F[n]
    BY SumAdds
<1>2. PICK G : Adds(g, n, G) /\ SumUpTo(g, n) = G[n]
    BY SumAdds
<1>3. F[n] = G[n]
    BY <1>1, <1>2, SameSums
<1>. QED
    BY <1>1, <1>2, <1>3

LEMMA SumIsInt ==
    ASSUME NEW f, NEW n \in Nat, \A i \in 1..n : f[i] \in Int
    PROVE  SumUpTo(f, n) \in Int
<1>. DEFINE S == {i \in Nat : i <= n => SumUpTo(f, i) \in Int}
<1>1. 0 \in S
    BY SumOfNone
<1>2. ASSUME NEW i \in Nat, i \in S
      PROVE  i + 1 \in S
    <2>1. CASE i + 1 <= n
        <3>1. SumUpTo(f, i) \in Int /\ f[i + 1] \in Int
            BY <1>2, <2>1
        <3>. QED
            BY <3>1, SumOfNext
    <2>. QED
        BY <2>1
<1>3. \A i \in Nat : i \in S
    <2>. HIDE DEF S
    <2>. QED
        BY <1>1, <1>2, InductionOverNat
<1>. QED
    BY <1>3

\* One term changes, and the sum with it.
LEMMA SumOfChanged ==
    ASSUME NEW f, NEW g, NEW n \in Nat, NEW k \in 1..n,
           \A i \in 1..n : f[i] \in Int /\ g[i] \in Int,
           \A i \in 1..n : i # k => g[i] = f[i]
    PROVE  SumUpTo(g, n) = SumUpTo(f, n) + g[k] - f[k]
<1>. DEFINE S == {i \in Nat : i <= n =>
                     SumUpTo(g, i) = SumUpTo(f, i) + (IF k <= i THEN g[k] - f[k] ELSE 0)}
<1>1. 0 \in S
    BY SumOfNone
<1>2. ASSUME NEW i \in Nat, i \in S
      PROVE  i + 1 \in S
    <2>1. CASE i + 1 <= n
        <3>1. i \in Nat /\ i <= n /\ i + 1 \in 1..n /\ \A j \in 1..i : j \in 1..n
            BY <2>1
        <3>2. SumUpTo(g, i) = SumUpTo(f, i) + (IF k <= i THEN g[k] - f[k] ELSE 0)
            BY <1>2, <3>1
        <3>3. SumUpTo(f, i + 1) = SumUpTo(f, i) + f[i + 1] /\ SumUpTo(g, i + 1) = SumUpTo(g, i) + g[i + 1]
            BY SumOfNext
        <3>4. SumUpTo(f, i) \in Int
            BY <3>1, SumIsInt
        <3>5. f[k] \in Int /\ g[k] \in Int /\ f[i + 1] \in Int /\ g[i + 1] \in Int
            BY <3>1
        <3>6. CASE i + 1 = k
            BY <3>2, <3>3, <3>4, <3>5, <3>6
        <3>7. CASE i + 1 # k
            <4>1. g[i + 1] = f[i + 1] /\ (k <= i + 1 <=> k <= i)
                BY <3>1, <3>7
            <4>. QED
                BY <3>2, <3>3, <3>4, <3>5, <4>1
        <3>. QED
            BY <3>6, <3>7
    <2>. QED
        BY <2>1
<1>3. \A i \in Nat : i \in S
    <2>. HIDE DEF S
    <2>. QED
        BY <1>1, <1>2, InductionOverNat
<1>4. SumUpTo(g, n) = SumUpTo(f, n) + (g[k] - f[k])
    BY <1>3
<1>5. SumUpTo(f, n) \in Int
    BY SumIsInt
<1>. QED
    BY <1>4, <1>5
-----------------------------------------------------------------------------
(***************************************************************************)
(* The sums of the books, and what a step that appends or replaces one     *)
(* order or one loan makes of them.                                        *)
(***************************************************************************)
Owed(l, s) == IF l.symbol = s /\ l.isOpen THEN l.amount ELSE 0

HeldSum(s)   == SumUpTo([o \in OrderIds |-> holdsByOrder[o][s]], Len(orders))
TradedSum(s) == SumUpTo([o \in OrderIds |-> Traded(orders[o], s)], Len(orders))
LentSum(s)   == SumUpTo([l \in LoanIds |-> Lent(loans[l], s)], Len(loans))
OwedSum(s)   == SumUpTo([l \in LoanIds |-> Owed(loans[l], s)], Len(loans))

LEMMA TermTypes ==
    /\ \A o \in OrderRecord : \A s \in Symbols : Traded(o, s) \in Int
    /\ \A l \in LoanRecord : \A s \in Symbols : Lent(l, s) \in Int /\ Owed(l, s) \in Int
<1>1. ASSUME NEW o \in OrderRecord, NEW s \in Symbols
      PROVE  Traded(o, s) \in Int
    <2>1. o.filled \in Int /\ o.quote \in Int /\ o.fees \in Int
        BY DEF OrderRecord
    <2>. QED
        BY <2>1 DEF Traded, Sign
<1>2. ASSUME NEW l \in LoanRecord, NEW s \in Symbols
      PROVE  Lent(l, s) \in Int /\ Owed(l, s) \in Int
    <2>1. l.amount \in Int /\ l.interest \in Int
        BY DEF LoanRecord
    <2>. QED
        BY <2>1 DEF Lent, Owed
<1>. QED
    BY <1>1, <1>2

LEMMA SumTypes ==
    ASSUME TypeOK, NEW s \in Symbols
    PROVE  /\ HeldSum(s) \in Int /\ TradedSum(s) \in Int
           /\ LentSum(s) \in Int /\ OwedSum(s) \in Int
<1>1. Len(orders) \in Nat /\ Len(loans) \in Nat
    BY LenProperties DEF TypeOK
<1>2. \A o \in 1..Len(orders) : holdsByOrder[o][s] \in Int /\ Traded(orders[o], s) \in Int
    BY OrderTypes, TermTypes DEF OrderIds
<1>3. \A l \in 1..Len(loans) : Lent(loans[l], s) \in Int /\ Owed(loans[l], s) \in Int
    BY LoanTypes, TermTypes DEF LoanIds
<1>4. HeldSum(s) \in Int
    BY <1>1, <1>2, SumIsInt DEF HeldSum, OrderIds
<1>5. TradedSum(s) \in Int
    BY <1>1, <1>2, SumIsInt DEF TradedSum, OrderIds
<1>6. LentSum(s) \in Int
    BY <1>1, <1>3, SumIsInt DEF LentSum, LoanIds
<1>7. OwedSum(s) \in Int
    BY <1>1, <1>3, SumIsInt DEF OwedSum, LoanIds
<1>. QED
    BY <1>4, <1>5, <1>6, <1>7

\* Sums of unchanged records.
LEMMA OrdersUnchanged ==
    ASSUME UNCHANGED <<orders, holdsByOrder>>, NEW s
    PROVE  HeldSum(s)' = HeldSum(s) /\ TradedSum(s)' = TradedSum(s)
BY DEF HeldSum, TradedSum, OrderIds, Traded, Sign

LEMMA LoansUnchanged ==
    ASSUME UNCHANGED loans, NEW s
    PROVE  LentSum(s)' = LentSum(s) /\ OwedSum(s)' = OwedSum(s)
BY DEF LentSum, OwedSum, LoanIds, Lent, Owed

\* A term is appended, or replaced.
LEMMA SumAppended ==
    ASSUME NEW n \in Nat, NEW f, NEW g, \A i \in 1..n : g[i] = f[i]
    PROVE  SumUpTo(g, n + 1) = SumUpTo(f, n) + g[n + 1]
BY SumOfNext, SumOfSame

LEMMA HoldsChange ==
    ASSUME TypeInv, NEW id \in OrderIds, NEW hold \in [Symbols -> Int], NEW s \in Symbols,
           holdsByOrder' = [holdsByOrder EXCEPT ![id] = hold], Len(orders') = Len(orders)
    PROVE  HeldSum(s)' = HeldSum(s) + hold[s] - holdsByOrder[id][s]
<1>. DEFINE f == [o \in OrderIds |-> holdsByOrder[o][s]]
            g == [o \in OrderIds |-> holdsByOrder'[o][s]]
            n == Len(orders)
<1>1. n \in Nat /\ OrderIds = 1..n /\ OrderIds' = 1..n
    BY LenProperties DEF TypeInv, TypeOK, OrderIds
<1>2. \A o \in 1..n : holdsByOrder'[o] = IF o = id THEN hold ELSE holdsByOrder[o]
    BY <1>1, ExceptSeq DEF TypeInv, TypeOK
<1>3. \A o \in 1..n : holdsByOrder[o][s] \in Int
    BY <1>1, OrderTypes DEF TypeInv
<1>4. hold[s] \in Int
    OBVIOUS
<1>5. \A o \in 1..n : /\ f[o] \in Int /\ g[o] \in Int
                      /\ o # id => g[o] = f[o]
    BY <1>1, <1>2, <1>3, <1>4
<1>6. g[id] = hold[s] /\ f[id] = holdsByOrder[id][s] /\ id \in 1..n
    BY <1>1, <1>2
<1>7. HeldSum(s) = SumUpTo(f, n) /\ HeldSum(s)' = SumUpTo(g, n)
    BY <1>1 DEF HeldSum
<1>. HIDE DEF f, g, n
<1>8. SumUpTo(g, n) = SumUpTo(f, n) + g[id] - f[id]
    <2>1. \A i \in 1..n : f[i] \in Int /\ g[i] \in Int
        BY <1>5
    <2>2. \A i \in 1..n : i # id => g[i] = f[i]
        BY <1>5
    <2>. QED
        BY <1>1, <1>6, <2>1, <2>2, SumOfChanged
<1>. QED
    BY <1>6, <1>7, <1>8

LEMMA TradesChange ==
    ASSUME TypeInv, NEW id \in OrderIds, NEW o \in OrderRecord, NEW s \in Symbols,
           orders' = [orders EXCEPT ![id] = o]
    PROVE  TradedSum(s)' = TradedSum(s) + Traded(o, s) - Traded(orders[id], s)
<1>. DEFINE f == [p \in OrderIds |-> Traded(orders[p], s)]
            g == [p \in OrderIds |-> Traded(orders'[p], s)]
            n == Len(orders)
<1>1. n \in Nat /\ OrderIds = 1..n /\ orders \in Seq(OrderRecord) /\ id \in 1..n
    BY LenProperties DEF TypeInv, TypeOK, OrderIds
<1>2. /\ Len(orders') = n
      /\ \A p \in 1..n : orders'[p] = IF p = id THEN o ELSE orders[p]
    BY <1>1, ExceptSeq
<1>3. \A p \in 1..n : Traded(orders[p], s) \in Int /\ Traded(o, s) \in Int
    BY <1>1, OrderTypes, TermTypes DEF TypeInv
<1>4. \A p \in 1..n : /\ f[p] \in Int /\ g[p] \in Int
                      /\ p # id => g[p] = f[p]
    BY <1>1, <1>2, <1>3
<1>5. g[id] = Traded(o, s) /\ f[id] = Traded(orders[id], s) /\ id \in 1..n
    BY <1>1, <1>2
<1>6. TradedSum(s) = SumUpTo(f, n) /\ TradedSum(s)' = SumUpTo(g, n)
    BY <1>1, <1>2 DEF TradedSum, OrderIds, Traded, Sign
<1>. HIDE DEF f, g, n
<1>7. SumUpTo(g, n) = SumUpTo(f, n) + g[id] - f[id]
    <2>1. \A i \in 1..n : f[i] \in Int /\ g[i] \in Int
        BY <1>4
    <2>2. \A i \in 1..n : i # id => g[i] = f[i]
        BY <1>4
    <2>. QED
        BY <1>1, <1>5, <2>1, <2>2, SumOfChanged
<1>. QED
    BY <1>5, <1>6, <1>7

\* A new order trades and holds nothing.
LEMMA OrderAppended ==
    ASSUME TypeInv, NEW o \in OrderRecord, NEW s \in Symbols,
           o.filled = 0, o.quote = 0, o.fees = 0,
           orders' = Append(orders, o), holdsByOrder' = Append(holdsByOrder, Zero)
    PROVE  HeldSum(s)' = HeldSum(s) /\ TradedSum(s)' = TradedSum(s)
<1>. DEFINE n == Len(orders)
            f == [p \in OrderIds |-> holdsByOrder[p][s]]
            g == [p \in OrderIds' |-> holdsByOrder'[p][s]]
            t == [p \in OrderIds |-> Traded(orders[p], s)]
            u == [p \in OrderIds' |-> Traded(orders'[p], s)]
<1>1. /\ n \in Nat /\ OrderIds = 1..n /\ orders \in Seq(OrderRecord)
      /\ holdsByOrder \in Seq([Symbols -> Int]) /\ Len(holdsByOrder) = n
    BY LenProperties DEF TypeInv, TypeOK, OrderIds
<1>2. /\ Len(orders') = n + 1 /\ orders'[n + 1] = o /\ holdsByOrder'[n + 1] = Zero
      /\ \A p \in 1..n : orders'[p] = orders[p] /\ holdsByOrder'[p] = holdsByOrder[p]
    BY <1>1, ZeroType, AppendProperties
<1>3. OrderIds' = 1..(n + 1)
    BY <1>2 DEF OrderIds
<1>4. Zero[s] = 0 /\ Traded(o, s) = 0
    <2>1. Sign(o) \in Int
        BY DEF Sign
    <2>2. Sign(o) * 0 = 0 /\ -Sign(o) * 0 - 0 = 0
        BY <2>1
    <2>. QED
        BY <2>2 DEF Zero, ZeroMap, Traded
<1>5. /\ HeldSum(s) = SumUpTo(f, n) /\ HeldSum(s)' = SumUpTo(g, n + 1)
      /\ TradedSum(s) = SumUpTo(t, n) /\ TradedSum(s)' = SumUpTo(u, n + 1)
    BY <1>2 DEF HeldSum, TradedSum, Traded, Sign
<1>6. g[n + 1] = 0 /\ u[n + 1] = 0
    BY <1>1, <1>2, <1>3, <1>4
<1>7. \A p \in 1..n : g[p] = f[p] /\ u[p] = t[p]
    BY <1>1, <1>2, <1>3
<1>8. HeldSum(s) \in Int /\ TradedSum(s) \in Int
    BY SumTypes DEF TypeInv
<1>. HIDE DEF f, g, t, u, n
<1>9. SumUpTo(g, n + 1) = SumUpTo(f, n) + g[n + 1]
    BY <1>1, <1>7, SumAppended
<1>10. SumUpTo(u, n + 1) = SumUpTo(t, n) + u[n + 1]
    BY <1>1, <1>7, SumAppended
<1>. QED
    BY <1>5, <1>6, <1>8, <1>9, <1>10

LEMMA LoanAppended ==
    ASSUME TypeInv, NEW l \in LoanRecord, NEW s \in Symbols, loans' = Append(loans, l)
    PROVE  /\ LentSum(s)' = LentSum(s) + Lent(l, s)
           /\ OwedSum(s)' = OwedSum(s) + Owed(l, s)
<1>. DEFINE n == Len(loans)
            f == [k \in LoanIds |-> Lent(loans[k], s)]
            g == [k \in LoanIds' |-> Lent(loans'[k], s)]
            t == [k \in LoanIds |-> Owed(loans[k], s)]
            u == [k \in LoanIds' |-> Owed(loans'[k], s)]
<1>1. n \in Nat /\ LoanIds = 1..n /\ loans \in Seq(LoanRecord)
    BY LenProperties DEF TypeInv, TypeOK, LoanIds
<1>2. /\ Len(loans') = n + 1 /\ loans'[n + 1] = l
      /\ \A k \in 1..n : loans'[k] = loans[k]
    BY <1>1, AppendProperties
<1>3. LoanIds' = 1..(n + 1)
    BY <1>2 DEF LoanIds
<1>4. /\ LentSum(s) = SumUpTo(f, n) /\ LentSum(s)' = SumUpTo(g, n + 1)
      /\ OwedSum(s) = SumUpTo(t, n) /\ OwedSum(s)' = SumUpTo(u, n + 1)
    BY <1>2 DEF LentSum, OwedSum, Lent, Owed
<1>5. g[n + 1] = Lent(l, s) /\ u[n + 1] = Owed(l, s)
    BY <1>1, <1>2, <1>3
<1>6. \A k \in 1..n : g[k] = f[k] /\ u[k] = t[k]
    BY <1>1, <1>2, <1>3
<1>. HIDE DEF f, g, t, u, n
<1>7. SumUpTo(g, n + 1) = SumUpTo(f, n) + g[n + 1]
    BY <1>1, <1>6, SumAppended
<1>8. SumUpTo(u, n + 1) = SumUpTo(t, n) + u[n + 1]
    BY <1>1, <1>6, SumAppended
<1>. QED
    BY <1>4, <1>5, <1>7, <1>8

LEMMA LoanChanged ==
    ASSUME TypeInv, NEW id \in LoanIds, NEW l \in LoanRecord, NEW s \in Symbols,
           loans' = [loans EXCEPT ![id] = l]
    PROVE  /\ LentSum(s)' = LentSum(s) + Lent(l, s) - Lent(loans[id], s)
           /\ OwedSum(s)' = OwedSum(s) + Owed(l, s) - Owed(loans[id], s)
<1>. DEFINE n == Len(loans)
            f == [k \in LoanIds |-> Lent(loans[k], s)]
            g == [k \in LoanIds |-> Lent(loans'[k], s)]
            t == [k \in LoanIds |-> Owed(loans[k], s)]
            u == [k \in LoanIds |-> Owed(loans'[k], s)]
<1>1. n \in Nat /\ LoanIds = 1..n /\ loans \in Seq(LoanRecord) /\ id \in 1..n
    BY LenProperties DEF TypeInv, TypeOK, LoanIds
<1>2. /\ Len(loans') = n
      /\ \A k \in 1..n : loans'[k] = IF k = id THEN l ELSE loans[k]
    BY <1>1, ExceptSeq
<1>3. LoanIds' = LoanIds
    BY <1>2 DEF LoanIds
<1>4. /\ \A k \in 1..n : Lent(loans[k], s) \in Int /\ Owed(loans[k], s) \in Int
      /\ Lent(l, s) \in Int /\ Owed(l, s) \in Int
    BY <1>1, LoanTypes, TermTypes DEF TypeInv
<1>5. /\ LentSum(s) = SumUpTo(f, n) /\ LentSum(s)' = SumUpTo(g, n)
      /\ OwedSum(s) = SumUpTo(t, n) /\ OwedSum(s)' = SumUpTo(u, n)
    BY <1>2, <1>3 DEF LentSum, OwedSum, Lent, Owed
<1>6. /\ g[id] = Lent(l, s) /\ u[id] = Owed(l, s)
      /\ f[id] = Lent(loans[id], s) /\ t[id] = Owed(loans[id], s)
    BY <1>1, <1>2
<1>7. /\ \A k \in 1..n : f[k] \in Int /\ g[k] \in Int
      /\ \A k \in 1..n : t[k] \in Int /\ u[k] \in Int
    BY <1>1, <1>2, <1>4
<1>8. /\ \A k \in 1..n : k # id => g[k] = f[k]
      /\ \A k \in 1..n : k # id => u[k] = t[k]
    BY <1>1, <1>2
<1>. HIDE DEF f, g, t, u, n
<1>9. SumUpTo(g, n) = SumUpTo(f, n) + g[id] - f[id]
    BY <1>1, <1>7, <1>8, SumOfChanged
<1>10. SumUpTo(u, n) = SumUpTo(t, n) + u[id] - t[id]
    BY <1>1, <1>7, <1>8, SumOfChanged
<1>. QED
    BY <1>5, <1>6, <1>9, <1>10

\* Nothing of what the sums see of an order changes.
SameTrades(o, p) ==
    /\ o.pair = p.pair /\ o.operation = p.operation
    /\ o.filled = p.filled /\ o.quote = p.quote /\ o.fees = p.fees

LEMMA TradesKept ==
    ASSUME TypeInv, NEW id \in OrderIds, NEW o \in OrderRecord, NEW s \in Symbols,
           orders' = [orders EXCEPT ![id] = o], SameTrades(o, orders[id])
    PROVE  TradedSum(s)' = TradedSum(s) /\ Len(orders') = Len(orders)
<1>1. Traded(o, s) = Traded(orders[id], s)
    BY DEF SameTrades, Traded, Sign
<1>2. TradedSum(s)' = TradedSum(s) + Traded(o, s) - Traded(orders[id], s)
    BY TradesChange
<1>3. Traded(o, s) \in Int /\ TradedSum(s) \in Int
    BY TermTypes, SumTypes DEF TypeInv
<1>4. Len(orders') = Len(orders)
    BY ZeroType, OrderReplaced DEF TypeInv
<1>. QED
    BY <1>1, <1>2, <1>3, <1>4

LEMMA HeldKept ==
    ASSUME UNCHANGED holdsByOrder, Len(orders') = Len(orders), NEW s
    PROVE  HeldSum(s)' = HeldSum(s)
BY DEF HeldSum, OrderIds
-----------------------------------------------------------------------------
(***************************************************************************)
(* The inductive invariant: the books balance.  Closing a loan records its *)
(* interest over what the record held, so an open loan must hold none.     *)
(***************************************************************************)
BooksBalance ==
    \A s \in Symbols :
        /\ holds[s] = HeldSum(s)
        /\ borrowed[s] = Larger(-InitialBalances[s], 0) + OwedSum(s)
        /\ balances[s] = Larger(InitialBalances[s], 0) + TradedSum(s) + LentSum(s)

OpenLoansUnpaid == \A l \in LoanIds : loans[l].isOpen => loans[l].interest = 0

BooksInv == IInv /\ BooksBalance /\ OpenLoansUnpaid

\* A step of update() balances the books if they move by the same amounts.
LEMMA UpdateBalances ==
    ASSUME BooksInv,
           NEW dBal \in [Symbols -> Int], NEW dHold \in [Symbols -> Int], NEW dBor \in [Symbols -> Int],
           Update(dBal, dHold, dBor),
           \A s \in Symbols :
               /\ HeldSum(s)' = HeldSum(s) + dHold[s]
               /\ OwedSum(s)' = OwedSum(s) + dBor[s]
               /\ \E traded, lent \in Int :
                      /\ TradedSum(s)' = TradedSum(s) + traded
                      /\ LentSum(s)' = LentSum(s) + lent
                      /\ dBal[s] = traded + lent
    PROVE  BooksBalance'
<1>. SUFFICES ASSUME NEW s \in Symbols
              PROVE  /\ holds'[s] = HeldSum(s)'
                     /\ borrowed'[s] = Larger(-InitialBalances[s], 0) + OwedSum(s)'
                     /\ balances'[s] = Larger(InitialBalances[s], 0) + TradedSum(s)' + LentSum(s)'
    BY DEF BooksBalance, Larger
<1>1. TypeOK
    BY DEF BooksInv, IInv, TypeInv
<1>2. /\ holds'[s] = holds[s] + dHold[s]
      /\ borrowed'[s] = borrowed[s] + dBor[s]
      /\ balances'[s] = balances[s] + dBal[s]
    BY <1>1 DEF Update, Plus, TypeOK, AccountTypeOK
<1>3. /\ HeldSum(s) \in Int /\ OwedSum(s) \in Int /\ TradedSum(s) \in Int /\ LentSum(s) \in Int
      /\ dHold[s] \in Int /\ dBor[s] \in Int
    BY <1>1, SumTypes
<1>4. Larger(-InitialBalances[s], 0) \in Int /\ Larger(InitialBalances[s], 0) \in Int
    BY BalancesAssumption DEF Larger
<1>5. /\ holds[s] = HeldSum(s)
      /\ borrowed[s] = Larger(-InitialBalances[s], 0) + OwedSum(s)
      /\ balances[s] = Larger(InitialBalances[s], 0) + TradedSum(s) + LentSum(s)
    BY DEF BooksInv, BooksBalance
<1>6. PICK traded \in Int, lent \in Int :
          /\ TradedSum(s)' = TradedSum(s) + traded
          /\ LentSum(s)' = LentSum(s) + lent
          /\ dBal[s] = traded + lent
    OBVIOUS
<1>7. HeldSum(s)' = HeldSum(s) + dHold[s] /\ OwedSum(s)' = OwedSum(s) + dBor[s]
    OBVIOUS
<1>. QED
    BY <1>2, <1>3, <1>4, <1>5, <1>6, <1>7

\* Neither the account nor the sums change.
LEMMA StillBalanced ==
    ASSUME BooksBalance, UNCHANGED account,
           \A s \in Symbols : /\ HeldSum(s)' = HeldSum(s) /\ OwedSum(s)' = OwedSum(s)
                              /\ TradedSum(s)' = TradedSum(s) /\ LentSum(s)' = LentSum(s)
    PROVE  BooksBalance'
BY DEF BooksBalance, account, Larger

LEMMA BooksInit == Init => BooksInv
<1>. SUFFICES ASSUME Init PROVE BooksInv
    OBVIOUS
<1>1. Len(orders) = 0 /\ Len(loans) = 0
    BY EmptySeq DEF Init, LoansInit, OrdersInit
<1>2. LoanIds = {}
    BY <1>1 DEF LoanIds
<1>3. \A s : HeldSum(s) = 0 /\ TradedSum(s) = 0 /\ LentSum(s) = 0 /\ OwedSum(s) = 0
    BY <1>1, SumOfNone DEF HeldSum, TradedSum, LentSum, OwedSum
<1>4. BooksBalance
    BY <1>3, BalancesAssumption DEF BooksBalance, Init, AccountInit, Zero, ZeroMap, Larger
<1>. QED
    BY <1>2, <1>4, InitInv DEF BooksInv, OpenLoansUnpaid
-----------------------------------------------------------------------------
(***************************************************************************)
(* Loans.                                                                  *)
(***************************************************************************)
LEMMA LoanGranted ==
    ASSUME BooksInv, NEW c \in Symbols, NEW amount \in Int, CreateLoan(c, amount),
           \A s \in Symbols : HeldSum(s)' = HeldSum(s) /\ TradedSum(s)' = TradedSum(s)
    PROVE  BooksBalance' /\ OpenLoansUnpaid'
<1>. DEFINE delta == Single(Symbols, c, amount)
            l == NewLoan(c, amount)
<1>1. TypeInv /\ TypeOK
    BY DEF BooksInv, IInv, TypeInv
<1>2. l \in LoanRecord
    BY <1>1 DEF NewLoan, LoanRecord, TypeOK
<1>3. loans' = Append(loans, l) /\ Update(delta, Zero, delta)
    BY DEF CreateLoan
<1>4. delta \in [Symbols -> Int] /\ Zero \in [Symbols -> Int]
    BY SingleType, ZeroType
<1>5. ASSUME NEW s \in Symbols
      PROVE  /\ Lent(l, s) = delta[s] /\ Owed(l, s) = delta[s]
             /\ Zero[s] = 0 /\ delta[s] \in Int
    BY <1>4 DEF NewLoan, Lent, Owed, Single, Zero, ZeroMap
<1>. HIDE DEF l, delta
<1>6. \A s \in Symbols : /\ LentSum(s)' = LentSum(s) + Lent(l, s)
                         /\ OwedSum(s)' = OwedSum(s) + Owed(l, s)
    BY <1>1, <1>2, <1>3, LoanAppended
<1>7. ASSUME NEW s \in Symbols
      PROVE  /\ HeldSum(s)' = HeldSum(s) + Zero[s]
             /\ OwedSum(s)' = OwedSum(s) + delta[s]
             /\ \E traded, lent \in Int :
                    /\ TradedSum(s)' = TradedSum(s) + traded
                    /\ LentSum(s)' = LentSum(s) + lent
                    /\ delta[s] = traded + lent
    <2>1. HeldSum(s) \in Int /\ TradedSum(s) \in Int
        BY <1>1, SumTypes
    <2>2. TradedSum(s)' = TradedSum(s) + 0 /\ delta[s] = 0 + delta[s]
        BY <1>5, <2>1
    <2>. QED
        BY <1>5, <1>6, <2>1, <2>2
<1>8. BooksBalance'
    BY <1>3, <1>4, <1>7, UpdateBalances
<1>9. OpenLoansUnpaid'
    <2>1. /\ Len(loans') = Len(loans) + 1 /\ loans'[Len(loans) + 1] = l
          /\ \A k \in 1..Len(loans) : loans'[k] = loans[k]
          /\ Len(loans) \in Nat
        BY <1>1, <1>2, <1>3, AppendProperties, LenProperties DEF TypeOK
    <2>2. l.interest = 0
        BY DEF l, NewLoan
    <2>. QED
        BY <2>1, <2>2 DEF BooksInv, OpenLoansUnpaid, LoanIds
<1>. QED
    BY <1>8, <1>9

\* Closing one loan leaves the others as they are.
LEMMA OthersUnpaid ==
    ASSUME BooksInv, NEW id \in LoanIds, NEW l \in LoanRecord, ~l.isOpen,
           loans' = [loans EXCEPT ![id] = l]
    PROVE  OpenLoansUnpaid'
<1>1. loans \in Seq(LoanRecord) /\ id \in 1..Len(loans)
    BY DEF BooksInv, IInv, TypeInv, TypeOK, LoanIds
<1>2. Len(loans') = Len(loans) /\ \A k \in 1..Len(loans) : loans'[k] = IF k = id THEN l ELSE loans[k]
    BY <1>1, ExceptSeq
<1>. QED
    BY <1>2 DEF BooksInv, OpenLoansUnpaid, LoanIds

LEMMA LoanRepaid ==
    ASSUME BooksInv, NEW id, RepayLoan(id),
           \A s \in Symbols : HeldSum(s)' = HeldSum(s) /\ TradedSum(s)' = TradedSum(s)
    PROVE  BooksBalance' /\ OpenLoansUnpaid'
<1>. DEFINE interest == Interest(loans[id])
            l == [loans[id] EXCEPT !.isOpen = FALSE, !.interest = interest]
            dBal == Negate(Repayment(loans[id]))
            dBor == Single(Symbols, loans[id].symbol, -loans[id].amount)
<1>1. TypeInv /\ TypeOK
    BY DEF BooksInv, IInv, TypeInv
<1>2. /\ id \in LoanIds /\ loans[id].isOpen /\ ~InfoFails(loans[id])
      /\ loans[id] \in LoanRecord /\ loans[id].interest = 0
    BY <1>1, LoanTypes DEF RepayLoan, CanRepayLoan, IsOpenLoan, BooksInv, OpenLoansUnpaid
<1>3. interest \in Int /\ Repayment(loans[id]) \in [Symbols -> Int]
    BY <1>1, <1>2, InterestType
<1>4. loans[id].symbol \in Symbols /\ loans[id].amount \in Int
    BY <1>2 DEF LoanRecord
<1>5. dBal \in [Symbols -> Int] /\ dBor \in [Symbols -> Int] /\ Zero \in [Symbols -> Int]
    <2>1. -loans[id].amount \in Int
        BY <1>4
    <2>2. dBal \in [Symbols -> Int]
        BY <1>3, MapArithmetic
    <2>3. dBor \in [Symbols -> Int]
        BY <1>4, <2>1, SingleType
    <2>. QED
        BY <2>2, <2>3, ZeroType
<1>6. l \in LoanRecord /\ ~l.isOpen /\ l.symbol = loans[id].symbol
      /\ l.amount = loans[id].amount /\ l.interest = interest
    BY <1>2, <1>3 DEF LoanRecord
<1>7. loans' = [loans EXCEPT ![id] = l] /\ Update(dBal, Zero, dBor)
    BY DEF RepayLoan
<1>8. ASSUME NEW s \in Symbols
      PROVE  /\ Lent(l, s) - Lent(loans[id], s) = dBal[s]
             /\ Owed(l, s) - Owed(loans[id], s) = dBor[s]
             /\ Zero[s] = 0
    <2>1. dBal[s] = -((IF s = loans[id].symbol THEN loans[id].amount ELSE 0)
                        + (IF s = InterestSymbol THEN interest ELSE 0))
        BY <1>3 DEF Negate, Repayment, Plus, Single
    <2>2. dBor[s] = IF s = loans[id].symbol THEN -loans[id].amount ELSE 0
        BY DEF Single
    <2>3. Lent(l, s) = 0 - (IF s = InterestSymbol THEN interest ELSE 0)
        BY <1>6 DEF Lent
    <2>4. Lent(loans[id], s) = IF s = loans[id].symbol THEN loans[id].amount ELSE 0
        BY <1>2, <1>4 DEF Lent
    <2>5. Owed(l, s) = 0 /\ Owed(loans[id], s) = IF s = loans[id].symbol THEN loans[id].amount ELSE 0
        BY <1>2, <1>6 DEF Owed
    <2>6. Zero[s] = 0
        BY DEF Zero, ZeroMap
    <2>. HIDE DEF interest, l, dBal, dBor
    <2>. QED
        BY <1>3, <1>4, <2>1, <2>2, <2>3, <2>4, <2>5, <2>6
<1>. HIDE DEF interest, l, dBal, dBor
<1>9. \A s \in Symbols : /\ LentSum(s)' = LentSum(s) + Lent(l, s) - Lent(loans[id], s)
                         /\ OwedSum(s)' = OwedSum(s) + Owed(l, s) - Owed(loans[id], s)
    BY <1>1, <1>2, <1>6, <1>7, LoanChanged
<1>10. ASSUME NEW s \in Symbols
      PROVE  /\ HeldSum(s)' = HeldSum(s) + Zero[s]
             /\ OwedSum(s)' = OwedSum(s) + dBor[s]
             /\ \E traded, lent \in Int :
                    /\ TradedSum(s)' = TradedSum(s) + traded
                    /\ LentSum(s)' = LentSum(s) + lent
                    /\ dBal[s] = traded + lent
    <2>1. /\ HeldSum(s) \in Int /\ TradedSum(s) \in Int /\ LentSum(s) \in Int /\ OwedSum(s) \in Int
          /\ dBal[s] \in Int /\ dBor[s] \in Int
        BY <1>1, <1>5, SumTypes
    <2>2. /\ Lent(l, s) \in Int /\ Lent(loans[id], s) \in Int
          /\ Owed(l, s) \in Int /\ Owed(loans[id], s) \in Int
        BY <1>2, <1>6, TermTypes
    <2>3. LentSum(s)' = LentSum(s) + dBal[s] /\ OwedSum(s)' = OwedSum(s) + dBor[s]
        BY <1>8, <1>9, <2>1, <2>2
    <2>4. TradedSum(s)' = TradedSum(s) + 0 /\ dBal[s] = 0 + dBal[s] /\ HeldSum(s)' = HeldSum(s) + Zero[s]
        BY <1>8, <2>1
    <2>. QED
        BY <2>1, <2>3, <2>4
<1>11. BooksBalance'
    BY <1>5, <1>7, <1>10, UpdateBalances
<1>. QED
    BY <1>2, <1>6, <1>7, <1>11, OthersUnpaid

LEMMA LoanReturned ==
    ASSUME BooksInv, NEW id, CancelLoan(id),
           \A s \in Symbols : HeldSum(s)' = HeldSum(s) /\ TradedSum(s)' = TradedSum(s)
    PROVE  BooksBalance' /\ OpenLoansUnpaid'
<1>. DEFINE l == [loans[id] EXCEPT !.isOpen = FALSE]
            delta == Single(Symbols, loans[id].symbol, -loans[id].amount)
<1>1. TypeInv /\ TypeOK
    BY DEF BooksInv, IInv, TypeInv
<1>2. /\ id \in LoanIds /\ loans[id].isOpen
      /\ loans[id] \in LoanRecord /\ loans[id].interest = 0
    BY <1>1, LoanTypes DEF CancelLoan, IsOpenLoan, BooksInv, OpenLoansUnpaid
<1>3. loans[id].symbol \in Symbols /\ loans[id].amount \in Int
    BY <1>2 DEF LoanRecord
<1>4. delta \in [Symbols -> Int] /\ Zero \in [Symbols -> Int]
    BY <1>3, SingleType, ZeroType
<1>5. l \in LoanRecord /\ ~l.isOpen /\ l.symbol = loans[id].symbol
      /\ l.amount = loans[id].amount /\ l.interest = 0
    BY <1>2 DEF LoanRecord
<1>6. loans' = [loans EXCEPT ![id] = l] /\ Update(delta, Zero, delta)
    BY DEF CancelLoan
<1>7. ASSUME NEW s \in Symbols
      PROVE  /\ Lent(l, s) - Lent(loans[id], s) = delta[s]
             /\ Owed(l, s) - Owed(loans[id], s) = delta[s]
             /\ Zero[s] = 0
    <2>1. delta[s] = IF s = loans[id].symbol THEN -loans[id].amount ELSE 0
        BY DEF Single
    <2>2. Lent(l, s) = 0 /\ Owed(l, s) = 0
        BY <1>5 DEF Lent, Owed
    <2>3. /\ Lent(loans[id], s) = IF s = loans[id].symbol THEN loans[id].amount ELSE 0
          /\ Owed(loans[id], s) = IF s = loans[id].symbol THEN loans[id].amount ELSE 0
        BY <1>2, <1>3 DEF Lent, Owed
    <2>4. Zero[s] = 0
        BY DEF Zero, ZeroMap
    <2>. HIDE DEF l, delta
    <2>. QED
        BY <1>3, <2>1, <2>2, <2>3, <2>4
<1>. HIDE DEF l, delta
<1>8. \A s \in Symbols : /\ LentSum(s)' = LentSum(s) + Lent(l, s) - Lent(loans[id], s)
                         /\ OwedSum(s)' = OwedSum(s) + Owed(l, s) - Owed(loans[id], s)
    BY <1>1, <1>2, <1>5, <1>6, LoanChanged
<1>9. ASSUME NEW s \in Symbols
      PROVE  /\ HeldSum(s)' = HeldSum(s) + Zero[s]
             /\ OwedSum(s)' = OwedSum(s) + delta[s]
             /\ \E traded, lent \in Int :
                    /\ TradedSum(s)' = TradedSum(s) + traded
                    /\ LentSum(s)' = LentSum(s) + lent
                    /\ delta[s] = traded + lent
    <2>1. /\ HeldSum(s) \in Int /\ TradedSum(s) \in Int /\ LentSum(s) \in Int /\ OwedSum(s) \in Int
          /\ delta[s] \in Int
        BY <1>1, <1>4, SumTypes
    <2>2. /\ Lent(l, s) \in Int /\ Lent(loans[id], s) \in Int
          /\ Owed(l, s) \in Int /\ Owed(loans[id], s) \in Int
        BY <1>2, <1>5, TermTypes
    <2>3. LentSum(s)' = LentSum(s) + delta[s] /\ OwedSum(s)' = OwedSum(s) + delta[s]
        BY <1>7, <1>8, <2>1, <2>2
    <2>4. TradedSum(s)' = TradedSum(s) + 0 /\ delta[s] = 0 + delta[s] /\ HeldSum(s)' = HeldSum(s) + Zero[s]
        BY <1>7, <2>1
    <2>. QED
        BY <2>1, <2>3, <2>4
<1>10. BooksBalance'
    BY <1>4, <1>6, <1>9, UpdateBalances
<1>. QED
    BY <1>2, <1>5, <1>6, <1>10, OthersUnpaid
-----------------------------------------------------------------------------
(***************************************************************************)
(* Orders.                                                                 *)
(***************************************************************************)

\* Steps that leave the trades and the holds of the orders alone.
LEMMA SameOrders ==
    ASSUME TypeInv, UNCHANGED holdsByOrder,
           \/ UNCHANGED orders
           \/ \E id \in OrderIds, o \in OrderRecord :
                  orders' = [orders EXCEPT ![id] = o] /\ SameTrades(o, orders[id])
    PROVE  \A s \in Symbols : HeldSum(s)' = HeldSum(s) /\ TradedSum(s)' = TradedSum(s)
<1>1. CASE UNCHANGED orders
    BY <1>1, OrdersUnchanged
<1>2. ASSUME NEW id \in OrderIds, NEW o \in OrderRecord,
             orders' = [orders EXCEPT ![id] = o], SameTrades(o, orders[id]),
             NEW s \in Symbols
      PROVE  HeldSum(s)' = HeldSum(s) /\ TradedSum(s)' = TradedSum(s)
    BY <1>2, TradesKept, HeldKept
<1>. QED
    BY <1>1, <1>2

LEMMA OnlyOrdersMove ==
    ASSUME BooksInv, UNCHANGED <<account, loans, holdsByOrder>>,
           \/ UNCHANGED orders
           \/ \E id \in OrderIds, o \in OrderRecord :
                  orders' = [orders EXCEPT ![id] = o] /\ SameTrades(o, orders[id])
    PROVE  BooksBalance' /\ OpenLoansUnpaid'
<1>1. \A s \in Symbols : HeldSum(s)' = HeldSum(s) /\ TradedSum(s)' = TradedSum(s)
    BY SameOrders DEF BooksInv, IInv
<1>2. \A s \in Symbols : LentSum(s)' = LentSum(s) /\ OwedSum(s)' = OwedSum(s)
    BY LoansUnchanged
<1>3. BooksBalance'
    BY <1>1, <1>2, StillBalanced DEF BooksInv
<1>. QED
    BY <1>3 DEF BooksInv, OpenLoansUnpaid, LoanIds

\* An order, and what it holds, is replaced, and the account moves by the difference.
LEMMA OrderMoves ==
    ASSUME BooksInv,
           NEW id \in OrderIds, NEW o \in OrderRecord, NEW hold \in [Symbols -> Int],
           NEW dBal \in [Symbols -> Int], NEW dHold \in [Symbols -> Int],
           orders' = [orders EXCEPT ![id] = o],
           holdsByOrder' = [holdsByOrder EXCEPT ![id] = hold],
           UNCHANGED loans,
           Update(dBal, dHold, Zero),
           \A s \in Symbols : /\ dHold[s] = hold[s] - holdsByOrder[id][s]
                              /\ dBal[s] = Traded(o, s) - Traded(orders[id], s)
    PROVE  BooksBalance' /\ OpenLoansUnpaid'
<1>1. TypeInv /\ TypeOK /\ orders[id] \in OrderRecord /\ holdsByOrder[id] \in [Symbols -> Int]
    BY OrderTypes DEF BooksInv, IInv, TypeInv
<1>2. Len(orders') = Len(orders)
    BY <1>1, OrderReplaced
<1>3. ASSUME NEW s \in Symbols
      PROVE  /\ HeldSum(s)' = HeldSum(s) + dHold[s]
             /\ OwedSum(s)' = OwedSum(s) + Zero[s]
             /\ \E traded, lent \in Int :
                    /\ TradedSum(s)' = TradedSum(s) + traded
                    /\ LentSum(s)' = LentSum(s) + lent
                    /\ dBal[s] = traded + lent
    <2>1. /\ HeldSum(s) \in Int /\ TradedSum(s) \in Int /\ LentSum(s) \in Int /\ OwedSum(s) \in Int
          /\ dBal[s] \in Int /\ dHold[s] \in Int /\ hold[s] \in Int /\ holdsByOrder[id][s] \in Int
          /\ Traded(o, s) \in Int /\ Traded(orders[id], s) \in Int /\ Zero[s] = 0
        BY <1>1, SumTypes, TermTypes DEF Zero, ZeroMap
    <2>2. HeldSum(s)' = HeldSum(s) + hold[s] - holdsByOrder[id][s]
        BY <1>1, <1>2, HoldsChange
    <2>3. TradedSum(s)' = TradedSum(s) + Traded(o, s) - Traded(orders[id], s)
        BY <1>1, TradesChange
    <2>4. LentSum(s)' = LentSum(s) /\ OwedSum(s)' = OwedSum(s)
        BY LoansUnchanged
    <2>5. dHold[s] = hold[s] - holdsByOrder[id][s] /\ dBal[s] = Traded(o, s) - Traded(orders[id], s)
        OBVIOUS
    <2>6. HeldSum(s)' = HeldSum(s) + dHold[s]
        BY <2>1, <2>2, <2>5
    <2>7. TradedSum(s)' = TradedSum(s) + dBal[s]
        BY <2>1, <2>3, <2>5
    <2>8. LentSum(s)' = LentSum(s) + 0 /\ dBal[s] = dBal[s] + 0 /\ OwedSum(s)' = OwedSum(s) + Zero[s]
        BY <2>1, <2>4
    <2>. QED
        BY <2>1, <2>6, <2>7, <2>8
<1>4. BooksBalance'
    BY <1>3, ZeroType, UpdateBalances
<1>. QED
    BY <1>4 DEF BooksInv, OpenLoansUnpaid, LoanIds

LEMMA AddOrderBooks ==
    ASSUME BooksInv, NEW req \in Requests, AddOrder(req)
    PROVE  BooksBalance' /\ OpenLoansUnpaid'
<1>. DEFINE o == NewOrder(req)
<1>1. TypeInv
    BY DEF BooksInv, IInv
<1>2. o \in OrderRecord /\ o.filled = 0 /\ o.quote = 0 /\ o.fees = 0
    BY <1>1, ExchangeAssumption DEF NewOrder, OrderRecord, Request, Statuses, TypeInv, TypeOK
<1>3. /\ orders' = Append(orders, o) /\ holdsByOrder' = Append(holdsByOrder, Zero)
      /\ UNCHANGED <<account, loans>>
    BY DEF AddOrder
<1>. HIDE DEF o
<1>4. \A s \in Symbols : HeldSum(s)' = HeldSum(s) /\ TradedSum(s)' = TradedSum(s)
    BY <1>1, <1>2, <1>3, OrderAppended
<1>5. \A s \in Symbols : LentSum(s)' = LentSum(s) /\ OwedSum(s)' = OwedSum(s)
    BY <1>3, LoansUnchanged
<1>6. BooksBalance'
    BY <1>3, <1>4, <1>5, StillBalanced DEF BooksInv
<1>. QED
    BY <1>3, <1>6 DEF BooksInv, OpenLoansUnpaid, LoanIds

LEMMA BorrowNextBooks ==
    ASSUME BooksInv, BorrowNext
    PROVE  BooksBalance' /\ OpenLoansUnpaid'
<1>. DEFINE id == task.order
            ids == task.loanIds \union {Len(loans) + 1}
            o == [orders[id] EXCEPT !.loans = ids]
<1>1. /\ TypeInv /\ TypeOK /\ id \in OrderIds /\ orders[id] \in OrderRecord
      /\ orders[id].pair \in Bases /\ task \in Task
    BY TheTasksOrder DEF BorrowNext, BooksInv, IInv, TypeInv, TypeOK
<1>2. NextShort \in Symbols
    BY <1>1, QuoteNotBase DEF NextShort
<1>3. Shortfall(orders[id], NextShort) \in Int
    BY <1>1, <1>2, RequiredBalancesType
<1>4. CreateLoan(NextShort, Shortfall(orders[id], NextShort)) /\ UNCHANGED holdsByOrder
    BY DEF BorrowNext
<1>5. ids \in SUBSET (Nat \ {0})
    BY <1>1, LenProperties DEF Task, TypeOK
<1>6. UNCHANGED orders \/ orders' = [orders EXCEPT ![id] = o]
    BY DEF BorrowNext
<1>. HIDE DEF ids
<1>7. o \in OrderRecord /\ SameTrades(o, orders[id])
    BY <1>1, <1>5 DEF OrderRecord, SameTrades
<1>8. \A s \in Symbols : HeldSum(s)' = HeldSum(s) /\ TradedSum(s)' = TradedSum(s)
    BY <1>1, <1>4, <1>6, <1>7, SameOrders
<1>. QED
    BY <1>2, <1>3, <1>4, <1>8, LoanGranted

LEMMA RefusedBooks ==
    ASSUME BooksInv, Refuse \/ HoldFails
    PROVE  BooksBalance' /\ OpenLoansUnpaid'
<1>. DEFINE id == task.order
            o == [orders[id] EXCEPT !.status = "REJECTED"]
<1>1. id \in OrderIds /\ orders[id] \in OrderRecord
    BY TheTasksOrder DEF Refuse, HoldFails, BooksInv, IInv
<1>2. o \in OrderRecord /\ SameTrades(o, orders[id])
    BY <1>1 DEF OrderRecord, Statuses, SameTrades
<1>3. orders' = [orders EXCEPT ![id] = o] /\ UNCHANGED <<account, loans, holdsByOrder>>
    BY DEF Refuse, HoldFails
<1>. QED
    BY <1>1, <1>2, <1>3, OnlyOrdersMove

LEMMA HoldRequiredBooks ==
    ASSUME BooksInv, HoldRequired
    PROVE  BooksBalance' /\ OpenLoansUnpaid'
<1>. DEFINE id == task.order
            o == [orders[id] EXCEPT !.status = "OPEN"]
            required == RequiredBalances(orders[id])
<1>1. /\ id \in OrderIds /\ orders[id] \in OrderRecord /\ TypeOK
      /\ orders[id].status = "NEW" /\ holdsByOrder[id] = Zero
    BY TheTasksOrder DEF HoldRequired, BooksInv, IInv, TypeInv, TaskInv, OrdersInv, OrderInv
<1>2. required \in [Symbols -> Int]
    BY <1>1, RequiredBalancesType
<1>3. o \in OrderRecord /\ SameTrades(o, orders[id])
    BY <1>1 DEF OrderRecord, Statuses, SameTrades
<1>4. /\ orders' = [orders EXCEPT ![id] = o]
      /\ holdsByOrder' = [holdsByOrder EXCEPT ![id] = required]
      /\ UNCHANGED loans /\ Update(Zero, required, Zero)
    BY DEF HoldRequired
<1>. HIDE DEF required, o
<1>5. \A s \in Symbols : /\ required[s] = required[s] - holdsByOrder[id][s]
                         /\ Zero[s] = Traded(o, s) - Traded(orders[id], s)
    <2>1. \A s \in Symbols : holdsByOrder[id][s] = 0 /\ Zero[s] = 0 /\ required[s] \in Int
        BY <1>1, <1>2 DEF Zero, ZeroMap
    <2>2. \A s \in Symbols : Traded(o, s) = Traded(orders[id], s)
        BY <1>3 DEF SameTrades, Traded, Sign
    <2>3. \A s \in Symbols : Traded(o, s) \in Int
        BY <1>3, TermTypes
    <2>. QED
        BY <2>1, <2>2, <2>3
<1>6. UNCHANGED loans /\ Update(Zero, required, Zero)
    BY <1>4
<1>. HIDE DEF id
<1>. QED
    BY <1>1, <1>2, <1>3, <1>4, <1>5, <1>6, ZeroType, OrderMoves

\* What a closed order held goes back.
LEMMA ClosedBooks ==
    ASSUME BooksInv, NEW id \in OrderIds, NEW o \in OrderRecord, SameTrades(o, orders[id]),
           orders' = [orders EXCEPT ![id] = o],
           holdsByOrder' = [holdsByOrder EXCEPT ![id] = Zero],
           UNCHANGED loans,
           Update(Zero, Negate(holdsByOrder[id]), Zero)
    PROVE  BooksBalance' /\ OpenLoansUnpaid'
<1>. DEFINE dHold == Negate(holdsByOrder[id])
<1>1. holdsByOrder[id] \in [Symbols -> Int] /\ dHold \in [Symbols -> Int]
    BY OrderTypes, MapArithmetic DEF BooksInv, IInv, TypeInv
<1>2. ASSUME NEW s \in Symbols
      PROVE  /\ dHold[s] = Zero[s] - holdsByOrder[id][s]
             /\ Zero[s] = Traded(o, s) - Traded(orders[id], s)
    <2>1. Zero[s] = 0 /\ dHold[s] = 0 - holdsByOrder[id][s]
        BY <1>1 DEF Zero, ZeroMap, Negate
    <2>2. Traded(o, s) = Traded(orders[id], s) /\ Traded(o, s) \in Int
        BY TermTypes DEF SameTrades, Traded, Sign
    <2>. QED
        BY <2>1, <2>2
<1>3. Update(Zero, dHold, Zero)
    OBVIOUS
<1>. HIDE DEF dHold
<1>. QED
    BY <1>1, <1>2, <1>3, ZeroType, OrderMoves

LEMMA ProcessCanceledBooks ==
    ASSUME BooksInv, NEW slip \in Slips, ProcessCanceled(slip)
    PROVE  BooksBalance' /\ OpenLoansUnpaid'
<1>. DEFINE id == task.order
            tried == Tried(id, slip)
            o == [tried EXCEPT !.status = "CANCELED"]
<1>1. /\ TypeInv /\ task.at # "idle" /\ id \in OrderIds /\ orders[id] \in OrderRecord
      /\ tried \in OrderRecord
    BY TheTasksOrder, TriedType DEF ProcessCanceled, BooksInv, IInv
<1>2. SameTrades(tried, orders[id])
    BY <1>1 DEF Tried, OrderRecord, SameTrades
<1>3. o \in OrderRecord /\ SameTrades(o, orders[id])
    BY <1>1, <1>2 DEF OrderRecord, Statuses, SameTrades
<1>4. /\ orders' = [orders EXCEPT ![id] = o]
      /\ holdsByOrder' = [holdsByOrder EXCEPT ![id] = Zero]
      /\ UNCHANGED loans
      /\ Update(Zero, Negate(holdsByOrder[id]), Zero)
    BY DEF ProcessCanceled
<1>. HIDE DEF id, o
<1>. QED
    BY <1>1, <1>3, <1>4, ClosedBooks

LEMMA CancelOrderBooks ==
    ASSUME BooksInv, NEW id \in OrderIds, CancelOrder(id)
    PROVE  BooksBalance' /\ OpenLoansUnpaid'
<1>. DEFINE o == [orders[id] EXCEPT !.status = "CANCELED"]
<1>1. orders[id] \in OrderRecord
    BY OrderTypes DEF BooksInv, IInv, TypeInv
<1>2. o \in OrderRecord /\ SameTrades(o, orders[id])
    BY <1>1 DEF OrderRecord, Statuses, SameTrades
<1>3. /\ orders' = [orders EXCEPT ![id] = o]
      /\ holdsByOrder' = [holdsByOrder EXCEPT ![id] = Zero]
      /\ UNCHANGED loans
      /\ Update(Zero, Negate(holdsByOrder[id]), Zero)
    BY DEF CancelOrder
<1>. HIDE DEF o
<1>. QED
    BY <1>2, <1>3, ClosedBooks

LEMMA ProcessUnfilledBooks ==
    ASSUME BooksInv, NEW slip \in Slips, ProcessUnfilled(slip)
    PROVE  BooksBalance' /\ OpenLoansUnpaid'
<1>. DEFINE id == task.order
            tried == Tried(id, slip)
<1>1. /\ TypeInv /\ task.at # "idle" /\ id \in OrderIds /\ orders[id] \in OrderRecord
      /\ tried \in OrderRecord
    BY TheTasksOrder, TriedType DEF ProcessUnfilled, BooksInv, IInv
<1>2. SameTrades(tried, orders[id])
    BY <1>1 DEF Tried, OrderRecord, SameTrades
<1>3. /\ orders' = [orders EXCEPT ![id] = tried]
      /\ UNCHANGED <<account, loans, holdsByOrder>>
    BY DEF ProcessUnfilled
<1>. HIDE DEF id, tried
<1>. QED
    BY <1>1, <1>2, <1>3, OnlyOrdersMove

\* A fill books on the account what it records in the order.
LEMMA ProcessFilledBooks ==
    ASSUME BooksInv, NEW slip \in Slips, ProcessFilled(slip)
    PROVE  BooksBalance' /\ OpenLoansUnpaid'
<1>. DEFINE id          == task.order
            o           == orders[id]
            hold        == holdsByOrder[id]
            fill        == FillOf(o, slip)
            quoteAmount == RoundQuote(fill.amount * fill.price)
            fee         == Fee(o, quoteAmount)
            updates     == BalanceUpdates(o, fill.amount, quoteAmount, fee)
            completed   == o.filled + fill.amount >= o.amount
            released    == IF completed THEN Negate(hold) ELSE HoldUpdates(hold, updates)
            status      == IF completed THEN "COMPLETED" ELSE "OPEN"
            filledOrder == [o EXCEPT !.filled = o.filled + fill.amount,
                                     !.quote = o.quote + quoteAmount,
                                     !.fees = o.fees + fee,
                                     !.hit = fill.hit,
                                     !.status = status]
<1>1. /\ TypeInv /\ id \in OrderIds /\ o \in OrderRecord /\ o.pair \in Bases
      /\ hold \in [Symbols -> Int]
    BY TheTasksOrder DEF ProcessFilled, BooksInv, IInv
<1>2. fill.amount \in Int /\ fill.price \in Int /\ fill.hit \in BOOLEAN
    BY <1>1, FillOfType DEF ProcessFilled
<1>3. /\ Update(updates, released, Zero)
      /\ holdsByOrder' = [holdsByOrder EXCEPT ![id] = Plus(hold, released)]
      /\ orders' = [orders EXCEPT ![id] = filledOrder]
      /\ UNCHANGED loans
    BY DEF ProcessFilled
<1>. HIDE DEF fill
<1>4. fill.amount * fill.price \in Int
    BY <1>2
<1>5. quoteAmount \in Int /\ fee \in Int
    BY <1>1, <1>4, Rounded, FeeType
<1>. HIDE DEF quoteAmount, fee
<1>6. updates \in [Symbols -> Int]
    BY <1>1, <1>2, <1>5, BalanceUpdatesType
<1>7. status \in Statuses
    BY DEF Statuses
<1>. HIDE DEF status
<1>8. /\ o.filled \in Int /\ o.quote \in Int /\ o.fees \in Int
      /\ o.filled + fill.amount \in Int /\ o.quote + quoteAmount \in Int /\ o.fees + fee \in Int
    BY <1>1, <1>2, <1>5 DEF OrderRecord
<1>9. /\ filledOrder \in OrderRecord
      /\ filledOrder.pair = o.pair /\ filledOrder.operation = o.operation
      /\ filledOrder.filled = o.filled + fill.amount
      /\ filledOrder.quote = o.quote + quoteAmount
      /\ filledOrder.fees = o.fees + fee
    BY <1>1, <1>2, <1>7, <1>8 DEF OrderRecord
<1>. HIDE DEF filledOrder
<1>10. \A s \in Symbols : updates[s] = Traded(filledOrder, s) - Traded(o, s)
    <2>. SUFFICES ASSUME NEW s \in Symbols
                  PROVE  updates[s] = Traded(filledOrder, s) - Traded(o, s)
        OBVIOUS
    <2>1. Sign(filledOrder) = Sign(o) /\ Sign(o) \in {1, -1}
        BY <1>9 DEF Sign
    <2>2. CASE s = o.pair
        <3>1. /\ updates[s] = Sign(o) * fill.amount
              /\ Traded(filledOrder, s) = Sign(o) * (o.filled + fill.amount)
              /\ Traded(o, s) = Sign(o) * o.filled
            BY <1>9, <2>1, <2>2 DEF BalanceUpdates, Traded
        <3>. QED
            BY <1>2, <1>8, <2>1, <3>1
    <2>3. CASE s # o.pair /\ s = Quote
        <3>1. /\ updates[s] = -Sign(o) * quoteAmount - fee
              /\ Traded(filledOrder, s) = -Sign(o) * (o.quote + quoteAmount) - (o.fees + fee)
              /\ Traded(o, s) = -Sign(o) * o.quote - o.fees
            BY <1>9, <2>1, <2>3 DEF BalanceUpdates, Traded
        <3>. QED
            BY <1>5, <1>8, <2>1, <3>1
    <2>4. CASE s # o.pair /\ s # Quote
        BY <1>9, <2>4 DEF BalanceUpdates, Traded
    <2>. QED
        BY <2>2, <2>3, <2>4
<1>. HIDE DEF updates
<1>11. released \in [Symbols -> Int] /\ Plus(hold, released) \in [Symbols -> Int]
    BY <1>1, <1>6, MapArithmetic, HoldUpdatesType
<1>. HIDE DEF released
<1>12. \A s \in Symbols : released[s] = Plus(hold, released)[s] - hold[s]
    BY <1>1, <1>11 DEF Plus
<1>13. UNCHANGED loans /\ Update(updates, released, Zero)
    BY <1>3
<1>14. holdsByOrder' = [holdsByOrder EXCEPT ![id] = Plus(hold, released)]
    BY <1>3
<1>15. orders' = [orders EXCEPT ![id] = filledOrder]
    BY <1>3
<1>16. id \in OrderIds /\ filledOrder \in OrderRecord
    BY <1>1, <1>9
<1>17. \A s \in Symbols : /\ released[s] = Plus(hold, released)[s] - hold[s]
                          /\ updates[s] = Traded(filledOrder, s) - Traded(o, s)
    BY <1>10, <1>12
<1>. HIDE DEF id, completed
<1>. QED
    BY <1>6, <1>11, <1>13, <1>14, <1>15, <1>16, <1>17, OrderMoves
-----------------------------------------------------------------------------
LEMMA RepayNextBooks ==
    ASSUME BooksInv, RepayNext
    PROVE  BooksBalance' /\ OpenLoansUnpaid'
<1>. DEFINE id == task.order
            l  == Biggest(task.loanIds)
            o  == [orders[id] EXCEPT !.loans = orders[id].loans \union {l}]
<1>1. /\ TypeInv /\ id \in OrderIds /\ orders[id] \in OrderRecord
    BY TheTasksOrder DEF RepayNext, BooksInv, IInv
<1>2. RepayLoan(l) /\ orders' = [orders EXCEPT ![id] = o] /\ UNCHANGED holdsByOrder
    BY DEF RepayNext
<1>3. l \in Nat \ {0}
    BY <1>2 DEF RepayLoan, IsOpenLoan, LoanIds
<1>. HIDE DEF l
<1>4. o \in OrderRecord /\ SameTrades(o, orders[id])
    BY <1>1, <1>3 DEF OrderRecord, SameTrades
<1>. HIDE DEF id, o
<1>5. \A s \in Symbols : HeldSum(s)' = HeldSum(s) /\ TradedSum(s)' = TradedSum(s)
    BY <1>1, <1>2, <1>4, SameOrders
<1>. QED
    BY <1>2, <1>5, LoanRepaid

LEMMA LoanStepBooks ==
    ASSUME BooksInv, RollbackNext \/ RequestLoan \/ RequestRepayment
    PROVE  BooksBalance' /\ OpenLoansUnpaid'
<1>1. UNCHANGED <<orders, holdsByOrder>>
    BY DEF RollbackNext, RequestLoan, RequestRepayment, managers
<1>2. \A s \in Symbols : HeldSum(s)' = HeldSum(s) /\ TradedSum(s)' = TradedSum(s)
    BY <1>1, OrdersUnchanged
<1>3. CASE RollbackNext
    BY <1>2, <1>3, LoanReturned DEF RollbackNext
<1>4. CASE RequestLoan
    <2>1. PICK s \in Symbols, amount \in LoanAmounts : CreateLoan(s, amount)
        BY <1>4 DEF RequestLoan
    <2>2. amount \in Int
        BY ExchangeAssumption
    <2>. QED
        BY <1>2, <2>1, <2>2, LoanGranted
<1>5. CASE RequestRepayment
    BY <1>2, <1>5, LoanRepaid DEF RequestRepayment
<1>. QED
    BY <1>3, <1>4, <1>5

\* Steps that change neither the account nor the records.
LEMMA OtherStepBooks ==
    ASSUME BooksInv,
           \/ NewBar \/ BorrowFails \/ SkipRepayment \/ RepaymentDone \/ PushOrderUpdate
           \/ UNCHANGED vars
    PROVE  BooksBalance' /\ OpenLoansUnpaid'
<1>1. UNCHANGED <<account, loans, holdsByOrder>> /\ UNCHANGED orders
    BY DEF NewBar, BorrowFails, SkipRepayment, RepaymentDone, PushOrderUpdate, vars, managers
<1>. QED
    BY <1>1, OnlyOrdersMove

LEMMA BooksStep == BooksInv /\ [Next]_vars => BooksInv'
<1>. SUFFICES ASSUME BooksInv, [Next]_vars PROVE BooksBalance' /\ OpenLoansUnpaid'
    BY InvStep DEF BooksInv
<1>1. CASE RequestOrder
    BY <1>1, AddOrderBooks DEF RequestOrder
<1>2. CASE RequestCancel
    BY <1>2, CancelOrderBooks DEF RequestCancel
<1>3. CASE BorrowNext
    BY <1>3, BorrowNextBooks
<1>4. CASE Refuse \/ HoldFails
    BY <1>4, RefusedBooks
<1>5. CASE HoldRequired
    BY <1>5, HoldRequiredBooks
<1>6. CASE \E slip \in Slips : ProcessFilled(slip) \/ ProcessCanceled(slip) \/ ProcessUnfilled(slip)
    BY <1>6, ProcessFilledBooks, ProcessCanceledBooks, ProcessUnfilledBooks
<1>7. CASE RepayNext
    BY <1>7, RepayNextBooks
<1>8. CASE RollbackNext \/ RequestLoan \/ RequestRepayment
    BY <1>8, LoanStepBooks
<1>9. CASE \/ NewBar \/ BorrowFails \/ SkipRepayment \/ RepaymentDone \/ PushOrderUpdate
           \/ UNCHANGED vars
    BY <1>9, OtherStepBooks
<1>. QED
    BY <1>1, <1>2, <1>3, <1>4, <1>5, <1>6, <1>7, <1>8, <1>9 DEF Next, MethodStep, Rest

LEMMA BooksInvariant == Spec => []BooksInv
BY BooksInit, BooksStep, PTL DEF Spec

\* Between any two steps of any method, the account's holds are those of _holds_by_order together,
\* however many orders there are.
THEOREM HoldsAgree == Spec => []HoldsMatchOrders
<1>1. BooksInv => HoldsMatchOrders
    BY DEF BooksInv, BooksBalance, HoldsMatchOrders, HeldSum
<1>. QED
    BY <1>1, BooksInvariant, PTL

\* The account's borrowed map and the loan manager's loans agree on what is owed, whatever was
\* borrowed, rolled back and repaid.
THEOREM DebtsAgree == Spec => []BorrowedMatchesLoans
<1>1. BooksInv => BorrowedMatchesLoans
    BY DEF BooksInv, BooksBalance, BorrowedMatchesLoans, OwedSum, Owed
<1>. QED
    BY <1>1, BooksInvariant, PTL

\* No unit is lost or made: the balances are the initial ones and what the records of the orders
\* and of the loans say was traded, charged, lent and paid.
THEOREM BalancesAgree == Spec => []BalancesReconcile
<1>1. BooksInv => BalancesReconcile
    BY DEF BooksInv, BooksBalance, BalancesReconcile, TradedSum, LentSum
<1>. QED
    BY <1>1, BooksInvariant, PTL
-----------------------------------------------------------------------------
(***************************************************************************)
(* Borrowing for an order.                                                 *)
(***************************************************************************)
\* The steps of add_order up to accepting or refusing the order are entered by create_order only.
LEMMA OnlyAddOrderBorrows ==
    ASSUME TypeInv, [Next]_vars
    PROVE  \/ UNCHANGED vars
           \/ RequestOrder \/ BorrowNext \/ BorrowFails \/ RollbackNext
           \/ task'.at \notin {"borrow", "rollback", "hold"}
<1>. DEFINE Out == task'.at \notin {"borrow", "rollback", "hold"}
<1>1. task \in Task /\ TypeOK /\ Idle.at = "idle"
    BY IdleType DEF TypeInv, TypeOK
<1>2. CASE RequestCancel
    <2>1. PICK id \in OrderIds : CancelOrder(id)
        BY <1>2 DEF RequestCancel
    <2>. DEFINE t == [Idle EXCEPT !.order = id, !.caller = "cancel_order"]
    <2>2. t \in Task
        <3>1. id \in Nat /\ Idle \in Task
            BY IdleType DEF OrderIds
        <3>. QED
            BY <3>1 DEF Task
    <2>3. task' = TaskAfterClosing(t, orders[id])
        BY <2>1 DEF CancelOrder
    <2>. HIDE DEF t
    <2>. QED
        BY <1>1, <2>2, <2>3, TaskAfterClosingType
<1>3. CASE RequestLoan \/ RequestRepayment
    <2>1. task = Idle /\ task' = task
        BY <1>3 DEF RequestLoan, RequestRepayment, managers
    <2>. QED
        BY <1>1, <2>1
<1>4. CASE NewBar
    <2>1. PICK b \in Bases : \E bar \in Bars[b] : OnBarEvent(b, bar)
        BY <1>4 DEF NewBar
    <2>2. task' = ProcessNextAfter(0, b)
        BY <2>1 DEF OnBarEvent
    <2>. QED
        BY <1>1, <2>2, ProcessNextType
<1>5. CASE Refuse \/ HoldFails
    BY <1>1, <1>5 DEF Refuse, HoldFails
<1>6. CASE HoldRequired
    BY <1>1, <1>6 DEF HoldRequired, Task
<1>7. ASSUME NEW slip \in Slips, ProcessFilled(slip) \/ ProcessCanceled(slip)
      PROVE  Out
    <2>1. PICK closed : \/ task' = TaskAfterClosing(task, closed)
                        \/ task' = [task EXCEPT !.at = "push"]
        BY <1>7 DEF ProcessFilled, ProcessCanceled
    <2>2. [task EXCEPT !.at = "push"].at = "push"
        BY <1>1 DEF Task
    <2>. QED
        BY <1>1, <2>1, <2>2, TaskAfterClosingType
<1>8. ASSUME NEW slip \in Slips, ProcessUnfilled(slip)
      PROVE  Out
    <2>1. task.at # "idle" /\ task' \in {[task EXCEPT !.at = "push"], NextTask}
        BY <1>8 DEF ProcessUnfilled
    <2>2. [task EXCEPT !.at = "push"].at = "push"
        BY <1>1 DEF Task
    <2>. QED
        BY <1>1, <2>1, <2>2, NextTaskType
<1>9. CASE RepayNext \/ SkipRepayment \/ RepaymentDone
    BY <1>1, <1>9 DEF RepayNext, SkipRepayment, RepaymentDone, Task
<1>10. CASE PushOrderUpdate
    <2>1. task.at # "idle" /\ task' = NextTask
        BY <1>10 DEF PushOrderUpdate
    <2>. QED
        BY <1>1, <2>1, NextTaskType
<1>. QED
    BY <1>2, <1>3, <1>4, <1>5, <1>6, <1>7, <1>8, <1>9, <1>10 DEF Next, MethodStep, Rest
-----------------------------------------------------------------------------
(***************************************************************************)
(* What an order requires depends on its terms and on the last price; it   *)
(* requires nothing but the two symbols of its pair.                       *)
(***************************************************************************)

SameWants(o, p) ==
    /\ o.type = p.type /\ o.operation = p.operation /\ o.pair = p.pair /\ o.amount = p.amount
    /\ o.limit = p.limit /\ o.stop = p.stop /\ o.quote = p.quote /\ o.fees = p.fees

LEMMA SameRequirements ==
    ASSUME NEW o, NEW p, SameWants(o, p), UNCHANGED lastBar
    PROVE  RequiredBalances(p)' = RequiredBalances(o)
<1>1. EstimatedPrice(p)' = EstimatedPrice(o)
    BY DEF EstimatedPrice, SameWants
<1>2. \A q : Fee(p, q) = Fee(o, q)
    BY DEF Fee, SameWants
<1>3. \A b, q, f : BalanceUpdates(p, b, q, f) = BalanceUpdates(o, b, q, f)
    BY DEF BalanceUpdates, Sign, SameWants
<1>4. p.amount = o.amount
    BY DEF SameWants
<1>. QED
    BY <1>1, <1>2, <1>3, <1>4 DEF RequiredBalances

LEMMA SameShortfalls ==
    ASSUME NEW o, NEW p, SameWants(o, p), UNCHANGED <<account, lastBar>>, NEW s
    PROVE  Shortfall(p, s)' = Shortfall(o, s)
BY SameRequirements DEF Shortfall, Available, account

LEMMA RequiredOfPair ==
    ASSUME NEW o, NEW s \in Symbols, s # o.pair, s # Quote
    PROVE  RequiredBalances(o)[s] = 0
<1>1. \A b, q, f : BalanceUpdates(o, b, q, f)[s] = 0
    BY DEF BalanceUpdates
<1>2. PICK b, q, f : RequiredBalances(o)[s] = Larger(-BalanceUpdates(o, b, q, f)[s], 0)
    <2>. DEFINE q == RoundQuote(o.amount * EstimatedPrice(o))
    <2>1. RequiredBalances(o)[s] =
              Larger(-BalanceUpdates(o, o.amount, q, IF q = 0 THEN 0 ELSE Fee(o, q))[s], 0)
        BY DEF RequiredBalances
    <2>. QED
        BY <2>1
<1>3. \A n \in Nat : Larger(-n, 0) = 0
    BY DEF Larger
<1>. QED
    BY <1>1, <1>2, <1>3, 0 \in Nat
-----------------------------------------------------------------------------
(***************************************************************************)
(* The loans suffice.  While a method borrows, the account is short of     *)
(* nothing but the symbols it has still to borrow, which are symbols of    *)
(* the order's pair: every loan is exactly what was missing.               *)
(***************************************************************************)

ShortInv ==
    LET o == orders[task.order]
    IN  /\ task.at = "borrow" =>
               /\ task.short # {} /\ task.short \subseteq {o.pair, Quote}
               /\ \A s \in Symbols \ task.short : Shortfall(o, s) <= 0
        /\ task.at = "hold" /\ o.loans # {} => \A s \in Symbols : Shortfall(o, s) <= 0

BorrowInv == IInv /\ Solvent /\ ShortInv

LEMMA AddOrderShort ==
    ASSUME BorrowInv, RequestOrder
    PROVE  ShortInv'
<1>1. PICK req \in Requests : AddOrder(req)
    BY DEF RequestOrder
<1>2. /\ orders \in Seq(OrderRecord) /\ Len(orders) \in Nat /\ TypeOK
    BY LenProperties DEF BorrowInv, IInv, TypeInv, TypeOK
<1>3. PICK o \in OrderRecord : o = NewOrder(req) /\ o.loans = {}
    <2>1. NewOrder(req) \in OrderRecord
        BY <1>2, ExchangeAssumption DEF NewOrder, OrderRecord, Request, Statuses, TypeOK
    <2>2. NewOrder(req).loans = {}
        BY DEF NewOrder
    <2>. QED
        BY <2>1, <2>2
<1>. DEFINE short == {s \in Symbols : RequiredBalances(o)[s] > 0 /\ Shortfall(o, s) > 0}
<1>4. /\ orders' = Append(orders, o)
      /\ task'.order = Len(orders) + 1
      /\ task'.at \in {"borrow", "hold"}
      /\ task'.at = "borrow" => short # {} /\ task'.short = short
      /\ UNCHANGED <<account, lastBar>>
    BY <1>1, <1>3 DEF AddOrder, Idle
<1>5. o = orders'[task'.order]
    BY <1>2, <1>4, AppendProperties
<1>6. SameWants(o, o)
    BY DEF SameWants
<1>7. \A s \in Symbols : Shortfall(o, s)' = Shortfall(o, s)
    BY <1>4, <1>6, SameShortfalls
<1>8. \A s \in Symbols \ short : Shortfall(o, s) <= 0
    <2>. SUFFICES ASSUME NEW s \in Symbols, s \notin short
                  PROVE  Shortfall(o, s) <= 0
        OBVIOUS
    <2>1. RequiredBalances(o)[s] \in Int /\ RequiredBalances(o)[s] >= 0 /\ Shortfall(o, s) \in Int
        BY <1>2, RequiredBalancesType
    <2>2. balances[s] \in Int /\ holds[s] \in Int /\ holds[s] <= balances[s]
        BY <1>2 DEF TypeOK, AccountTypeOK, BorrowInv, Solvent, ValidHold
    <2>. QED
        BY <2>1, <2>2 DEF Shortfall, Available
<1>9. short \subseteq {o.pair, Quote}
    BY <1>2, RequiredOfPair
<1>. HIDE DEF short
<1>. QED
    BY <1>3, <1>4, <1>5, <1>7, <1>8, <1>9 DEF ShortInv

\* A loan of what is missing of a symbol leaves nothing missing of it.
LEMMA LoanCovers ==
    ASSUME BorrowInv, NEW o \in OrderRecord, NEW s \in Symbols, CreateLoan(s, Shortfall(o, s)),
           NEW p, SameWants(o, p), UNCHANGED lastBar
    PROVE  /\ Shortfall(p, s)' = 0
           /\ \A t \in Symbols : t # s => Shortfall(p, t)' = Shortfall(o, t)
<1>. DEFINE amount == Shortfall(o, s)
            delta == Single(Symbols, s, amount)
<1>1. TypeOK /\ amount \in Int /\ RequiredBalances(o) \in [Symbols -> Int]
    BY RequiredBalancesType DEF BorrowInv, IInv, TypeInv
<1>2. balances' = Plus(balances, delta) /\ holds' = Plus(holds, Zero)
    BY DEF CreateLoan, Update
<1>3. balances \in [Symbols -> Int] /\ holds \in [Symbols -> Int]
    BY <1>1 DEF TypeOK, AccountTypeOK
<1>4. \A t \in Symbols : /\ holds'[t] = holds[t]
                         /\ balances'[t] = balances[t] + (IF t = s THEN amount ELSE 0)
    <2>. HIDE DEF amount
    <2>. QED
        BY <1>1, <1>2, <1>3 DEF Plus, Zero, ZeroMap, Single
<1>5. RequiredBalances(p)' = RequiredBalances(o)
    BY SameRequirements
<1>6. \A t \in Symbols : Shortfall(p, t)' = RequiredBalances(o)[t] - (balances'[t] - holds'[t])
    BY <1>5 DEF Shortfall, Available
<1>7. amount = RequiredBalances(o)[s] - (balances[s] - holds[s])
    BY DEF Shortfall, Available
<1>. QED
    BY <1>1, <1>3, <1>4, <1>6, <1>7 DEF Shortfall, Available

LEMMA BorrowNextShort ==
    ASSUME BorrowInv, BorrowNext
    PROVE  ShortInv'
<1>. DEFINE id == task.order
            ids == task.loanIds \union {Len(loans) + 1}
<1>1. /\ TypeInv /\ TypeOK /\ id \in OrderIds /\ orders[id] \in OrderRecord
      /\ orders[id].pair \in Bases /\ task \in Task /\ Len(loans) \in Nat
    BY TheTasksOrder, LenProperties DEF BorrowNext, BorrowInv, IInv, TypeInv, TypeOK
<1>2. PICK s \in Symbols : s = NextShort /\ s \in task.short
    BY <1>1, QuoteNotBase DEF NextShort, BorrowNext, BorrowInv, ShortInv
<1>. DEFINE rest == task.short \ {s}
<1>3. PICK o \in OrderRecord : o = orders[id]
    BY <1>1
<1>. DEFINE granted == [o EXCEPT !.loans = ids]
<1>4. /\ CreateLoan(s, Shortfall(o, s))
      /\ UNCHANGED <<lastBar, holdsByOrder>>
      /\ task'.order = id
      /\ \/ task'.at = "rollback"
         \/ task'.at = "borrow" /\ rest # {} /\ task'.short = rest /\ UNCHANGED orders
         \/ task'.at = "hold" /\ rest = {} /\ orders' = [orders EXCEPT ![id] = granted]
    BY <1>1, <1>2, <1>3 DEF BorrowNext, Task
<1>5. granted \in OrderRecord /\ SameWants(o, granted) /\ SameWants(o, o)
    <2>1. ids \in SUBSET (Nat \ {0})
        BY <1>1 DEF Task
    <2>. HIDE DEF ids
    <2>. QED
        BY <2>1 DEF OrderRecord, SameWants
<1>. HIDE DEF granted
<1>6. CASE task'.at = "rollback"
    BY <1>6 DEF ShortInv
<1>7. ASSUME task'.at \in {"borrow", "hold"}
      PROVE  ShortInv'
    <2>1. PICK p : p = orders'[task'.order] /\ SameWants(o, p) /\ p.pair = o.pair
        <3>1. holdsByOrder[id] \in [Symbols -> Int]
            BY <1>1, OrderTypes
        <3>2. orders'[id] = o \/ orders'[id] = granted
            BY <1>1, <1>3, <1>4, <1>5, <1>7, <3>1, OrderAt
        <3>. QED
            BY <1>4, <1>5, <3>2 DEF SameWants
    <2>2. /\ Shortfall(p, s)' = 0
          /\ \A t \in Symbols : t # s => Shortfall(p, t)' = Shortfall(o, t)
        BY <1>4, <2>1, LoanCovers
    <2>3. /\ \A t \in Symbols \ task.short : Shortfall(o, t) <= 0
          /\ task.short \subseteq {o.pair, Quote}
        BY <1>3 DEF BorrowNext, BorrowInv, ShortInv
    <2>4. \A t \in Symbols \ rest : Shortfall(p, t)' <= 0
        BY <2>2, <2>3
    <2>5. rest \subseteq {p.pair, Quote}
        BY <2>1, <2>3
    <2>. HIDE DEF rest
    <2>6. CASE task'.at = "borrow" /\ task'.short = rest /\ rest # {}
        BY <2>1, <2>4, <2>5, <2>6 DEF ShortInv
    <2>7. CASE task'.at = "hold" /\ rest = {}
        BY <2>1, <2>4, <2>7 DEF ShortInv
    <2>. QED
        BY <1>4, <1>7, <2>6, <2>7
<1>. QED
    BY <1>4, <1>6, <1>7

LEMMA BorrowStep == BorrowInv /\ [Next]_vars => BorrowInv'
<1>. SUFFICES ASSUME BorrowInv, [Next]_vars PROVE ShortInv'
    BY InvStep, SolventStep DEF BorrowInv
<1>1. task \in Task /\ TypeInv
    BY DEF BorrowInv, IInv, TypeInv, TypeOK
<1>2. CASE BorrowFails \/ RollbackNext
    BY <1>1, <1>2 DEF BorrowFails, RollbackNext, ShortInv, Task
<1>3. CASE task'.at \notin {"borrow", "rollback", "hold"}
    BY <1>3 DEF ShortInv
<1>4. CASE UNCHANGED vars
    <2>1. \A o, s : Shortfall(o, s)' = Shortfall(o, s)
        <3>1. \A o : SameWants(o, o)
            BY DEF SameWants
        <3>2. UNCHANGED <<account, lastBar>>
            BY <1>4 DEF vars
        <3>. QED
            BY <3>1, <3>2, SameShortfalls
    <2>2. UNCHANGED <<orders, task>>
        BY <1>4 DEF vars, managers
    <2>. QED
        BY <2>1, <2>2 DEF BorrowInv, ShortInv
<1>. QED
    BY <1>1, <1>2, <1>3, <1>4, OnlyAddOrderBorrows, AddOrderShort, BorrowNextShort

LEMMA BorrowInit == Init => BorrowInv
BY InitInv, InitSolvent DEF BorrowInv, ShortInv, Init, OrdersInit, Idle

LEMMA EnoughToHold == BorrowInv => LoansSuffice
<1>. SUFFICES ASSUME BorrowInv, task.at = "hold", orders[task.order].loans # {}
              PROVE  CanUpdate(Zero, RequiredBalances(orders[task.order]), Zero)
    BY DEF LoansSuffice
<1>. DEFINE o == orders[task.order]
            required == RequiredBalances(o)
<1>1. /\ TypeOK /\ o \in OrderRecord
      /\ balances \in [Symbols -> Int] /\ holds \in [Symbols -> Int]
      /\ borrowed \in [Symbols -> Int]
    BY TheTasksOrder DEF BorrowInv, IInv, TypeInv, TypeOK, AccountTypeOK
<1>2. required \in [Symbols -> Int] /\ \A s \in Symbols : required[s] >= 0
    BY <1>1, RequiredBalancesType
<1>3. \A s \in Symbols : required[s] - (balances[s] - holds[s]) <= 0
    BY DEF BorrowInv, ShortInv, Shortfall, Available
<1>4. \A s \in Symbols : balances[s] >= 0 /\ holds[s] >= 0 /\ borrowed[s] >= 0
    BY DEF BorrowInv, Solvent, NonZero
<1>. HIDE DEF required
<1>5. \A s \in Symbols : /\ Plus(balances, Zero)[s] = balances[s]
                         /\ Plus(holds, required)[s] = holds[s] + required[s]
                         /\ Plus(borrowed, Zero)[s] = borrowed[s]
    BY <1>1, <1>2 DEF Plus, Zero, ZeroMap
<1>6. \A s \in Symbols : holds[s] + required[s] >= 0 /\ holds[s] + required[s] <= balances[s]
    BY <1>1, <1>2, <1>3, <1>4
<1>7. CanUpdate(Zero, required, Zero)
    BY <1>4, <1>5, <1>6 DEF CanUpdate, NonZero, ValidHold
<1>. QED
    BY <1>7 DEF required

\* An order that needs loans is accepted once all of them were granted: the hold, which no code
\* path would undo the loans for, cannot fail.
THEOREM LoansAlwaysSuffice == Spec => []LoansSuffice
BY BorrowInit, BorrowStep, EnoughToHold, PTL DEF Spec
-----------------------------------------------------------------------------
(***************************************************************************)
(* Refusals.  create_loan commits a loan before it builds the info it      *)
(* returns, and a loan whose info cannot be built is never undone.  The    *)
(* settings below rule that out: the interest symbol has a precision, and  *)
(* no price is needed for the interest of a new loan, or it is the price   *)
(* the margin level has just been computed with.                           *)
(***************************************************************************)

NewInfosBuild ==
    /\ InterestSymbol \in Configured
    /\ \/ InterestSymbol = Quote
       \/ InterestPeriod > 0
       \/ InterestPct = 0
       \/ Lendable \subseteq {InterestSymbol}

LEMMA InfosBuild ==
    ASSUME TypeOK, Solvent, NewInfosBuild, NEW s \in Symbols, NEW amount \in Int,
           CanCreateLoan(s, amount)
    PROVE  ~InfoFails(NewLoan(s, amount))
<1>. DEFINE loan == NewLoan(s, amount)
            delta == Single(Symbols, s, amount)
<1>1. /\ loan.symbol = s /\ loan.amount = amount /\ loan.createdAt = now
      /\ now \in Int /\ InterestPct \in Int /\ InterestPeriod \in Int
      /\ balances \in [Symbols -> Int]
    BY LoansAssumption DEF NewLoan, TypeOK, AccountTypeOK
<1>2. s \in Lendable /\ amount > 0 /\ HasWorth(Plus(balances, delta))
    BY DEF CanCreateLoan, MarginAllows
<1>3. CASE InterestPeriod > 0
    <2>1. InterestNum(loan) = amount * InterestPct * (now - now)
        BY <1>1, <1>3 DEF InterestNum
    <2>2. amount * InterestPct \in Int /\ now - now = 0
        BY <1>1
    <2>3. InterestNum(loan) = 0
        BY <2>1, <2>2
    <2>. QED
        BY <2>3 DEF InfoFails, NewInfosBuild
<1>4. CASE InterestPct = 0 /\ ~(InterestPeriod > 0)
    <2>1. InterestPeriod = 0
        BY <1>4, LoansAssumption
    <2>2. InterestNum(loan) = amount * 0 * 1
        BY <1>1, <1>4, <2>1 DEF InterestNum
    <2>3. InterestNum(loan) = 0
        BY <2>2
    <2>. QED
        BY <2>3 DEF InfoFails, NewInfosBuild
<1>5. CASE Lendable \subseteq {InterestSymbol}
    BY <1>1, <1>2, <1>5 DEF InfoFails, NewInfosBuild, Convertible
<1>6. CASE InterestSymbol = Quote
    <2>1. CASE s = Quote
        BY <1>1, <1>6, <2>1 DEF InfoFails, NewInfosBuild, Convertible
    <2>2. CASE s \in Bases
        <3>1. balances[s] >= 0 /\ balances[s] \in Int
            BY <1>1 DEF Solvent, NonZero
        <3>2. Plus(balances, delta)[s] = balances[s] + amount
            BY <1>1 DEF Plus, Single
        <3>3. HasPrice(s)
            BY <1>2, <2>2, <3>1, <3>2 DEF HasWorth
        <3>. QED
            BY <1>1, <1>6, <3>3 DEF InfoFails, NewInfosBuild, Convertible
    <2>. QED
        BY <2>1, <2>2 DEF Bases
<1>. QED
    BY <1>3, <1>4, <1>5, <1>6 DEF NewInfosBuild

(***************************************************************************)
(* What a method that borrows, or rolls back, has changed since its        *)
(* Snapshot: nothing, or it holds the one loan that is not the last.       *)
(***************************************************************************)

NothingPending == task.loanIds = {} /\ Snapshot = task.before

LoanPending(l) ==
    LET delta == Single(Symbols, loans[l].symbol, loans[l].amount)
    IN  /\ IsOpenLoan(l)
        /\ task.loanIds = {l}
        /\ task.before.loans = OpenLoans \ {l}
        /\ balances = Plus(task.before.balances, delta)
        /\ borrowed = Plus(task.before.borrowed, delta)
        /\ holds = task.before.holds

TraceInv ==
    /\ task.at = "borrow" /\ task.loanIds # {} => task.short = {Quote}
    /\ task.at \in {"borrow", "rollback"} => NothingPending \/ \E l \in LoanIds : LoanPending(l)
    /\ task.at = "hold" /\ orders[task.order].loans = {} => NothingPending

LEMMA SamePending ==
    ASSUME UNCHANGED <<account, loans>>, task'.loanIds = task.loanIds, task'.before = task.before
    PROVE  /\ NothingPending => NothingPending'
           /\ (\E l \in LoanIds : LoanPending(l)) => (\E l \in LoanIds : LoanPending(l))'
<1>1. Snapshot' = Snapshot /\ LoanIds' = LoanIds /\ OpenLoans' = OpenLoans
    BY DEF Snapshot, account, OpenLoans, IsOpenLoan, LoanIds
<1>2. ASSUME NEW l, LoanPending(l)
      PROVE  LoanPending(l)'
    BY <1>1, <1>2 DEF LoanPending, account, IsOpenLoan, Single, Plus
<1>. QED
    BY <1>1, <1>2 DEF NothingPending

LEMMA AddOrderTrace ==
    ASSUME BorrowInv, RequestOrder
    PROVE  TraceInv'
<1>1. PICK req \in Requests : AddOrder(req)
    BY DEF RequestOrder
<1>2. /\ task'.at \in {"borrow", "hold"} /\ task'.loanIds = {} /\ task'.before = Snapshot
      /\ UNCHANGED <<account, loans>>
    BY <1>1 DEF AddOrder, Idle
<1>3. Snapshot' = Snapshot
    BY <1>2 DEF Snapshot, account, OpenLoans, IsOpenLoan, LoanIds
<1>. QED
    BY <1>2, <1>3 DEF TraceInv, NothingPending

\* A loan that was granted is the one pending.
LEMMA GrantPending ==
    ASSUME TypeOK, NothingPending, NEW s \in Symbols, NEW amount \in Int, CreateLoan(s, amount),
           task'.loanIds = {Len(loans) + 1}, task'.before = task.before
    PROVE  \E l \in LoanIds' : LoanPending(l)'
<1>1. PICK n : n = Len(loans) + 1
    OBVIOUS
<1>2. PICK loan \in LoanRecord : loan = NewLoan(s, amount)
    <2>1. NewLoan(s, amount) \in LoanRecord
        BY DEF TypeOK, NewLoan, LoanRecord
    <2>. QED
        BY <2>1
<1>3. loans \in Seq(LoanRecord) /\ Len(loans) \in Nat /\ loans' = Append(loans, loan)
    BY <1>2, LenProperties DEF TypeOK, CreateLoan
<1>4. /\ Len(loans') = n /\ loans'[n] = loan
      /\ \A k \in 1..Len(loans) : loans'[k] = loans[k]
    BY <1>1, <1>3, AppendProperties
<1>5. /\ loan.symbol = s /\ loan.amount = amount /\ loan.isOpen
    BY <1>2 DEF NewLoan
<1>6. LoanIds' = LoanIds \union {n} /\ n \notin LoanIds
    BY <1>1, <1>3, <1>4 DEF LoanIds
<1>7. OpenLoans' = OpenLoans \union {n} /\ n \notin OpenLoans
    BY <1>4, <1>5, <1>6 DEF OpenLoans, IsOpenLoan, LoanIds
<1>. DEFINE delta == Single(Symbols, s, amount)
<1>8. /\ balances' = Plus(balances, delta) /\ borrowed' = Plus(borrowed, delta)
      /\ holds' = Plus(holds, Zero)
    BY DEF CreateLoan, Update
<1>9. holds' = holds
    BY <1>8 DEF TypeOK, AccountTypeOK, Plus, Zero, ZeroMap
<1>10. /\ task.before.balances = balances /\ task.before.borrowed = borrowed
       /\ task.before.holds = holds /\ task.before.loans = OpenLoans
    BY DEF NothingPending, Snapshot
<1>11. LoanPending(n)'
    <2>1. Single(Symbols, loans[n].symbol, loans[n].amount)' = delta
        BY <1>4, <1>5 DEF Single
    <2>2. IsOpenLoan(n)'
        BY <1>4, <1>5, <1>6 DEF IsOpenLoan
    <2>. HIDE DEF delta
    <2>. QED
        BY <1>1, <1>7, <1>8, <1>9, <1>10, <2>1, <2>2 DEF LoanPending, Plus
<1>. QED
    BY <1>6, <1>11

LEMMA BorrowNextTrace ==
    ASSUME BorrowInv, TraceInv, NewInfosBuild, BorrowNext
    PROVE  TraceInv'
<1>. DEFINE id == task.order
            amount == Shortfall(orders[id], NextShort)
            ids == task.loanIds \union {Len(loans) + 1}
            o == [orders[id] EXCEPT !.loans = ids]
            rest == task.short \ {NextShort}
<1>1. /\ TypeInv /\ TypeOK /\ id \in OrderIds /\ orders[id] \in OrderRecord
      /\ orders[id].pair \in Bases /\ task \in Task /\ Solvent
    BY TheTasksOrder DEF BorrowNext, BorrowInv, IInv, TypeInv, TypeOK
<1>2. NextShort \in Symbols /\ amount \in Int
    BY <1>1, QuoteNotBase, RequiredBalancesType DEF NextShort
<1>3. CreateLoan(NextShort, amount) /\ task.at = "borrow"
    BY DEF BorrowNext
<1>4. ~InfoFails(NewLoan(NextShort, amount))
    BY <1>1, <1>2, <1>3, InfosBuild DEF CreateLoan
<1>5. /\ task'.at = (IF rest = {} THEN "hold" ELSE "borrow")
      /\ task'.short = rest /\ task'.loanIds = ids /\ task'.before = task.before
      /\ task'.order = id
      /\ rest = {} => orders' = [orders EXCEPT ![id] = o]
      /\ UNCHANGED holdsByOrder
    BY <1>1, <1>4 DEF BorrowNext, Task
<1>6. task.short \subseteq {orders[id].pair, Quote} /\ task.short # {}
    BY <1>3 DEF BorrowInv, ShortInv
<1>7. CASE rest = {}
    <2>1. ids \in SUBSET (Nat \ {0}) /\ ids # {}
        BY <1>1, LenProperties DEF Task, TypeOK
    <2>. HIDE DEF ids
    <2>2. o \in OrderRecord /\ o.loans # {}
        BY <1>1, <2>1 DEF OrderRecord
    <2>3. orders'[id] = o
        <3>1. /\ holdsByOrder[id] \in [Symbols -> Int]
              /\ orders' = [orders EXCEPT ![id] = o] /\ UNCHANGED holdsByOrder
            BY <1>1, <1>5, <1>7, OrderTypes
        <3>. HIDE DEF id, o
        <3>. QED
            BY <1>1, <2>2, <3>1, OrderAt
    <2>. QED
        BY <1>5, <1>7, <2>2, <2>3 DEF TraceInv
<1>8. CASE rest # {}
    <2>1. rest = {Quote} /\ task.short # {Quote}
        BY <1>6, <1>8 DEF NextShort
    <2>2. NothingPending
        BY <1>3, <2>1 DEF TraceInv, LoanPending
    <2>3. ids = {Len(loans) + 1}
        BY <2>2 DEF NothingPending
    <2>4. \E l \in LoanIds' : LoanPending(l)'
        <3>. HIDE DEF amount
        <3>. QED
            BY <1>1, <1>2, <1>3, <1>5, <2>2, <2>3, GrantPending
    <2>. QED
        BY <1>5, <1>8, <2>1, <2>4 DEF TraceInv
<1>. QED
    BY <1>7, <1>8

LEMMA RollbackNextTrace ==
    ASSUME BorrowInv, TraceInv, RollbackNext
    PROVE  TraceInv'
<1>1. /\ TypeOK /\ task \in Task /\ task.at = "rollback" /\ task.loanIds # {}
    BY DEF RollbackNext, BorrowInv, IInv, TypeInv, TypeOK
<1>2. PICK l \in LoanIds : LoanPending(l)
    BY <1>1 DEF TraceInv, NothingPending
<1>3. /\ task.loanIds = {l} /\ task.before.loans = OpenLoans \ {l}
      /\ holds = task.before.holds
    BY <1>2 DEF LoanPending
<1>4. Min(task.loanIds) = l
    <2>1. {l} \in SUBSET Nat
        BY DEF LoanIds
    <2>. QED
        BY <1>3, <2>1, MinIsLeast
<1>5. CancelLoan(l) /\ task'.loanIds = {} /\ task'.before = task.before /\ task'.at = "rollback"
    BY <1>1, <1>3, <1>4 DEF RollbackNext, Task
<1>. DEFINE delta == Single(Symbols, loans[l].symbol, loans[l].amount)
            back == Single(Symbols, loans[l].symbol, -loans[l].amount)
<1>6. loans[l].amount \in Int /\ loans[l].symbol \in Symbols /\ loans[l] \in LoanRecord
    BY <1>1, LoanTypes DEF LoanRecord
<1>7. /\ task.before.balances \in [Symbols -> Int] /\ task.before.borrowed \in [Symbols -> Int]
      /\ task.before.holds \in [Symbols -> Int]
      /\ task.before = [balances |-> task.before.balances, holds |-> task.before.holds,
                        borrowed |-> task.before.borrowed, loans |-> task.before.loans]
    BY <1>1 DEF Task
<1>8. /\ balances = Plus(task.before.balances, delta)
      /\ borrowed = Plus(task.before.borrowed, delta)
      /\ balances' = Plus(balances, back) /\ borrowed' = Plus(borrowed, back)
      /\ holds' = Plus(holds, Zero)
    BY <1>2, <1>5 DEF LoanPending, CancelLoan, Update
<1>9. \A f \in [Symbols -> Int] : Plus(Plus(f, delta), back) = f /\ Plus(f, Zero) = f
    BY <1>6 DEF Plus, Single, Zero, ZeroMap
<1>10. /\ balances' = task.before.balances /\ borrowed' = task.before.borrowed
       /\ holds' = task.before.holds
    <2>. HIDE DEF delta, back
    <2>. QED
        BY <1>3, <1>7, <1>8, <1>9
<1>11. OpenLoans' = OpenLoans \ {l}
    <2>1. loans \in Seq(LoanRecord) /\ l \in 1..Len(loans)
        BY <1>1 DEF TypeOK, LoanIds
    <2>. DEFINE closed == [loans[l] EXCEPT !.isOpen = FALSE]
    <2>2. closed \in LoanRecord /\ ~closed.isOpen
        BY <1>6 DEF LoanRecord
    <2>3. loans' = [loans EXCEPT ![l] = closed]
        BY <1>5 DEF CancelLoan
    <2>. HIDE DEF closed
    <2>4. /\ Len(loans') = Len(loans)
          /\ \A k \in 1..Len(loans) : loans'[k] = IF k = l THEN closed ELSE loans[k]
        BY <2>1, <2>2, <2>3, ExceptSeq
    <2>. QED
        BY <2>1, <2>2, <2>4 DEF OpenLoans, IsOpenLoan, LoanIds
<1>12. Snapshot' = task.before
    BY <1>3, <1>7, <1>10, <1>11 DEF Snapshot
<1>. QED
    BY <1>5, <1>12 DEF TraceInv, NothingPending

LEMMA TraceStep ==
    ASSUME NewInfosBuild
    PROVE  BorrowInv /\ TraceInv /\ [Next]_vars => TraceInv'
<1>. SUFFICES ASSUME BorrowInv, TraceInv, [Next]_vars PROVE TraceInv'
    OBVIOUS
<1>1. task \in Task /\ TypeInv
    BY DEF BorrowInv, IInv, TypeInv, TypeOK
<1>2. CASE BorrowFails
    <2>1. /\ UNCHANGED <<account, loans>> /\ task.at = "borrow" /\ task'.at = "rollback"
          /\ task'.loanIds = task.loanIds /\ task'.before = task.before
        BY <1>1, <1>2 DEF BorrowFails, Task
    <2>. QED
        BY <2>1, SamePending DEF TraceInv
<1>3. CASE task'.at \notin {"borrow", "rollback", "hold"}
    BY <1>3 DEF TraceInv
<1>4. CASE UNCHANGED vars
    <2>1. UNCHANGED <<account, loans>> /\ UNCHANGED <<orders, task>>
        BY <1>4 DEF vars, managers
    <2>. QED
        BY <2>1, SamePending DEF TraceInv
<1>. QED
    BY <1>1, <1>2, <1>3, <1>4, OnlyAddOrderBorrows, AddOrderTrace, BorrowNextTrace, RollbackNextTrace
-----------------------------------------------------------------------------
\* Only the end of a rollback, and a hold that fails, refuse an order.
LEMMA RefusedBy ==
    ASSUME IInv, [Next]_vars, NEW p \in OrderIds, Rejects(p)
    PROVE  Refuse \/ HoldFails
<1>1. TypeInv /\ TypeOK
    BY DEF IInv, TypeInv
<1>2. ASSUME UNCHANGED orders
      PROVE  FALSE
    BY <1>2 DEF Rejects
<1>3. ASSUME NEW id \in OrderIds, NEW o \in OrderRecord, orders' = [orders EXCEPT ![id] = o],
             o.status = orders[id].status \/ o.status \in {"OPEN", "COMPLETED", "CANCELED"}
      PROVE  FALSE
    <2>1. orders \in Seq(OrderRecord) /\ id \in 1..Len(orders) /\ p \in 1..Len(orders)
        BY <1>1 DEF TypeOK, OrderIds
    <2>2. orders'[p] = IF p = id THEN o ELSE orders[p]
        BY <1>3, <2>1, ExceptSeq
    <2>. QED
        BY <1>3, <2>2 DEF Rejects
<1>4. ASSUME RequestOrder
      PROVE  FALSE
    <2>1. PICK req \in Requests : AddOrder(req)
        BY <1>4 DEF RequestOrder
    <2>2. NewOrder(req) \in OrderRecord
        BY <1>1, ExchangeAssumption DEF NewOrder, OrderRecord, Request, Statuses, TypeOK
    <2>3. orders' = Append(orders, NewOrder(req))
        BY <2>1 DEF AddOrder
    <2>4. orders \in Seq(OrderRecord) /\ p \in 1..Len(orders)
        BY <1>1 DEF TypeOK, OrderIds
    <2>5. orders'[p] = orders[p]
        BY <2>2, <2>3, <2>4, AppendProperties
    <2>. QED
        BY <2>5 DEF Rejects
<1>5. ASSUME BorrowNext
      PROVE  FALSE
    <2>. DEFINE id == task.order
                ids == task.loanIds \union {Len(loans) + 1}
                o == [orders[id] EXCEPT !.loans = ids]
    <2>1. id \in OrderIds /\ orders[id] \in OrderRecord /\ task \in Task /\ Len(loans) \in Nat
        BY <1>1, <1>5, TheTasksOrder, LenProperties DEF BorrowNext, TypeOK
    <2>2. ids \in SUBSET (Nat \ {0})
        BY <2>1 DEF Task
    <2>3. UNCHANGED orders \/ orders' = [orders EXCEPT ![id] = o]
        BY <1>5 DEF BorrowNext
    <2>. HIDE DEF ids
    <2>4. o \in OrderRecord /\ o.status = orders[id].status
        BY <2>1, <2>2 DEF OrderRecord
    <2>. HIDE DEF o, id
    <2>. QED
        BY <1>2, <1>3, <2>1, <2>3, <2>4
<1>6. ASSUME HoldRequired
      PROVE  FALSE
    <2>. DEFINE id == task.order
                o == [orders[id] EXCEPT !.status = "OPEN"]
    <2>1. id \in OrderIds /\ orders[id] \in OrderRecord
        BY <1>1, <1>6, TheTasksOrder DEF HoldRequired
    <2>2. o \in OrderRecord /\ o.status = "OPEN"
        BY <2>1 DEF OrderRecord, Statuses
    <2>3. orders' = [orders EXCEPT ![id] = o]
        BY <1>6 DEF HoldRequired
    <2>. HIDE DEF o, id
    <2>. QED
        BY <1>3, <2>1, <2>2, <2>3
<1>7. ASSUME NEW slip \in Slips, ProcessFilled(slip)
      PROVE  FALSE
    <2>1. task.order \in OrderIds
        BY <1>1, <1>7, TheTasksOrder DEF ProcessFilled
    <2>2. PICK o \in OrderRecord : /\ orders' = [orders EXCEPT ![task.order] = o]
                                   /\ o.status \in {"OPEN", "COMPLETED"}
        BY <1>7, FillOutcome
    <2>. QED
        BY <1>3, <2>1, <2>2
<1>8. ASSUME NEW slip \in Slips, ProcessCanceled(slip) \/ ProcessUnfilled(slip)
      PROVE  FALSE
    <2>. DEFINE id == task.order
                tried == Tried(id, slip)
                o == [tried EXCEPT !.status = "CANCELED"]
    <2>1. /\ id \in OrderIds /\ tried \in OrderRecord
          /\ tried.status = orders[id].status
        BY <1>1, <1>8, TheTasksOrder, TriedType, TriedOrder DEF ProcessCanceled, ProcessUnfilled
    <2>2. o \in OrderRecord /\ o.status = "CANCELED"
        BY <2>1 DEF OrderRecord, Statuses
    <2>3. orders' = [orders EXCEPT ![id] = o] \/ orders' = [orders EXCEPT ![id] = tried]
        BY <1>8 DEF ProcessCanceled, ProcessUnfilled
    <2>. HIDE DEF o, id, tried
    <2>. QED
        BY <1>3, <2>1, <2>2, <2>3
<1>9. ASSUME NEW id \in OrderIds, CancelOrder(id)
      PROVE  FALSE
    <2>. DEFINE o == [orders[id] EXCEPT !.status = "CANCELED"]
    <2>1. o \in OrderRecord /\ o.status = "CANCELED"
        BY <1>1, OrderTypes DEF OrderRecord, Statuses
    <2>2. orders' = [orders EXCEPT ![id] = o]
        BY <1>9 DEF CancelOrder
    <2>. HIDE DEF o
    <2>. QED
        BY <1>3, <2>1, <2>2
<1>10. ASSUME RepayNext
       PROVE  FALSE
    <2>. DEFINE id == task.order
                l  == Biggest(task.loanIds)
                o  == [orders[id] EXCEPT !.loans = orders[id].loans \union {l}]
    <2>1. id \in OrderIds /\ orders[id] \in OrderRecord
        BY <1>1, <1>10, TheTasksOrder DEF RepayNext
    <2>2. l \in Nat \ {0}
        BY <1>10 DEF RepayNext, RepayLoan, IsOpenLoan, LoanIds
    <2>3. orders' = [orders EXCEPT ![id] = o]
        BY <1>10 DEF RepayNext
    <2>. HIDE DEF l
    <2>4. o \in OrderRecord /\ o.status = orders[id].status
        BY <2>1, <2>2 DEF OrderRecord
    <2>. HIDE DEF o, id
    <2>. QED
        BY <1>3, <2>1, <2>3, <2>4
<1>11. CASE \/ RequestLoan \/ RequestRepayment \/ NewBar \/ BorrowFails \/ RollbackNext
            \/ SkipRepayment \/ RepaymentDone \/ PushOrderUpdate \/ UNCHANGED vars
    BY <1>2, <1>11
       DEF RequestLoan, RequestRepayment, NewBar, BorrowFails, RollbackNext, SkipRepayment,
           RepaymentDone, PushOrderUpdate, managers, vars
<1>. QED
    BY <1>4, <1>5, <1>6, <1>7, <1>8, <1>9, <1>10, <1>11 DEF Next, MethodStep, RequestCancel, Rest

\* As long as the info of a new loan can be built, an order that is refused leaves the account and
\* the open loans as add_order found them, whichever of its loans was refused.
THEOREM RefusalsLeaveNoTrace ==
    ASSUME NewInfosBuild
    PROVE  Spec => RefusalLeavesNoTrace
<1>. DEFINE Untouched == \A o \in OrderIds : Rejects(o) => Snapshot' = task.before
<1>1. BorrowInv /\ TraceInv /\ [Next]_vars => [Untouched]_vars
    <2>. SUFFICES ASSUME BorrowInv, TraceInv, [Next]_vars, NEW o \in OrderIds, Rejects(o)
                  PROVE  Snapshot' = task.before
        OBVIOUS
    <2>1. Refuse \/ HoldFails
        BY RefusedBy DEF BorrowInv
    <2>2. Snapshot' = Snapshot
        BY <2>1 DEF Refuse, HoldFails, Snapshot, account, OpenLoans, IsOpenLoan, LoanIds
    <2>3. CASE Refuse
        BY <2>2, <2>3 DEF Refuse, TraceInv, NothingPending, LoanPending
    <2>4. CASE HoldFails
        <3>1. orders[task.order].loans = {}
            BY <2>4, EnoughToHold DEF HoldFails, LoansSuffice
        <3>. QED
            BY <2>2, <2>4, <3>1 DEF HoldFails, TraceInv, NothingPending
    <2>. QED
        BY <2>1, <2>3, <2>4
<1>2. Init => TraceInv
    BY DEF Init, OrdersInit, Idle, TraceInv
<1>. QED
    BY <1>1, <1>2, BorrowInit, BorrowStep, TraceStep, PTL DEF Spec, RefusalLeavesNoTrace
-----------------------------------------------------------------------------
(***************************************************************************)
(* Repayments.  Repaying a loan only takes from the account, so a loan the *)
(* account could not repay stays so while the others are repaid.  That     *)
(* takes loans of positive amounts and an interest that is never negative. *)
(***************************************************************************)

AmountsPositive == \A l \in LoanIds : loans[l].amount > 0

LEMMA InterestNotNegative ==
    ASSUME TypeOK, NEW loan \in LoanRecord, ~InfoFails(loan)
    PROVE  Interest(loan) \in Int /\ Interest(loan) >= 0
<1>1. PICK owed : Interest(loan) = Larger(owed, MinInterest)
    BY DEF Interest
<1>2. Interest(loan) \in Int /\ MinInterest \in Nat
    BY InterestType, LoansAssumption
<1>. QED
    BY <1>1, <1>2 DEF Larger

LEMMA RepaymentTakes ==
    ASSUME TypeOK, AmountsPositive, NEW l \in LoanIds, ~InfoFails(loans[l]), NEW s \in Symbols
    PROVE  /\ Repayment(loans[l])[s] \in Nat
           /\ Single(Symbols, loans[l].symbol, -loans[l].amount)[s] \in Int
           /\ Single(Symbols, loans[l].symbol, -loans[l].amount)[s] <= 0
<1>1. loans[l] \in LoanRecord /\ loans[l].amount \in Int /\ loans[l].amount > 0
    BY LoanTypes DEF LoanRecord, AmountsPositive
<1>2. Interest(loans[l]) \in Int /\ Interest(loans[l]) >= 0
    BY <1>1, InterestNotNegative
<1>. DEFINE amount == loans[l].amount
            interest == Interest(loans[l])
            symbol == loans[l].symbol
<1>3. /\ Single(Symbols, symbol, amount)[s] = IF s = symbol THEN amount ELSE 0
      /\ Single(Symbols, InterestSymbol, interest)[s] = IF s = InterestSymbol THEN interest ELSE 0
      /\ Single(Symbols, symbol, -amount)[s] = IF s = symbol THEN -amount ELSE 0
    BY DEF Single
<1>4. Repayment(loans[l])[s] = Single(Symbols, symbol, amount)[s]
                               + Single(Symbols, InterestSymbol, interest)[s]
    BY DEF Repayment, Plus, Single
<1>. HIDE DEF amount, interest, symbol
<1>5. amount \in Int /\ amount > 0 /\ interest \in Int /\ interest >= 0
    BY <1>1, <1>2 DEF amount, interest
<1>6. Repayment(loans[l])[s] \in Nat
    BY <1>3, <1>4, <1>5
<1>7. Single(Symbols, symbol, -amount)[s] \in Int /\ Single(Symbols, symbol, -amount)[s] <= 0
    BY <1>3, <1>5
<1>. QED
    BY <1>6, <1>7 DEF symbol, amount

\* An update accepted by an account that owns and owes no more would have been accepted.
LEMMA PoorerAccount ==
    ASSUME TypeOK, TypeOK', NEW dBal \in [Symbols -> Int], NEW dBor \in [Symbols -> Int],
           \A s \in Symbols : /\ balances'[s] <= balances[s] /\ borrowed'[s] <= borrowed[s]
                              /\ holds'[s] = holds[s],
           CanUpdate(dBal, Zero, dBor)'
    PROVE  CanUpdate(dBal, Zero, dBor)
<1>1. /\ balances \in [Symbols -> Int] /\ holds \in [Symbols -> Int] /\ borrowed \in [Symbols -> Int]
      /\ balances' \in [Symbols -> Int] /\ holds' \in [Symbols -> Int]
      /\ borrowed' \in [Symbols -> Int]
    BY DEF TypeOK, AccountTypeOK
<1>2. \A s \in Symbols : /\ balances'[s] + dBal[s] >= 0 /\ borrowed'[s] + dBor[s] >= 0
                         /\ holds'[s] + 0 >= 0 /\ holds'[s] + 0 <= balances'[s] + dBal[s]
    BY <1>1 DEF CanUpdate, NonZero, ValidHold, Plus, Zero, ZeroMap
<1>3. \A s \in Symbols : /\ balances[s] + dBal[s] >= 0 /\ borrowed[s] + dBor[s] >= 0
                         /\ holds[s] + 0 >= 0 /\ holds[s] + 0 <= balances[s] + dBal[s]
    BY <1>1, <1>2
<1>. QED
    BY <1>1, <1>3 DEF CanUpdate, NonZero, ValidHold, Plus, Zero, ZeroMap

LEMMA StillUnaffordable ==
    ASSUME TypeOK, TypeOK', AmountsPositive, NEW l, RepayLoan(l),
           NEW k \in LoanIds, k # l, ~CanRepayLoan(k),
           UNCHANGED <<now, lastBar>>
    PROVE  ~CanRepayLoan(k)'
<1>1. /\ l \in LoanIds /\ ~InfoFails(loans[l])
      /\ Update(Negate(Repayment(loans[l])), Zero, Single(Symbols, loans[l].symbol, -loans[l].amount))
    BY DEF RepayLoan, CanRepayLoan, IsOpenLoan
<1>2. loans[l] \in LoanRecord /\ loans[k] \in LoanRecord
    BY <1>1, LoanTypes
<1>3. Interest(loans[l]) \in Int
    BY <1>1, <1>2, InterestType
<1>. DEFINE closed == [loans[l] EXCEPT !.isOpen = FALSE, !.interest = Interest(loans[l])]
<1>4. closed \in LoanRecord
    BY <1>2, <1>3 DEF LoanRecord
<1>5. loans' = [loans EXCEPT ![l] = closed]
    BY DEF RepayLoan
<1>. HIDE DEF closed
<1>6. loans'[k] = loans[k]
    BY <1>1, <1>4, <1>5, ExceptSeq DEF TypeOK, LoanIds
<1>7. /\ InfoFails(loans[k])' = InfoFails(loans[k])
      /\ Repayment(loans[k])' = Repayment(loans[k])
    BY <1>6
       DEF InfoFails, Repayment, InterestNum, InterestDen, Convertible, HasPrice, Interest, Convert,
           Plus, Single
<1>8. ASSUME ~InfoFails(loans[k]), CanRepayLoan(k)'
      PROVE  FALSE
    <2>1. Repayment(loans[k]) \in [Symbols -> Int]
        BY <1>2, <1>8, InterestType
    <2>2. PICK dBal \in [Symbols -> Int] : dBal = Negate(Repayment(loans[k]))
        BY <2>1, MapArithmetic
    <2>3. loans[k].symbol \in Symbols /\ -loans[k].amount \in Int
        BY <1>2 DEF LoanRecord
    <2>4. PICK dBor \in [Symbols -> Int] : dBor = Single(Symbols, loans[k].symbol, -loans[k].amount)
        BY <2>3, SingleType
    <2>5. CanUpdate(dBal, Zero, dBor)'
        <3>1. Negate(Repayment(loans[k]))' = dBal
            BY <1>7, <2>2 DEF Negate
        <3>2. Single(Symbols, loans[k].symbol, -loans[k].amount)' = dBor
            BY <1>6, <2>4 DEF Single
        <3>3. CanUpdate(Negate(Repayment(loans[k])), Zero,
                        Single(Symbols, loans[k].symbol, -loans[k].amount))'
            BY <1>8 DEF CanRepayLoan
        <3>. QED
            BY <3>1, <3>2, <3>3
    <2>6. ASSUME NEW s \in Symbols
          PROVE  /\ balances'[s] <= balances[s] /\ borrowed'[s] <= borrowed[s]
                 /\ holds'[s] = holds[s]
        <3>1. /\ balances'[s] = balances[s] + Negate(Repayment(loans[l]))[s]
              /\ holds'[s] = holds[s] + 0
              /\ borrowed'[s] = borrowed[s]
                                + Single(Symbols, loans[l].symbol, -loans[l].amount)[s]
              /\ balances[s] \in Int /\ holds[s] \in Int /\ borrowed[s] \in Int
            BY <1>1 DEF Update, Plus, Zero, ZeroMap, TypeOK, AccountTypeOK
        <3>2. Negate(Repayment(loans[l]))[s] = -Repayment(loans[l])[s]
            BY <1>1, <1>2, InterestType DEF Negate
        <3>3. /\ Repayment(loans[l])[s] \in Nat
              /\ Single(Symbols, loans[l].symbol, -loans[l].amount)[s] \in Int
              /\ Single(Symbols, loans[l].symbol, -loans[l].amount)[s] <= 0
            BY <1>1, RepaymentTakes
        <3>. QED
            BY <3>1, <3>2, <3>3
    <2>7. CanUpdate(dBal, Zero, dBor)
        BY <2>5, <2>6, PoorerAccount
    <2>. QED
        BY <1>8, <2>2, <2>4, <2>7 DEF CanRepayLoan
<1>. QED
    BY <1>7, <1>8 DEF CanRepayLoan

LEMMA PositiveStep == TypeInv /\ AmountsPositive /\ [Next]_vars => AmountsPositive'
<1>. SUFFICES ASSUME TypeInv, AmountsPositive, [Next]_vars, NEW l \in LoanIds'
              PROVE  loans'[l].amount > 0
    BY DEF AmountsPositive
<1>1. \/ l \in LoanIds /\ loans'[l].symbol = loans[l].symbol /\ loans'[l].amount = loans[l].amount
      \/ \E s, amount : CanCreateLoan(s, amount) /\ loans'[l] = NewLoan(s, amount)
    BY LoanFate
<1>2. CASE l \in LoanIds /\ loans'[l].amount = loans[l].amount
    BY <1>2 DEF AmountsPositive
<1>3. ASSUME NEW s, NEW amount, CanCreateLoan(s, amount), loans'[l] = NewLoan(s, amount)
      PROVE  loans'[l].amount > 0
    <2>1. amount > 0 /\ NewLoan(s, amount).amount = amount
        BY <1>3 DEF CanCreateLoan, NewLoan
    <2>. QED
        BY <1>3, <2>1
<1>. QED
    BY <1>1, <1>2, <1>3
(***************************************************************************)
(* While auto_repay works through its list, the open loans it has passed   *)
(* are those the account cannot repay.                                     *)
(***************************************************************************)
RepayInv ==
    task.at = "repay" =>
        \A l \in OpenLoans \ task.loanIds :
            loans[l].symbol = CreditSymbol(orders[task.order]) => ~CanRepayLoan(l)

\* When an order is closed, every open loan of the symbol it credits is on the list.
LEMMA RepaymentList ==
    ASSUME TypeInv, NEW id \in OrderIds, NEW o, NEW t \in Task, t.order = id,
           orders' = [orders EXCEPT ![id] = o], UNCHANGED loans,
           task' = TaskAfterClosing(t, o)
    PROVE  RepayInv'
<1>. SUFFICES ASSUME task'.at = "repay" PROVE RepayInv'
    BY DEF RepayInv
<1>1. Idle.at = "idle" /\ [t EXCEPT !.at = "push"].at = "push"
    BY IdleType DEF Task
<1>2. task' = [t EXCEPT !.at = "repay",
                        !.loanIds = {l \in OpenLoans : loans[l].symbol = CreditSymbol(o)}]
    BY <1>1 DEF TaskAfterClosing
<1>3. task'.loanIds = {l \in OpenLoans : loans[l].symbol = CreditSymbol(o)} /\ task'.order = id
    BY <1>2 DEF Task
<1>4. CreditSymbol(orders'[task'.order]) = CreditSymbol(o)
    BY <1>3 DEF TypeInv, TypeOK, OrderIds
<1>5. OpenLoans' = OpenLoans
    BY DEF OpenLoans, IsOpenLoan, LoanIds
<1>6. \A l \in OpenLoans' \ task'.loanIds : loans'[l].symbol # CreditSymbol(orders[task.order])'
    BY <1>3, <1>4, <1>5 DEF CreditSymbol
<1>. QED
    BY <1>6 DEF RepayInv

LEMMA RepayNextKeeps ==
    ASSUME BorrowInv, TypeOK', AmountsPositive, RepayInv, RepayNext
    PROVE  RepayInv'
<1>1. PICK l : l = Biggest(task.loanIds)
    OBVIOUS
<1>2. /\ TypeInv /\ TypeOK /\ task \in Task /\ task.at = "repay"
      /\ task.order \in OrderIds /\ orders[task.order] \in OrderRecord
    BY TheTasksOrder DEF RepayNext, BorrowInv, IInv, TypeInv, TypeOK
<1>3. /\ RepayLoan(l) /\ UNCHANGED <<now, lastBar>>
      /\ task'.loanIds = task.loanIds \ {l} /\ task'.order = task.order
      /\ orders' = [orders EXCEPT ![task.order].loans = orders[task.order].loans \union {l}]
    BY <1>1, <1>2 DEF RepayNext, Task
<1>4. CreditSymbol(orders[task.order])' = CreditSymbol(orders[task.order])
    <2>. DEFINE o == [orders[task.order] EXCEPT !.loans = orders[task.order].loans \union {l}]
    <2>1. o.pair = orders[task.order].pair /\ o.operation = orders[task.order].operation
        BY <1>2 DEF OrderRecord
    <2>2. orders' = [orders EXCEPT ![task.order] = o]
        BY <1>3
    <2>. HIDE DEF o
    <2>3. orders'[task'.order] = o
        BY <1>2, <1>3, <2>2 DEF TypeOK, OrderIds
    <2>. QED
        BY <2>1, <2>3 DEF CreditSymbol
<1>5. l \in LoanIds /\ loans[l] \in LoanRecord
    BY <1>2, <1>3, LoanTypes DEF RepayLoan, IsOpenLoan
<1>6. /\ LoanIds' = LoanIds /\ OpenLoans' = OpenLoans \ {l}
      /\ \A k \in LoanIds : k # l => loans'[k] = loans[k]
    <2>. DEFINE closed == [loans[l] EXCEPT !.isOpen = FALSE, !.interest = Interest(loans[l])]
    <2>1. Interest(loans[l]) \in Int
        BY <1>2, <1>3, <1>5, InterestType DEF RepayLoan, CanRepayLoan
    <2>2. closed \in LoanRecord /\ ~closed.isOpen
        BY <1>5, <2>1 DEF LoanRecord
    <2>3. loans' = [loans EXCEPT ![l] = closed]
        BY <1>3 DEF RepayLoan
    <2>4. loans \in Seq(LoanRecord) /\ l \in 1..Len(loans)
        BY <1>2, <1>5 DEF TypeOK, LoanIds
    <2>. HIDE DEF closed
    <2>5. /\ Len(loans') = Len(loans)
          /\ \A k \in 1..Len(loans) : loans'[k] = IF k = l THEN closed ELSE loans[k]
        BY <2>2, <2>3, <2>4, ExceptSeq
    <2>. QED
        BY <1>5, <2>2, <2>5 DEF OpenLoans, IsOpenLoan, LoanIds
<1>7. ASSUME NEW k \in OpenLoans', k \notin task'.loanIds,
             loans'[k].symbol = CreditSymbol(orders[task.order])'
      PROVE  ~CanRepayLoan(k)'
    <2>1. k \in OpenLoans /\ k \in LoanIds /\ k # l /\ k \notin task.loanIds
        BY <1>3, <1>6, <1>7 DEF OpenLoans
    <2>2. ~CanRepayLoan(k)
        BY <1>2, <1>4, <1>6, <1>7, <2>1 DEF RepayInv
    <2>. QED
        BY <1>2, <1>3, <2>1, <2>2, StillUnaffordable
<1>. QED
    BY <1>7 DEF RepayInv

LEMMA SameAffordable ==
    ASSUME UNCHANGED <<account, now, lastBar, loans>>, NEW k
    PROVE  CanRepayLoan(k)' <=> CanRepayLoan(k)
<1>1. UNCHANGED <<balances, holds, borrowed>> /\ loans'[k] = loans[k]
    BY DEF account
<1>2. InfoFails(loans[k])' = InfoFails(loans[k])
    BY <1>1 DEF InfoFails, InterestNum, InterestDen, Convertible, HasPrice
<1>3. Repayment(loans[k])' = Repayment(loans[k])
    BY <1>1
       DEF Repayment, InterestNum, InterestDen, Convertible, HasPrice, Interest, Convert, Plus, Single
<1>4. PICK dBal, dBor : /\ dBal = Negate(Repayment(loans[k]))
                        /\ dBor = Single(Symbols, loans[k].symbol, -loans[k].amount)
    OBVIOUS
<1>5. /\ Negate(Repayment(loans[k]))' = dBal
      /\ Single(Symbols, loans[k].symbol, -loans[k].amount)' = dBor
    BY <1>1, <1>3, <1>4 DEF Negate, Single
<1>6. CanUpdate(dBal, Zero, dBor)' <=> CanUpdate(dBal, Zero, dBor)
    BY <1>1 DEF CanUpdate, NonZero, ValidHold, Plus, Zero, ZeroMap
<1>7. CanRepayLoan(k)' <=> ~InfoFails(loans[k]) /\ CanUpdate(dBal, Zero, dBor)'
    BY <1>2, <1>5 DEF CanRepayLoan
<1>. QED
    BY <1>4, <1>6, <1>7 DEF CanRepayLoan

LEMMA SkipRepaymentKeeps ==
    ASSUME TypeInv, RepayInv, SkipRepayment
    PROVE  RepayInv'
<1>1. PICK l : l = Biggest(task.loanIds)
    OBVIOUS
<1>2. /\ task.at = "repay" /\ ~CanRepayLoan(l)
      /\ task'.loanIds = task.loanIds \ {l} /\ task'.order = task.order
      /\ UNCHANGED <<account, now, lastBar, loans, orders>>
    BY <1>1 DEF SkipRepayment, TypeInv, TypeOK, Task
<1>3. \A k \in OpenLoans \ (task.loanIds \ {l}) :
          loans[k].symbol = CreditSymbol(orders[task.order]) => ~CanRepayLoan(k)
    BY <1>2 DEF RepayInv
<1>4. OpenLoans' = OpenLoans /\ CreditSymbol(orders[task.order])' = CreditSymbol(orders[task.order])
    BY <1>2 DEF OpenLoans, IsOpenLoan, LoanIds, CreditSymbol
<1>5. \A k : CanRepayLoan(k)' <=> CanRepayLoan(k)
    BY <1>2, SameAffordable
<1>. QED
    BY <1>2, <1>3, <1>4, <1>5 DEF RepayInv

LEMMA RepayStep ==
    BorrowInv /\ AmountsPositive /\ RepayInv /\ [Next]_vars => RepayInv'
<1>. SUFFICES ASSUME BorrowInv, AmountsPositive, RepayInv, [Next]_vars PROVE RepayInv'
    OBVIOUS
<1>1. /\ TypeInv /\ TypeOK /\ task \in Task /\ TypeOK'
    BY TypeStep DEF BorrowInv, IInv, TypeInv, TypeOK
<1>2. ASSUME task'.at # "repay"
      PROVE  RepayInv'
    BY <1>2 DEF RepayInv
<1>3. CASE \/ RequestOrder \/ RequestLoan \/ RequestRepayment \/ NewBar
    <2>1. PICK b, n : \/ task'.at \in {"borrow", "hold"}
                      \/ task = Idle /\ task' = task
                      \/ n \in Nat /\ task' = ProcessNextAfter(n, b)
        <3>1. CASE RequestOrder
            BY <3>1 DEF RequestOrder, AddOrder, Idle
        <3>2. CASE RequestLoan \/ RequestRepayment
            BY <3>2 DEF RequestLoan, RequestRepayment, managers
        <3>3. CASE NewBar
            BY <3>3, 0 \in Nat DEF NewBar, OnBarEvent
        <3>. QED
            BY <1>3, <3>1, <3>2, <3>3
    <2>. QED
        BY <1>1, <1>2, <2>1, IdleType, ProcessNextType
<1>4. CASE RequestCancel
    <2>1. PICK id \in OrderIds : CancelOrder(id)
        BY <1>4 DEF RequestCancel
    <2>. DEFINE t == [Idle EXCEPT !.order = id, !.caller = "cancel_order"]
                o == [orders[id] EXCEPT !.status = "CANCELED"]
    <2>2. orders[id] \in OrderRecord
        BY <1>1, OrderTypes
    <2>3. t \in Task /\ t.order = id
        <3>1. id \in Nat /\ Idle \in Task
            BY IdleType DEF OrderIds
        <3>. QED
            BY <3>1 DEF Task
    <2>4. TaskAfterClosing(t, orders[id]) = TaskAfterClosing(t, o)
        BY <2>2 DEF TaskAfterClosing, CreditSymbol, OrderRecord
    <2>5. orders' = [orders EXCEPT ![id] = o] /\ UNCHANGED loans /\ task' = TaskAfterClosing(t, o)
        BY <2>1, <2>4 DEF CancelOrder
    <2>. HIDE DEF t, o
    <2>. QED
        BY <1>1, <2>3, <2>5, RepaymentList
<1>5. CASE \E slip \in Slips : ProcessFilled(slip) \/ ProcessCanceled(slip)
    <2>1. PICK o : /\ orders' = [orders EXCEPT ![task.order] = o] /\ UNCHANGED loans
                   /\ \/ task' = TaskAfterClosing(task, o)
                      \/ task' = [task EXCEPT !.at = "push"]
        BY <1>5 DEF ProcessFilled, ProcessCanceled
    <2>2. task.order \in OrderIds
        BY <1>1, <1>5, TheTasksOrder DEF ProcessFilled, ProcessCanceled
    <2>3. [task EXCEPT !.at = "push"].at = "push"
        BY <1>1 DEF Task
    <2>. QED
        BY <1>1, <1>2, <2>1, <2>2, <2>3, RepaymentList
<1>6. CASE \/ BorrowNext \/ BorrowFails \/ RollbackNext \/ HoldRequired \/ RepaymentDone
    BY <1>1, <1>2, <1>6
       DEF BorrowNext, BorrowFails, RollbackNext, HoldRequired, RepaymentDone, Task
<1>7. CASE \/ Refuse \/ HoldFails \/ PushOrderUpdate \/ \E slip \in Slips : ProcessUnfilled(slip)
    <2>1. /\ task.at # "idle"
          /\ task' \in {Idle, NextTask, [task EXCEPT !.at = "push"]}
        BY <1>7 DEF Refuse, HoldFails, PushOrderUpdate, ProcessUnfilled
    <2>2. [task EXCEPT !.at = "push"].at = "push"
        BY <1>1 DEF Task
    <2>. QED
        BY <1>1, <1>2, <2>1, <2>2, IdleType, NextTaskType
<1>8. CASE RepayNext
    BY <1>1, <1>8, RepayNextKeeps
<1>9. CASE SkipRepayment
    BY <1>1, <1>9, SkipRepaymentKeeps
<1>10. CASE UNCHANGED vars
    <2>1. UNCHANGED <<account, now, lastBar, loans, orders, task>>
        BY <1>10 DEF vars, managers
    <2>2. OpenLoans' = OpenLoans /\ CreditSymbol(orders[task.order])' = CreditSymbol(orders[task.order])
        BY <2>1 DEF OpenLoans, IsOpenLoan, LoanIds, CreditSymbol
    <2>3. \A k : CanRepayLoan(k)' <=> CanRepayLoan(k)
        BY <2>1, SameAffordable
    <2>. QED
        BY <2>1, <2>2, <2>3 DEF RepayInv
<1>. QED
    BY <1>3, <1>4, <1>5, <1>6, <1>7, <1>8, <1>9, <1>10 DEF Next, MethodStep, Rest

\* When auto_repay is done, no open loan of the credited symbol could still be repaid: skipping
\* one the account cannot afford never leaves out one it can.
THEOREM AllThatCanBeIsRepaid == Spec => RepaysAllItCan
<1>. DEFINE Repaid == task.at = "repay" /\ task'.at = "push" =>
                          \A l \in OpenLoans :
                              loans[l].symbol = CreditSymbol(orders[task.order]) => ~CanRepayLoan(l)
<1>1. BorrowInv /\ RepayInv /\ [Next]_vars => [Repaid]_vars
    <2>. SUFFICES ASSUME BorrowInv, RepayInv, [Next]_vars, task.at = "repay", task'.at = "push"
                  PROVE  task.loanIds = {}
        BY DEF RepayInv
    <2>1. task \in Task /\ Idle.at = "idle"
        BY IdleType DEF BorrowInv, IInv, TypeInv, TypeOK
    <2>2. CASE RepayNext \/ SkipRepayment
        BY <2>1, <2>2 DEF RepayNext, SkipRepayment, Task
    <2>3. CASE RepaymentDone
        BY <2>3 DEF RepaymentDone
    <2>4. CASE \/ RequestOrder \/ RequestCancel \/ RequestLoan \/ RequestRepayment \/ NewBar
               \/ UNCHANGED vars
        BY <2>1, <2>4 DEF RequestOrder, AddOrder, RequestCancel, CancelOrder, RequestLoan,
                          RequestRepayment, NewBar, vars, managers
    <2>5. CASE \/ BorrowNext \/ BorrowFails \/ RollbackNext \/ Refuse \/ HoldRequired \/ HoldFails
               \/ PushOrderUpdate
               \/ \E slip \in Slips : \/ ProcessFilled(slip) \/ ProcessCanceled(slip)
                                      \/ ProcessUnfilled(slip)
        BY <2>5 DEF BorrowNext, BorrowFails, RollbackNext, Refuse, HoldRequired, HoldFails,
                    PushOrderUpdate, ProcessFilled, ProcessCanceled, ProcessUnfilled
    <2>. QED
        BY <2>2, <2>3, <2>4, <2>5 DEF Next, MethodStep, Rest
<1>2. Init => AmountsPositive /\ RepayInv
    <2>. SUFFICES ASSUME Init PROVE AmountsPositive /\ RepayInv
        OBVIOUS
    <2>1. LoanIds = {}
        BY EmptySeq DEF Init, LoansInit, LoanIds
    <2>. QED
        BY <2>1 DEF AmountsPositive, RepayInv, Init, OrdersInit, Idle
<1>3. BorrowInv /\ AmountsPositive /\ [Next]_vars => AmountsPositive'
    BY PositiveStep DEF BorrowInv, IInv
<1>. QED
    BY <1>1, <1>2, <1>3, BorrowInit, BorrowStep, RepayStep, PTL DEF Spec, RepaysAllItCan
=============================================================================
