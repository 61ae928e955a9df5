---------------------------- MODULE LoanManager -----------------------------
(***************************************************************************)
(* Loans of the backtesting exchange: basana/backtesting/loan_mgr.py with  *)
(* the margin lending strategy of lending/margin.py, and the last prices   *)
(* both use (prices.py).                                                   *)
(*                                                                         *)
(* Every pair is quoted in Quote, so a pair is named by its base symbol,   *)
(* and margin levels are computed in Quote.  Neither lending strategy of   *)
(* the repository puts collateral on hold (calculate_collateral returns    *)
(* {}), so the collateral maps are empty and left out.                     *)
(***************************************************************************)
EXTENDS AccountBalances, Orders, Sequences, FiniteSetsExt

CONSTANTS Quote,              \* the quote symbol of every pair
          Lendable,           \* the symbols with lending conditions; {} is the NoLoans strategy
          InterestSymbol,     \* MarginLoanConditions of the lendable symbols
          InterestPct,
          InterestPeriod,     \* in bars; 0 charges the percentage once
          MinInterest,
          MarginRequirementPct,
          Configured          \* the symbols set_symbol_precision was called for

Bases == Symbols \ {Quote}

ASSUME LoansAssumption ==
    /\ Quote \in Symbols
    /\ Lendable \subseteq Symbols
    /\ InterestSymbol \in Symbols
    /\ InterestPct \in Nat /\ InterestPeriod \in Nat /\ MinInterest \in Nat
    /\ MarginRequirementPct \in Nat \ {0}
    /\ Configured \subseteq Symbols

VARIABLES now,       \* dispatcher.now(), in bars since the start; 0 before the first event
          lastBar,   \* Prices._last_bars: no bar yet, or the last one of each pair
          loans      \* LoanManager._loans in order of creation

NoBar == [open |-> 0, high |-> 0, low |-> 0, close |-> 0, volume |-> 0]
HasPrice(b) == lastBar[b] # NoBar

LoansInit ==
    /\ now = 0
    /\ lastBar = [b \in Bases |-> NoBar]
    /\ loans = << >>

LoanIds == 1..Len(loans)

\* _get_open_loan finds the loan.
IsOpenLoan(l) == l \in LoanIds /\ loans[l].isOpen
OpenLoans == {l \in LoanIds : IsOpenLoan(l)}
-----------------------------------------------------------------------------
\* MarginLoan.calculate_interest before the conversion, as numerator and denominator.
InterestNum(loan) ==
    loan.amount * InterestPct * (IF InterestPeriod = 0 THEN 1 ELSE now - loan.createdAt)
InterestDen == 100 * (IF InterestPeriod = 0 THEN 1 ELSE InterestPeriod)

\* Prices.convert finds a bar of the pair of the two symbols, in either direction.
Convertible(from, to) ==
    \/ from = to
    \/ to = Quote /\ HasPrice(from)
    \/ from = Quote /\ HasPrice(to)

\* Prices.convert of the fraction num/den, truncated to the precision of the target symbol.
Convert(num, den, from, to) ==
    IF from = to THEN num \div den
    ELSE IF to = Quote THEN (num * lastBar[from].close) \div (den * BaseScale)
    ELSE (num * BaseScale) \div (den * lastBar[to].close)

\* The interest of an open loan, truncated the way _build_loan_info and repay_loan do.
Interest(loan) ==
    Larger(IF InterestNum(loan) = 0 THEN 0
           ELSE Convert(InterestNum(loan), InterestDen, loan.symbol, InterestSymbol),
           MinInterest)

(***************************************************************************)
(* _build_loan_info of an open loan raises: no price converts the interest,*)
(* or the precision of the interest symbol is not configured.              *)
(***************************************************************************)
InfoFails(loan) ==
    \/ InterestNum(loan) # 0 /\ ~Convertible(loan.symbol, InterestSymbol)
    \/ InterestSymbol \notin Configured

\* get_loans(is_open=True) builds the info of every open loan.
GetLoansFails == \E l \in OpenLoans : InfoFails(loans[l])

\* The interest all open loans owe.
OutstandingInterest ==
    MapThenSumSet(LAMBDA l : Interest(loans[l]), OpenLoans)
-----------------------------------------------------------------------------
\* An amount in Quote, times BaseScale to stay integral.
Worth(s, amount) == IF s = Quote THEN amount * BaseScale ELSE amount * lastBar[s].close

WorthOf(map) == MapThenSumSet(LAMBDA s : Worth(s, map[s]), Symbols)

\* convert_value_map raises when an amount has no price.
HasWorth(map) == \A s \in Bases : map[s] # 0 => HasPrice(s)

TotalPosition(bal) == WorthOf(bal) - Worth(InterestSymbol, OutstandingInterest)
Equity(bal, bor) == TotalPosition(bal) - WorthOf(bor)

(***************************************************************************)
(* calculate_margin_level for the outcome of a new loan returns a level of *)
(* at least 100: it raises when a price is missing and when the position   *)
(* is worth nothing, and dividing by a negative position turns the         *)
(* comparison around.                                                      *)
(***************************************************************************)
MarginAllows(bal, bor) ==
    LET position == TotalPosition(bal)
        needed   == position * MarginRequirementPct
        offered  == Equity(bal, bor) * 100
    IN  /\ ~GetLoansFails
        /\ HasWorth(bal) /\ HasWorth(bor)
        /\ HasWorth(Single(Symbols, InterestSymbol, OutstandingInterest))
        /\ \/ position > 0 /\ offered >= needed
           \/ position < 0 /\ offered <= needed
-----------------------------------------------------------------------------
NewLoan(s, amount) ==
    [symbol |-> s, amount |-> amount, createdAt |-> now, isOpen |-> TRUE, interest |-> 0]

\* create_loan commits the loan: the strategy lends the symbol and the rules accept the outcome.
CanCreateLoan(s, amount) ==
    LET delta == Single(Symbols, s, amount)
    IN  /\ now > 0
        /\ amount > 0
        /\ s \in Lendable
        /\ CanUpdate(delta, Zero, delta)
        /\ MarginAllows(Plus(balances, delta), Plus(borrowed, delta))

CreateLoan(s, amount) ==
    LET delta == Single(Symbols, s, amount)
    IN  /\ CanCreateLoan(s, amount)
        /\ Update(delta, Zero, delta)
        /\ loans' = Append(loans, NewLoan(s, amount))

\* Mutation of Repayment: the interest is recorded but not paid.
Principal(loan) == Single(Symbols, loan.symbol, loan.amount)

\* What repaying an open loan takes from the account: the principal and the interest.
Repayment(loan) ==
    Plus(Single(Symbols, loan.symbol, loan.amount),
         Single(Symbols, InterestSymbol, Interest(loan)))

CanRepayLoan(l) ==
    /\ ~InfoFails(loans[l])
    /\ CanUpdate(Negate(Repayment(loans[l])), Zero,
                 Single(Symbols, loans[l].symbol, -loans[l].amount))

\* repay_loan
RepayLoan(l) ==
    /\ IsOpenLoan(l)
    /\ CanRepayLoan(l)
    /\ Update(Negate(Repayment(loans[l])), Zero,
              Single(Symbols, loans[l].symbol, -loans[l].amount))
    /\ loans' = [loans EXCEPT ![l].isOpen = FALSE, ![l].interest = Interest(loans[l])]

\* Mutation of CancelLoan: the loan stays open.
ReturnLoan(l) ==
    LET delta == Single(Symbols, loans[l].symbol, -loans[l].amount)
    IN  IsOpenLoan(l) /\ Update(delta, Zero, delta) /\ UNCHANGED loans

\* cancel_loan: only a loan of the current instant, and no interest.
CancelLoan(l) ==
    LET delta == Single(Symbols, loans[l].symbol, -loans[l].amount)
    IN  /\ IsOpenLoan(l)
        /\ loans[l].createdAt = now
        /\ Update(delta, Zero, delta)
        /\ loans' = [loans EXCEPT ![l].isOpen = FALSE]
=============================================================================
