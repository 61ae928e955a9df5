-------------------------- MODULE AccountBalances ---------------------------
(***************************************************************************)
(* The account of the backtesting exchange                                 *)
(* (basana/backtesting/account_balances.py): what the account owns, what   *)
(* of that is on hold and what it owes, per symbol.  Every other part of   *)
(* the exchange changes the account through update() only, which applies a *)
(* change to the three maps as a whole or, when a rule rejects the outcome,*)
(* not at all.                                                             *)
(***************************************************************************)
EXTENDS ValueMap

CONSTANTS Symbols,          \* the currencies and assets of the account
          InitialBalances   \* the initial_balances argument; negative means owed

ASSUME BalancesAssumption == InitialBalances \in [Symbols -> Int]

VARIABLES balances, holds, borrowed

account == <<balances, holds, borrowed>>

Zero == ZeroMap(Symbols)

\* AccountBalances.__init__: a negative initial balance is a debt.
AccountInit ==
    /\ balances = [s \in Symbols |-> Larger(InitialBalances[s], 0)]
    /\ holds = Zero
    /\ borrowed = [s \in Symbols |-> Larger(-InitialBalances[s], 0)]

\* get_available_balance
Available(s) == balances[s] - holds[s]

\* class NonZero: no amount of the outcome is negative.
NonZero(bal, hold, bor) == \A s \in Symbols : bal[s] >= 0 /\ hold[s] >= 0 /\ bor[s] >= 0

\* class ValidHold: what is on hold is owned.
ValidHold(bal, hold) == \A s \in Symbols : hold[s] <= bal[s]

\* The rules accept the outcome of an update.
CanUpdate(dBal, dHold, dBor) ==
    /\ NonZero(Plus(balances, dBal), Plus(holds, dHold), Plus(borrowed, dBor))
    /\ ValidHold(Plus(balances, dBal), Plus(holds, dHold))

\* Mutation of Update: the holds are not committed.
UpdateButHolds(dBal, dHold, dBor) ==
    /\ CanUpdate(dBal, dHold, dBor)
    /\ balances' = Plus(balances, dBal)
    /\ borrowed' = Plus(borrowed, dBor)
    /\ UNCHANGED holds

\* update(): all three maps change together, after the rules accepted the outcome.
Update(dBal, dHold, dBor) ==
    /\ CanUpdate(dBal, dHold, dBor)
    /\ balances' = Plus(balances, dBal)
    /\ holds' = Plus(holds, dHold)
    /\ borrowed' = Plus(borrowed, dBor)

AccountTypeOK ==
    /\ balances \in [Symbols -> Int]
    /\ holds \in [Symbols -> Int]
    /\ borrowed \in [Symbols -> Int]
=============================================================================
