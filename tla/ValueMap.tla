------------------------------ MODULE ValueMap ------------------------------
(***************************************************************************)
(* Maps from symbols to amounts (basana/backtesting/value_map.py).  The    *)
(* code's dictionaries read an absent key as zero and prune() removes the  *)
(* keys whose value is zero, so a ValueMap is a total function over the    *)
(* symbols in which zero means "absent".  Amounts are integers: the number *)
(* of smallest units of the symbol, whose precision the code keeps by      *)
(* rounding every amount it books.                                         *)
(***************************************************************************)
EXTENDS Integers

\* ValueMap(): no amount for any of the symbols in S.
ZeroMap(S) == [s \in S |-> 0]

\* {symbol: amount}
Single(S, symbol, amount) == [s \in S |-> IF s = symbol THEN amount ELSE 0]

\* __add__ / __iadd__, __sub__ / __isub__ and the unary minus the callers spell out.
Plus(f, g)  == [s \in DOMAIN f |-> f[s] + g[s]]
Minus(f, g) == [s \in DOMAIN f |-> f[s] - g[s]]
Negate(f)   == [s \in DOMAIN f |-> -f[s]]

\* The larger and the smaller of two amounts.
Larger(a, b)  == IF a >= b THEN a ELSE b
Smaller(a, b) == IF a <= b THEN a ELSE b

(***************************************************************************)
(* f[1] + ... + f[n], as a recursive function over the positions: orders   *)
(* and loans are numbered in the order they are created.                   *)
(***************************************************************************)
SumUpTo(f, n) ==
    LET sum[i \in 0..n] == IF i = 0 THEN 0 ELSE sum[i - 1] + f[i]
    IN  sum[n]
=============================================================================
