---------------------------- MODULE TradingProofs ----------------------------
(***************************************************************************)
(* The portfolio tracker and the trading ledger agree, no position can come *)
(* to be larger while the kill switch is on, and what the reports say adds *)
(* up, for any pairs, limits, signals, prices, times and bounds.                                             *)
(***************************************************************************)
EXTENDS Trading, Foundations, TLAPS, SequenceTheorems, FiniteSetTheorems

-----------------------------------------------------------------------------
(***************************************************************************)
(* Days.                                                                   *)
(***************************************************************************)

\* Time is divided into days in order (ledger.py: a day is the date of a time).
LEMMA DayInOrder ==
    ASSUME NEW s \in Nat, NEW t \in Nat, s <= t
    PROVE  Day(s) \in Nat /\ Day(s) <= Day(t)
<1>. DEFINE n == DayLength
            a == s \div n
            b == t \div n
<1>1. n \in Nat \ {0}
    BY LedgerAssumption
<1>2. a \in Int /\ n * a <= s /\ s < n * (a + 1)
    BY <1>1
<1>3. b \in Int /\ n * b <= t /\ t < n * (b + 1)
    BY <1>1
<1>. HIDE DEF a, b
<1>4. n * a < n * (b + 1)
    BY <1>1, <1>2, <1>3
<1>5. 0 < n * (a + 1)
    BY <1>1, <1>2
<1>. QED
    BY <1>1, <1>2, <1>3, <1>4, <1>5 DEF Day, a, b

LEMMA DayOfTime ==
    ASSUME NEW when \in Times
    PROVE  Day(when) \in Days /\ Day(when) \in Nat
BY DayInOrder, LedgerAssumption DEF Times, Days

LEMMA DaysAreInts == \A d \in Days : d \in Int
BY LedgerAssumption DEF Days
-----------------------------------------------------------------------------
(***************************************************************************)
(* One fill.                                                               *)
(***************************************************************************)

LEMMA AbsIsNat == ASSUME NEW n \in Int PROVE Abs(n) \in Nat /\ (Abs(n) = 0 <=> n = 0)
BY DEF Abs

LEMMA SameSide ==
    ASSUME NEW a \in Int, NEW b \in Int, a * b > 0
    PROVE  Abs(a + b) = Abs(a) + Abs(b) /\ a # 0 /\ b # 0 /\ a + b # 0
<1>1. (a > 0 /\ b > 0) \/ (a < 0 /\ b < 0)
    OBVIOUS
<1>. QED
    BY <1>1 DEF Abs

LEMMA OtherSide ==
    ASSUME NEW a \in Int \ {0}, NEW b \in Int \ {0}, ~(a * b > 0)
    PROVE  a * b < 0 /\ ((a > 0 /\ b < 0) \/ (a < 0 /\ b > 0))
OBVIOUS

\* A fill that adds to a position averages the price as the tracker does
\* (portfolio.py:116, ledger.py:96).
LEMMA AddingAgrees ==
    ASSUME NEW pos \in Position, NEW qty \in Int, NEW price \in Int, pos.qty * qty > 0
    PROVE  /\ Added(pos, qty, price) \in Position
           /\ Added(pos, qty, price).qty = pos.qty + qty
           /\ Added(pos, qty, price).qty # 0
           /\ Added(pos, qty, price).avg = NewAverage(pos.qty, pos.avg, qty, price)
           /\ Added(pos, qty, price).price = price
           /\ Realized(pos.qty, pos.avg, qty, price) = 0
<1>. DEFINE old == pos.qty
            avg == pos.avg
            parts == Abs(old) * avg + Abs(qty) * price
            new == parts \div Abs(old + qty)
<1>1. old \in Int /\ avg \in Int
    BY DEF Position
<1>2. Abs(old + qty) = Abs(old) + Abs(qty) /\ old # 0 /\ qty # 0 /\ old + qty # 0
    BY <1>1, SameSide
<1>3. Abs(old) \in Nat /\ Abs(qty) \in Nat /\ Abs(old + qty) \in Nat \ {0}
    BY <1>1, <1>2, AbsIsNat
<1>4. parts \in Int
    BY <1>1, <1>3
<1>5. new \in Int
    BY <1>3, <1>4
<1>6. NewAverage(old, avg, qty, price) = Weighted(old, avg, qty, price)
    BY <1>1, <1>2 DEF NewAverage
<1>7. Weighted(old, avg, qty, price) = new
    BY <1>2 DEF Weighted
<1>8. Added(pos, qty, price) = [pos EXCEPT !.qty = old + qty, !.avg = new, !.price = price]
    BY DEF Added
<1>9. Realized(old, avg, qty, price) = 0
    BY <1>1 DEF Realized
<1>. HIDE DEF new, parts
<1>10. Added(pos, qty, price) = [qty |-> old + qty, avg |-> new, price |-> price]
    BY <1>8 DEF Position
<1>11. old + qty \in Int
    BY <1>1
<1>12. Added(pos, qty, price) \in Position
    BY <1>5, <1>10, <1>11 DEF Position
<1>. QED
    BY <1>2, <1>6, <1>7, <1>9, <1>10, <1>12

\* A fill that reduces, closes or flips a position leaves what the tracker
\* has, and both realize the same profit (portfolio.py:96, ledger.py:101).
LEMMA ReducingAgrees ==
    ASSUME NEW pos \in Position, NEW qty \in Int, NEW price \in Int, pos.qty * qty < 0
    PROVE  /\ Remaining(pos, qty, price) \in Position
           /\ Remaining(pos, qty, price).qty = pos.qty + qty
           /\ Remaining(pos, qty, price).avg = NewAverage(pos.qty, pos.avg, qty, price)
           /\ pos.qty + qty # 0 => Remaining(pos, qty, price).price = price
           /\ pos.qty + qty = 0 => Remaining(pos, qty, price) = Closed
           /\ Pnl(pos, qty, price) = Realized(pos.qty, pos.avg, qty, price)
           /\ Pnl(pos, qty, price) \in Int
<1>. DEFINE old == pos.qty
            avg == pos.avg
<1>1. old \in Int /\ avg \in Int /\ pos.price \in Int /\ old # 0
    BY DEF Position
<1>2. Pnl(pos, qty, price) = Realized(old, avg, qty, price)
    BY <1>1 DEF Pnl, Realized, ClosedQty
<1>3. Smaller(Abs(qty), Abs(old)) \in Int
    BY <1>1, AbsIsNat DEF Smaller
<1>4. Pnl(pos, qty, price) \in Int
    BY <1>1, <1>3 DEF Pnl, ClosedQty
<1>5. CASE old + qty = 0
    <2>1. Remaining(pos, qty, price) = Closed
        BY <1>1, <1>5 DEF Remaining
    <2>2. NewAverage(old, avg, qty, price) = 0
        BY <1>1, <1>5 DEF NewAverage
    <2>. QED
        BY <1>1, <1>2, <1>4, <1>5, <2>1, <2>2 DEF Closed, Position
<1>6. CASE old + qty # 0 /\ old * (old + qty) < 0
    <2>1. Remaining(pos, qty, price) = OpenPosition(old + qty, price)
        BY <1>1, <1>6 DEF Remaining
    <2>2. NewAverage(old, avg, qty, price) = price
        BY <1>1, <1>6 DEF NewAverage
    <2>. QED
        BY <1>1, <1>2, <1>4, <1>6, <2>1, <2>2 DEF OpenPosition, Position
<1>7. CASE old + qty # 0 /\ ~(old * (old + qty) < 0)
    <2>1. Remaining(pos, qty, price) = [pos EXCEPT !.qty = @ + qty, !.price = price]
        BY <1>7 DEF Remaining
    <2>2. NewAverage(old, avg, qty, price) = avg
        BY <1>1, <1>7 DEF NewAverage
    <2>3. old + qty \in Int
        BY <1>1
    <2>4. Remaining(pos, qty, price) = [qty |-> old + qty, avg |-> avg, price |-> price]
        BY <2>1 DEF Position
    <2>. QED
        BY <1>1, <1>2, <1>4, <1>7, <2>2, <2>3, <2>4 DEF Position
<1>. QED
    BY <1>5, <1>6, <1>7
-----------------------------------------------------------------------------
(***************************************************************************)
(* The invariant.                                                          *)
(***************************************************************************)

\* The ledger has no profit for days that are ahead of the tracker's.
DaysPassed == \A d \in Days : d > portfolio.day => ledger.daily[d] = 0

\* The ledger forgets a position that was closed.
ClosedForgotten ==
    \A p \in Pairs : ledger.positions[p].qty = 0 => ledger.positions[p] = Closed

BooksInv == TypeOK /\ DaysPassed /\ ClosedForgotten /\ BooksAgree

LEMMA BooksInit == Init => BooksInv
<1>. SUFFICES ASSUME Init PROVE BooksInv
    OBVIOUS
<1>3. TypeOK
    <2>1. portfolio \in [qty : [Pairs -> Int], avg : [Pairs -> Int], price : [Pairs -> Int],
                         cash : Int, today : Int, total : Int, day : Days \cup {NoDay}]
        BY PortfolioAssumption DEF Init, NewPortfolio
    <2>2. /\ DOMAIN ledger = {"cash", "positions", "trades", "curve", "taken", "daily"}
          /\ ledger.cash \in Int
          /\ ledger.daily \in [Days -> Int]
        BY PortfolioAssumption DEF Init, NewLedger
    <2>3. Closed \in Position
        BY DEF Closed, Position
    <2>4. ledger.positions \in [Pairs -> Position]
        BY <2>3 DEF Init, NewLedger
    <2>5. approved \in Seq(Signals) /\ working \in [Pairs -> Int]
        BY DEF Init
    <2>6. fills \in Nat /\ paid \in Int /\ late \in Int
        BY DEF Init
    <2>7. mode \in Modes /\ killed \in BOOLEAN
        BY TradingAssumption DEF Init
    <2>. QED
        BY <2>1, <2>2, <2>4, <2>5, <2>6, <2>7 DEF TypeOK
<1>4. DaysPassed
    BY DEF Init, DaysPassed, NewLedger
<1>5. ClosedForgotten
    BY DEF Init, ClosedForgotten, NewLedger
<1>6. BooksAgree
    BY PortfolioAssumption
       DEF Init, BooksAgree, PositionsAgree, ProfitAgrees, NewPortfolio, NewLedger, Closed, NoDay
<1>. QED
    BY <1>3, <1>4, <1>5, <1>6 DEF BooksInv

\* A day that begins for the tracker has no profit in the ledger yet, and the
\* tracker, but for what was told late, agrees with it on the day it is reset for.
LEMMA DayBegins ==
    ASSUME BooksInv, NEW when \in Times
    PROVE  LET f == ResetDaily(portfolio, Day(when))
               still == IF Day(when) > portfolio.day THEN 0 ELSE late
           IN  /\ f = [portfolio EXCEPT !.day = f.day, !.today = f.today]
               /\ f.day \in Days /\ f.today \in Int /\ still \in Int
               /\ f.day >= Day(when) /\ f.day >= portfolio.day
               /\ f.today - still = ledger.daily[f.day]
               /\ Day(when) > portfolio.day => f.day = Day(when)
               /\ ~(Day(when) > portfolio.day) => f.day = portfolio.day
               /\ f.qty = portfolio.qty /\ f.avg = portfolio.avg /\ f.price = portfolio.price
               /\ f.cash = portfolio.cash /\ f.total = portfolio.total
<1>. DEFINE day == Day(when)
            f == ResetDaily(portfolio, day)
            still == IF day > portfolio.day THEN 0 ELSE late
<1>1. day \in Days /\ day \in Nat /\ late \in Int
    BY DayOfTime DEF BooksInv, TypeOK
<1>2. portfolio \in [qty : [Pairs -> Int], avg : [Pairs -> Int], price : [Pairs -> Int],
                     cash : Int, today : Int, total : Int, day : Days \cup {NoDay}]
    BY DEF BooksInv, TypeOK
<1>3. portfolio.day \in Int
    BY <1>2, DaysAreInts DEF NoDay
<1>. HIDE DEF day
<1>4. CASE day > portfolio.day
    <2>1. ledger.daily[day] = 0
        BY <1>1, <1>4 DEF BooksInv, DaysPassed
    <2>2. f = [portfolio EXCEPT !.day = day, !.today = 0] /\ still = 0
        BY <1>4 DEF ResetDaily
    <2>. QED
        BY <1>1, <1>2, <1>3, <1>4, <2>1, <2>2 DEF day
<1>5. CASE ~(day > portfolio.day)
    <2>1. f = portfolio /\ still = late
        BY <1>5 DEF ResetDaily
    <2>2. portfolio.day # NoDay
        BY <1>1, <1>5 DEF NoDay
    <2>3. portfolio.today - late = ledger.daily[portfolio.day]
        BY <2>2 DEF BooksInv, BooksAgree, ProfitAgrees
    <2>4. portfolio.day \in Days /\ portfolio.day >= day /\ portfolio.today \in Int
        BY <1>1, <1>2, <1>3, <1>5, <2>2
    <2>5. portfolio = [portfolio EXCEPT !.day = portfolio.day, !.today = portfolio.today]
        BY <1>2
    <2>. HIDE DEF f, still
    <2>. QED
        BY <1>1, <1>3, <1>5, <2>1, <2>3, <2>4, <2>5 DEF day, f, still
<1>. QED
    BY <1>4, <1>5 DEF day

\* What a snapshot of the curve leaves alone (ledger.py:230).
LEMMA SnapshotKeepsBooks ==
    ASSUME NEW g, NEW when, DOMAIN g = {"cash", "positions", "trades", "curve", "taken", "daily"}
    PROVE  /\ DOMAIN MaybeSnapshot(g, when) = DOMAIN g
           /\ MaybeSnapshot(g, when).cash = g.cash
           /\ MaybeSnapshot(g, when).positions = g.positions
           /\ MaybeSnapshot(g, when).daily = g.daily
BY DEF MaybeSnapshot, TakeSnapshot

\* A fill of a pair, as each of the books records it.
LEMMA FillRecorded ==
    ASSUME BooksInv, NEW pair \in Pairs, NEW qty \in Int \ {0}, NEW price \in Int,
           NEW when \in Times,
           portfolio' = RecordFill(portfolio, pair, qty, price, Day(when)),
           ledger' = LedgerFill(ledger, pair, qty, price, when),
           Day(when) > portfolio.day => late' = 0,
           Day(when) = portfolio.day => late' = late,
           Day(when) < portfolio.day => late' = late + (ledger'.cash - ledger.cash),
           UNCHANGED <<mode, killed, approved>>,
           working' \in [Pairs -> Int], fills' \in Nat, paid' \in Int
    PROVE  BooksInv'
<1>. DEFINE day == Day(when)
            f == ResetDaily(portfolio, day)
            still == IF day > portfolio.day THEN 0 ELSE late
            pos == ledger.positions[pair]
            old == pos.qty
            realized == Realized(old, pos.avg, qty, price)
            average == NewAverage(old, pos.avg, qty, price)
<1>1. /\ f = [portfolio EXCEPT !.day = f.day, !.today = f.today]
      /\ f.day \in Days /\ f.today \in Int /\ still \in Int
      /\ f.day >= day /\ f.day >= portfolio.day
      /\ f.today - still = ledger.daily[f.day]
      /\ day > portfolio.day => f.day = day /\ still = 0
      /\ ~(day > portfolio.day) => f.day = portfolio.day /\ still = late
      /\ day \in Days /\ day \in Nat
      /\ f.qty = portfolio.qty /\ f.avg = portfolio.avg /\ f.price = portfolio.price
      /\ f.cash = portfolio.cash /\ f.total = portfolio.total
    BY DayBegins, DayOfTime
<1>2. portfolio \in [qty : [Pairs -> Int], avg : [Pairs -> Int], price : [Pairs -> Int],
                     cash : Int, today : Int, total : Int, day : Days \cup {NoDay}]
    BY DEF BooksInv, TypeOK
<1>3. /\ DOMAIN ledger = {"cash", "positions", "trades", "curve", "taken", "daily"}
      /\ ledger.cash \in Int /\ ledger.daily \in [Days -> Int]
      /\ ledger.positions \in [Pairs -> Position]
    BY DEF BooksInv, TypeOK
<1>4. pos \in Position /\ old \in Int /\ pos.avg \in Int
    BY <1>3 DEF Position
<1>5. portfolio.qty[pair] = old /\ portfolio.avg[pair] = pos.avg
    BY DEF BooksInv, BooksAgree, PositionsAgree
<1>6. old = 0 => pos = Closed
    BY DEF BooksInv, ClosedForgotten
\* What the ledger makes of the position, and the profit.
<1>7. PICK g :
        /\ ledger' = MaybeSnapshot(g, when)
        /\ DOMAIN g = DOMAIN ledger
        /\ \E new \in Position :
            /\ g.positions = [ledger.positions EXCEPT ![pair] = new]
            /\ new.qty = old + qty /\ new.avg = average
            /\ new.qty # 0 => new.price = price
            /\ new.qty = 0 => new = Closed
        /\ realized \in Int /\ average \in Int
        /\ g.cash = ledger.cash + realized
        /\ g.daily = [ledger.daily EXCEPT ![day] = @ + realized]
    <2>. HIDE DEF pos, day
    <2>1. CASE old = 0
        <3>. DEFINE new == OpenPosition(qty, price)
                    g == [ledger EXCEPT !.positions[pair] = new]
        <3>1. ledger' = MaybeSnapshot(g, when)
            BY <1>6, <2>1 DEF LedgerFill, pos
        <3>2. new \in Position /\ new.qty = qty /\ new.avg = price /\ new.price = price
            BY DEF OpenPosition, Position
        <3>3. average = price /\ realized = 0
            BY <2>1 DEF NewAverage, Realized
        <3>. HIDE DEF new
        <3>4. DOMAIN g = DOMAIN ledger /\ g.positions = [ledger.positions EXCEPT ![pair] = new]
            BY <1>3
        <3>5. g.cash = ledger.cash + realized
            BY <1>3, <3>3
        <3>6. g.daily = [ledger.daily EXCEPT ![day] = @ + realized]
            BY <1>1, <1>3, <3>3 DEF day
        <3>7. new.qty = old + qty /\ new.qty # 0
            BY <2>1, <3>2
        <3>. HIDE DEF g, average, realized
        <3>. QED
            BY <3>7, <3>1, <3>2, <3>3, <3>4, <3>5, <3>6
    <2>2. CASE old * qty > 0
        <3>. DEFINE new == Added(pos, qty, price)
                    g == [ledger EXCEPT !.positions[pair] = new]
        <3>1. pos # Closed
            BY <2>2 DEF Closed
        <3>2. ledger' = MaybeSnapshot(g, when)
            BY <2>2, <3>1 DEF LedgerFill, pos
        <3>3. /\ new \in Position /\ new.qty = old + qty /\ new.qty # 0
              /\ new.avg = average /\ new.price = price /\ realized = 0
            BY <1>4, <2>2, AddingAgrees
        <3>. HIDE DEF new
        <3>4. DOMAIN g = DOMAIN ledger /\ g.positions = [ledger.positions EXCEPT ![pair] = new]
            BY <1>3
        <3>5. g.cash = ledger.cash + realized
            BY <1>3, <3>3
        <3>6. g.daily = [ledger.daily EXCEPT ![day] = @ + realized]
            BY <1>1, <1>3, <3>3 DEF day
        <3>7. average \in Int
            BY <3>3 DEF Position
        <3>. HIDE DEF g, average, realized
        <3>. QED
            BY <3>2, <3>3, <3>4, <3>5, <3>6, <3>7
    <2>3. CASE old # 0 /\ ~(old * qty > 0)
        <3>. DEFINE new == Remaining(pos, qty, price)
                    pnl == Pnl(pos, qty, price)
                    g == [ledger EXCEPT !.positions[pair] = new,
                                        !.trades = Append(@, pnl),
                                        !.cash = @ + pnl,
                                        !.daily[day] = @ + pnl]
        <3>1. old * qty < 0 /\ pos # Closed
            BY <1>4, <2>3, OtherSide DEF Closed
        <3>2. ledger' = MaybeSnapshot(g, when)
            BY <2>3, <3>1 DEF LedgerFill, Reduce, pos, day
        <3>3. /\ new \in Position /\ new.qty = old + qty
              /\ new.avg = average /\ (new.qty # 0 => new.price = price)
              /\ (new.qty = 0 => new = Closed)
              /\ pnl = realized /\ pnl \in Int
            BY <1>4, <3>1, ReducingAgrees
        <3>. HIDE DEF new, pnl
        <3>4. DOMAIN g = DOMAIN ledger /\ g.positions = [ledger.positions EXCEPT ![pair] = new]
            BY <1>3
        <3>5. g.cash = ledger.cash + realized
            BY <1>3, <3>3
        <3>6. g.daily = [ledger.daily EXCEPT ![day] = @ + realized]
            BY <1>3, <3>3
        <3>7. average \in Int
            BY <3>3 DEF Position
        <3>. HIDE DEF g, average, realized
        <3>. QED
            BY <3>2, <3>3, <3>4, <3>5, <3>6, <3>7
    <2>. QED
        BY <2>1, <2>2, <2>3<1>8. PICK new \in Position :
        /\ g.positions = [ledger.positions EXCEPT ![pair] = new]
        /\ new.qty = old + qty /\ new.avg = average
        /\ new.qty # 0 => new.price = price
        /\ new.qty = 0 => new = Closed
    BY <1>7
<1>9. /\ DOMAIN ledger' = DOMAIN ledger
      /\ ledger'.positions = [ledger.positions EXCEPT ![pair] = new]
      /\ ledger'.cash = ledger.cash + realized
      /\ ledger'.daily = [ledger.daily EXCEPT ![day] = @ + realized]
    <2>1. DOMAIN g = {"cash", "positions", "trades", "curve", "taken", "daily"}
        BY <1>3, <1>7
    <2>2. /\ DOMAIN ledger' = DOMAIN g
          /\ ledger'.positions = g.positions /\ ledger'.cash = g.cash /\ ledger'.daily = g.daily
        BY <1>7, <2>1, SnapshotKeepsBooks
    <2>. HIDE DEF day, pos, old, realized, average
    <2>. QED
        BY <1>7, <1>8, <2>2
\* What the tracker makes of it.
<1>10. portfolio' = [f EXCEPT !.qty[pair] = old + qty, !.avg[pair] = average,
                              !.price[pair] = price, !.cash = @ + realized,
                              !.today = @ + realized, !.total = @ + realized]
    BY <1>5 DEF RecordFill
<1>. HIDE DEF day, f, still, pos, old, realized, average
<1>11. f \in [qty : [Pairs -> Int], avg : [Pairs -> Int], price : [Pairs -> Int],
               cash : Int, today : Int, total : Int, day : Days \cup {NoDay}]
    BY <1>1, <1>2
<1>12. /\ portfolio'.qty = [portfolio.qty EXCEPT ![pair] = old + qty]
       /\ portfolio'.avg = [portfolio.avg EXCEPT ![pair] = average]
       /\ portfolio'.price = [portfolio.price EXCEPT ![pair] = price]
       /\ portfolio'.cash = portfolio.cash + realized
       /\ portfolio'.today = f.today + realized
       /\ portfolio'.total = portfolio.total + realized
       /\ portfolio'.day = f.day
    <2>1. /\ portfolio'.qty = [f.qty EXCEPT ![pair] = old + qty]
          /\ portfolio'.avg = [f.avg EXCEPT ![pair] = average]
          /\ portfolio'.price = [f.price EXCEPT ![pair] = price]
        BY <1>10, <1>11
    <2>2. /\ portfolio'.cash = f.cash + realized
          /\ portfolio'.today = f.today + realized
          /\ portfolio'.total = f.total + realized
          /\ portfolio'.day = f.day
        BY <1>10, <1>11
    <2>. QED
        BY <1>1, <2>1, <2>2
<1>13. /\ portfolio' \in [qty : [Pairs -> Int], avg : [Pairs -> Int], price : [Pairs -> Int],
                           cash : Int, today : Int, total : Int, day : Days \cup {NoDay}]
    <2>1. old + qty \in Int /\ realized \in Int /\ average \in Int
        BY <1>4, <1>7
    <2>2. portfolio' \in [qty : [Pairs -> Int], avg : [Pairs -> Int], price : [Pairs -> Int],
                          cash : Int, today : Int, total : Int, day : Days \cup {NoDay}]
          <=> /\ portfolio'.qty \in [Pairs -> Int] /\ portfolio'.avg \in [Pairs -> Int]
              /\ portfolio'.price \in [Pairs -> Int] /\ portfolio'.cash \in Int
              /\ portfolio'.today \in Int /\ portfolio'.total \in Int
              /\ portfolio'.day \in Days \cup {NoDay}
        BY <1>10, <1>11
    <2>. QED
        BY <1>1, <1>2, <1>12, <2>1, <2>2
\* What is told late.
<1>15. /\ portfolio.day \in Int /\ f.day \in Int /\ late \in Int
       /\ late' = IF day < f.day THEN still + realized ELSE still
       /\ late' \in Int
    <2>1. portfolio.day \in Int /\ f.day \in Int /\ late \in Int
        <3>1. late \in Int
            BY DEF BooksInv, TypeOK
        <3>2. portfolio.day \in Int
            BY <1>2, DaysAreInts DEF NoDay
        <3>. QED
            BY <1>1, <3>1, <3>2, DaysAreInts
    <2>2. ledger'.cash - ledger.cash = realized
        BY <1>3, <1>7, <1>9
    <2>3. CASE day > portfolio.day
        <3>1. late' = 0 /\ still = 0 /\ f.day = day
            BY <1>1, <2>1, <2>3 DEF day
        <3>. QED
            BY <1>1, <2>1, <3>1
    <2>4. CASE day = portfolio.day
        <3>1. late' = late /\ still = late /\ f.day = day
            BY <1>1, <2>1, <2>4 DEF day
        <3>. QED
            BY <1>1, <2>1, <3>1
    <2>5. CASE day < portfolio.day
        <3>1. late' = late + realized /\ still = late /\ f.day = portfolio.day
            BY <1>1, <2>1, <2>2, <2>5 DEF day
        <3>. QED
            BY <1>1, <1>7, <2>1, <2>5, <3>1
    <2>. QED
        BY <1>1, <2>1, <2>3, <2>4, <2>5
<1>14. TypeOK'
    <2>1. ledger'.positions \in [Pairs -> Position]
        BY <1>3, <1>8, <1>9
    <2>2. ledger'.cash \in Int /\ ledger'.daily \in [Days -> Int]
        BY <1>1, <1>3, <1>7, <1>9
    <2>3. mode \in Modes /\ killed \in BOOLEAN /\ approved \in Seq(Signals)
        BY DEF BooksInv, TypeOK
    <2>. QED
        BY <1>3, <1>9, <1>13, <1>15, <2>1, <2>2, <2>3 DEF TypeOK
<1>16. DaysPassed'
    <2>1. \A d \in Days : d > f.day => ledger.daily[d] = 0 /\ d # day
        BY <1>1, <1>15, DaysAreInts DEF BooksInv, DaysPassed
    <2>2. \A d \in Days : d > f.day => ledger'.daily[d] = 0
        BY <1>1, <1>3, <1>9, <2>1
    <2>. QED
        BY <1>12, <2>2 DEF DaysPassed
<1>17. ClosedForgotten'
    BY <1>3, <1>8, <1>9 DEF BooksInv, ClosedForgotten
<1>18. PositionsAgree'
    BY <1>2, <1>3, <1>8, <1>9, <1>12 DEF BooksInv, BooksAgree, PositionsAgree
<1>19. ProfitAgrees'
    <2>1. portfolio'.today - late' = ledger'.daily[f.day]
        <3>1. \A now, then, won \in Int :
                (now + won) - (then + won) = now - then /\ (now + won) - then = (now - then) + won
            OBVIOUS
        <3>2. /\ f.today - still = ledger.daily[f.day] /\ f.today \in Int /\ still \in Int
              /\ realized \in Int /\ portfolio'.today = f.today + realized
            BY <1>1, <1>7, <1>12
        <3>3. CASE day < f.day
            <4>1. ledger'.daily[f.day] = ledger.daily[f.day] /\ late' = still + realized
                BY <1>1, <1>3, <1>9, <1>15, <3>3
            <4>. QED
                BY <3>1, <3>2, <4>1
        <3>4. CASE day = f.day
            <4>1. ledger'.daily[f.day] = ledger.daily[f.day] + realized /\ late' = still
                BY <1>1, <1>3, <1>9, <1>15, <3>4
            <4>. QED
                BY <3>1, <3>2, <4>1
        <3>. QED
            BY <1>1, <1>15, <3>3, <3>4
    <2>2. portfolio.cash = ledger.cash /\ portfolio.cash = InitialCash + portfolio.total
        BY DEF BooksInv, BooksAgree, ProfitAgrees
    <2>3. portfolio.total \in Int /\ realized \in Int
        BY <1>2, <1>7
    <2>. QED
        BY <1>1, <1>9, <1>12, <2>1, <2>2, <2>3, PortfolioAssumption DEF ProfitAgrees
<1>. QED
    BY <1>14, <1>16, <1>17, <1>18, <1>19 DEF BooksInv, BooksAgree
\* The tracker is asked for a snapshot (portfolio.py:59), whatever is approved.
LEMMA SnapshotTaken ==
    ASSUME BooksInv, NEW when \in Times, AsksSnapshot(when), approved' \in Seq(Signals),
           UNCHANGED <<steering, working>>
    PROVE  BooksInv' /\ portfolio'.qty = portfolio.qty
<1>1. /\ portfolio' = [portfolio EXCEPT !.day = portfolio'.day, !.today = portfolio'.today]
      /\ portfolio'.day \in Days /\ portfolio'.today \in Int /\ late' \in Int
      /\ portfolio'.day >= portfolio.day
      /\ portfolio'.today - late' = ledger.daily[portfolio'.day]
      /\ portfolio'.qty = portfolio.qty /\ portfolio'.avg = portfolio.avg
      /\ portfolio'.price = portfolio.price
      /\ portfolio'.cash = portfolio.cash /\ portfolio'.total = portfolio.total
      /\ UNCHANGED <<ledger, fills, paid>>
    BY DayBegins DEF AsksSnapshot
<1>2. portfolio \in [qty : [Pairs -> Int], avg : [Pairs -> Int], price : [Pairs -> Int],
                     cash : Int, today : Int, total : Int, day : Days \cup {NoDay}]
    BY DEF BooksInv, TypeOK
<1>3. portfolio' \in [qty : [Pairs -> Int], avg : [Pairs -> Int], price : [Pairs -> Int],
                      cash : Int, today : Int, total : Int, day : Days \cup {NoDay}]
    BY <1>1, <1>2
<1>4. TypeOK'
    BY <1>1, <1>3 DEF BooksInv, TypeOK, steering
<1>5. portfolio.day \in Int /\ portfolio'.day \in Int
    BY <1>1, <1>2, DaysAreInts DEF NoDay
<1>6. DaysPassed'
    BY <1>1, <1>5, DaysAreInts DEF BooksInv, DaysPassed
<1>7. ClosedForgotten' /\ PositionsAgree'
    BY <1>1 DEF BooksInv, ClosedForgotten, BooksAgree, PositionsAgree
<1>8. ProfitAgrees'
    BY <1>1 DEF BooksInv, BooksAgree, ProfitAgrees
<1>. QED
    BY <1>1, <1>4, <1>6, <1>7, <1>8 DEF BooksInv, BooksAgree

\* A price, which the ledger only marks open positions with (ledger.py:159).
LEMMA PriceRecorded ==
    ASSUME BooksInv, NEW pair \in Pairs, NEW close \in Int, NEW when,
           portfolio' = UpdatePrice(portfolio, pair, close),
           ledger' = LedgerPrice(ledger, pair, close, when),
           UNCHANGED <<steering, approved, working, fills, paid, late>>
    PROVE  BooksInv'
<1>. DEFINE marked == IF ledger.positions[pair] = Closed THEN ledger.positions
                      ELSE [ledger.positions EXCEPT ![pair].price = close]
<1>1. portfolio \in [qty : [Pairs -> Int], avg : [Pairs -> Int], price : [Pairs -> Int],
                     cash : Int, today : Int, total : Int, day : Days \cup {NoDay}]
    BY DEF BooksInv, TypeOK
<1>2. /\ DOMAIN ledger = {"cash", "positions", "trades", "curve", "taken", "daily"}
      /\ ledger.positions \in [Pairs -> Position]
    BY DEF BooksInv, TypeOK
<1>3. PICK g : /\ ledger' = MaybeSnapshot(g, when)
               /\ DOMAIN g = DOMAIN ledger
               /\ g.positions = marked /\ g.cash = ledger.cash /\ g.daily = ledger.daily
    <2>1. CASE ledger.positions[pair] = Closed
        BY <2>1 DEF LedgerPrice
    <2>2. CASE ledger.positions[pair] # Closed
        <3>. DEFINE g == [ledger EXCEPT !.positions[pair].price = close]
        <3>1. ledger' = MaybeSnapshot(g, when)
            BY <2>2 DEF LedgerPrice
        <3>2. DOMAIN g = DOMAIN ledger /\ g.cash = ledger.cash /\ g.daily = ledger.daily
            BY <1>2
        <3>3. g.positions = marked
            BY <1>2, <2>2
        <3>. HIDE DEF g, marked
        <3>. QED
            BY <3>1, <3>2, <3>3
    <2>. QED
        BY <2>1, <2>2
<1>4. /\ DOMAIN ledger' = DOMAIN ledger
      /\ ledger'.positions = marked /\ ledger'.cash = ledger.cash /\ ledger'.daily = ledger.daily
    BY <1>2, <1>3, SnapshotKeepsBooks
<1>5. /\ portfolio'.qty = portfolio.qty /\ portfolio'.avg = portfolio.avg
      /\ portfolio'.price = [portfolio.price EXCEPT ![pair] = close]
      /\ portfolio'.cash = portfolio.cash /\ portfolio'.today = portfolio.today
      /\ portfolio'.total = portfolio.total /\ portfolio'.day = portfolio.day
    BY <1>1 DEF UpdatePrice
<1>6. portfolio' \in [qty : [Pairs -> Int], avg : [Pairs -> Int], price : [Pairs -> Int],
                      cash : Int, today : Int, total : Int, day : Days \cup {NoDay}]
    BY <1>1 DEF UpdatePrice
<1>7. marked \in [Pairs -> Position]
    BY <1>2 DEF Position
<1>8. \A p \in Pairs : /\ marked[p].qty = ledger.positions[p].qty
                       /\ marked[p].avg = ledger.positions[p].avg
                       /\ p # pair => marked[p] = ledger.positions[p]
    BY <1>2 DEF Position
<1>9. marked[pair].price = close \/ (marked[pair] = Closed /\ ledger.positions[pair] = Closed)
    BY <1>2 DEF Position
<1>. HIDE DEF marked
<1>10. TypeOK'
    BY <1>4, <1>6, <1>7 DEF BooksInv, TypeOK, steering
<1>11. DaysPassed'
    BY <1>4, <1>5 DEF BooksInv, DaysPassed
<1>12. ClosedForgotten'
    <2>1. ledger.positions[pair].qty = 0 => marked[pair] = Closed
        BY <1>9, <1>2 DEF BooksInv, ClosedForgotten, marked
    <2>. QED
        BY <1>4, <1>8, <2>1 DEF BooksInv, ClosedForgotten
<1>13. PositionsAgree'
    BY <1>1, <1>4, <1>5, <1>8, <1>9 DEF BooksInv, BooksAgree, PositionsAgree, Closed
<1>14. ProfitAgrees'
    BY <1>4, <1>5 DEF BooksInv, BooksAgree, ProfitAgrees
<1>. QED
    BY <1>10, <1>11, <1>12, <1>13, <1>14 DEF BooksInv, BooksAgree

LEMMA BooksStep == BooksInv /\ [Next]_vars => BooksInv'
<1>. SUFFICES ASSUME BooksInv, [Next]_vars PROVE BooksInv'
    OBVIOUS
<1>. USE DEF steering, books
<1>1. CASE \E signal \in Signals : OnTradingSignal(signal)
    <2>1. PICK signal \in Signals : OnTradingSignal(signal)
        BY <1>1
    <2>2. PICK when \in Times :
            /\ AsksSnapshot(when)
            /\ approved' = IF Blocked(signal, Snapshot(ResetDaily(portfolio, Day(when))))
                           THEN approved ELSE Append(approved, signal)
        BY <2>1 DEF OnTradingSignal
    <2>3. approved' \in Seq(Signals)
        BY <2>2 DEF BooksInv, TypeOK
    <2>. QED
        BY <2>1, <2>2, <2>3, SnapshotTaken DEF OnTradingSignal
<1>2. CASE TakeSignal \/ \E p \in Pairs : StopLoss(p)
    <2>1. /\ approved \in Seq(Signals) /\ working \in [Pairs -> Int]
          /\ portfolio.qty \in [Pairs -> Int]
        BY DEF BooksInv, TypeOK
    <2>2. approved' \in Seq(Signals) /\ working' \in [Pairs -> Int]
        <3>1. CASE TakeSignal
            <4>1. approved' \in Seq(Signals) /\ Head(approved) \in Signals
                BY <2>1, <3>1 DEF TakeSignal
            <4>. QED
                BY <2>1, <3>1, <4>1, TradingAssumption DEF TakeSignal
        <3>2. CASE \E p \in Pairs : StopLoss(p)
            BY <2>1, <3>2 DEF StopLoss
        <3>. QED
            BY <1>2, <3>1, <3>2
    <2>3. UNCHANGED <<portfolio, ledger, fills, paid, late, mode, killed>>
        BY <1>2 DEF TakeSignal, StopLoss
    <2>4. TypeOK'
        BY <2>2, <2>3 DEF BooksInv, TypeOK
    <2>. QED
        BY <2>3, <2>4 DEF BooksInv, DaysPassed, ClosedForgotten, BooksAgree, PositionsAgree,
                          ProfitAgrees
<1>3. CASE \E p \in Pairs : RecordTheFill(p)
    <2>1. PICK pair \in Pairs : RecordTheFill(pair)
        BY <1>3
    <2>2. working \in [Pairs -> Int] /\ fills \in Nat /\ paid \in Int
        BY DEF BooksInv, TypeOK
    <2>3. PICK qty \in Part(working[pair]), price \in Prices[pair], when \in Times :
            /\ portfolio' = RecordFill(portfolio, pair, qty, price, Day(when))
            /\ ledger' = LedgerFill(ledger, pair, qty, price, when)
            /\ working' = [working EXCEPT ![pair] = @ - qty]
            /\ paid' = paid + qty * price
            /\ late' = CASE Day(when) > portfolio.day -> 0
                         [] Day(when) = portfolio.day -> late
                         [] Day(when) < portfolio.day -> late + (ledger'.cash - ledger.cash)
        BY <2>1 DEF RecordTheFill
    <2>4. qty \in Int \ {0}
        BY <2>2 DEF Part
    <2>5. price \in Int
        BY TradingAssumption
    <2>6. working' \in [Pairs -> Int] /\ fills' \in Nat /\ paid' \in Int
        BY <2>1, <2>2, <2>3, <2>4, <2>5 DEF RecordTheFill
    <2>7. UNCHANGED <<mode, killed, approved>>
        BY <2>1 DEF RecordTheFill
    <2>8. portfolio.day \in Int /\ Day(when) \in Int
        BY DayOfTime, DaysAreInts DEF BooksInv, TypeOK, NoDay
    <2>9. /\ Day(when) > portfolio.day => late' = 0
          /\ Day(when) = portfolio.day => late' = late
          /\ Day(when) < portfolio.day => late' = late + (ledger'.cash - ledger.cash)
        BY <2>3, <2>8
    <2>. QED
        BY <2>3, <2>4, <2>5, <2>6, <2>7, <2>9, FillRecorded
<1>4. CASE \E p \in Pairs : OnBarEvent(p)
    <2>1. PICK pair \in Pairs : OnBarEvent(pair)
        BY <1>4
    <2>2. PICK close \in Prices[pair], when \in Times :
            /\ portfolio' = UpdatePrice(portfolio, pair, close)
            /\ ledger' = LedgerPrice(ledger, pair, close, when)
        BY <2>1 DEF OnBarEvent
    <2>3. close \in Int
        BY TradingAssumption
    <2>4. UNCHANGED <<steering, approved, working, fills, paid, late>>
        BY <2>1 DEF OnBarEvent
    <2>. QED
        BY <2>2, <2>3, <2>4, PriceRecorded
<1>5. CASE Status
    <2>1. approved' \in Seq(Signals)
        BY <1>5 DEF Status, BooksInv, TypeOK
    <2>. QED
        BY <1>5, <2>1, SnapshotTaken DEF Status
<1>6. CASE \E button \in Buttons : Press(button)
    <2>1. PICK button \in Buttons : Press(button)
        BY <1>6
    <2>2. mode' \in Modes /\ killed' \in BOOLEAN
        BY <2>1 DEF Press, Buttons, BooksInv, TypeOK
    <2>3. UNCHANGED <<portfolio, ledger, fills, paid, late, approved, working>>
        BY <2>1 DEF Press
    <2>. QED
        BY <2>2, <2>3 DEF BooksInv, TypeOK, DaysPassed, ClosedForgotten, BooksAgree,
                          PositionsAgree, ProfitAgrees
<1>7. CASE UNCHANGED vars
    BY <1>7 DEF vars, BooksInv, TypeOK, DaysPassed, ClosedForgotten, BooksAgree,
                PositionsAgree, ProfitAgrees
<1>. QED
    BY <1>1, <1>2, <1>3, <1>4, <1>5, <1>6, <1>7 DEF Next
\* The quantity the tracker has after a fill.
LEMMA QtyFilled ==
    ASSUME BooksInv, NEW pair \in Pairs, NEW qty \in Int, NEW price \in Int, NEW day \in Int
    PROVE  RecordFill(portfolio, pair, qty, price, day).qty
             = [portfolio.qty EXCEPT ![pair] = @ + qty]
<1>1. portfolio \in [qty : [Pairs -> Int], avg : [Pairs -> Int], price : [Pairs -> Int],
                     cash : Int, today : Int, total : Int, day : Days \cup {NoDay}]
    BY DEF BooksInv, TypeOK
<1>. DEFINE f == ResetDaily(portfolio, day)
            old == portfolio.qty[pair]
            realized == Realized(old, portfolio.avg[pair], qty, price)
            average == NewAverage(old, portfolio.avg[pair], qty, price)
<1>2. f.qty = portfolio.qty /\ DOMAIN f = DOMAIN portfolio
    BY <1>1 DEF ResetDaily
<1>3. RecordFill(portfolio, pair, qty, price, day)
        = [f EXCEPT !.qty[pair] = old + qty, !.avg[pair] = average, !.price[pair] = price,
                    !.cash = @ + realized, !.today = @ + realized, !.total = @ + realized]
    BY DEF RecordFill
<1>. HIDE DEF f, realized, average
<1>4. DOMAIN f = {"qty", "avg", "price", "cash", "today", "total", "day"}
    BY <1>1, <1>2
<1>. QED
    BY <1>2, <1>3, <1>4

LEMMA BooksAlways == Spec => []BooksInv
<1>1. Init => BooksInv
    BY BooksInit
<1>2. BooksInv /\ [Next]_vars => BooksInv'
    BY BooksStep
<1>. QED
    BY <1>1, <1>2, PTL DEF Spec

-----------------------------------------------------------------------------
(***************************************************************************)
(* The books agree, and the kill switch halts.                             *)
(***************************************************************************)

\* The portfolio tracker and the trading ledger never tell apart positions,
\* entry prices, marks and cash, and tell the profit of the tracker's day apart
\* by what was told late and nothing else, whatever fills add to, reduce, close
\* or flip positions, dated in any order (portfolio.py:74, ledger.py:69).
THEOREM BooksNeverTellApart == Spec => []BooksAgree
<1>1. BooksInv => BooksAgree
    BY DEF BooksInv
<1>. QED
    BY <1>1, BooksAlways, PTL

\* The state of the risk manager, of the books and of the orders keeps its type.
THEOREM TradingTypeCorrect == Spec => []TypeOK
<1>1. BooksInv => TypeOK
    BY DEF BooksInv
<1>. QED
    BY <1>1, BooksAlways, PTL

\* While the kill switch is on, no position can come to be larger than it
\* already could (manager.py:121), for any limits and signals: not by what
\* strategies signal, nor by the orders under way, nor by the stop loss, which
\* the switch does not see.
THEOREM KillSwitchAlwaysHalts == Spec => KillSwitchHalts
<1>. DEFINE Within(p, q) == \E least, most \in Ahead(p) : least <= q /\ q <= most
            Narrows == killed /\ mode # "monitor" =>
                        \A p \in Pairs : \A q \in Ahead(p)' : Within(p, q)
<1>1. BooksInv /\ [Next]_vars => [Narrows]_vars
    <2>. SUFFICES ASSUME BooksInv, [Next]_vars, killed, mode # "monitor", NEW p \in Pairs,
                         NEW q \in Ahead(p)'
                  PROVE  Within(p, q)
        OBVIOUS
    <2>. USE DEF steering, books
    <2>1. /\ portfolio.qty \in [Pairs -> Int] /\ working \in [Pairs -> Int]
          /\ approved \in Seq(Signals)
        BY DEF BooksInv, TypeOK
    <2>2. /\ {0, portfolio.qty[p], portfolio.qty[p] + working[p]} \subseteq Ahead(p)
          /\ \A i \in DOMAIN approved : p \in DOMAIN approved[i] => approved[i][p] \in Ahead(p)
          /\ Ahead(p) \subseteq Int
        <3>1. \A i \in DOMAIN approved : p \in DOMAIN approved[i] => approved[i][p] \in Int
            BY <2>1, TradingAssumption
        <3>. QED
            BY <2>1, <3>1 DEF Ahead
    <2>3. q \in Ahead(p) => Within(p, q)
        BY <2>2
    <2>4. CASE q \in Ahead(p)
        BY <2>3, <2>4
    <2>5. CASE UNCHANGED <<working, approved>> /\ portfolio'.qty = portfolio.qty
        BY <2>3, <2>5 DEF Ahead
    <2>6. CASE \E signal \in Signals : OnTradingSignal(signal)
        <3>1. PICK signal \in Signals : OnTradingSignal(signal)
            BY <2>6
        <3>2. PICK when \in Times :
                /\ AsksSnapshot(when)
                /\ approved' = IF Blocked(signal, Snapshot(ResetDaily(portfolio, Day(when))))
                               THEN approved ELSE Append(approved, signal)
            BY <3>1 DEF OnTradingSignal
        <3>3. approved' = approved
            BY <3>2 DEF Blocked
        <3>4. portfolio'.qty = portfolio.qty
            BY <2>1, <3>1, <3>2, <3>3, SnapshotTaken DEF OnTradingSignal
        <3>. QED
            BY <2>5, <3>1, <3>3, <3>4 DEF OnTradingSignal
    <2>7. CASE TakeSignal
        <3>. DEFINE signal == Head(approved)
        <3>1. /\ approved # <<>> /\ signal = approved[1] /\ 1 \in DOMAIN approved
              /\ approved' = Tail(approved) /\ portfolio' = portfolio
            BY <2>1, <2>7 DEF TakeSignal
        <3>2. \A i \in DOMAIN approved' : i + 1 \in DOMAIN approved /\ approved'[i] = approved[i + 1]
            BY <2>1, <3>1
        <3>3. working'[p] = IF p \in DOMAIN signal THEN signal[p] - portfolio.qty[p]
                            ELSE working[p]
            BY <2>7 DEF TakeSignal
        <3>. HIDE DEF signal
        <3>4. p \in DOMAIN signal => signal[p] \in Ahead(p) /\ signal[p] \in Int
            BY <2>2, <3>1
        <3>5. portfolio.qty[p] + working'[p] \in Ahead(p)
            BY <2>1, <2>2, <3>3, <3>4
        <3>6. q \in Ahead(p)
            BY <2>2, <3>1, <3>2, <3>5 DEF Ahead
        <3>. QED
            BY <2>3, <3>6
    <2>8. CASE \E pair \in Pairs : StopLoss(pair)
        <3>1. PICK pair \in Pairs : StopLoss(pair)
            BY <2>8
        <3>2. /\ working' = [working EXCEPT ![pair] = -portfolio.qty[pair]]
              /\ approved' = approved /\ portfolio' = portfolio
            BY <3>1 DEF StopLoss
        <3>3. portfolio.qty[p] + working'[p] \in Ahead(p)
            BY <2>1, <2>2, <3>2
        <3>4. q \in Ahead(p)
            BY <2>2, <3>2, <3>3 DEF Ahead
        <3>. QED
            BY <2>3, <3>4
    <2>9. CASE \E pair \in Pairs : RecordTheFill(pair)
        <3>1. PICK pair \in Pairs : RecordTheFill(pair)
            BY <2>9
        <3>2. PICK qty \in Part(working[pair]), price \in Prices[pair], when \in Times :
                /\ portfolio' = RecordFill(portfolio, pair, qty, price, Day(when))
                /\ working' = [working EXCEPT ![pair] = @ - qty]
            BY <3>1 DEF RecordTheFill
        <3>3. approved' = approved
            BY <3>1 DEF RecordTheFill
        <3>4. portfolio'.qty = [portfolio.qty EXCEPT ![pair] = @ + qty]
            <4>1. qty \in Int /\ price \in Int /\ Day(when) \in Int
                BY <2>1, TradingAssumption, DayOfTime DEF Part
            <4>2. RecordFill(portfolio, pair, qty, price, Day(when)).qty
                    = [portfolio.qty EXCEPT ![pair] = @ + qty]
                BY <4>1, QtyFilled
            <4>. QED
                BY <3>2, <4>2
        <3>5. CASE pair # p
            <4>1. working'[p] = working[p] /\ portfolio'.qty[p] = portfolio.qty[p]
                BY <2>1, <3>2, <3>4, <3>5
            <4>. QED
                BY <2>3, <3>3, <4>1 DEF Ahead
        <3>6. CASE pair = p
            <4>1. /\ working'[p] = working[p] - qty /\ portfolio'.qty[p] = portfolio.qty[p] + qty
                  /\ qty \in Int /\ working[p] \in Int /\ portfolio.qty[p] \in Int
                  /\ (0 < qty /\ qty <= working[p]) \/ (working[p] <= qty /\ qty < 0)
                BY <2>1, <3>2, <3>4, <3>6 DEF Part
            <4>2. q \in Ahead(p) \/ q = portfolio.qty[p] + qty
                    \/ q = (portfolio.qty[p] + qty) + (working[p] - qty)
                BY <3>3, <4>1 DEF Ahead
            <4>3. (portfolio.qty[p] + qty) + (working[p] - qty) = portfolio.qty[p] + working[p]
                BY <4>1
            <4>4. Within(p, portfolio.qty[p] + qty)
                BY <2>2, <4>1
            <4>. QED
                BY <2>2, <2>3, <4>2, <4>3, <4>4
        <3>. QED
            BY <3>5, <3>6
    <2>10. CASE \E pair \in Pairs : OnBarEvent(pair)
        <3>1. PICK pair \in Pairs : OnBarEvent(pair)
            BY <2>10
        <3>2. PICK close \in Prices[pair] : portfolio' = UpdatePrice(portfolio, pair, close)
            BY <3>1 DEF OnBarEvent
        <3>3. portfolio'.qty = portfolio.qty
            BY <3>2 DEF BooksInv, TypeOK, UpdatePrice
        <3>. QED
            BY <2>5, <3>1, <3>3 DEF OnBarEvent
    <2>11. CASE Status
        <3>1. PICK now \in Times : AsksSnapshot(now)
            BY <2>11 DEF Status
        <3>2. UNCHANGED <<steering, approved, working>>
            BY <2>11 DEF Status
        <3>3. portfolio'.qty = portfolio.qty
            BY <2>1, <3>1, <3>2, SnapshotTaken
        <3>. QED
            BY <2>5, <3>2, <3>3
    <2>12. CASE \E button \in Buttons : Press(button)
        BY <2>5, <2>12 DEF Press
    <2>13. CASE UNCHANGED vars
        BY <2>5, <2>13 DEF vars
    <2>. QED
        BY <2>6, <2>7, <2>8, <2>9, <2>10, <2>11, <2>12, <2>13 DEF Next
<1>. QED
    BY <1>1, BooksAlways, PTL DEF Spec, KillSwitchHalts
-----------------------------------------------------------------------------
(***************************************************************************)
(* The sums that the books take, over pairs and over trades.               *)
(***************************************************************************)
Marked(pos) == (pos.price - pos.avg) * pos.qty
MarkOf(f, p) == (f.price[p] - f.avg[p]) * f.qty[p]

LEMMA MarkIsInt == ASSUME NEW pos \in Position PROVE Marked(pos) \in Int
BY DEF Marked, Position

LEMMA UnrealizedIsSum ==
    ASSUME NEW g, g.positions \in [Pairs -> Position]
    PROVE  /\ UnrealizedPnl(g) = SumFunctionOnSet([p \in Pairs |-> Marked(g.positions[p])], Pairs)
           /\ UnrealizedPnl(g) \in Int
<1>. DEFINE f == [p \in Pairs |-> Marked(g.positions[p])]
            Sums(h) == h = [T \in SUBSET Pairs |->
                              IF T = {} THEN 0
                              ELSE (g.positions[OneOf(T)].price - g.positions[OneOf(T)].avg)
                                      * g.positions[OneOf(T)].qty + h[T \ {OneOf(T)}]]
            chosen == CHOOSE h : Sums(h)
<1>1. \A T \in SUBSET Pairs : T # {} => OneOf(T) \in Pairs
    BY Zenon DEF OneOf
<1>2. \A p \in Pairs : f[p] \in Int
    BY MarkIsInt
<1>3. \A p \in Pairs :
        f[p] = (g.positions[p].price - g.positions[p].avg) * g.positions[p].qty
    BY DEF Marked
<1>. HIDE DEF f
<1>4. \A h : Takes(h, f, Pairs) <=> Sums(h)
    <2>1. \A T \in SUBSET Pairs : T # {} =>
            f[OneOf(T)] = (g.positions[OneOf(T)].price - g.positions[OneOf(T)].avg)
                                      * g.positions[OneOf(T)].qty
        BY <1>1, <1>3
    <2>. QED
        BY <2>1 DEF Takes
<1>5. \E h : Sums(h)
    BY <1>2, <1>4, SumTaken, PortfolioAssumption
<1>6. UnrealizedPnl(g) = chosen[Pairs]
    BY DEF UnrealizedPnl, MapThenSumSet, MapThenFoldSet, OneOf
<1>7. Sums(chosen)
    BY <1>5
<1>. HIDE DEF Sums, chosen
<1>8. chosen[Pairs] = SumFunctionOnSet(f, Pairs)
    BY <1>2, <1>4, <1>7, SumTaken, PortfolioAssumption
<1>9. SumFunctionOnSet(f, Pairs) \in Int
    BY <1>2, SumOverType, PortfolioAssumption
<1>. QED
    BY <1>6, <1>8, <1>9 DEF f

LEMMA GrossIsSum ==
    ASSUME NEW trades \in Seq(Int), NEW some \in SUBSET DOMAIN trades
    PROVE  Gross(trades, some) = Abs(SumFunctionOnSet(trades, some))
<1>. DEFINE Sums(h) == h = [T \in SUBSET some |->
                              IF T = {} THEN 0 ELSE trades[OneOf(T)] + h[T \ {OneOf(T)}]]
            chosen == CHOOSE h : Sums(h)
<1>1. IsFiniteSet(some) /\ \A i \in some : trades[i] \in Int
    <2>1. IsFiniteSet(1..Len(trades)) /\ DOMAIN trades = 1..Len(trades)
        BY FS_Interval
    <2>. QED
        BY <2>1, FS_Subset
<1>2. \A h : Takes(h, trades, some) <=> Sums(h)
    BY DEF Takes
<1>3. Gross(trades, some) = Abs(chosen[some])
    BY DEF Gross, MapThenSumSet, MapThenFoldSet, OneOf
<1>4. Sums(chosen)
    BY <1>1, <1>2, SumTaken
<1>. HIDE DEF Sums, chosen
<1>. QED
    BY <1>1, <1>2, <1>3, <1>4, SumTaken

\* Winners and losers make the whole, since the rest makes nothing.
LEMMA GrossesAgree ==
    ASSUME NEW trades \in Seq(Int)
    PROVE  /\ Gross(trades, Winners(trades)) - Gross(trades, Losers(trades))
                = SumFunctionOnSet(trades, DOMAIN trades)
           /\ SumFunctionOnSet(trades, DOMAIN trades) \in Int
<1>. DEFINE D == DOMAIN trades
            W == Winners(trades)
            L == Losers(trades)
            Total(S) == SumFunctionOnSet(trades, S)
            Debts == {n \in Int : n <= 0}
<1>1. IsFiniteSet(D) /\ \A i \in D : trades[i] \in Int
    <2>1. IsFiniteSet(1..Len(trades)) /\ DOMAIN trades = 1..Len(trades)
        BY FS_Interval
    <2>. QED
        BY <2>1
<1>2. W \in SUBSET D /\ L \in SUBSET (D \ W) /\ L \in SUBSET D
    BY <1>1 DEF Winners, Losers
<1>3. /\ \A i \in W : trades[i] \in Nat
      /\ \A i \in L : trades[i] \in Debts
      /\ \A i \in (D \ W) \ L : trades[i] = 0
    BY <1>1 DEF Winners, Losers
<1>4. IsFiniteSet(W) /\ IsFiniteSet(D \ W) /\ IsFiniteSet(L) /\ IsFiniteSet((D \ W) \ L)
    BY <1>1, <1>2, FS_Subset
<1>5. /\ Debts \in SUBSET Int /\ 0 \in Debts /\ \A a, b \in Debts : a + b \in Debts
      /\ Nat \in SUBSET Int /\ 0 \in Nat /\ \A a, b \in Nat : a + b \in Nat
      /\ \A n \in Debts : n \in Int /\ n <= 0
    OBVIOUS
<1>. HIDE DEF D, W, L, Debts
<1>6. Total(W) \in Nat
    BY <1>3, <1>4, <1>5, SumStaysIn
<1>7. Total(L) \in Debts
    BY <1>3, <1>4, <1>5, SumStaysIn
<1>8. Total((D \ W) \ L) = 0
    BY <1>3, <1>4, SumOfZeros
<1>9. Total(D) = Total(W) + Total(D \ W)
    BY <1>1, <1>2, SumOfParts
<1>10. Total(D \ W) = Total(L) + Total((D \ W) \ L)
    <2>1. \A i \in D \ W : trades[i] \in Int
        BY <1>1
    <2>. QED
        BY <1>2, <1>4, <2>1, SumOfParts
<1>11. Gross(trades, W) = Abs(Total(W)) /\ Gross(trades, L) = Abs(Total(L))
    BY <1>2, GrossIsSum DEF D
<1>12. Total(D) \in Int
    BY <1>1, SumOverType
<1>. HIDE DEF Total
<1>13. ASSUME NEW w \in Nat, NEW l \in Debts
       PROVE  Abs(w) - Abs(l) = w + (l + 0)
    <2>1. l \in Int /\ l <= 0
        BY <1>5
    <2>2. Abs(w) = w /\ Abs(l) = -l
        BY <2>1 DEF Abs
    <2>. QED
        BY <2>1, <2>2
<1>14. Abs(Total(W)) - Abs(Total(L)) = Total(W) + (Total(L) + 0)
    BY <1>6, <1>7, <1>13
<1>15. Gross(trades, W) - Gross(trades, L) = Total(D)
    BY <1>8, <1>9, <1>10, <1>11, <1>14, Zenon
<1>. QED
    BY <1>12, <1>15, Zenon DEF D, W, L, Total

\* One trade more.
LEMMA TradeCounted ==
    ASSUME NEW trades \in Seq(Int), NEW pnl \in Int
    PROVE  SumFunctionOnSet(Append(trades, pnl), DOMAIN Append(trades, pnl))
             = SumFunctionOnSet(trades, DOMAIN trades) + pnl
<1>. DEFINE D == 1..Len(trades)
            x == Len(trades) + 1
            more == Append(trades, pnl)
<1>1. /\ Len(trades) \in Nat /\ IsFiniteSet(D) /\ x \notin D
      /\ DOMAIN trades = D /\ DOMAIN more = D \union {x} /\ more[x] = pnl
    <2>1. Len(trades) \in Nat /\ x \notin D /\ DOMAIN trades = D
        OBVIOUS
    <2>2. IsFiniteSet(D)
        BY <2>1, FS_Interval
    <2>3. more \in Seq(Int) /\ Len(more) = x /\ more[x] = pnl
        OBVIOUS
    <2>4. 1..x = D \union {x}
        BY <2>1
    <2>5. DOMAIN more = 1..x
        BY <2>3
    <2>. QED
        BY <2>1, <2>2, <2>3, <2>4, <2>5
<1>2. (\A i \in D : trades[i] \in Int) /\ (\A i \in D : more[i] = trades[i])
    OBVIOUS
<1>. HIDE DEF D, x, more
<1>3. SumFunctionOnSet(more, D \union {x}) = SumFunctionOnSet(trades, D) + more[x]
    BY <1>1, <1>2, SumOverMore
<1>. QED
    BY <1>1, <1>3, Zenon DEF more
-----------------------------------------------------------------------------
(***************************************************************************)
(* The drawdown, found in one pass over the curve.                         *)
(***************************************************************************)
Peak(curve, j) == Max({curve[i] : i \in 1..j})

\* What one more value makes of the drawdown found before it (metrics.py:62).
Fallen(r, equity) ==
    LET peak == IF equity > r.peak THEN equity ELSE r.peak
        drop == peak - equity
    IN  IF peak > 0 /\ drop * r.of > r.drop * peak
        THEN [peak |-> peak, drop |-> drop, of |-> peak]
        ELSE [r EXCEPT !.peak = peak]

Drawdowns == [peak : Int, drop : Nat, of : Nat \ {0}]
NoDrawdown(first) == [peak |-> first, drop |-> 0, of |-> 1]

\* The pass has found the largest fall of those seen.
Seen(r, curve, j) ==
    /\ r \in Drawdowns
    /\ r.peak = Peak(curve, j)
    /\ \A i \in 2..j : Peak(curve, i) > 0 =>
        (Peak(curve, i) - curve[i]) * r.of <= r.drop * Peak(curve, i)
    /\ \/ r.drop = 0 /\ r.of = 1
       \/ \E i \in 2..j : /\ Peak(curve, i) > 0
                          /\ (Peak(curve, i) - curve[i]) * r.of = r.drop * Peak(curve, i)

LEMMA PeakIsGreatest ==
    ASSUME NEW curve \in Seq(Int), NEW j \in 1..Len(curve)
    PROVE  /\ Peak(curve, j) \in {curve[i] : i \in 1..j}
           /\ Peak(curve, j) \in Int
           /\ \A i \in 1..j : curve[i] <= Peak(curve, j)
<1>. DEFINE V == {curve[i] : i \in 1..j}
<1>1. V \in SUBSET Int /\ V # {} /\ \A i \in 1..j : curve[i] \in V
    OBVIOUS
<1>2. IsFiniteSet(V)
    <2>1. IsFiniteSet(1..j)
        BY FS_Interval
    <2>. DEFINE f == [i \in 1..j |-> curve[i]]
    <2>2. f \in Surjection(1..j, V)
        BY DEF Surjection
    <2>. HIDE DEF f, V
    <2>. QED
        BY <2>1, <2>2, FS_Surjection
<1>3. Max(V) \in V /\ \A x \in V : x <= Max(V)
    <2>. HIDE DEF V
    <2>. QED
        BY <1>1, <1>2, MaxIsGreatest
<1>. HIDE DEF V
<1>4. Peak(curve, j) = Max(V)
    BY DEF Peak, V
<1>5. Max(V) \in Int
    BY <1>1, <1>3
<1>6. Max(V) \in {curve[i] : i \in 1..j}
    BY <1>3 DEF V
<1>. QED
    BY <1>1, <1>3, <1>4, <1>5, <1>6

LEMMA PeakMoves ==
    ASSUME NEW curve \in Seq(Int), NEW j \in 1..Len(curve), j + 1 \in 1..Len(curve)
    PROVE  Peak(curve, j + 1)
             = IF curve[j + 1] > Peak(curve, j) THEN curve[j + 1] ELSE Peak(curve, j)
<1>. DEFINE old == Peak(curve, j)
            new == Peak(curve, j + 1)
            next == curve[j + 1]
<1>1. old \in Int /\ (\E i \in 1..j : old = curve[i]) /\ \A i \in 1..j : curve[i] <= old
    BY PeakIsGreatest
<1>2. new \in Int /\ (\E i \in 1..(j + 1) : new = curve[i]) /\ \A i \in 1..(j + 1) : curve[i] <= new
    BY PeakIsGreatest
<1>3. next \in Int /\ j + 1 \in 1..(j + 1) /\ \A i \in 1..j : i \in 1..(j + 1)
    OBVIOUS
<1>4. \A i \in 1..(j + 1) : i \in 1..j \/ i = j + 1
    OBVIOUS
<1>. HIDE DEF old, new
<1>5. old <= new /\ next <= new
    BY <1>1, <1>2, <1>3
<1>6. new = next \/ new <= old
    BY <1>1, <1>2, <1>4
<1>. QED
    BY <1>1, <1>2, <1>3, <1>5, <1>6 DEF old, new

LEMMA PeakOfFirst == ASSUME NEW curve \in Seq(Int), curve # <<>> PROVE Peak(curve, 1) = curve[1]
<1>1. 1 \in 1..Len(curve) /\ \A i \in 1..1 : i = 1
    OBVIOUS
<1>. QED
    BY <1>1, PeakIsGreatest

\* Fractions are compared multiplied out: a / b is not more than d / o, which
\* is less than e / p.
LEMMA FractionsInOrder ==
    ASSUME NEW a \in Int, NEW b \in Nat \ {0}, NEW d \in Int, NEW o \in Nat \ {0},
           NEW e \in Int, NEW p \in Nat \ {0}, a * o <= d * b, d * p < e * o
    PROVE  a * p <= e * b
<1>1. (a * o) * p <= (d * b) * p
    <2>1. \A x, y \in Int : x <= y => x * p <= y * p
        OBVIOUS
    <2>2. a * o \in Int /\ d * b \in Int
        OBVIOUS
    <2>. QED
        BY <2>1, <2>2
<1>2. (d * p) * b < (e * o) * b
    <2>1. \A x, y \in Int : x < y => x * b < y * b
        OBVIOUS
    <2>2. d * p \in Int /\ e * o \in Int
        OBVIOUS
    <2>. QED
        BY <2>1, <2>2
<1>3. (a * o) * p = (a * p) * o /\ (d * b) * p = (d * p) * b /\ (e * o) * b = (e * b) * o
    OBVIOUS
<1>4. a * p \in Int /\ e * b \in Int
    OBVIOUS
<1>5. (a * p) * o < (e * b) * o
    <2>1. (a * o) * p \in Int /\ (d * b) * p \in Int /\ (e * o) * b \in Int
        OBVIOUS
    <2>. QED
        BY <1>1, <1>2, <1>3, <2>1
<1>6. \A x, y \in Int : x * o < y * o => x < y
    OBVIOUS
<1>. QED
    BY <1>4, <1>5, <1>6
LEMMA FallenSeen ==
    ASSUME NEW curve \in Seq(Int), NEW j \in 1..Len(curve), j + 1 \in 1..Len(curve),
           NEW r, Seen(r, curve, j)
    PROVE  Seen(Fallen(r, curve[j + 1]), curve, j + 1)
<1>. DEFINE equity == curve[j + 1]
            peak == Peak(curve, j + 1)
            drop == peak - equity
            new == Fallen(r, equity)
            Falls(i) == Peak(curve, i) > 0
            Depth(i) == Peak(curve, i) - curve[i]
<1>1. /\ r \in Drawdowns /\ r.peak = Peak(curve, j)
      /\ \A i \in 2..j : Falls(i) => Depth(i) * r.of <= r.drop * Peak(curve, i)
      /\ \/ r.drop = 0 /\ r.of = 1
         \/ \E i \in 2..j : Falls(i) /\ Depth(i) * r.of = r.drop * Peak(curve, i)
    BY DEF Seen
<1>2. peak = IF equity > r.peak THEN equity ELSE r.peak
    BY <1>1, PeakMoves
<1>3. \A i \in 2..(j + 1) : Peak(curve, i) \in Int /\ curve[i] \in Int /\ curve[i] <= Peak(curve, i)
    <2>1. \A i \in 2..(j + 1) : i \in 1..Len(curve) /\ i \in 1..i
        OBVIOUS
    <2>. QED
        BY <2>1, PeakIsGreatest
<1>4. j + 1 \in 2..(j + 1) /\ \A i \in 2..(j + 1) : i \in 2..j \/ i = j + 1
    OBVIOUS
<1>5. peak \in Int /\ equity \in Int /\ drop \in Nat
    BY <1>3, <1>4
<1>6. /\ r.peak \in Int /\ r.drop \in Nat /\ r.of \in Nat \ {0}
      /\ r = [peak |-> r.peak, drop |-> r.drop, of |-> r.of]
    BY <1>1 DEF Drawdowns
<1>7. \A i \in 2..j : i \in 2..(j + 1)
    OBVIOUS
<1>8. CASE peak > 0 /\ drop * r.of > r.drop * peak
    <2>1. new = [peak |-> peak, drop |-> drop, of |-> peak]
        BY <1>2, <1>8 DEF Fallen
    <2>2. peak \in Nat \ {0}
        BY <1>5, <1>8
    <2>3. ASSUME NEW i \in 2..(j + 1), Falls(i)
          PROVE  Depth(i) * peak <= drop * Peak(curve, i)
        <3>1. CASE i = j + 1
            BY <1>5, <3>1
        <3>2. CASE i \in 2..j
            <4>1. Depth(i) \in Int /\ Peak(curve, i) \in Nat \ {0}
                BY <1>3, <2>3
            <4>2. Depth(i) * r.of <= r.drop * Peak(curve, i)
                BY <1>1, <2>3, <3>2
            <4>3. r.drop * peak < drop * r.of
                BY <1>5, <1>6, <1>8
            <4>4. drop \in Int /\ r.drop \in Int
                BY <1>5, <1>6
            <4>. HIDE DEF Depth, peak, drop
            <4>. QED
                BY <1>6, <2>2, <4>1, <4>2, <4>3, <4>4, FractionsInOrder, Zenon
        <3>. QED
            BY <1>4, <3>1, <3>2
    <2>4. Falls(j + 1) /\ Depth(j + 1) * peak = drop * Peak(curve, j + 1)
        BY <1>8
    <2>5. new \in Drawdowns /\ new.peak = peak /\ new.drop = drop /\ new.of = peak
        BY <1>5, <2>1, <2>2 DEF Drawdowns
    <2>. HIDE DEF new
    <2>. QED
        BY <1>4, <2>3, <2>4, <2>5 DEF Seen, new
<1>9. CASE ~(peak > 0 /\ drop * r.of > r.drop * peak)
    <2>1. new = [peak |-> peak, drop |-> r.drop, of |-> r.of]
        BY <1>2, <1>6, <1>9 DEF Fallen
    <2>2. new \in Drawdowns /\ new.peak = peak /\ new.drop = r.drop /\ new.of = r.of
        BY <1>5, <1>6, <2>1 DEF Drawdowns
    <2>3. ASSUME NEW i \in 2..(j + 1), Falls(i)
          PROVE  Depth(i) * r.of <= r.drop * Peak(curve, i)
        <3>1. CASE i = j + 1
            <4>1. ~(drop * r.of > r.drop * peak) /\ drop * r.of \in Int /\ r.drop * peak \in Int
                BY <1>5, <1>6, <1>9, <2>3, <3>1
            <4>. QED
                BY <3>1, <4>1
        <3>2. CASE i \in 2..j
            BY <1>1, <2>3, <3>2
        <3>. QED
            BY <1>4, <3>1, <3>2
    <2>4. \/ r.drop = 0 /\ r.of = 1
          \/ \E i \in 2..(j + 1) : Falls(i) /\ Depth(i) * r.of = r.drop * Peak(curve, i)
        BY <1>1, <1>7
    <2>. HIDE DEF new
    <2>. QED
        BY <2>2, <2>3, <2>4 DEF Seen, new
<1>. QED
    BY <1>8, <1>9

LEMMA FallenTyped ==
    ASSUME NEW r \in Drawdowns, NEW equity \in Int
    PROVE  Fallen(r, equity) \in Drawdowns
<1>. DEFINE peak == IF equity > r.peak THEN equity ELSE r.peak
<1>1. /\ r.peak \in Int /\ r.drop \in Nat /\ r.of \in Nat \ {0}
      /\ r = [peak |-> r.peak, drop |-> r.drop, of |-> r.of]
    BY DEF Drawdowns
<1>2. peak \in Int /\ peak - equity \in Nat
    BY <1>1
<1>3. CASE peak > 0 /\ (peak - equity) * r.of > r.drop * peak
    <2>1. Fallen(r, equity) = [peak |-> peak, drop |-> peak - equity, of |-> peak]
        BY <1>3 DEF Fallen
    <2>2. peak \in Nat \ {0}
        BY <1>2, <1>3
    <2>. HIDE DEF peak
    <2>. QED
        BY <1>2, <2>1, <2>2 DEF Drawdowns
<1>4. CASE ~(peak > 0 /\ (peak - equity) * r.of > r.drop * peak)
    <2>1. Fallen(r, equity) = [peak |-> peak, drop |-> r.drop, of |-> r.of]
        BY <1>1, <1>4 DEF Fallen
    <2>. HIDE DEF peak
    <2>. QED
        BY <1>1, <1>2, <2>1 DEF Drawdowns
<1>. QED
    BY <1>3, <1>4

\* The pass over the values after the first, as the fold that it is.
Passes(g, curve) ==
    g = [S \in SUBSET DOMAIN Tail(curve) |->
            IF S = {} THEN NoDrawdown(curve[1])
            ELSE Fallen(g[S \ {Max(S)}], Tail(curve)[Max(S)])]

LEMMA PassChosen ==
    ASSUME NEW curve \in Seq(Int), curve # <<>>
    PROVE  \E g : Passes(g, curve) /\ MaxDrawdown(curve) = g[1..Len(Tail(curve))]
<1>. DEFINE rest == Tail(curve)
            n == Len(rest)
            base == NoDrawdown(curve[1])
            F == [x \in Drawdowns \X (1..n) |-> Fallen(x[1], rest[x[2]])]
<1>0. curve[1] \in Int /\ rest \in Seq(Int)
    OBVIOUS
<1>1. base \in Drawdowns
    BY <1>0 DEF NoDrawdown, Drawdowns
<1>. HIDE DEF rest
<1>2. n \in Nat /\ DOMAIN rest = 1..n /\ \A i \in 1..n : rest[i] \in Int
    BY <1>0
<1>3. \A r \in Drawdowns, i \in 1..n :
        Fallen(r, rest[i]) \in Drawdowns /\ F[<<r, i>>] = Fallen(r, rest[i])
    BY <1>2, FallenTyped
<1>4. F \in [Drawdowns \X (1..n) -> Drawdowns]
    BY <1>3
<1>. HIDE DEF F, base, n
<1>5. PICK g : IsFold(g, Drawdowns, base, n, F)
    BY <1>1, <1>2, <1>4, FoldExists
<1>. g \in [SUBSET (1..n) -> Drawdowns]
    BY <1>5 DEF IsFold
<1>6. ASSUME NEW S \in SUBSET (1..n), S # {}
      PROVE  F[<<g[S \ {Max(S)}], Max(S)>>] = Fallen(g[S \ {Max(S)}], rest[Max(S)])
    <2>1. IsFiniteSet(1..n)
        BY <1>2, FS_Interval
    <2>2. IsFiniteSet(S)
        BY <2>1, FS_Subset
    <2>3. S \in SUBSET Int
        OBVIOUS
    <2>. Max(S) \in S
        BY <1>6, <2>2, <2>3, MaxIsGreatest
    <2>4. Max(S) \in 1..n /\ g[S \ {Max(S)}] \in Drawdowns
        OBVIOUS
    <2>. QED
        BY <1>3, <2>4
<1>7. Passes(g, curve)
    <2>1. g = [S \in SUBSET (1..n) |-> g[S]]
        OBVIOUS
    <2>2. \A S \in SUBSET (1..n) :
            g[S] = IF S = {} THEN base ELSE Fallen(g[S \ {Max(S)}], rest[Max(S)])
        BY <1>5, <1>6 DEF IsFold
    <2>. QED
        BY <1>2, <2>1, <2>2 DEF Passes, base, rest
<1>. DEFINE chosen == CHOOSE h : Passes(h, curve)
<1>8. Passes(chosen, curve)
    BY <1>7
<1>9. MaxDrawdown(curve) = chosen[DOMAIN Tail(curve)]
    BY DEF MaxDrawdown, FoldLeft, MapThenFoldSet, Passes, Fallen, NoDrawdown
<1>. HIDE DEF chosen
<1>. QED
    BY <1>2, <1>8, <1>9 DEF n, rest
\* What a reduction takes out of the cost of a position, and what it gains, are
\* what it brought.
LEMMA ReducingCosts ==
    ASSUME NEW pos \in Position, NEW qty \in Int, NEW price \in Int, pos.qty * qty < 0
    PROVE  qty * price = Remaining(pos, qty, price).qty * Remaining(pos, qty, price).avg
                         - pos.qty * pos.avg - Pnl(pos, qty, price)
<1>. DEFINE old == pos.qty
            avg == pos.avg
            new == Remaining(pos, qty, price)
            pnl == Pnl(pos, qty, price)
<1>1. old \in Int /\ avg \in Int /\ pos.price \in Int
    BY DEF Position
<1>2. (old > 0 /\ qty < 0) \/ (old < 0 /\ qty > 0)
    BY <1>1
<1>3. CASE old + qty = 0 \/ old * (old + qty) < 0
    <2>1. new.qty = old + qty /\ new.qty * new.avg = (old + qty) * price
        BY <1>1, <1>3 DEF Remaining, Closed, OpenPosition
    <2>2. ClosedQty(pos, qty) = IF old > 0 THEN old ELSE -old
        BY <1>1, <1>2, <1>3 DEF ClosedQty, Smaller, Abs
    <2>3. pnl = (price - avg) * old
        <3>1. CASE old > 0
            BY <2>2, <3>1 DEF Pnl
        <3>2. CASE ~(old > 0)
            <4>1. pnl = (avg - price) * (-old)
                BY <2>2, <3>2 DEF Pnl
            <4>. HIDE DEF pnl
            <4>. QED
                BY <1>1, <4>1
        <3>. QED
            BY <3>1, <3>2
    <2>4. qty * price = (old + qty) * price - old * avg - (price - avg) * old
        BY <1>1
    <2>. QED
        BY <2>1, <2>3, <2>4
<1>4. CASE old + qty # 0 /\ ~(old * (old + qty) < 0)
    <2>1. new.qty = old + qty /\ new.avg = avg
        BY <1>4 DEF Remaining, Position
    <2>2. ClosedQty(pos, qty) = IF old > 0 THEN -qty ELSE qty
        BY <1>1, <1>2, <1>4 DEF ClosedQty, Smaller, Abs
    <2>3. pnl = (price - avg) * (-qty)
        <3>1. CASE old > 0
            BY <2>2, <3>1 DEF Pnl
        <3>2. CASE ~(old > 0)
            <4>1. pnl = (avg - price) * qty
                BY <2>2, <3>2 DEF Pnl
            <4>. HIDE DEF pnl
            <4>. QED
                BY <1>1, <4>1
        <3>. QED
            BY <3>1, <3>2
    <2>4. qty * price = (old + qty) * avg - old * avg - (price - avg) * (-qty)
        BY <1>1
    <2>. QED
        BY <2>1, <2>3, <2>4
<1>. QED
    BY <1>3, <1>4
LEMMA DrawdownFound ==
    ASSUME NEW curve \in Seq(Int), curve # <<>>
    PROVE  Seen(MaxDrawdown(curve), curve, Len(curve))
<1>1. PICK g : Passes(g, curve) /\ MaxDrawdown(curve) = g[1..Len(Tail(curve))]
    BY PassChosen
<1>. DEFINE n == Len(Tail(curve))
            Good == {k \in Nat : k <= n => Seen(g[1..k], curve, k + 1)}
<1>2. n \in Nat /\ Len(curve) = n + 1 /\ DOMAIN Tail(curve) = 1..n
    OBVIOUS
<1>3. \A S \in SUBSET (1..n) :
        g[S] = IF S = {} THEN NoDrawdown(curve[1])
               ELSE Fallen(g[S \ {Max(S)}], Tail(curve)[Max(S)])
    <2>. HIDE DEF n
    <2>. QED
        BY <1>1, <1>2, Zenon DEF Passes
<1>4. 0 \in Good
    <2>1. 1..0 = {} /\ {} \in SUBSET (1..n) /\ curve[1] \in Int
        OBVIOUS
    <2>2. g[1..0] = NoDrawdown(curve[1])
        BY <1>3, <2>1
    <2>3. NoDrawdown(curve[1]) \in Drawdowns
        BY <2>1 DEF NoDrawdown, Drawdowns
    <2>4. Peak(curve, 1) = curve[1] /\ \A i \in 2..1 : FALSE
        BY PeakOfFirst
    <2>5. Seen(NoDrawdown(curve[1]), curve, 1)
        BY <2>3, <2>4 DEF Seen, NoDrawdown
    <2>6. 0 + 1 = 1
        OBVIOUS
    <2>. QED
        BY <2>2, <2>5, <2>6
<1>5. ASSUME NEW k \in Nat, k \in Good
      PROVE  k + 1 \in Good
    <2>1. CASE k + 1 <= n
        <3>1. Seen(g[1..k], curve, k + 1)
            BY <1>2, <1>5, <2>1
        <3>2. Max(1..(k + 1)) = k + 1 /\ (1..(k + 1)) \ {k + 1} = 1..k /\ 1..(k + 1) # {}
            BY SegmentMax, k + 1 \in Nat \ {0}, (k + 1) - 1 = k
        <3>3. 1..(k + 1) \in SUBSET (1..n) /\ k + 1 \in 1..n
            BY <1>2, <2>1
        <3>4. Tail(curve)[k + 1] = curve[(k + 1) + 1]
            BY <1>2, <3>3
        <3>5. g[1..(k + 1)] = Fallen(g[1..k], curve[(k + 1) + 1])
            BY <1>3, <3>2, <3>3, <3>4
        <3>6. k + 1 \in 1..Len(curve) /\ (k + 1) + 1 \in 1..Len(curve)
            BY <1>2, <3>3
        <3>7. Seen(g[1..(k + 1)], curve, (k + 1) + 1)
            BY <3>1, <3>5, <3>6, FallenSeen
        <3>. QED
            BY <3>7
    <2>. QED
        BY <2>1
<1>6. n \in Good /\ n <= n
    <2>1. \A k \in Nat : k \in Good
        <3>. HIDE DEF Good
        <3>. QED
            BY <1>4, <1>5, InductionOverNat
    <2>. HIDE DEF Good, n
    <2>. QED
        BY <1>2, <2>1
<1>7. Seen(g[1..n], curve, n + 1)
    BY <1>6
<1>. QED
    BY <1>1, <1>2, <1>7

\* What is reported of the curve (metrics.py:126, 162): nothing until a trade was
\* closed, then the largest fall, which is not more than all there was while the
\* curve does not go below zero.
LEMMA DrawdownAgrees ==
    ASSUME NEW curve \in Seq(Int), NEW trades
    PROVE  LET m == ReportedDrawdown(trades, curve)
               falls == {j \in 2..Len(curve) : Peak(curve, j) > curve[j] /\ Peak(curve, j) > 0}
           IN  /\ trades # <<>> =>
                    /\ \A j \in falls : (Peak(curve, j) - curve[j]) * m.of <= m.drop * Peak(curve, j)
                    /\ IF falls = {} THEN m.drop = 0
                       ELSE \E j \in falls :
                                (Peak(curve, j) - curve[j]) * m.of = m.drop * Peak(curve, j)
               /\ (\A j \in DOMAIN curve : curve[j] >= 0) => m.drop <= m.of
<1>. DEFINE m == ReportedDrawdown(trades, curve)
            Height(j) == Peak(curve, j)
            falls == {j \in 2..Len(curve) : Height(j) > curve[j] /\ Height(j) > 0}
<1>1. CASE trades = <<>> \/ Len(curve) < 2
    <2>1. m.drop = 0 /\ m.of = 1
        BY <1>1 DEF ReportedDrawdown
    <2>2. Len(curve) < 2 => falls = {}
        OBVIOUS
    <2>. HIDE DEF m, falls
    <2>. QED
        BY <1>1, <2>1, <2>2 DEF m, falls
<1>2. CASE ~(trades = <<>> \/ Len(curve) < 2)
    <2>1. m = MaxDrawdown(curve) /\ curve # <<>>
        BY <1>2 DEF ReportedDrawdown
    <2>2. Seen(m, curve, Len(curve))
        BY <2>1, DrawdownFound
    <2>3. \A j \in 2..Len(curve) :
            j \in DOMAIN curve /\ Height(j) \in Int /\ curve[j] \in Int /\ curve[j] <= Height(j)
        <3>. SUFFICES ASSUME NEW j \in 2..Len(curve)
                      PROVE  j \in DOMAIN curve /\ Height(j) \in Int /\ curve[j] \in Int
                             /\ curve[j] <= Height(j)
            OBVIOUS
        <3>1. j \in 1..Len(curve) /\ j \in 1..j
            OBVIOUS
        <3>. QED
            BY <3>1, PeakIsGreatest
    <2>. HIDE DEF m
    <2>4. /\ m.drop \in Nat /\ m.of \in Nat /\ m.of > 0
          /\ \A j \in 2..Len(curve) : Height(j) > 0 => (Height(j) - curve[j]) * m.of <= m.drop * Height(j)
          /\ \/ m.drop = 0 /\ m.of = 1
             \/ \E j \in 2..Len(curve) :
                    Height(j) > 0 /\ (Height(j) - curve[j]) * m.of = m.drop * Height(j)
        BY <2>2 DEF Seen, Drawdowns
    <2>. HIDE DEF Height
    <2>5. \A h, c, drop, of \in Int :
            /\ h > 0 /\ of > 0 /\ drop >= 0 /\ c <= h =>
                /\ (h <= c /\ (h - c) * of = drop * h => drop = 0)
                /\ (h > c => ~((h - c) * of <= 0 * h))
                /\ (c >= 0 /\ (h - c) * of = drop * h => drop <= of)
        <3>. SUFFICES ASSUME NEW h \in Int, NEW c \in Int, NEW drop \in Int, NEW of \in Int,
                             h > 0, of > 0, drop >= 0, c <= h
                      PROVE  /\ (h <= c /\ (h - c) * of = drop * h => drop = 0)
                             /\ (h > c => ~((h - c) * of <= 0 * h))
                             /\ (c >= 0 /\ (h - c) * of = drop * h => drop <= of)
            OBVIOUS
        <3>1. h <= c => (h - c) * of = 0
            OBVIOUS
        <3>2. drop # 0 => drop * h > 0
            OBVIOUS
        <3>3. h > c => (h - c) * of > 0
            OBVIOUS
        <3>4. c >= 0 => (h - c) * of <= h * of
            OBVIOUS
        <3>5. drop > of => drop * h > h * of
            OBVIOUS
        <3>6. 0 * h = 0 /\ (h - c) * of \in Int /\ drop * h \in Int /\ h * of \in Int
            OBVIOUS
        <3>. QED
            BY <3>1, <3>2, <3>3, <3>4, <3>5, <3>6
    <2>6. \A j \in falls : (Height(j) - curve[j]) * m.of <= m.drop * Height(j)
        BY <2>4
    <2>7. CASE m.drop = 0 /\ m.of = 1
        <3>1. falls = {}
            BY <2>3, <2>4, <2>5, <2>7
        <3>. QED
            BY <2>6, <2>7, <3>1 DEF m, Height
    <2>8. CASE \E j \in 2..Len(curve) :
                    Height(j) > 0 /\ (Height(j) - curve[j]) * m.of = m.drop * Height(j)
        <3>1. PICK j \in 2..Len(curve) :
                    Height(j) > 0 /\ (Height(j) - curve[j]) * m.of = m.drop * Height(j)
            BY <2>8
        <3>2. j \in DOMAIN curve /\ Height(j) \in Int /\ curve[j] \in Int /\ curve[j] <= Height(j)
            BY <2>3
        <3>3. j \in falls \/ m.drop = 0
            BY <2>4, <2>5, <3>1, <3>2
        <3>4. m.drop = 0 => falls = {}
            BY <2>3, <2>4, <2>5
        <3>5. curve[j] >= 0 => m.drop <= m.of
            <4>. DEFINE h == Height(j)
                        c == curve[j]
                        drop == m.drop
                        of == m.of
            <4>1. /\ h \in Int /\ c \in Int /\ drop \in Int /\ of \in Int
                  /\ h > 0 /\ of > 0 /\ drop >= 0 /\ c <= h /\ (h - c) * of = drop * h
                BY <2>4, <3>1, <3>2
            <4>. HIDE DEF h, c, drop, of
            <4>2. c >= 0 => drop <= of
                BY <2>5, <4>1
            <4>. QED
                BY <4>2 DEF h, c, drop, of
        <3>. QED
            BY <2>6, <3>1, <3>2, <3>3, <3>4, <3>5 DEF m, Height
    <2>. QED
        BY <2>4, <2>7, <2>8
<1>. QED
    BY <1>1, <1>2
-----------------------------------------------------------------------------
(***************************************************************************)
(* What the ledger has added up: the cash is what the trades made, and all *)
(* that was paid is in the cash or in the cost of what is held.            *)
(***************************************************************************)
TotalOf(trades) == SumFunctionOnSet(trades, DOMAIN trades)

CostOf(positions) ==
    SumFunctionOnSet([p \in Pairs |-> positions[p].qty * positions[p].avg], Pairs)

LedgerInv ==
    /\ ledger.trades \in Seq(Int) /\ ledger.curve \in Seq(Int)
    /\ ledger.cash = InitialCash + TotalOf(ledger.trades)

CostInv == paid = InitialCash - ledger.cash + CostOf(ledger.positions)

\* An average that is exact: what is held cost what its parts did.
ExactlyAdded(old, new) ==
    old.qty * (new.qty - old.qty) > 0
        => new.qty * new.avg = old.qty * old.avg + (new.qty - old.qty) * new.price

\* Money comes in a unit small enough for the averages.
Exact == \A p \in Pairs : ExactlyAdded(ledger.positions[p], ledger'.positions[p])

\* A fill in the ledger: one position changes, and what is gained is a trade.
Records(g, new, gain, pair, qty, price) ==
    /\ DOMAIN g = DOMAIN ledger
    /\ g.curve = ledger.curve
    /\ new \in Position /\ gain \in Int
    /\ g.positions = [ledger.positions EXCEPT ![pair] = new]
    /\ g.cash = ledger.cash + gain
    /\ \/ g.trades = ledger.trades /\ gain = 0
       \/ g.trades = Append(ledger.trades, gain)
    /\ ExactlyAdded(ledger.positions[pair], new) =>
         qty * price = new.qty * new.avg
                       - ledger.positions[pair].qty * ledger.positions[pair].avg - gain

LEMMA FillInLedger ==
    ASSUME BooksInv, NEW pair \in Pairs, NEW qty \in Int \ {0}, NEW price \in Int, NEW when
    PROVE  \E g, new, gain :
            /\ LedgerFill(ledger, pair, qty, price, when) = MaybeSnapshot(g, when)
            /\ Records(g, new, gain, pair, qty, price)
<1>. DEFINE pos == ledger.positions[pair]
            old == pos.qty
<1>1. /\ DOMAIN ledger = {"cash", "positions", "trades", "curve", "taken", "daily"}
      /\ ledger.cash \in Int /\ ledger.positions \in [Pairs -> Position]
    BY DEF BooksInv, TypeOK
<1>2. pos \in Position /\ old \in Int /\ pos.avg \in Int
    BY <1>1 DEF Position
<1>3. old = 0 => pos = Closed
    BY DEF BooksInv, ClosedForgotten
<1>. HIDE DEF pos
<1>4. CASE old = 0
    <2>. DEFINE new == OpenPosition(qty, price)
                g == [ledger EXCEPT !.positions[pair] = new]
    <2>1. LedgerFill(ledger, pair, qty, price, when) = MaybeSnapshot(g, when)
        BY <1>3, <1>4 DEF LedgerFill, pos
    <2>2. new \in Position /\ new.qty = qty /\ new.avg = price
        BY DEF OpenPosition, Position
    <2>. HIDE DEF new
    <2>3. /\ DOMAIN g = DOMAIN ledger /\ g.positions = [ledger.positions EXCEPT ![pair] = new]
          /\ g.cash = ledger.cash + 0 /\ g.trades = ledger.trades /\ g.curve = ledger.curve
        BY <1>1
    <2>4. qty * price = new.qty * new.avg - old * pos.avg - 0
        BY <1>2, <1>4, <2>2
    <2>. HIDE DEF g
    <2>5. Records(g, new, 0, pair, qty, price)
        BY <2>2, <2>3, <2>4 DEF Records, pos
    <2>. QED
        BY <2>1, <2>5
<1>5. CASE old * qty > 0
    <2>. DEFINE new == Added(pos, qty, price)
                g == [ledger EXCEPT !.positions[pair] = new]
    <2>1. pos # Closed
        BY <1>5 DEF Closed
    <2>2. LedgerFill(ledger, pair, qty, price, when) = MaybeSnapshot(g, when)
        BY <1>5, <2>1 DEF LedgerFill, pos
    <2>3. new \in Position /\ new.qty = old + qty /\ new.price = price
        BY <1>2, <1>5, AddingAgrees
    <2>. HIDE DEF new
    <2>4. /\ DOMAIN g = DOMAIN ledger /\ g.positions = [ledger.positions EXCEPT ![pair] = new]
          /\ g.cash = ledger.cash + 0 /\ g.trades = ledger.trades /\ g.curve = ledger.curve
        BY <1>1
    <2>5. ASSUME ExactlyAdded(pos, new)
          PROVE  qty * price = new.qty * new.avg - old * pos.avg - 0
        <3>1. new.qty - old = qty /\ new.avg \in Int
            BY <1>2, <2>3 DEF Position
        <3>2. new.qty * new.avg = old * pos.avg + qty * price
            BY <1>5, <2>3, <2>5, <3>1 DEF ExactlyAdded
        <3>3. qty * price \in Int /\ old * pos.avg \in Int
            BY <1>2
        <3>. QED
            BY <3>2, <3>3
    <2>. HIDE DEF g
    <2>6. Records(g, new, 0, pair, qty, price)
        BY <2>3, <2>4, <2>5 DEF Records, pos
    <2>. QED
        BY <2>2, <2>6
<1>6. CASE old # 0 /\ ~(old * qty > 0)
    <2>. DEFINE new == Remaining(pos, qty, price)
                pnl == Pnl(pos, qty, price)
                g == [ledger EXCEPT !.positions[pair] = new,
                                    !.trades = Append(@, pnl),
                                    !.cash = @ + pnl,
                                    !.daily[Day(when)] = @ + pnl]
    <2>1. old * qty < 0 /\ pos # Closed
        BY <1>2, <1>6, OtherSide DEF Closed
    <2>2. LedgerFill(ledger, pair, qty, price, when) = MaybeSnapshot(g, when)
        BY <1>6, <2>1 DEF LedgerFill, Reduce, pos
    <2>3. new \in Position /\ pnl \in Int
        BY <1>2, <2>1, ReducingAgrees
    <2>4. qty * price = new.qty * new.avg - old * pos.avg - pnl
        BY <1>2, <2>1, ReducingCosts
    <2>. HIDE DEF new, pnl
    <2>5. /\ DOMAIN g = DOMAIN ledger /\ g.positions = [ledger.positions EXCEPT ![pair] = new]
          /\ g.cash = ledger.cash + pnl /\ g.trades = Append(ledger.trades, pnl)
          /\ g.curve = ledger.curve
        BY <1>1
    <2>. HIDE DEF g
    <2>6. Records(g, new, pnl, pair, qty, price)
        BY <2>3, <2>4, <2>5 DEF Records, pos
    <2>. QED
        BY <2>2, <2>6
<1>. QED
    BY <1>4, <1>5, <1>6
\* What the steps do to the ledger.
LEMMA LedgerMoves ==
    ASSUME BooksInv, [Next]_vars
    PROVE  \/ UNCHANGED <<ledger, paid>>
           \/ \E pair \in Pairs, qty \in Int \ {0}, price \in Int, when \in Times :
                /\ ledger' = LedgerFill(ledger, pair, qty, price, when)
                /\ paid' = paid + qty * price
           \/ \E pair \in Pairs, close \in Int, when \in Times :
                ledger' = LedgerPrice(ledger, pair, close, when) /\ paid' = paid
<1>. USE DEF steering, books
<1>1. CASE \E p \in Pairs : RecordTheFill(p)
    <2>1. PICK pair \in Pairs : RecordTheFill(pair)
        BY <1>1
    <2>2. PICK qty \in Part(working[pair]), price \in Prices[pair], when \in Times :
            /\ ledger' = LedgerFill(ledger, pair, qty, price, when)
            /\ paid' = paid + qty * price
        BY <2>1 DEF RecordTheFill
    <2>3. working[pair] \in Int
        BY DEF BooksInv, TypeOK
    <2>4. qty \in Int \ {0} /\ price \in Int
        BY <2>3, TradingAssumption DEF Part
    <2>. QED
        BY <2>2, <2>4
<1>2. CASE \E p \in Pairs : OnBarEvent(p)
    <2>1. PICK pair \in Pairs : OnBarEvent(pair)
        BY <1>2
    <2>2. PICK close \in Prices[pair], when \in Times :
            ledger' = LedgerPrice(ledger, pair, close, when) /\ paid' = paid
        BY <2>1 DEF OnBarEvent
    <2>3. close \in Int
        BY TradingAssumption
    <2>. QED
        BY <2>2, <2>3
<1>3. CASE \/ \E signal \in Signals : OnTradingSignal(signal)
           \/ TakeSignal \/ Status \/ UNCHANGED vars
           \/ \E p \in Pairs : StopLoss(p)
           \/ \E button \in Buttons : Press(button)
    BY <1>3 DEF OnTradingSignal, TakeSignal, StopLoss, Status, AsksSnapshot, Press, vars
<1>. QED
    BY <1>1, <1>2, <1>3 DEF Next

LEMMA SnapshotAppends ==
    ASSUME NEW g, NEW when, DOMAIN g = {"cash", "positions", "trades", "curve", "taken", "daily"},
           g.cash \in Int, g.positions \in [Pairs -> Position], g.curve \in Seq(Int)
    PROVE  /\ MaybeSnapshot(g, when).trades = g.trades
           /\ MaybeSnapshot(g, when).curve \in Seq(Int)
<1>1. EquityOf(g) \in Int
    <2>1. UnrealizedPnl(g) \in Int
        BY UnrealizedIsSum
    <2>. QED
        BY <2>1 DEF EquityOf
<1>2. TakeSnapshot(g, when).curve = Append(g.curve, EquityOf(g))
      /\ TakeSnapshot(g, when).trades = g.trades
    BY DEF TakeSnapshot
<1>3. TakeSnapshot(g, when).curve \in Seq(Int)
    BY <1>1, <1>2
<1>4. MaybeSnapshot(g, when) = g \/ MaybeSnapshot(g, when) = TakeSnapshot(g, when)
    BY DEF MaybeSnapshot
<1>. QED
    BY <1>2, <1>3, <1>4

\* A change of one position changes its cost alone.
LEMMA CostChanged ==
    ASSUME NEW positions \in [Pairs -> Position], NEW pair \in Pairs, NEW new \in Position
    PROVE  /\ CostOf([positions EXCEPT ![pair] = new])
                = CostOf(positions) - positions[pair].qty * positions[pair].avg + new.qty * new.avg
           /\ CostOf(positions) \in Int
<1>. DEFINE after == [positions EXCEPT ![pair] = new]
            f == [p \in Pairs |-> positions[p].qty * positions[p].avg]
            g == [p \in Pairs |-> after[p].qty * after[p].avg]
<1>1. \A pos \in Position : pos.qty * pos.avg \in Int
    BY DEF Position
<1>2. /\ \A p \in Pairs : f[p] \in Int
      /\ \A p \in Pairs \ {pair} : g[p] = f[p]
      /\ g[pair] = new.qty * new.avg /\ g[pair] \in Int
      /\ f[pair] = positions[pair].qty * positions[pair].avg
    BY <1>1
<1>3. CostOf(after) = SumFunctionOnSet(g, Pairs) /\ CostOf(positions) = SumFunctionOnSet(f, Pairs)
    BY DEF CostOf
<1>. HIDE DEF after, f, g
<1>4. SumFunctionOnSet(g, Pairs) = SumFunctionOnSet(f, Pairs) - f[pair] + g[pair]
    BY <1>2, SumChanged, PortfolioAssumption
<1>5. SumFunctionOnSet(f, Pairs) \in Int
    BY <1>2, SumOverType, PortfolioAssumption
<1>. QED
    BY <1>2, <1>3, <1>4, <1>5 DEF after

\* A price marks a position and leaves its cost.
LEMMA PriceInLedger ==
    ASSUME BooksInv, NEW pair \in Pairs, NEW close \in Int, NEW when
    PROVE  \E g : /\ LedgerPrice(ledger, pair, close, when) = MaybeSnapshot(g, when)
                  /\ DOMAIN g = DOMAIN ledger
                  /\ g.cash = ledger.cash /\ g.trades = ledger.trades /\ g.curve = ledger.curve
                  /\ g.positions \in [Pairs -> Position]
                  /\ CostOf(g.positions) = CostOf(ledger.positions)
<1>1. /\ DOMAIN ledger = {"cash", "positions", "trades", "curve", "taken", "daily"}
      /\ ledger.positions \in [Pairs -> Position]
    BY DEF BooksInv, TypeOK
<1>2. CASE ledger.positions[pair] = Closed
    BY <1>1, <1>2 DEF LedgerPrice
<1>3. CASE ledger.positions[pair] # Closed
    <2>. DEFINE pos == ledger.positions[pair]
                new == [pos EXCEPT !.price = close]
                g == [ledger EXCEPT !.positions[pair].price = close]
    <2>1. LedgerPrice(ledger, pair, close, when) = MaybeSnapshot(g, when)
        BY <1>3 DEF LedgerPrice
    <2>2. new \in Position /\ new.qty = pos.qty /\ new.avg = pos.avg /\ pos.qty * pos.avg \in Int
        BY <1>1 DEF Position
    <2>3. /\ DOMAIN g = DOMAIN ledger
          /\ g.cash = ledger.cash /\ g.trades = ledger.trades /\ g.curve = ledger.curve
          /\ g.positions = [ledger.positions EXCEPT ![pair] = new]
        BY <1>1
    <2>. HIDE DEF g, new, pos
    <2>4. g.positions \in [Pairs -> Position]
        BY <1>1, <2>2, <2>3
    <2>5. /\ CostOf(g.positions) = CostOf(ledger.positions) - pos.qty * pos.avg + new.qty * new.avg
          /\ CostOf(ledger.positions) \in Int
        BY <1>1, <2>2, <2>3, CostChanged DEF pos
    <2>6. CostOf(g.positions) = CostOf(ledger.positions)
        BY <2>2, <2>5
    <2>. QED
        BY <2>1, <2>3, <2>4, <2>6
<1>. QED
    BY <1>2, <1>3
LEMMA InitLedgerInv == Init => LedgerInv /\ CostInv
<1>. SUFFICES ASSUME Init PROVE LedgerInv /\ CostInv
    OBVIOUS
<1>1. /\ ledger.trades = <<>> /\ ledger.curve = <<>> /\ ledger.cash = InitialCash /\ paid = 0
      /\ ledger.positions = [p \in Pairs |-> Closed]
    BY DEF Init, NewLedger
<1>2. TotalOf(ledger.trades) = 0
    <2>1. DOMAIN ledger.trades = {}
        BY <1>1
    <2>. QED
        BY <2>1, SumOverNone DEF TotalOf
<1>3. CostOf(ledger.positions) = 0
    <2>. DEFINE f == [p \in Pairs |-> ledger.positions[p].qty * ledger.positions[p].avg]
    <2>1. \A p \in Pairs : f[p] = 0
        BY <1>1 DEF Closed
    <2>2. CostOf(ledger.positions) = SumFunctionOnSet(f, Pairs)
        BY DEF CostOf
    <2>. HIDE DEF f
    <2>. QED
        BY <2>1, <2>2, SumOfZeros, PortfolioAssumption
<1>. QED
    BY <1>1, <1>2, <1>3, PortfolioAssumption DEF LedgerInv, CostInv

LEMMA LedgerStep ==
    ASSUME BooksInv, LedgerInv, [Next]_vars
    PROVE  LedgerInv' /\ (CostInv /\ [Exact]_vars => CostInv')
<1>1. /\ DOMAIN ledger = {"cash", "positions", "trades", "curve", "taken", "daily"}
      /\ ledger.cash \in Int /\ ledger.positions \in [Pairs -> Position] /\ paid \in Int
    BY DEF BooksInv, TypeOK
<1>2. CASE UNCHANGED <<ledger, paid>>
    BY <1>2 DEF LedgerInv, CostInv
<1>3. ASSUME NEW pair \in Pairs, NEW qty \in Int \ {0}, NEW price \in Int, NEW when \in Times,
             ledger' = LedgerFill(ledger, pair, qty, price, when), paid' = paid + qty * price
      PROVE  LedgerInv' /\ (CostInv /\ [Exact]_vars => CostInv')
    <2>1. PICK g, new, gain :
            /\ LedgerFill(ledger, pair, qty, price, when) = MaybeSnapshot(g, when)
            /\ Records(g, new, gain, pair, qty, price)
        BY FillInLedger
    <2>. DEFINE pos == ledger.positions[pair]
    <2>2. /\ new \in Position /\ gain \in Int /\ pos \in Position
          /\ g.positions = [ledger.positions EXCEPT ![pair] = new]
          /\ g.positions \in [Pairs -> Position] /\ g.cash = ledger.cash + gain /\ g.cash \in Int
          /\ DOMAIN g = DOMAIN ledger /\ g.curve \in Seq(Int)
        BY <1>1, <2>1 DEF Records, LedgerInv
    <2>3. /\ ledger'.cash = g.cash /\ ledger'.positions = g.positions
          /\ ledger'.trades = g.trades /\ ledger'.curve \in Seq(Int)
        BY <1>1, <1>3, <2>1, <2>2, SnapshotAppends, SnapshotKeepsBooks
    <2>4. g.trades \in Seq(Int) /\ g.cash = InitialCash + TotalOf(g.trades)
        <3>1. ledger.trades \in Seq(Int) /\ ledger.cash = InitialCash + TotalOf(ledger.trades)
            BY DEF LedgerInv
        <3>2. TotalOf(ledger.trades) \in Int
            BY <3>1, GrossesAgree DEF TotalOf
        <3>3. CASE g.trades = ledger.trades /\ gain = 0
            BY <1>1, <2>2, <3>1, <3>3
        <3>4. CASE g.trades = Append(ledger.trades, gain)
            <4>1. TotalOf(g.trades) = TotalOf(ledger.trades) + gain
                BY <2>2, <3>1, <3>4, TradeCounted DEF TotalOf
            <4>. QED
                BY <2>2, <3>1, <3>2, <3>4, <4>1, PortfolioAssumption
        <3>. QED
            BY <2>1, <3>3, <3>4 DEF Records
    <2>5. ASSUME CostInv, [Exact]_vars
          PROVE  CostInv'
        <3>1. ledger'.positions[pair] = new
            BY <1>1, <2>2, <2>3
        <3>2. ExactlyAdded(pos, new)
            <4>1. CASE Exact
                BY <3>1, <4>1 DEF Exact
            <4>2. CASE UNCHANGED vars
                <5>1. new = pos
                    BY <3>1, <4>2 DEF vars, books
                <5>2. ~(pos.qty * (pos.qty - pos.qty) > 0)
                    BY <2>2 DEF Position
                <5>. QED
                    BY <5>1, <5>2 DEF ExactlyAdded
            <4>. QED
                BY <2>5, <4>1, <4>2
        <3>3. qty * price = new.qty * new.avg - pos.qty * pos.avg - gain
            BY <2>1, <3>2 DEF Records
        <3>4. /\ CostOf(g.positions) = CostOf(ledger.positions) - pos.qty * pos.avg + new.qty * new.avg
              /\ CostOf(ledger.positions) \in Int
            BY <1>1, <2>2, CostChanged
        <3>5. pos.qty * pos.avg \in Int /\ new.qty * new.avg \in Int /\ qty * price \in Int
            BY <2>2 DEF Position
        <3>6. paid = InitialCash - ledger.cash + CostOf(ledger.positions)
            BY <2>5 DEF CostInv
        <3>7. \A init, cash, cost, a, b, won, more \in Int :
                more = b - a - won =>
                    (init - cash + cost) + more = init - (cash + won) + (cost - a + b)
            OBVIOUS
        <3>. HIDE DEF pos
        <3>8. (InitialCash - ledger.cash + CostOf(ledger.positions)) + qty * price
                = InitialCash - (ledger.cash + gain)
                  + (CostOf(ledger.positions) - pos.qty * pos.avg + new.qty * new.avg)
            BY <1>1, <2>2, <3>3, <3>4, <3>5, <3>7, PortfolioAssumption
        <3>9. paid' = InitialCash - ledger'.cash + CostOf(ledger'.positions)
            BY <1>3, <2>2, <2>3, <3>4, <3>6, <3>8
        <3>. QED
            BY <3>9 DEF CostInv
    <2>. QED
        BY <2>3, <2>4, <2>5 DEF LedgerInv
<1>4. ASSUME NEW pair \in Pairs, NEW close \in Int, NEW when \in Times,
             ledger' = LedgerPrice(ledger, pair, close, when), paid' = paid
      PROVE  LedgerInv' /\ (CostInv => CostInv')
    <2>1. PICK g :
            /\ LedgerPrice(ledger, pair, close, when) = MaybeSnapshot(g, when)
            /\ DOMAIN g = DOMAIN ledger
            /\ g.cash = ledger.cash /\ g.trades = ledger.trades /\ g.curve = ledger.curve
            /\ g.positions \in [Pairs -> Position]
            /\ CostOf(g.positions) = CostOf(ledger.positions)
        BY PriceInLedger
    <2>2. g.cash \in Int /\ g.curve \in Seq(Int)
        BY <1>1, <2>1 DEF LedgerInv
    <2>3. /\ ledger'.cash = ledger.cash /\ ledger'.positions = g.positions
          /\ ledger'.trades = ledger.trades /\ ledger'.curve \in Seq(Int)
        BY <1>1, <1>4, <2>1, <2>2, SnapshotAppends, SnapshotKeepsBooks
    <2>. QED
        BY <1>4, <2>1, <2>3 DEF LedgerInv, CostInv
<1>. QED
    BY <1>2, <1>3, <1>4, LedgerMoves

-----------------------------------------------------------------------------
(***************************************************************************)
(* What the reports say.                                                   *)
(***************************************************************************)

\* The profits of the metrics, by winners and losers, add up to the cash, and
\* the one pass over the curve finds the largest fall from a peak once a trade
\* was closed (metrics.py:26), a fraction while the curve is not below zero, for
\* any fills, prices, times and intervals between snapshots.
THEOREM MetricsAlwaysAgree == Spec => []MetricsAgree
<1>1. BooksInv /\ LedgerInv /\ [Next]_vars => LedgerInv'
    BY LedgerStep
<1>2. BooksInv /\ LedgerInv => MetricsAgree
    <2>. SUFFICES ASSUME BooksInv, LedgerInv PROVE MetricsAgree
        OBVIOUS
    <2>1. ledger.trades \in Seq(Int) /\ ledger.curve \in Seq(Int)
        BY DEF LedgerInv
    <2>2. Gross(ledger.trades, Winners(ledger.trades)) - Gross(ledger.trades, Losers(ledger.trades))
            = ledger.cash - InitialCash
        <3>1. /\ Gross(ledger.trades, Winners(ledger.trades))
                    - Gross(ledger.trades, Losers(ledger.trades)) = TotalOf(ledger.trades)
              /\ TotalOf(ledger.trades) \in Int
            BY <2>1, GrossesAgree DEF TotalOf
        <3>2. ledger.cash = InitialCash + TotalOf(ledger.trades)
            BY DEF LedgerInv
        <3>3. ledger.cash - InitialCash = TotalOf(ledger.trades)
            BY <3>1, <3>2, PortfolioAssumption
        <3>. QED
            BY <3>1, <3>3, Zenon
    <2>. QED
        BY <2>1, <2>2, DrawdownAgrees DEF MetricsAgree, Peak
<1>. QED
    BY <1>1, <1>2, InitLedgerInv, BooksAlways, PTL DEF Spec
ValueOf(positions) ==
    SumFunctionOnSet([p \in Pairs |-> positions[p].qty * positions[p].price], Pairs)

LEMMA ValueIsSum ==
    ASSUME BooksInv
    PROVE  /\ MapThenSumSet(LAMBDA p : ledger.positions[p].qty * ledger.positions[p].price, Pairs)
                = ValueOf(ledger.positions)
           /\ ValueOf(ledger.positions) \in Int
<1>. DEFINE f == [p \in Pairs |-> ledger.positions[p].qty * ledger.positions[p].price]
            Sums(h) == h = [T \in SUBSET Pairs |->
                              IF T = {} THEN 0
                              ELSE ledger.positions[OneOf(T)].qty * ledger.positions[OneOf(T)].price
                                      + h[T \ {OneOf(T)}]]
            chosen == CHOOSE h : Sums(h)
            Value == MapThenSumSet(LAMBDA p : ledger.positions[p].qty * ledger.positions[p].price,
                                   Pairs)
<1>1. \A T \in SUBSET Pairs : T # {} => OneOf(T) \in Pairs
    BY Zenon DEF OneOf
<1>2. \A p \in Pairs : f[p] \in Int
    BY DEF BooksInv, TypeOK, Position
<1>3. \A p \in Pairs : f[p] = ledger.positions[p].qty * ledger.positions[p].price
    OBVIOUS
<1>4. ValueOf(ledger.positions) = SumFunctionOnSet(f, Pairs)
    BY DEF ValueOf
<1>. HIDE DEF f
<1>5. \A h : Takes(h, f, Pairs) <=> Sums(h)
    <2>1. \A T \in SUBSET Pairs : T # {} =>
            f[OneOf(T)] = ledger.positions[OneOf(T)].qty * ledger.positions[OneOf(T)].price
        BY <1>1, <1>3
    <2>. QED
        BY <2>1 DEF Takes
<1>6. \E h : Sums(h)
    BY <1>2, <1>5, SumTaken, PortfolioAssumption
<1>7. Value = chosen[Pairs]
    BY DEF MapThenSumSet, MapThenFoldSet, OneOf
<1>8. Sums(chosen)
    BY <1>6
<1>. HIDE DEF Sums, chosen, Value
<1>9. chosen[Pairs] = SumFunctionOnSet(f, Pairs)
    BY <1>2, <1>5, <1>8, SumTaken, PortfolioAssumption
<1>10. SumFunctionOnSet(f, Pairs) \in Int
    BY <1>2, SumOverType, PortfolioAssumption
<1>11. Value = ValueOf(ledger.positions) /\ ValueOf(ledger.positions) \in Int
    BY <1>4, <1>7, <1>9, <1>10
<1>. QED
    BY <1>11 DEF Value

\* What is held is worth its cost and what the mark gained.
LEMMA ValueIsCostAndGain ==
    ASSUME BooksInv
    PROVE  /\ ValueOf(ledger.positions) = CostOf(ledger.positions) + UnrealizedPnl(ledger)
           /\ CostOf(ledger.positions) \in Int /\ UnrealizedPnl(ledger) \in Int
<1>. DEFINE cost == [p \in Pairs |-> ledger.positions[p].qty * ledger.positions[p].avg]
            gain == [p \in Pairs |-> Marked(ledger.positions[p])]
            value == [p \in Pairs |-> ledger.positions[p].qty * ledger.positions[p].price]
<1>1. ledger.positions \in [Pairs -> Position]
    BY DEF BooksInv, TypeOK
<1>2. \A pos \in Position :
        /\ pos.qty * pos.avg \in Int /\ Marked(pos) \in Int
        /\ pos.qty * pos.price = pos.qty * pos.avg + Marked(pos)
    BY DEF Position, Marked
<1>3. /\ \A p \in Pairs : cost[p] \in Int /\ gain[p] \in Int
      /\ \A p \in Pairs : value[p] = cost[p] + gain[p]
    BY <1>1, <1>2
<1>4. /\ ValueOf(ledger.positions) = SumFunctionOnSet(value, Pairs)
      /\ CostOf(ledger.positions) = SumFunctionOnSet(cost, Pairs)
    BY DEF ValueOf, CostOf
<1>5. UnrealizedPnl(ledger) = SumFunctionOnSet(gain, Pairs) /\ UnrealizedPnl(ledger) \in Int
    BY <1>1, UnrealizedIsSum
<1>. HIDE DEF cost, gain, value
<1>6. SumFunctionOnSet(value, Pairs)
        = SumFunctionOnSet(cost, Pairs) + SumFunctionOnSet(gain, Pairs)
    BY <1>3, SumsAdd, PortfolioAssumption
<1>7. SumFunctionOnSet(cost, Pairs) \in Int
    BY <1>3, SumOverType, PortfolioAssumption
<1>. QED
    BY <1>4, <1>5, <1>6, <1>7

\* The tracker leaves out of its sum what it does not hold, which gains nothing.
LEMMA UnrealizedAgree ==
    ASSUME BooksInv
    PROVE  Unrealized(portfolio) = UnrealizedPnl(ledger)
<1>. DEFINE gain == [p \in Pairs |-> Marked(ledger.positions[p])]
            held == Held(portfolio)
            Sums(h) == h = [T \in SUBSET held |->
                              IF T = {} THEN 0
                              ELSE (portfolio.price[OneOf(T)] - portfolio.avg[OneOf(T)])
                                      * portfolio.qty[OneOf(T)] + h[T \ {OneOf(T)}]]
            chosen == CHOOSE h : Sums(h)
<1>1. ledger.positions \in [Pairs -> Position] /\ held \in SUBSET Pairs
    BY DEF BooksInv, TypeOK, Held
<1>2. \A p \in Pairs : gain[p] \in Int
    BY <1>1, MarkIsInt
<1>3. ASSUME NEW p \in held
      PROVE  gain[p] = (portfolio.price[p] - portfolio.avg[p]) * portfolio.qty[p]
    <2>1. /\ p \in Pairs /\ portfolio.qty[p] # 0
          /\ portfolio.qty[p] = ledger.positions[p].qty /\ portfolio.avg[p] = ledger.positions[p].avg
          /\ portfolio.price[p] = ledger.positions[p].price
        BY DEF Held, BooksInv, BooksAgree, PositionsAgree
    <2>. QED
        BY <2>1 DEF Marked
<1>4. ASSUME NEW p \in Pairs \ held
      PROVE  gain[p] = 0
    <2>1. portfolio.qty[p] = 0 /\ ledger.positions[p].qty = 0
        BY DEF Held, BooksInv, BooksAgree, PositionsAgree
    <2>2. ledger.positions[p] \in Position
        BY <1>1
    <2>. QED
        BY <2>1, <2>2 DEF Marked, Position
<1>5. IsFiniteSet(Pairs) /\ IsFiniteSet(held) /\ IsFiniteSet(Pairs \ held)
    BY <1>1, PortfolioAssumption, FS_Subset, FS_Difference
<1>6. UnrealizedPnl(ledger) = SumFunctionOnSet(gain, Pairs)
    BY <1>1, UnrealizedIsSum
<1>. HIDE DEF gain
<1>7. \A h : Takes(h, gain, held) <=> Sums(h)
    <2>1. \A T \in SUBSET held : T # {} => OneOf(T) \in held
        BY Zenon DEF OneOf
    <2>2. \A T \in SUBSET held : T # {} =>
            gain[OneOf(T)] = (portfolio.price[OneOf(T)] - portfolio.avg[OneOf(T)])
                                * portfolio.qty[OneOf(T)]
        BY <1>3, <2>1
    <2>. HIDE DEF held
    <2>. QED
        BY <2>2 DEF Takes
<1>8. \A p \in held : gain[p] \in Int
    BY <1>1, <1>2
<1>9. \E h : Sums(h)
    <2>. HIDE DEF held, Sums
    <2>. QED
        BY <1>5, <1>7, <1>8, SumTaken
<1>10. Unrealized(portfolio) = chosen[held]
    BY DEF Unrealized, MapThenSumSet, MapThenFoldSet, OneOf
<1>11. Sums(chosen)
    BY <1>9
<1>. HIDE DEF Sums, chosen, held
<1>12. chosen[held] = SumFunctionOnSet(gain, held)
    BY <1>5, <1>7, <1>8, <1>11, SumTaken
<1>13. SumFunctionOnSet(gain, Pairs)
        = SumFunctionOnSet(gain, held) + SumFunctionOnSet(gain, Pairs \ held)
    BY <1>1, <1>2, <1>5, SumOfParts
<1>14. SumFunctionOnSet(gain, Pairs \ held) = 0
    BY <1>4, <1>5, SumOfZeros
<1>15. SumFunctionOnSet(gain, held) \in Int
    BY <1>5, <1>8, SumOverType
<1>. QED
    BY <1>6, <1>10, <1>12, <1>13, <1>14, <1>15

\* The limits and the reports see the same equity (portfolio.py:173, ledger.py:180).
EquityAgrees == Snapshot(portfolio).equity = EquityOf(ledger)

LEMMA EquitiesAgree == BooksInv => EquityAgrees
<1>. SUFFICES ASSUME BooksInv PROVE EquityAgrees
    OBVIOUS
<1>1. portfolio.cash = ledger.cash
    BY DEF BooksInv, BooksAgree, ProfitAgrees
<1>. QED
    BY <1>1, UnrealizedAgree DEF EquityAgrees, Snapshot, EquityOf

\* Whatever was rounded, the portfolio's equity and the ledger's are one number.
THEOREM EquityAlwaysAgrees == Spec => []EquityAgrees
BY EquitiesAgree, BooksAlways, PTL

\* All equity is accounted for: it is what there was at first and what was
\* received in the fills, less what was paid, with what is held at its mark
\* (ledger.py:69).  This is of averages that come out even in the unit of money,
\* which Exact says of the fills that add to a position: an average that is
\* rounded shifts profit between what is held and what will be realized.
THEOREM EquityAlwaysAccounted == Spec /\ [][Exact]_vars => []EquityAccounted
<1>1. BooksInv /\ LedgerInv /\ [Next]_vars => LedgerInv'
    BY LedgerStep
<1>2. BooksInv /\ LedgerInv /\ CostInv /\ [Next]_vars /\ [Exact]_vars => CostInv'
    BY LedgerStep
<1>3. BooksInv /\ CostInv => EquityAccounted
    <2>. SUFFICES ASSUME BooksInv, CostInv PROVE EquityAccounted
        OBVIOUS
    <2>1. /\ ValueOf(ledger.positions) = CostOf(ledger.positions) + UnrealizedPnl(ledger)
          /\ CostOf(ledger.positions) \in Int /\ UnrealizedPnl(ledger) \in Int
        BY ValueIsCostAndGain
    <2>2. paid = InitialCash - ledger.cash + CostOf(ledger.positions)
        BY DEF CostInv
    <2>3. ledger.cash \in Int
        BY DEF BooksInv, TypeOK
    <2>4. \A init, cash, cost, gain \in Int :
            cash + gain = init - (init - cash + cost) + (cost + gain)
        OBVIOUS
    <2>5. EquityOf(ledger) = InitialCash - paid + ValueOf(ledger.positions)
        BY <2>1, <2>2, <2>3, <2>4, PortfolioAssumption DEF EquityOf
    <2>6. Snapshot(portfolio).equity = EquityOf(ledger)
        BY EquitiesAgree DEF EquityAgrees
    <2>. QED
        BY <2>5, <2>6, ValueIsSum, Zenon DEF EquityAccounted
<1>. QED
    BY <1>1, <1>2, <1>3, InitLedgerInv, BooksAlways, PTL DEF Spec
=============================================================================
