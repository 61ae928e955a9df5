----------------------------- MODULE LiveProofs -----------------------------
(***************************************************************************)
(* Live trading, for any trades, prices, windows, barriers, sources'       *)
(* priorities, workers and room in the pool: handlers get the events of a  *)
(* source in order, a position that is still open has hit no barrier that  *)
(* closes it, and a trade that was taken is in the bar of its window, but  *)
(* for those that the code leaves out.                                     *)
(***************************************************************************)
EXTENDS LiveTrading, Foundations, TLAPS, FiniteSetTheorems, SequenceTheorems

IsOf(item, s) == item.kind = "event" /\ item.source = s

\* What handlers got of a source is not later than what waits, which is in
\* order, and that is not later than the last event the loop took from it.
InTurn ==
    /\ \A s \in SourceSet : begun[s] <= prevDt[s]
    /\ \A i \in 1..Len(waiting), s \in SourceSet :
        IsOf(waiting[i], s) =>
            begun[s] <= waiting[i].event.when /\ waiting[i].event.when <= prevDt[s]
    /\ \A i, j \in 1..Len(waiting), s \in SourceSet :
        i < j /\ IsOf(waiting[i], s) /\ IsOf(waiting[j], s) =>
            waiting[i].event.when <= waiting[j].event.when
    /\ \A s \in SourceSet : IsOf(eventHeld, s) => eventHeld.event.when = prevDt[s]

\* What the aggregator a holds is the last part of what was accepted, in order;
\* what came before is of windows that were flushed.
Holds(a, list) ==
    LET n == Len(list)
        m == Len(a.trades)
    IN  /\ m <= n
        /\ \A k \in 1..m : a.trades[k] = list[n - m + k].trade
        /\ \A k \in 1..(n - m) : list[k].trade.when < a.begin
        /\ \A i, j \in 1..n : i < j => list[i].trade.when <= list[j].trade.when
        /\ \A i \in 1..n : list[i].trade.when <= a.nextGe /\ list[i].open <= a.begin

\* The windows before the one that begins then, but not before the first one.
Earlier(first, begin) == {b \in first..(begin - 1) : b % BarDuration = 0}

\* The window that is open is one, trades of those before it are no longer
\* accepted, and only the first one may be skipped.
Opened(a, published, first) ==
    /\ \E q \in Nat : a.begin = BarDuration * q
    /\ a.begin < first <=> a.skip
    /\ first <= a.begin + BarDuration
    /\ \A b \in Earlier(first, a.begin) : End(b) <= a.nextGe
    /\ \A i \in 1..Len(published) : published[i].begin \in Earlier(first, a.begin)
-----------------------------------------------------------------------------
(***************************************************************************)
(* Lists that are made of some elements of another one, in order: h holds  *)
(* what was made of the first ones, which are values v, those of I.        *)
(***************************************************************************)
Filters(h, n, I, v, X) ==
    /\ h \in [0..n -> Seq(X)]
    /\ h[0] = <<>>
    /\ \A k \in 1..n : h[k] = IF k \in I THEN Append(h[k - 1], v[k]) ELSE h[k - 1]

Filtered(list, n, I, v, X) == \E h : Filters(h, n, I, v, X) /\ list = h[n]

\* The same, as the community modules fold a list.
Selects(g, n, I, v) ==
    g = [S \in SUBSET (1..n) |->
            IF S = {} THEN <<>>
            ELSE IF Max(S) \in I THEN Append(g[S \ {Max(S)}], v[Max(S)])
                 ELSE g[S \ {Max(S)}]]

LEMMA SelectionExists ==
    ASSUME NEW X, NEW n \in Nat, NEW I, NEW v, \A k \in 1..n : k \in I => v[k] \in X
    PROVE  \E g : Selects(g, n, I, v)
<1>. DEFINE B == Seq(X)
            F == [a \in B \X (1..n) |-> IF a[2] \in I THEN Append(a[1], v[a[2]]) ELSE a[1]]
            base == <<>>
<1>1. base \in B /\ \A b \in B, x \in X : Append(b, x) \in B
    OBVIOUS
<1>2. \A b \in B, k \in 1..n : F[<<b, k>>] = IF k \in I THEN Append(b, v[k]) ELSE b
    OBVIOUS
<1>3. F \in [B \X (1..n) -> B]
    <2>. SUFFICES ASSUME NEW a \in B \X (1..n)
                  PROVE  (IF a[2] \in I THEN Append(a[1], v[a[2]]) ELSE a[1]) \in B
        OBVIOUS
    <2>1. a[1] \in B /\ a[2] \in 1..n
        OBVIOUS
    <2>. QED
        BY <1>1, <2>1
<1>. HIDE DEF F, B, base
<1>4. PICK g : IsFold(g, B, base, n, F)
    BY <1>1, <1>3, FoldExists
<1>. g \in [SUBSET (1..n) -> B]
    BY <1>4 DEF IsFold
<1>5. ASSUME NEW S \in SUBSET (1..n), S # {}
      PROVE  F[<<g[S \ {Max(S)}], Max(S)>>]
             = IF Max(S) \in I THEN Append(g[S \ {Max(S)}], v[Max(S)]) ELSE g[S \ {Max(S)}]
    <2>1. IsFiniteSet(1..n)
        BY FS_Interval
    <2>2. IsFiniteSet(S)
        BY <2>1, FS_Subset
    <2>3. S \in SUBSET Int
        OBVIOUS
    <2>. Max(S) \in S
        BY <1>5, <2>2, <2>3, MaxIsGreatest
    <2>4. Max(S) \in 1..n /\ g[S \ {Max(S)}] \in B
        OBVIOUS
    <2>. QED
        BY <1>2, <2>4
<1>. QED
    <2>1. g = [S \in SUBSET (1..n) |-> g[S]]
        OBVIOUS
    <2>2. \A S \in SUBSET (1..n) :
            g[S] = IF S = {} THEN <<>>
                   ELSE IF Max(S) \in I THEN Append(g[S \ {Max(S)}], v[Max(S)])
                        ELSE g[S \ {Max(S)}]
        BY <1>4, <1>5 DEF IsFold, base
    <2>. QED
        BY <2>1, <2>2, Zenon DEF Selects

LEMMA SelectionFilters ==
    ASSUME NEW X, NEW n \in Nat, NEW I, NEW v, \A k \in 1..n : k \in I => v[k] \in X,
           NEW g, Selects(g, n, I, v)
    PROVE  Filtered(g[1..n], n, I, v, X)
<1>. DEFINE f == [k \in 0..n |-> g[1..k]]
<1>1. PICK h : h = f
    OBVIOUS
<1>2. DOMAIN h = 0..n /\ h = [k \in 0..n |-> h[k]] /\ \A k \in 0..n : h[k] = g[1..k]
    BY <1>1
<1>. HIDE DEF f
<1>. DEFINE Good == {k \in Nat : k <= n => h[k] \in Seq(X)}
<1>3. \A S \in SUBSET (1..n) :
        g[S] = IF S = {} THEN <<>>
               ELSE IF Max(S) \in I THEN Append(g[S \ {Max(S)}], v[Max(S)])
                    ELSE g[S \ {Max(S)}]
    BY Zenon DEF Selects
<1>4. h[0] = <<>>
    <2>1. 1..0 = {} /\ {} \in SUBSET (1..n) /\ 0 \in 0..n
        OBVIOUS
    <2>2. g[{}] = <<>>
        BY <1>3, <2>1
    <2>. QED
        BY <1>2, <2>1, <2>2
<1>5. ASSUME NEW k \in 1..n
      PROVE  h[k] = IF k \in I THEN Append(h[k - 1], v[k]) ELSE h[k - 1]
    <2>1. Max(1..k) = k /\ (1..k) \ {k} = 1..(k - 1) /\ 1..k # {}
        BY SegmentMax, k \in Nat \ {0}
    <2>2. 1..k \in SUBSET (1..n) /\ k \in 0..n /\ k - 1 \in 0..n
        OBVIOUS
    <2>3. g[1..k] = IF k \in I THEN Append(g[1..(k - 1)], v[k]) ELSE g[1..(k - 1)]
        BY <1>3, <2>1, <2>2
    <2>4. h[k] = g[1..k] /\ h[k - 1] = g[1..(k - 1)]
        BY <1>2, <2>2
    <2>. QED
        BY <2>3, <2>4
<1>6. 0 \in Good
    BY <1>4, EmptySeq
<1>7. ASSUME NEW k \in Nat, k \in Good
      PROVE  k + 1 \in Good
    <2>1. CASE k + 1 <= n
        <3>1. k + 1 \in 1..n /\ (k + 1) - 1 = k /\ h[k] \in Seq(X)
            BY <1>7, <2>1
        <3>2. h[k + 1] = IF k + 1 \in I THEN Append(h[k], v[k + 1]) ELSE h[k]
            BY <1>5, <3>1
        <3>3. k + 1 \in I => v[k + 1] \in X
            BY <3>1
        <3>4. h[k + 1] \in Seq(X)
            BY <3>1, <3>2, <3>3
        <3>. QED
            BY <3>4
    <2>. QED
        BY <2>1
<1>8. \A k \in Nat : k \in Good
    <2>. HIDE DEF Good
    <2>. QED
        BY <1>6, <1>7, InductionOverNat
<1>9. h \in [0..n -> Seq(X)]
    BY <1>2, <1>8
<1>10. h[n] = g[1..n]
    BY <1>2
<1>. QED
    BY <1>4, <1>5, <1>9, <1>10 DEF Filters, Filtered

\* What comes before, and what comes after, may be left out when none of it is taken.
Agree(d, m, n, I, J, v, w) ==
    /\ d + m <= n
    /\ \A k \in 1..d : k \notin I
    /\ \A k \in 1..m : (d + k \in I <=> k \in J) /\ v[d + k] = w[k]
    /\ \A k \in (d + m + 1)..n : k \notin I

LEMMA FiltersAgree ==
    ASSUME NEW X, NEW n \in Nat, NEW m \in Nat, NEW d \in Nat, NEW I, NEW J, NEW v, NEW w,
           NEW long, NEW short, Filtered(long, n, I, v, X), Filtered(short, m, J, w, X),
           Agree(d, m, n, I, J, v, w)
    PROVE  long = short
<1>. USE DEF Agree
<1>1. PICK h : Filters(h, n, I, v, X) /\ long = h[n]
    BY DEF Filtered
<1>2. PICK f : Filters(f, m, J, w, X) /\ short = f[m]
    BY DEF Filtered
<1>. USE <1>1, <1>2
<1>. DEFINE Early == {k \in Nat : k <= d => h[k] = <<>>}
            Same == {k \in Nat : k <= m => h[d + k] = f[k]}
            Late == {k \in Nat : d + m + k <= n => h[d + m + k] = h[d + m]}
<1>3. \A k \in Nat : k \in Early
    <2>1. 0 \in Early
        BY DEF Filters
    <2>2. ASSUME NEW k \in Nat, k \in Early
          PROVE  k + 1 \in Early
        <3>1. CASE k + 1 <= d
            <4>1. k + 1 \in 1..d /\ k + 1 \in 1..n /\ (k + 1) - 1 = k
                BY <3>1
            <4>. QED
                BY <2>2, <4>1 DEF Filters
        <3>. QED
            BY <3>1
    <2>. HIDE DEF Early
    <2>. QED
        BY <2>1, <2>2, InductionOverNat
<1>4. \A k \in Nat : k \in Same
    <2>1. 0 \in Same
        BY <1>3 DEF Filters
    <2>2. ASSUME NEW k \in Nat, k \in Same
          PROVE  k + 1 \in Same
        <3>1. CASE k + 1 <= m
            <4>1. k + 1 \in 1..m /\ (k + 1) - 1 = k /\ d + (k + 1) \in 1..n
                  /\ (d + (k + 1)) - 1 = d + k
                BY <3>1
            <4>2. f[k + 1] = IF k + 1 \in J THEN Append(f[k], w[k + 1]) ELSE f[k]
                BY <4>1 DEF Filters
            <4>3. h[d + (k + 1)] = IF d + (k + 1) \in I THEN Append(h[d + k], v[d + (k + 1)])
                                   ELSE h[d + k]
                BY <4>1 DEF Filters
            <4>4. h[d + k] = f[k]
                BY <2>2, <3>1
            <4>5. (d + (k + 1) \in I <=> k + 1 \in J) /\ v[d + (k + 1)] = w[k + 1]
                BY <4>1
            <4>. QED
                BY <4>2, <4>3, <4>4, <4>5
        <3>. QED
            BY <3>1
    <2>. HIDE DEF Same
    <2>. QED
        BY <2>1, <2>2, InductionOverNat
<1>5. \A k \in Nat : k \in Late
    <2>1. 0 \in Late
        OBVIOUS
    <2>2. ASSUME NEW k \in Nat, k \in Late
          PROVE  k + 1 \in Late
        <3>1. CASE d + m + (k + 1) <= n
            <4>1. d + m + (k + 1) \in (d + m + 1)..n /\ d + m + (k + 1) \in 1..n
                  /\ (d + m + (k + 1)) - 1 = d + m + k
                BY <3>1
            <4>2. h[d + m + (k + 1)] = h[d + m + k]
                BY <4>1 DEF Filters
            <4>. QED
                BY <2>2, <3>1, <4>2
        <3>. QED
            BY <3>1
    <2>. HIDE DEF Late
    <2>. QED
        BY <2>1, <2>2, InductionOverNat
<1>6. h[d + m] = f[m]
    BY <1>4
<1>7. n - (d + m) \in Nat /\ d + m + (n - (d + m)) = n
    OBVIOUS
<1>8. h[n] = h[d + m]
    <2>1. n - (d + m) \in Late
        BY <1>5, <1>7
    <2>. QED
        BY <1>7, <2>1
<1>. QED
    BY <1>6, <1>8
-----------------------------------------------------------------------------
(***************************************************************************)
(* The aggregator.                                                         *)
(***************************************************************************)
Aggregators == [trades : Seq(Trades), nextGe : Nat, skip : BOOLEAN, begin : Nat]
Records == [trade : Trades, open : Nat]

\* The first trades are those up to one of a future window.
LEMMA CurrentTrades ==
    ASSUME NEW a \in Aggregators
    PROVE  \E c \in 0..Len(a.trades) :
            /\ Current(a) \in Seq(Trades) /\ Len(Current(a)) = c
            /\ \A k \in 1..c : Current(a)[k] = a.trades[k] /\ a.trades[k].when <= End(a.begin)
            /\ c < Len(a.trades) => a.trades[c + 1].when > End(a.begin)
<1>. DEFINE trades == a.trades
            n == Len(trades)
            future == {i \in DOMAIN trades : trades[i].when > End(a.begin)}
            first == CHOOSE i \in future : \A j \in future : i <= j
<1>1. trades \in Seq(Trades) /\ n \in Nat /\ DOMAIN trades = 1..n /\ a.begin \in Nat
    BY DEF Aggregators
<1>2. End(a.begin) \in Int /\ \A i \in 1..n : trades[i].when \in Nat
    <2>1. \A i \in 1..n : trades[i] \in Trades
        BY <1>1
    <2>. HIDE DEF trades, n
    <2>. QED
        BY <1>1, <2>1, BarAssumption DEF End, Trades
<1>3. CASE future = {}
    <2>1. Current(a) = trades
        BY <1>3 DEF Current
    <2>2. \A k \in 1..n : trades[k].when <= End(a.begin)
        BY <1>1, <1>2, <1>3
    <2>. QED
        BY <1>1, <2>1, <2>2
<1>4. CASE future # {}
    <2>1. future \in SUBSET Nat
        BY <1>1
    <2>2. \E i \in future : \A j \in future : i <= j
        BY <1>4, <2>1, MinIsLeast
    <2>3. PICK f : f = first
        OBVIOUS
    <2>4. f \in future /\ \A j \in future : f <= j
        BY <2>2, <2>3
    <2>5. PICK c : c = f - 1
        OBVIOUS
    <2>6. f \in 1..n /\ trades[f].when > End(a.begin)
        BY <1>1, <2>4
    <2>7. /\ c + 1 = f /\ c \in 0..n /\ c < n
          /\ \A k \in 1..c : k \notin future
        <3>. HIDE DEF future, trades, n
        <3>. QED
            BY <1>1, <2>4, <2>5, <2>6
    <2>8. \A k \in 1..c : trades[k].when <= End(a.begin)
        BY <1>1, <1>2, <2>7
    <2>9. Current(a) = SubSeq(trades, 1, c)
        BY <1>4, <2>3, <2>5 DEF Current
    <2>. HIDE DEF first, future
    <2>10. /\ SubSeq(trades, 1, c) \in Seq(Trades) /\ Len(SubSeq(trades, 1, c)) = c
           /\ \A k \in 1..c : SubSeq(trades, 1, c)[k] = trades[k]
        BY <1>1, <2>7, SubSeqProperties
    <2>. QED
        BY <2>6, <2>7, <2>8, <2>9, <2>10
<1>. QED
    BY <1>3, <1>4

\* Of those, the ones of the window.
Kept(list, begin) == {i \in 1..Len(list) : list[i].when >= begin}

LEMMA InWindowFilters ==
    ASSUME NEW a \in Aggregators
    PROVE  Filtered(InWindow(a), Len(Current(a)), Kept(Current(a), a.begin), Current(a), Trades)
<1>. DEFINE Folds(g, list) ==
                g = [S \in SUBSET DOMAIN list |->
                        IF S = {} THEN <<>>
                        ELSE IF list[Max(S)].when >= a.begin
                             THEN Append(g[S \ {Max(S)}], list[Max(S)])
                             ELSE g[S \ {Max(S)}]]
            chosen == CHOOSE g : Folds(g, Current(a))
<1>1. InWindow(a) = chosen[DOMAIN Current(a)]
    BY DEF InWindow, FoldLeft, MapThenFoldSet
<1>2. PICK list : list = Current(a)
    OBVIOUS
<1>3. list \in Seq(Trades) /\ Len(list) \in Nat /\ DOMAIN list = 1..Len(list)
    BY <1>2, CurrentTrades
<1>4. \A k \in 1..Len(list) : list[k] \in Trades
    BY <1>3
<1>5. \A g : Selects(g, Len(list), Kept(list, a.begin), list) <=> Folds(g, list)
    <2>. SUFFICES ASSUME NEW S \in SUBSET (1..Len(list)), S # {}
                  PROVE  Max(S) \in Kept(list, a.begin) <=> list[Max(S)].when >= a.begin
        BY <1>3 DEF Selects
    <2>1. IsFiniteSet(1..Len(list))
        BY <1>3, FS_Interval
    <2>2. IsFiniteSet(S)
        BY <2>1, FS_Subset
    <2>3. S \in SUBSET Int
        OBVIOUS
    <2>. Max(S) \in S
        BY <2>2, <2>3, MaxIsGreatest
    <2>. QED
        BY DEF Kept
<1>6. \E g : Selects(g, Len(list), Kept(list, a.begin), list)
    BY <1>3, <1>4, SelectionExists
<1>7. Folds(chosen, Current(a))
    <2>. HIDE DEF Folds
    <2>1. \E g : Folds(g, list)
        BY <1>5, <1>6, Zenon
    <2>. QED
        BY <1>2, <2>1, Zenon
<1>8. PICK g : g = chosen
    OBVIOUS
<1>. HIDE DEF chosen
<1>9. Selects(g, Len(list), Kept(list, a.begin), list)
    BY <1>2, <1>5, <1>7, <1>8
<1>. HIDE DEF Folds
<1>10. Filtered(g[1..Len(list)], Len(list), Kept(list, a.begin), list, Trades)
    <2>1. \A k \in 1..Len(list) : k \in Kept(list, a.begin) => list[k] \in Trades
        BY <1>4
    <2>. QED
        BY <1>3, <1>9, <2>1, SelectionFilters
<1>. QED
    BY <1>1, <1>2, <1>3, <1>8, <1>10

\* The trades of a window, of those that were accepted.
TradesIn(list, begin) ==
    FoldLeft(LAMBDA found, a : IF Its(a, begin) THEN Append(found, a.trade) ELSE found, <<>>, list)

ItsOf(list, begin) ==
    {i \in 1..Len(list) : list[i].trade.when \in begin..End(begin) /\ list[i].open <= begin}

TradeOf(list) == [i \in 1..Len(list) |-> list[i].trade]

LEMMA TradesFilter ==
    ASSUME NEW list \in Seq(Records), NEW begin \in Nat
    PROVE  Filtered(TradesIn(list, begin), Len(list), ItsOf(list, begin), TradeOf(list), Trades)
<1>. DEFINE Folds(g) ==
                g = [S \in SUBSET DOMAIN list |->
                        IF S = {} THEN <<>>
                        ELSE IF list[Max(S)].trade.when \in begin..End(begin)
                                /\ list[Max(S)].open <= begin
                             THEN Append(g[S \ {Max(S)}], list[Max(S)].trade)
                             ELSE g[S \ {Max(S)}]]
            chosen == CHOOSE g : Folds(g)
<1>1. TradesIn(list, begin) = chosen[DOMAIN list]
    BY DEF TradesIn, Its, FoldLeft, MapThenFoldSet
<1>2. Len(list) \in Nat /\ DOMAIN list = 1..Len(list)
    OBVIOUS
<1>3. \A k \in 1..Len(list) : TradeOf(list)[k] \in Trades
    <2>1. \A k \in 1..Len(list) : list[k] \in Records
        OBVIOUS
    <2>. QED
        BY <2>1 DEF TradeOf, Records
<1>4. \A g : Selects(g, Len(list), ItsOf(list, begin), TradeOf(list)) <=> Folds(g)
    <2>. SUFFICES ASSUME NEW S \in SUBSET (1..Len(list)), S # {}
                  PROVE  /\ Max(S) \in ItsOf(list, begin)
                            <=> (list[Max(S)].trade.when \in begin..End(begin) /\ list[Max(S)].open <= begin)
                         /\ TradeOf(list)[Max(S)] = list[Max(S)].trade
        BY <1>2 DEF Selects
    <2>1. IsFiniteSet(1..Len(list))
        BY <1>2, FS_Interval
    <2>2. IsFiniteSet(S)
        BY <2>1, FS_Subset
    <2>3. S \in SUBSET Int
        OBVIOUS
    <2>. Max(S) \in S
        BY <2>2, <2>3, MaxIsGreatest
    <2>. QED
        BY DEF ItsOf, TradeOf
<1>5. \E g : Selects(g, Len(list), ItsOf(list, begin), TradeOf(list))
    BY <1>2, <1>3, SelectionExists
<1>6. Folds(chosen)
    BY <1>4, <1>5
<1>7. PICK g : g = chosen
    OBVIOUS
<1>. HIDE DEF chosen
<1>8. Selects(g, Len(list), ItsOf(list, begin), TradeOf(list))
    BY <1>4, <1>6, <1>7
<1>. HIDE DEF Folds
<1>9. Filtered(g[1..Len(list)], Len(list), ItsOf(list, begin), TradeOf(list), Trades)
    <2>1. \A k \in 1..Len(list) : k \in ItsOf(list, begin) => TradeOf(list)[k] \in Trades
        BY <1>3
    <2>. QED
        BY <1>2, <1>8, <2>1, SelectionFilters
<1>. QED
    BY <1>1, <1>2, <1>7, <1>9
-----------------------------------------------------------------------------
(***************************************************************************)
(* The highest and the lowest price of a bar.                              *)
(***************************************************************************)
Climbs(g, n, base, v) ==
    g = [S \in SUBSET (1..n) |->
            IF S = {} THEN base ELSE Later(g[S \ {Max(S)}], v[Max(S)])]

LEMMA ClimbExists ==
    ASSUME NEW n \in Nat, NEW base \in Int, NEW v, \A k \in 1..n : v[k] \in Int
    PROVE  \E g : Climbs(g, n, base, v)
<1>. DEFINE F == [a \in Int \X (1..n) |-> Later(a[1], v[a[2]])]
<1>1. \A b \in Int, k \in 1..n : F[<<b, k>>] = Later(b, v[k])
    OBVIOUS
<1>2. F \in [Int \X (1..n) -> Int]
    BY DEF Later
<1>. HIDE DEF F
<1>3. PICK g : IsFold(g, Int, base, n, F)
    BY <1>2, FoldExists
<1>. g \in [SUBSET (1..n) -> Int]
    BY <1>3 DEF IsFold
<1>4. ASSUME NEW S \in SUBSET (1..n), S # {}
      PROVE  F[<<g[S \ {Max(S)}], Max(S)>>] = Later(g[S \ {Max(S)}], v[Max(S)])
    <2>1. IsFiniteSet(1..n)
        BY FS_Interval
    <2>2. IsFiniteSet(S)
        BY <2>1, FS_Subset
    <2>3. S \in SUBSET Int
        OBVIOUS
    <2>. Max(S) \in S
        BY <1>4, <2>2, <2>3, MaxIsGreatest
    <2>4. Max(S) \in 1..n /\ g[S \ {Max(S)}] \in Int
        OBVIOUS
    <2>. QED
        BY <1>1, <2>4
<1>. QED
    <2>1. g = [S \in SUBSET (1..n) |-> g[S]]
        OBVIOUS
    <2>2. \A S \in SUBSET (1..n) :
            g[S] = IF S = {} THEN base ELSE Later(g[S \ {Max(S)}], v[Max(S)])
        BY <1>3, <1>4 DEF IsFold
    <2>. QED
        BY <2>1, <2>2, Zenon DEF Climbs

LEMMA ClimbType ==
    ASSUME NEW n \in Nat, NEW base \in Int, NEW v, \A k \in 1..n : v[k] \in Int,
           NEW g, Climbs(g, n, base, v)
    PROVE  g[1..n] \in Int
<1>. DEFINE Good == {k \in Nat : k <= n => g[1..k] \in Int}
<1>1. \A S \in SUBSET (1..n) :
        g[S] = IF S = {} THEN base ELSE Later(g[S \ {Max(S)}], v[Max(S)])
    BY Zenon DEF Climbs
<1>2. 0 \in Good
    <2>1. 1..0 = {} /\ {} \in SUBSET (1..n)
        OBVIOUS
    <2>2. g[{}] = base
        BY <1>1, <2>1
    <2>. QED
        BY <2>1, <2>2
<1>3. ASSUME NEW k \in Nat, k \in Good
      PROVE  k + 1 \in Good
    <2>1. CASE k + 1 <= n
        <3>1. g[1..k] \in Int /\ v[k + 1] \in Int
            BY <1>3, <2>1
        <3>2. Max(1..(k + 1)) = k + 1 /\ (1..(k + 1)) \ {k + 1} = 1..k /\ 1..(k + 1) # {}
            BY SegmentMax, k + 1 \in Nat \ {0}, (k + 1) - 1 = k
        <3>3. 1..(k + 1) \in SUBSET (1..n)
            BY <2>1
        <3>4. g[1..(k + 1)] = Later(g[1..k], v[k + 1])
            BY <1>1, <3>2, <3>3
        <3>. QED
            BY <3>1, <3>4 DEF Later
    <2>. QED
        BY <2>1
<1>4. \A k \in Nat : k \in Good
    <2>. HIDE DEF Good
    <2>. QED
        BY <1>2, <1>3, InductionOverNat
<1>. QED
    BY <1>4

\* What is the greatest of prices that are seen one after the other is an integer,
\* of prices as they are and of negated ones.
Highest(trades) == FoldLeft(LAMBDA p, t : Later(p, t.price), trades[1].price, trades)
Lowest(trades) == FoldLeft(LAMBDA p, t : Later(p, -t.price), -trades[1].price, trades)

LEMMA PricesSeen ==
    ASSUME NEW trades \in Seq(Trades), trades # <<>>
    PROVE  /\ trades[1].price \in Prices /\ trades[Len(trades)].price \in Prices
           /\ \A k \in 1..Len(trades) : trades[k].price \in Int
<1>1. \A k \in 1..Len(trades) : trades[k] \in Trades
    OBVIOUS
<1>2. 1 \in 1..Len(trades) /\ Len(trades) \in 1..Len(trades)
    OBVIOUS
<1>. QED
    BY <1>1, <1>2, LiveAssumption DEF Trades

LEMMA HighestType ==
    ASSUME NEW trades \in Seq(Trades), trades # <<>>
    PROVE  Highest(trades) \in Int
<1>. DEFINE base == trades[1].price
            v == [k \in 1..Len(trades) |-> trades[k].price]
            Folds(g) == g = [S \in SUBSET DOMAIN trades |->
                                IF S = {} THEN base
                                ELSE Later(g[S \ {Max(S)}], trades[Max(S)].price)]
            chosen == CHOOSE g : Folds(g)
<1>1. Highest(trades) = chosen[DOMAIN trades]
    BY DEF Highest, FoldLeft, MapThenFoldSet
<1>2. Len(trades) \in Nat /\ DOMAIN trades = 1..Len(trades) /\ base \in Int
      /\ \A k \in 1..Len(trades) : v[k] \in Int
    BY PricesSeen, LiveAssumption
<1>3. \A g : Climbs(g, Len(trades), base, v) <=> Folds(g)
    <2>. SUFFICES ASSUME NEW S \in SUBSET (1..Len(trades)), S # {}
                  PROVE  v[Max(S)] = trades[Max(S)].price
        BY <1>2 DEF Climbs
    <2>1. IsFiniteSet(1..Len(trades))
        BY <1>2, FS_Interval
    <2>2. IsFiniteSet(S)
        BY <2>1, FS_Subset
    <2>3. S \in SUBSET Int
        OBVIOUS
    <2>. Max(S) \in S
        BY <2>2, <2>3, MaxIsGreatest
    <2>. QED
        OBVIOUS
<1>. HIDE DEF v, base
<1>4. \E g : Climbs(g, Len(trades), base, v)
    BY <1>2, ClimbExists
<1>5. Folds(chosen)
    BY <1>3, <1>4
<1>6. PICK g : g = chosen
    OBVIOUS
<1>. HIDE DEF chosen
<1>7. Climbs(g, Len(trades), base, v)
    BY <1>3, <1>5, <1>6
<1>. HIDE DEF Folds
<1>. QED
    BY <1>1, <1>2, <1>6, <1>7, ClimbType

LEMMA LowestType ==
    ASSUME NEW trades \in Seq(Trades), trades # <<>>
    PROVE  Lowest(trades) \in Int
<1>. DEFINE base == -trades[1].price
            v == [k \in 1..Len(trades) |-> -trades[k].price]
            Folds(g) == g = [S \in SUBSET DOMAIN trades |->
                                IF S = {} THEN base
                                ELSE Later(g[S \ {Max(S)}], -trades[Max(S)].price)]
            chosen == CHOOSE g : Folds(g)
<1>1. Lowest(trades) = chosen[DOMAIN trades]
    BY DEF Lowest, FoldLeft, MapThenFoldSet
<1>2. Len(trades) \in Nat /\ DOMAIN trades = 1..Len(trades) /\ base \in Int
      /\ \A k \in 1..Len(trades) : v[k] \in Int
    BY PricesSeen, LiveAssumption
<1>3. \A g : Climbs(g, Len(trades), base, v) <=> Folds(g)
    <2>. SUFFICES ASSUME NEW S \in SUBSET (1..Len(trades)), S # {}
                  PROVE  v[Max(S)] = -trades[Max(S)].price
        BY <1>2 DEF Climbs
    <2>1. IsFiniteSet(1..Len(trades))
        BY <1>2, FS_Interval
    <2>2. IsFiniteSet(S)
        BY <2>1, FS_Subset
    <2>3. S \in SUBSET Int
        OBVIOUS
    <2>. Max(S) \in S
        BY <2>2, <2>3, MaxIsGreatest
    <2>. QED
        OBVIOUS
<1>. HIDE DEF v, base
<1>4. \E g : Climbs(g, Len(trades), base, v)
    BY <1>2, ClimbExists
<1>5. Folds(chosen)
    BY <1>3, <1>4
<1>6. PICK g : g = chosen
    OBVIOUS
<1>. HIDE DEF chosen
<1>7. Climbs(g, Len(trades), base, v)
    BY <1>3, <1>5, <1>6
<1>. HIDE DEF Folds
<1>. QED
    BY <1>1, <1>2, <1>6, <1>7, ClimbType

LEMMA BarType ==
    ASSUME NEW begin \in Nat, NEW trades \in Seq(Trades), trades # <<>>
    PROVE  BarOf(begin, trades) \in BarEvents
<1>1. Highest(trades) \in Int /\ Lowest(trades) \in Int
    BY HighestType, LowestType
<1>2. -Lowest(trades) \in Int /\ Len(trades) \in Nat /\ End(begin) \in Nat
    BY <1>1, BarAssumption DEF End
<1>3. BarOf(begin, trades) = [begin |-> begin, when |-> End(begin),
                              open |-> trades[1].price, close |-> trades[Len(trades)].price,
                              high |-> Highest(trades), low |-> -Lowest(trades),
                              volume |-> Len(trades)]
    BY DEF BarOf, Highest, Lowest, FoldLeft, MapThenFoldSet
<1>. QED
    BY <1>1, <1>2, <1>3, PricesSeen DEF BarEvents

LEMMA FlushedType ==
    ASSUME NEW a \in Aggregators
    PROVE  /\ InWindow(a) \in Seq(Trades)
           /\ Flushed(a) \in Seq(BarEvents)
           /\ Flushed(a) = <<>> \/ Flushed(a) = <<BarOf(a.begin, InWindow(a))>>
<1>1. InWindow(a) \in Seq(Trades)
    <2>1. PICK h : /\ Filters(h, Len(Current(a)), Kept(Current(a), a.begin), Current(a), Trades)
                   /\ InWindow(a) = h[Len(Current(a))]
        BY InWindowFilters DEF Filtered
    <2>2. Len(Current(a)) \in Nat
        BY CurrentTrades
    <2>. QED
        BY <2>1, <2>2 DEF Filters
<1>2. a.begin \in Nat
    BY DEF Aggregators
<1>3. InWindow(a) # <<>> => BarOf(a.begin, InWindow(a)) \in BarEvents
    BY <1>1, <1>2, BarType
<1>. QED
    BY <1>1, <1>3, EmptySeq DEF Flushed

LEMMA PushTradeType ==
    ASSUME NEW a \in Aggregators, NEW trade \in Trades
    PROVE  PushTrade(a, trade) \in Aggregators
<1>1. Append(a.trades, trade) \in Seq(Trades) /\ trade.when \in Nat
    BY DEF Aggregators, Trades
<1>. QED
    BY <1>1 DEF PushTrade, Aggregators

\* A flush keeps the trades of future windows, and opens the next one.
LEMMA FlushKeeps ==
    ASSUME NEW a \in Aggregators
    PROVE  LET c == Len(Current(a))
               n == Len(a.trades)
               f == AfterFlush(a)
           IN  /\ f \in Aggregators /\ n \in Nat /\ c \in 0..n
               /\ Len(f.trades) = n - c /\ \A k \in 1..(n - c) : f.trades[k] = a.trades[c + k]
               /\ f.nextGe >= a.nextGe /\ f.nextGe >= End(a.begin)
               /\ f.skip = FALSE /\ f.begin = a.begin + BarDuration
<1>1. a.trades \in Seq(Trades) /\ a.nextGe \in Nat /\ a.begin \in Nat
    BY DEF Aggregators
<1>2. PICK n \in Nat : n = Len(a.trades)
    BY <1>1
<1>3. PICK c \in 0..n : c = Len(Current(a))
    BY <1>2, CurrentTrades
<1>4. End(a.begin) \in Nat /\ a.begin + BarDuration \in Nat
    BY <1>1, BarAssumption DEF End
<1>5. Later(a.nextGe, End(a.begin)) \in Nat /\ Later(a.nextGe, End(a.begin)) >= a.nextGe
      /\ Later(a.nextGe, End(a.begin)) >= End(a.begin)
    BY <1>1, <1>4 DEF Later
<1>6. PICK rest : rest = SubSeq(a.trades, c + 1, n)
    OBVIOUS
<1>7. rest \in Seq(Trades) /\ Len(rest) = n - c /\ \A k \in 1..(n - c) : rest[k] = a.trades[c + k]
    <2>1. c + 1 \in 1..(n + 1)
        OBVIOUS
    <2>2. /\ rest \in Seq(Trades)
          /\ Len(rest) = IF c + 1 <= n THEN n - (c + 1) + 1 ELSE 0
          /\ \A i \in 1..(n - (c + 1) + 1) : rest[i] = a.trades[(c + 1) + i - 1]
        BY <1>1, <1>2, <1>6, <2>1, SubSeqProperties
    <2>3. n - (c + 1) + 1 = n - c /\ \A i \in 1..(n - c) : (c + 1) + i - 1 = c + i
        OBVIOUS
    <2>4. Len(rest) = n - c
        BY <2>2
    <2>. QED
        BY <2>2, <2>3, <2>4
<1>8. AfterFlush(a) = [trades |-> rest, nextGe |-> Later(a.nextGe, End(a.begin)),
                       skip |-> FALSE, begin |-> a.begin + BarDuration]
    BY <1>2, <1>3, <1>6 DEF AfterFlush
<1>. QED
    BY <1>2, <1>3, <1>4, <1>5, <1>7, <1>8 DEF Aggregators
-----------------------------------------------------------------------------
(***************************************************************************)
(* The types of the variables.                                             *)
(***************************************************************************)
Barriers ==
    [long : BOOLEAN, entered : Nat, peak : Nat \ {0}, trough : Nat \ {0},
     armed : BOOLEAN, partial : BOOLEAN]

LEMMA CheckType ==
    ASSUME NEW b \in Barriers, NEW price \in Prices, NEW when \in Nat
    PROVE  Check(b, price, when).barrier \in Barriers /\ Check(b, price, when).reason \in Reasons
<1>1. price \in Nat \ {0}
    BY LiveAssumption
<1>2. b.long \in BOOLEAN /\ b.armed \in BOOLEAN /\ b.partial \in BOOLEAN /\ b.entered \in Nat
      /\ b.peak \in Nat \ {0} /\ b.trough \in Nat \ {0}
    BY DEF Barriers
<1>3. PICK g : g = Gained(b, EntryPrice, price, BreakEven)
    OBVIOUS
<1>4. g \in BOOLEAN
    BY <1>3 DEF Gained
<1>5. PICK t : t = Tracked(b, price)
    OBVIOUS
<1>6. t = [b EXCEPT !.peak = IF price > b.peak THEN price ELSE b.peak,
                    !.trough = IF price < b.trough THEN price ELSE b.trough,
                    !.armed = b.armed \/ g]
    BY <1>3, <1>5 DEF Tracked
<1>7. t \in Barriers
    BY <1>1, <1>2, <1>4, <1>6 DEF Barriers
<1>8. Reason(t, price, when) \in Reasons
    BY DEF Reason, Reasons
<1>9. Check(b, price, when)
      = [barrier |-> [t EXCEPT !.partial = t.partial \/ Reason(t, price, when) = "partial_take_profit"],
         reason |-> Reason(t, price, when)]
    BY <1>5 DEF Check
<1>10. [t EXCEPT !.partial = t.partial \/ Reason(t, price, when) = "partial_take_profit"] \in Barriers
    <2>1. (t.partial \/ Reason(t, price, when) = "partial_take_profit") \in BOOLEAN
        OBVIOUS
    <2>. QED
        BY <1>7, <2>1 DEF Barriers
<1>. QED
    BY <1>8, <1>9, <1>10

LEMMA Typed == TypeOK => agg \in Aggregators /\ barrier \in Barriers /\ exit \in Reasons
                         /\ accepted \in Seq(Records)
BY DEF TypeOK, Aggregators, Barriers, Reasons, Records

\* TypeOK in parts: an action keeps the types of the parts it leaves alone.
PoolTypes ==
    waiting \in Seq(Jobs \cup Events) /\ running \in [Workers -> Jobs \cup Events \cup {Nothing}]
LoopTypes ==
    /\ DOMAIN pending = SourceSet
    /\ pending["bars"] \in Seq(BarEvents) /\ pending["orders"] \in Seq(Updates)
    /\ jobs \in SUBSET Nat /\ prevDt \in [SourceSet -> Nat]
    /\ now \in Nat /\ loop \in {"between", "pushing"} /\ stopped \in BOOLEAN
    /\ jobHeld \in Jobs \cup {Nothing} /\ eventHeld \in Events \cup {Nothing}
TradingTypes ==
    /\ agg \in Aggregators /\ accepted \in Seq(Records)
    /\ bars \in Seq(BarEvents) /\ firstBar \in Nat
PositionTypes == barrier \in Barriers /\ exit \in Reasons /\ closes \in Seq(Closes)
OtherTypes == clock \in Nat /\ received \in Nat /\ scheduled \in Nat /\ begun \in [SourceSet -> Nat]

LEMMA TypeParts == TypeOK <=> PoolTypes /\ LoopTypes /\ TradingTypes /\ PositionTypes /\ OtherTypes
BY DEF TypeOK, PoolTypes, LoopTypes, TradingTypes, PositionTypes, OtherTypes,
       Aggregators, Barriers, Reasons, Records

LEMMA NextTypeParts ==
    ASSUME PoolTypes', LoopTypes', TradingTypes', PositionTypes', OtherTypes'
    PROVE  TypeOK'
BY DEF TypeOK, PoolTypes, LoopTypes, TradingTypes, PositionTypes, OtherTypes,
       Aggregators, Barriers, Reasons, Records

LEMMA PartsKept ==
    ASSUME TypeOK
    PROVE  /\ UNCHANGED handlerPool => PoolTypes'
           /\ UNCHANGED dispatcher => LoopTypes'
           /\ UNCHANGED trading => TradingTypes'
           /\ UNCHANGED position => PositionTypes'
           /\ UNCHANGED <<clock, received, scheduled, begun>> => OtherTypes'
<1>1. UNCHANGED handlerPool => PoolTypes'
    BY DEF handlerPool, PoolTypes, TypeOK
<1>2. UNCHANGED dispatcher => LoopTypes'
    BY DEF dispatcher, LoopTypes, TypeOK
<1>3. UNCHANGED trading => TradingTypes'
    BY DEF trading, TradingTypes, TypeOK, Aggregators, Records
<1>4. UNCHANGED position => PositionTypes'
    BY DEF position, PositionTypes, TypeOK, Barriers, Reasons
<1>5. UNCHANGED <<clock, received, scheduled, begun>> => OtherTypes'
    BY DEF OtherTypes, TypeOK
<1>. QED
    BY <1>1, <1>2, <1>3, <1>4, <1>5

\* The window of a time is a multiple of the windows' duration.
LEMMA StartOfWindow ==
    ASSUME NEW t \in Nat
    PROVE  /\ t - (t % BarDuration) \in 0..t
           /\ t < t - (t % BarDuration) + BarDuration
           /\ \E q \in Nat : t - (t % BarDuration) = BarDuration * q
<1>1. PICK d \in Nat : d = BarDuration /\ d > 2
    BY BarAssumption
<1>2. t = (d * (t \div d)) + (t % d) /\ t % d \in 0..(d - 1)
    BY <1>1
<1>3. PICK q \in Nat : q = t \div d
    BY <1>1
<1>4. PICK x \in Nat : x = d * q
    BY <1>1
<1>5. PICK m \in 0..(d - 1) : m = t % d
    BY <1>2
<1>6. t - m = x /\ t - m \in 0..t /\ t < t - m + d
    BY <1>1, <1>2, <1>3, <1>4, <1>5
<1>. QED
    BY <1>1, <1>4, <1>5, <1>6

LEMMA InitTypes == Init => TypeOK
<1>. SUFFICES ASSUME Init PROVE TypeOK
    OBVIOUS
<1>. PICK start \in Starts :
        /\ agg = NewAggregator(clock, start.skip)
        /\ firstBar = agg.begin + (IF start.skip THEN BarDuration ELSE 0)
        /\ barrier = NewBarrier(start.long, start.entered)
    BY DEF Init
<1>1. start.long \in BOOLEAN /\ start.entered \in Nat /\ start.skip \in BOOLEAN
    BY LiveAssumption
<1>2. clock \in Nat /\ clock - (clock % BarDuration) \in Nat
    BY LiveAssumption, StartOfWindow DEF Init
<1>3. agg \in [trades : Seq(Trades), nextGe : Nat, skip : BOOLEAN, begin : Nat]
    BY <1>1, <1>2, EmptySeq DEF NewAggregator
<1>4. barrier \in [long : BOOLEAN, entered : Nat, peak : Nat \ {0}, trough : Nat \ {0},
                    armed : BOOLEAN, partial : BOOLEAN]
    BY <1>1, BarrierAssumption DEF NewBarrier
<1>5. firstBar \in Nat
    BY <1>3, BarAssumption
<1>6. DOMAIN pending = SourceSet /\ pending["bars"] = <<>> /\ pending["orders"] = <<>>
    BY LiveAssumption DEF Init, DispatcherInit
<1>7. /\ waiting \in Seq(Jobs \cup Events) /\ running \in [Workers -> Jobs \cup Events \cup {Nothing}]
      /\ jobHeld \in Jobs \cup {Nothing} /\ eventHeld \in Events \cup {Nothing}
    BY EmptySeq DEF Init, DispatcherInit, PoolInit
<1>8. /\ pending["bars"] \in Seq(BarEvents) /\ pending["orders"] \in Seq(Updates)
      /\ accepted \in Seq([trade : Trades, open : Nat])
      /\ bars \in Seq(BarEvents) /\ closes \in Seq(Closes)
    BY <1>6, EmptySeq DEF Init
<1>9. /\ jobs \in SUBSET Nat /\ prevDt \in [SourceSet -> Nat]
      /\ now \in Nat /\ loop \in {"between", "pushing"} /\ stopped \in BOOLEAN
      /\ received \in Nat /\ scheduled \in Nat /\ begun \in [SourceSet -> Nat]
      /\ exit = "none"
    BY DEF Init, DispatcherInit
<1>. QED
    BY <1>2, <1>3, <1>4, <1>5, <1>6, <1>7, <1>8, <1>9 DEF TypeOK, Reasons

LEMMA TradeTypes ==
    ASSUME TypeOK, ReceiveTrade \/ ReceiveUpdate \/ Flush \/ Tick
    PROVE  TypeOK'
<1>1. ASSUME ReceiveTrade
      PROVE  TypeOK'
    <2>1. PICK when \in Received, price \in Prices :
            LET trade == [when |-> when, price |-> price]
            IN  /\ agg' = PushTrade(agg, trade)
                /\ accepted' = IF InOrder(agg, trade)
                               THEN Append(accepted, [trade |-> trade, open |-> agg.begin])
                               ELSE accepted
        BY <1>1 DEF ReceiveTrade
    <2>2. [when |-> when, price |-> price] \in Trades /\ agg.begin \in Nat
        BY DEF Received, Trades, TypeOK
    <2>3. agg' \in Aggregators
        BY <2>1, <2>2, Typed, PushTradeType
    <2>4. [trade |-> [when |-> when, price |-> price], open |-> agg.begin] \in Records
        BY <2>2 DEF Records
    <2>5. accepted' \in Seq(Records)
        BY <2>1, <2>4, Typed
    <2>6. UNCHANGED <<handlerPool, dispatcher, clock, position, bars, firstBar, scheduled, begun>>
          /\ received' = received + 1
        BY <1>1 DEF ReceiveTrade
    <2>7. TradingTypes'
        BY <2>3, <2>5, <2>6 DEF TradingTypes, TypeOK
    <2>8. OtherTypes'
        BY <2>6 DEF OtherTypes, TypeOK
    <2>. QED
        BY <2>6, <2>7, <2>8, PartsKept, NextTypeParts
<1>2. ASSUME ReceiveUpdate
      PROVE  TypeOK'
    <2>1. PICK when \in Received :
            pending' = [pending EXCEPT !["orders"] = Append(@, [when |-> when])]
        BY <1>2 DEF ReceiveUpdate
    <2>2. [when |-> when] \in Updates
        BY DEF Received, Updates
    <2>3. /\ DOMAIN pending' = SourceSet
          /\ pending'["bars"] \in Seq(BarEvents) /\ pending'["orders"] \in Seq(Updates)
        BY <2>1, <2>2, LiveAssumption DEF TypeOK
    <2>4. LoopTypes'
        BY <1>2, <2>3 DEF ReceiveUpdate, LoopTypes, TypeOK
    <2>5. OtherTypes'
        BY <1>2 DEF ReceiveUpdate, OtherTypes, TypeOK
    <2>6. UNCHANGED <<handlerPool, position, trading>>
        BY <1>2 DEF ReceiveUpdate
    <2>. QED
        BY <2>4, <2>5, <2>6, PartsKept, NextTypeParts
<1>3. ASSUME Flush
      PROVE  TypeOK'
    <2>1. agg' \in Aggregators
        BY <1>3, FlushKeeps, Typed DEF Flush
    <2>2. Flushed(agg) \in Seq(BarEvents)
        BY FlushedType, Typed
    <2>3. bars' \in Seq(BarEvents)
        BY <1>3, <2>2 DEF Flush, TypeOK
    <2>4. /\ DOMAIN pending' = SourceSet
          /\ pending'["bars"] \in Seq(BarEvents) /\ pending'["orders"] \in Seq(Updates)
        BY <1>3, <2>2, LiveAssumption DEF Flush, TypeOK
    <2>5. LoopTypes'
        BY <1>3, <2>4 DEF Flush, LoopTypes, TypeOK
    <2>6. TradingTypes'
        BY <1>3, <2>1, <2>3, Typed DEF Flush, TradingTypes, TypeOK
    <2>7. UNCHANGED <<handlerPool, position, clock, received, scheduled, begun>>
        BY <1>3 DEF Flush
    <2>. QED
        BY <2>5, <2>6, <2>7, PartsKept, NextTypeParts
<1>4. ASSUME Tick
      PROVE  TypeOK'
    <2>1. UNCHANGED <<handlerPool, dispatcher, position, trading>>
        BY <1>4 DEF Tick
    <2>2. OtherTypes'
        BY <1>4 DEF Tick, OtherTypes, TypeOK
    <2>. QED
        BY <2>1, <2>2, PartsKept, NextTypeParts
<1>. QED
    BY <1>1, <1>2, <1>3, <1>4

LEMMA JobTypes ==
    ASSUME TypeOK, jobs # {}
    PROVE  Min(jobs) \in Nat /\ [kind |-> "job", when |-> Min(jobs)] \in Jobs
<1>1. Min(jobs) \in jobs
    BY MinIsLeast DEF TypeOK
<1>. QED
    BY <1>1 DEF TypeOK, Jobs

\* What waits first, of a source.
LEMMA HeadTypes ==
    ASSUME TypeOK, NEW s \in SourceSet, pending[s] # <<>>
    PROVE  /\ Head(pending[s]).when \in Nat
           /\ [kind |-> "event", source |-> s, event |-> Head(pending[s])] \in Events
           /\ LET left == [pending EXCEPT ![s] = Tail(@)]
              IN  /\ DOMAIN left = SourceSet
                  /\ left["bars"] \in Seq(BarEvents) /\ left["orders"] \in Seq(Updates)
<1>1. s = "bars" \/ s = "orders"
    BY LiveAssumption
<1>2. CASE s = "bars"
    <2>1. Head(pending["bars"]) \in BarEvents /\ Tail(pending["bars"]) \in Seq(BarEvents)
        BY <1>2 DEF TypeOK
    <2>2. Head(pending["bars"]).when \in Nat
        BY <2>1 DEF BarEvents
    <2>. QED
        BY <1>2, <2>1, <2>2, LiveAssumption DEF TypeOK, Events
<1>3. CASE s = "orders"
    <2>1. Head(pending["orders"]) \in Updates /\ Tail(pending["orders"]) \in Seq(Updates)
        BY <1>3 DEF TypeOK
    <2>2. Head(pending["orders"]).when \in Nat
        BY <2>1 DEF Updates
    <2>. QED
        BY <1>3, <2>1, <2>2, LiveAssumption DEF TypeOK, Events
<1>. QED
    BY <1>1, <1>2, <1>3

LEMMA PushTypes ==
    ASSUME TypeOK, NEW item \in Jobs \cup Events, Push(item)
    PROVE  waiting' \in Seq(Jobs \cup Events) /\ UNCHANGED running
BY DEF Push, TypeOK

LEMMA DispatchTypes ==
    ASSUME TypeOK, Dispatch \/ StopTrading
    PROVE  TypeOK'
<1>1. UNCHANGED <<clock, position, trading, received, scheduled, begun>>
    BY DEF Dispatch, StopTrading
<1>. SUFFICES PoolTypes' /\ LoopTypes'
    BY <1>1, PartsKept, NextTypeParts
<1>2. ASSUME Iterate
      PROVE  PoolTypes' /\ LoopTypes'
    BY <1>2 DEF Iterate, handlerPool, PoolTypes, LoopTypes, TypeOK
<1>3. ASSUME PushScheduled
      PROVE  PoolTypes' /\ LoopTypes'
    <2>1. [kind |-> "job", when |-> Min(jobs)] \in Jobs /\ jobs' \in SUBSET Nat
        BY <1>3, JobTypes DEF PushScheduled, JobDue, TypeOK
    <2>2. /\ waiting' \in Seq(Jobs \cup Events) /\ UNCHANGED running
          /\ jobHeld' \in Jobs \cup {Nothing}
        BY <1>3, <2>1, PushTypes DEF PushScheduled, handlerPool, TypeOK
    <2>. QED
        BY <1>3, <2>1, <2>2 DEF PushScheduled, PoolTypes, LoopTypes, TypeOK
<1>4. ASSUME PushEvents
      PROVE  PoolTypes' /\ LoopTypes'
    <2>1. PICK s \in Chosen :
            LET e == Head(pending[s])
                item == [kind |-> "event", source |-> s, event |-> e]
            IN  /\ pending' = [pending EXCEPT ![s] = Tail(@)]
                /\ IF e.when < prevDt[s]
                   THEN UNCHANGED <<handlerPool, prevDt, eventHeld>>
                   ELSE /\ prevDt' = [prevDt EXCEPT ![s] = e.when]
                        /\ IF HasRoom THEN Push(item) /\ UNCHANGED eventHeld
                                      ELSE eventHeld' = item /\ UNCHANGED handlerPool
        BY <1>4 DEF PushEvents, Refused
    <2>2. s \in SourceSet /\ pending[s] # <<>>
        BY DEF Chosen, Due
    <2>3. /\ Head(pending[s]).when \in Nat
          /\ [kind |-> "event", source |-> s, event |-> Head(pending[s])] \in Events
          /\ DOMAIN pending' = SourceSet
          /\ pending'["bars"] \in Seq(BarEvents) /\ pending'["orders"] \in Seq(Updates)
        BY <2>1, <2>2, HeadTypes
    <2>4. /\ waiting' \in Seq(Jobs \cup Events) /\ UNCHANGED running
          /\ eventHeld' \in Events \cup {Nothing} /\ prevDt' \in [SourceSet -> Nat]
        BY <2>1, <2>2, <2>3, PushTypes DEF handlerPool, TypeOK
    <2>. QED
        BY <1>4, <2>3, <2>4 DEF PushEvents, PoolTypes, LoopTypes, TypeOK
<1>5. ASSUME PushHeldJob \/ PushHeldEvent
      PROVE  PoolTypes' /\ LoopTypes'
    <2>1. \E item \in Jobs \cup Events : Push(item)
        BY <1>5 DEF PushHeldJob, PushHeldEvent, Nothing, TypeOK
    <2>2. waiting' \in Seq(Jobs \cup Events) /\ UNCHANGED running
        BY <2>1, PushTypes
    <2>. QED
        BY <1>5, <2>2 DEF PushHeldJob, PushHeldEvent, PoolTypes, LoopTypes, TypeOK
<1>6. ASSUME Pushed
      PROVE  PoolTypes' /\ LoopTypes'
    BY <1>6 DEF Pushed, handlerPool, PoolTypes, LoopTypes, TypeOK
<1>7. ASSUME Stop
      PROVE  PoolTypes' /\ LoopTypes'
    <2>1. PICK kept \in 0..Len(waiting) : waiting' = SubSeq(waiting, 1, kept)
        BY <1>7 DEF Stop, Cancel
    <2>2. waiting' \in Seq(Jobs \cup Events)
        BY <2>1, SubSeqProperties DEF TypeOK
    <2>. QED
        BY <1>7, <2>2 DEF Stop, Cancel, PoolTypes, LoopTypes, TypeOK
<1>. QED
    BY <1>2, <1>3, <1>4, <1>5, <1>6, <1>7 DEF Dispatch, LoopStep, StopTrading

LEMMA HandlerTypes ==
    ASSUME TypeOK, NEW w \in Workers, Handle(w) \/ HandlerEnds(w) \/ Schedule(w)
    PROVE  TypeOK'
<1>1. ASSUME Handle(w)
      PROVE  TypeOK'
    <2>1. waiting # <<>> /\ running' = [running EXCEPT ![w] = Head(waiting)] /\ waiting' = Tail(waiting)
          /\ Called(Head(waiting))
        BY <1>1 DEF Handle, Begin
    <2>2. PICK item : item = Head(waiting)
        OBVIOUS
    <2>3. item \in Jobs \cup Events
        BY <2>1, <2>2 DEF TypeOK
    <2>4. waiting' \in Seq(Jobs \cup Events) /\ running' \in [Workers -> Jobs \cup Events \cup {Nothing}]
        BY <2>1, <2>2, <2>3 DEF TypeOK
    <2>5. /\ barrier' \in Barriers /\ exit' \in Reasons /\ closes' \in Seq(Closes)
          /\ begun' \in [SourceSet -> Nat]
        <3>1. CASE item.kind # "event"
            BY <2>1, <2>2, <3>1, Typed DEF Called, position, TypeOK
        <3>2. CASE item.kind = "event"
            <4>1. item \in Events
                BY <2>3, <3>2 DEF Jobs
            <4>2. item.source \in SourceSet /\ item.event.when \in Nat
                BY <4>1, LiveAssumption DEF Events, BarEvents, Updates
            <4>3. begun' \in [SourceSet -> Nat]
                BY <2>1, <2>2, <3>2, <4>2 DEF Called, TypeOK
            <4>4. CASE item.source = "bars" /\ exit \in {"none", "partial_take_profit"}
                <5>1. item.event.close \in Prices
                    BY <4>1, <4>4 DEF Events, BarEvents
                <5>2. PICK result : result = Check(barrier, item.event.close, item.event.when)
                    OBVIOUS
                <5>3. result.barrier \in Barriers /\ result.reason \in Reasons
                    BY <4>2, <5>1, <5>2, Typed, CheckType
                <5>4. /\ barrier' = result.barrier
                      /\ exit' = IF result.reason = "none" THEN exit ELSE result.reason
                      /\ closes' = Append(closes, [price |-> item.event.close,
                                                   when |-> item.event.when,
                                                   reason |-> result.reason])
                    BY <2>1, <2>2, <3>2, <4>4, <5>2 DEF Called
                <5>5. closes' \in Seq(Closes)
                    BY <4>2, <5>1, <5>3, <5>4 DEF TypeOK, Closes
                <5>. QED
                    BY <4>3, <5>3, <5>4, <5>5, Typed
            <4>5. CASE ~(item.source = "bars" /\ exit \in {"none", "partial_take_profit"})
                BY <2>1, <2>2, <3>2, <4>3, <4>5, Typed DEF Called, position, TypeOK
            <4>. QED
                BY <4>4, <4>5
        <3>. QED
            BY <3>1, <3>2
    <2>6. PoolTypes' /\ PositionTypes'
        BY <2>4, <2>5 DEF PoolTypes, PositionTypes
    <2>7. OtherTypes'
        BY <1>1, <2>5 DEF Handle, OtherTypes, TypeOK
    <2>8. UNCHANGED <<dispatcher, trading>>
        BY <1>1 DEF Handle
    <2>. QED
        BY <2>6, <2>7, <2>8, PartsKept, NextTypeParts
<1>2. ASSUME HandlerEnds(w)
      PROVE  TypeOK'
    <2>1. PoolTypes'
        BY <1>2 DEF HandlerEnds, Finish, PoolTypes, TypeOK
    <2>2. UNCHANGED <<dispatcher, position, trading, clock, received, scheduled, begun>>
        BY <1>2 DEF HandlerEnds
    <2>. QED
        BY <2>1, <2>2, PartsKept, NextTypeParts
<1>3. ASSUME Schedule(w)
      PROVE  TypeOK'
    <2>1. PICK delay \in Delays : jobs' = jobs \cup {clock + delay}
        BY <1>3 DEF Schedule
    <2>2. delay \in Nat
        BY LiveAssumption
    <2>3. jobs' \in SUBSET Nat
        BY <2>1, <2>2 DEF TypeOK
    <2>4. LoopTypes'
        BY <1>3, <2>3 DEF Schedule, LoopTypes, TypeOK
    <2>5. OtherTypes'
        BY <1>3 DEF Schedule, OtherTypes, TypeOK
    <2>6. UNCHANGED <<handlerPool, position, trading>>
        BY <1>3 DEF Schedule
    <2>. QED
        BY <2>4, <2>5, <2>6, PartsKept, NextTypeParts
<1>. QED
    BY <1>1, <1>2, <1>3

LEMMA TypesStep == TypeOK /\ [Next]_vars => TypeOK'
<1>. SUFFICES ASSUME TypeOK, [Next]_vars PROVE TypeOK'
    OBVIOUS
<1>1. CASE UNCHANGED vars
    BY <1>1, PartsKept, NextTypeParts DEF vars
<1>. QED
    BY <1>1, TradeTypes, DispatchTypes, HandlerTypes DEF Next
-----------------------------------------------------------------------------
(***************************************************************************)
(* The order of the events that handlers get.                              *)
(***************************************************************************)
LEMMA WaitingTypes ==
    ASSUME TypeOK
    PROVE  /\ Len(waiting) \in Nat
           /\ \A i \in 1..Len(waiting), s \in SourceSet :
                IsOf(waiting[i], s) => waiting[i].event.when \in Nat
           /\ \A s \in SourceSet : IsOf(eventHeld, s) => eventHeld.event.when \in Nat
<1>1. \A i \in 1..Len(waiting) : waiting[i] \in Jobs \cup Events
    BY DEF TypeOK
<1>2. \A item \in Events : item.event.when \in Nat
    BY DEF Events, BarEvents, Updates
<1>3. \A item \in Jobs \cup {Nothing}, s \in SourceSet : ~IsOf(item, s)
    BY DEF Jobs, Nothing, IsOf
<1>4. Len(waiting) \in Nat /\ eventHeld \in Events \cup {Nothing}
    BY DEF TypeOK
<1>. QED
    BY <1>1, <1>2, <1>3, <1>4

LEMMA PushedInTurn ==
    ASSUME TypeOK, InTurn, NEW item \in Jobs \cup Events, Push(item), UNCHANGED begun,
           \A s \in SourceSet :
                /\ prevDt'[s] \in Nat /\ prevDt[s] <= prevDt'[s]
                /\ IsOf(item, s) => item.event.when = prevDt'[s]
                /\ IsOf(eventHeld', s) => eventHeld'.event.when = prevDt'[s]
    PROVE  InTurn'
<1>. DEFINE n == Len(waiting)
<1>1. /\ n \in Nat /\ waiting' = Append(waiting, item) /\ Len(waiting') = n + 1
      /\ waiting'[n + 1] = item /\ \A i \in 1..n : waiting'[i] = waiting[i]
    BY DEF Push, TypeOK
<1>2. \A s \in SourceSet : begun[s] \in Nat /\ prevDt[s] \in Nat
    BY DEF TypeOK
<1>3. \A i \in 1..(n + 1) : i \in 1..n \/ i = n + 1
    BY <1>1
<1>. HIDE DEF n
<1>4. \A s \in SourceSet : begun'[s] <= prevDt'[s]
    BY <1>2 DEF InTurn
<1>5. \A i \in 1..(n + 1), s \in SourceSet :
        IsOf(waiting'[i], s) =>
            begun'[s] <= waiting'[i].event.when /\ waiting'[i].event.when <= prevDt'[s]
    <2>. SUFFICES ASSUME NEW i \in 1..(n + 1), NEW s \in SourceSet, IsOf(waiting'[i], s)
                  PROVE  begun[s] <= waiting'[i].event.when /\ waiting'[i].event.when <= prevDt'[s]
        OBVIOUS
    <2>1. CASE i = n + 1
        BY <1>1, <1>2, <1>4, <2>1
    <2>2. CASE i \in 1..n
        <3>1. waiting'[i] = waiting[i] /\ waiting[i].event.when \in Nat
            BY <1>1, <2>2, WaitingTypes DEF n
        <3>2. begun[s] <= waiting[i].event.when /\ waiting[i].event.when <= prevDt[s]
            BY <2>2, <3>1 DEF InTurn, n
        <3>. QED
            BY <1>2, <3>1, <3>2
    <2>. QED
        BY <1>3, <2>1, <2>2
<1>6. \A i, j \in 1..(n + 1), s \in SourceSet :
        i < j /\ IsOf(waiting'[i], s) /\ IsOf(waiting'[j], s) =>
            waiting'[i].event.when <= waiting'[j].event.when
    <2>. SUFFICES ASSUME NEW i \in 1..(n + 1), NEW j \in 1..(n + 1), NEW s \in SourceSet, i < j,
                         IsOf(waiting'[i], s), IsOf(waiting'[j], s)
                  PROVE  waiting'[i].event.when <= waiting'[j].event.when
        OBVIOUS
    <2>1. CASE j = n + 1
        BY <1>1, <1>5, <2>1
    <2>2. CASE j \in 1..n
        <3>1. i \in 1..n
            BY <1>1, <2>2
        <3>. QED
            BY <1>1, <2>2, <3>1 DEF InTurn, n
    <2>. QED
        BY <1>3, <2>1, <2>2
<1>. QED
    BY <1>1, <1>4, <1>5, <1>6 DEF InTurn

\* What is left of a queue in order is in order.
LEMMA LeftInTurn ==
    ASSUME TypeOK, InTurn, UNCHANGED prevDt, UNCHANGED eventHeld \/ eventHeld' = Nothing,
           NEW d \in Nat, NEW m \in Nat, d + m <= Len(waiting), Len(waiting') = m,
           \A i \in 1..m : waiting'[i] = waiting[d + i],
           \A s \in SourceSet : begun'[s] <= prevDt[s],
           \A i \in 1..m, s \in SourceSet :
                IsOf(waiting[d + i], s) => begun'[s] <= waiting[d + i].event.when
    PROVE  InTurn'
<1>1. \A i \in 1..m : d + i \in 1..Len(waiting)
    BY WaitingTypes
<1>2. \A s \in SourceSet : IsOf(eventHeld', s) => eventHeld'.event.when = prevDt'[s]
    BY DEF InTurn, IsOf, Nothing
<1>3. \A i \in 1..m, s \in SourceSet :
        IsOf(waiting'[i], s) =>
            begun'[s] <= waiting'[i].event.when /\ waiting'[i].event.when <= prevDt'[s]
    BY <1>1 DEF InTurn
<1>4. \A i, j \in 1..m, s \in SourceSet :
        i < j /\ IsOf(waiting'[i], s) /\ IsOf(waiting'[j], s) =>
            waiting'[i].event.when <= waiting'[j].event.when
    <2>. SUFFICES ASSUME NEW i \in 1..m, NEW j \in 1..m, NEW s \in SourceSet, i < j,
                         IsOf(waiting'[i], s), IsOf(waiting'[j], s)
                  PROVE  waiting'[i].event.when <= waiting'[j].event.when
        OBVIOUS
    <2>1. d + i < d + j /\ d + i \in 1..Len(waiting) /\ d + j \in 1..Len(waiting)
        BY <1>1
    <2>. QED
        BY <2>1 DEF InTurn
<1>. QED
    BY <1>2, <1>3, <1>4 DEF InTurn

LEMMA DispatchInTurn ==
    ASSUME TypeOK, InTurn, Dispatch \/ StopTrading
    PROVE  InTurn' /\ UNCHANGED begun
<1>1. UNCHANGED begun
    BY DEF Dispatch, StopTrading
<1>2. \A s \in SourceSet : prevDt[s] \in Nat
    BY DEF TypeOK
<1>3. ASSUME UNCHANGED <<handlerPool, prevDt, eventHeld>>
      PROVE  InTurn'
    BY <1>1, <1>3 DEF InTurn, handlerPool
<1>4. ASSUME PushScheduled
      PROVE  InTurn'
    <2>1. PICK item \in Jobs : IF HasRoom THEN Push(item) ELSE UNCHANGED handlerPool
        BY <1>4, JobTypes DEF PushScheduled, JobDue
    <2>2. UNCHANGED <<prevDt, eventHeld>>
        BY <1>4 DEF PushScheduled
    <2>3. CASE HasRoom
        <3>1. Push(item) /\ item \in Jobs \cup Events
            BY <2>1, <2>3
        <3>2. \A s \in SourceSet : ~IsOf(item, s)
            BY DEF Jobs, IsOf
        <3>3. \A s \in SourceSet :
                /\ prevDt'[s] \in Nat /\ prevDt[s] <= prevDt'[s]
                /\ IsOf(eventHeld', s) => eventHeld'.event.when = prevDt'[s]
            BY <1>2, <2>2 DEF InTurn
        <3>. QED
            BY <1>1, <3>1, <3>2, <3>3, PushedInTurn
    <2>4. CASE ~HasRoom
        BY <1>3, <2>1, <2>2, <2>4
    <2>. QED
        BY <2>3, <2>4
<1>5. ASSUME PushEvents
      PROVE  InTurn'
    <2>1. PICK s \in Chosen :
            LET e == Head(pending[s])
                item == [kind |-> "event", source |-> s, event |-> e]
            IN  /\ pending' = [pending EXCEPT ![s] = Tail(@)]
                /\ IF e.when < prevDt[s]
                   THEN UNCHANGED <<handlerPool, prevDt, eventHeld>>
                   ELSE /\ prevDt' = [prevDt EXCEPT ![s] = e.when]
                        /\ IF HasRoom THEN Push(item) /\ UNCHANGED eventHeld
                                      ELSE eventHeld' = item /\ UNCHANGED handlerPool
        BY <1>5 DEF PushEvents, Refused
    <2>2. s \in SourceSet /\ pending[s] # <<>>
        BY DEF Chosen, Due
    <2>3. PICK item : item = [kind |-> "event", source |-> s, event |-> Head(pending[s])]
        OBVIOUS
    <2>4. item \in Jobs \cup Events /\ item.event.when \in Nat /\ item.event = Head(pending[s])
          /\ \A t \in SourceSet : IsOf(item, t) <=> s = t
        BY <2>2, <2>3, HeadTypes DEF IsOf
    <2>5. CASE item.event.when < prevDt[s]
        BY <1>3, <2>1, <2>4, <2>5
    <2>6. CASE ~(item.event.when < prevDt[s])
        <3>1. /\ prevDt' = [prevDt EXCEPT ![s] = item.event.when]
              /\ IF HasRoom THEN Push(item) /\ UNCHANGED eventHeld
                            ELSE eventHeld' = item /\ UNCHANGED handlerPool
            BY <2>1, <2>3, <2>4, <2>6
        <3>2. \A t \in SourceSet :
                /\ prevDt'[t] \in Nat /\ prevDt[t] <= prevDt'[t]
                /\ IsOf(item, t) => item.event.when = prevDt'[t]
            <4>1. item.event.when \in Nat /\ prevDt[s] \in Nat /\ prevDt[s] <= item.event.when
                BY <1>2, <2>2, <2>4, <2>6
            <4>2. prevDt' = [prevDt EXCEPT ![s] = item.event.when] /\ prevDt \in [SourceSet -> Nat]
                BY <3>1 DEF TypeOK
            <4>. QED
                BY <2>4, <4>1, <4>2
        <3>3. \A t \in SourceSet : ~IsOf(eventHeld, t)
            BY <1>5 DEF PushEvents, Nothing, IsOf
        <3>4. CASE HasRoom
            BY <1>1, <2>4, <3>1, <3>2, <3>3, <3>4, PushedInTurn
        <3>5. CASE ~HasRoom
            <4>1. eventHeld' = item /\ UNCHANGED waiting
                BY <3>1, <3>5 DEF handlerPool
            <4>2. \A i \in 1..Len(waiting), t \in SourceSet :
                    IsOf(waiting[i], t) => waiting[i].event.when \in Nat
                BY WaitingTypes
            <4>3. \A t \in SourceSet : begun[t] \in Nat
                BY DEF TypeOK
            <4>. QED
                BY <1>1, <1>2, <3>2, <4>1, <4>2, <4>3 DEF InTurn
        <3>. QED
            BY <3>4, <3>5
    <2>. QED
        BY <2>5, <2>6
<1>6. ASSUME PushHeldJob
      PROVE  InTurn'
    <2>1. Push(jobHeld) /\ jobHeld \in Jobs \cup Events /\ UNCHANGED <<prevDt, eventHeld>>
          /\ \A s \in SourceSet : ~IsOf(jobHeld, s)
        BY <1>6 DEF PushHeldJob, Jobs, IsOf, TypeOK
    <2>2. \A s \in SourceSet :
            /\ prevDt'[s] \in Nat /\ prevDt[s] <= prevDt'[s]
            /\ IsOf(eventHeld', s) => eventHeld'.event.when = prevDt'[s]
        BY <1>2, <2>1 DEF InTurn
    <2>. QED
        BY <1>1, <2>1, <2>2, PushedInTurn
<1>7. ASSUME PushHeldEvent
      PROVE  InTurn'
    <2>1. Push(eventHeld) /\ eventHeld \in Jobs \cup Events /\ UNCHANGED prevDt
        BY <1>7 DEF PushHeldEvent, TypeOK
    <2>2. eventHeld' = Nothing
        BY <1>7 DEF PushHeldEvent
    <2>3. \A s \in SourceSet :
            /\ prevDt'[s] \in Nat /\ prevDt[s] <= prevDt'[s]
            /\ IsOf(eventHeld, s) => eventHeld.event.when = prevDt'[s]
            /\ ~IsOf(eventHeld', s)
        BY <1>2, <2>1, <2>2 DEF InTurn, IsOf, Nothing
    <2>. QED
        BY <1>1, <2>1, <2>3, PushedInTurn
<1>8. ASSUME Stop
      PROVE  InTurn'
    <2>1. PICK kept \in 0..Len(waiting) : waiting' = SubSeq(waiting, 1, kept)
        BY <1>8 DEF Stop, Cancel
    <2>2. Len(waiting') = kept /\ \A i \in 1..kept : waiting'[i] = waiting[0 + i]
        BY <2>1, SubSeqProperties DEF TypeOK
    <2>3. kept \in Nat /\ 0 + kept <= Len(waiting) /\ \A i \in 1..kept : 0 + i \in 1..Len(waiting)
        BY WaitingTypes
    <2>4. UNCHANGED prevDt /\ eventHeld' = Nothing
        BY <1>8 DEF Stop
    <2>5. \A i \in 1..kept, s \in SourceSet :
            IsOf(waiting[0 + i], s) => begun'[s] <= waiting[0 + i].event.when
        BY <1>1, <2>3 DEF InTurn
    <2>6. \A s \in SourceSet : begun'[s] <= prevDt[s]
        BY <1>1 DEF InTurn
    <2>. QED
        BY <2>2, <2>3, <2>4, <2>5, <2>6, LeftInTurn
<1>9. Iterate \/ Pushed => UNCHANGED <<handlerPool, prevDt, eventHeld>>
    BY DEF Iterate, Pushed
<1>. QED
    BY <1>1, <1>3, <1>4, <1>5, <1>6, <1>7, <1>8, <1>9 DEF Dispatch, LoopStep, StopTrading

\* A handler that begins is the first in turn.
LEMMA HandleInTurn ==
    ASSUME TypeOK, InTurn, NEW w \in Workers, Handle(w)
    PROVE  InTurn' /\ \A s \in SourceSet : begun[s] <= begun'[s]
<1>. DEFINE n == Len(waiting)
<1>1. waiting # <<>> /\ waiting' = Tail(waiting) /\ Called(waiting[1])
    BY DEF Handle, Begin, TypeOK
<1>2. n \in Nat /\ n >= 1 /\ Len(waiting') = n - 1 /\ \A i \in 1..(n - 1) : waiting'[i] = waiting[1 + i]
    BY <1>1 DEF TypeOK
<1>3. UNCHANGED <<prevDt, eventHeld>>
    BY DEF Handle, dispatcher
<1>4. \A s \in SourceSet : begun[s] \in Nat /\ prevDt[s] \in Nat
    BY DEF TypeOK
<1>5. waiting[1] \in Jobs \cup Events
    BY <1>1 DEF TypeOK
<1>. HIDE DEF n
<1>6. \A s \in SourceSet :
        begun'[s] = IF IsOf(waiting[1], s) THEN waiting[1].event.when ELSE begun[s]
    <2>1. CASE waiting[1].kind # "event"
        BY <1>1, <2>1 DEF Called, IsOf
    <2>2. CASE waiting[1].kind = "event"
        <3>1. waiting[1].source \in SourceSet
            BY <1>5, <2>2, LiveAssumption DEF Jobs, Events
        <3>. QED
            BY <1>1, <2>2, <3>1 DEF Called, IsOf, TypeOK
    <2>. QED
        BY <2>1, <2>2
<1>7. \A i \in 1..n, s \in SourceSet :
        IsOf(waiting[i], s) =>
            /\ waiting[i].event.when \in Nat
            /\ begun[s] <= waiting[i].event.when /\ waiting[i].event.when <= prevDt[s]
    BY WaitingTypes DEF InTurn, n
<1>8. 1 \in 1..n
    BY <1>2
<1>9. \A s \in SourceSet : begun[s] <= begun'[s] /\ begun'[s] <= prevDt[s]
    BY <1>4, <1>6, <1>7, <1>8 DEF InTurn
<1>10. \A i \in 1..(n - 1), s \in SourceSet :
        IsOf(waiting[1 + i], s) => begun'[s] <= waiting[1 + i].event.when
    <2>. SUFFICES ASSUME NEW i \in 1..(n - 1), NEW s \in SourceSet, IsOf(waiting[1 + i], s)
                  PROVE  begun'[s] <= waiting[1 + i].event.when
        OBVIOUS
    <2>1. 1 + i \in 1..n /\ 1 < 1 + i
        BY <1>2
    <2>2. IsOf(waiting[1], s) => waiting[1].event.when <= waiting[1 + i].event.when
        BY <1>8, <2>1 DEF InTurn, n
    <2>. QED
        BY <1>6, <1>7, <2>1, <2>2
<1>11. InTurn'
    <2>1. n - 1 \in Nat /\ 1 + (n - 1) <= Len(waiting)
        BY <1>2 DEF n
    <2>. QED
        BY <1>2, <1>3, <1>9, <1>10, <2>1, LeftInTurn
<1>. QED
    BY <1>9, <1>11

LEMMA TurnStep == TypeOK /\ InTurn /\ [Next]_vars => InTurn' /\ \A s \in SourceSet : begun[s] <= begun'[s]
<1>. SUFFICES ASSUME TypeOK, InTurn, [Next]_vars
              PROVE  InTurn' /\ \A s \in SourceSet : begun[s] <= begun'[s]
    OBVIOUS
<1>1. \A s \in SourceSet : begun[s] \in Nat
    BY DEF TypeOK
<1>2. CASE Dispatch \/ StopTrading
    BY <1>1, <1>2, DispatchInTurn
<1>3. ASSUME NEW w \in Workers, Handle(w)
      PROVE  InTurn' /\ \A s \in SourceSet : begun[s] <= begun'[s]
    BY <1>3, HandleInTurn
<1>4. CASE \/ ReceiveTrade \/ ReceiveUpdate \/ Flush \/ Tick \/ UNCHANGED vars
           \/ \E w \in Workers : HandlerEnds(w) \/ Schedule(w)
    <2>1. UNCHANGED <<waiting, prevDt, eventHeld, begun>>
        BY <1>4 DEF ReceiveTrade, ReceiveUpdate, Flush, Tick, HandlerEnds, Finish, Schedule, vars,
                    handlerPool, dispatcher
    <2>. QED
        BY <1>1, <2>1 DEF InTurn
<1>. QED
    BY <1>2, <1>3, <1>4 DEF Next

\* Handlers get the events of each source in the order of their times, for any
\* lags, priorities, workers and room in the pool.
THEOREM EventsStayInOrder == Spec => HandledInOrder
<1>1. Init => InTurn
    BY EmptySeq, LiveAssumption DEF Init, DispatcherInit, PoolInit, InTurn, IsOf, Nothing
<1>2. TypeOK /\ InTurn /\ [Next]_vars => [\A s \in SourceSet : begun[s] <= begun'[s]]_vars
    BY TurnStep
<1>. QED
    BY <1>1, <1>2, InitTypes, TypesStep, TurnStep, PTL DEF Spec, HandledInOrder
-----------------------------------------------------------------------------
(***************************************************************************)
(* The barriers.                                                           *)
(***************************************************************************)

\* The barriers remember the best and the worst of what they saw, whether the
\* break even stop is armed, and whether a part was taken.
Remembers(b, prices) ==
    \A c \in prices :
        /\ b.trough <= c /\ c <= b.peak
        /\ Gained(b, EntryPrice, c, BreakEven) => b.armed
        /\ Gained(b, EntryPrice, c, Partial) => b.partial

Inside(b, prices, last) ==
    /\ ~Lost(b, EntryPrice, last, StopLoss)
    /\ \A c \in prices : ~Lost(b, c, last, TrailingStop)
    /\ (\E c \in prices : Gained(b, EntryPrice, c, BreakEven)) => Gain(b, EntryPrice, last) > 0

NotYet(b, last, when) ==
    ~Gained(b, EntryPrice, last, TakeProfit) /\ when - b.entered < TimeLimit

LEMMA Products ==
    ASSUME NEW a \in Nat, NEW b \in Nat, NEW c \in Nat, b <= c
    PROVE  a * b \in Nat /\ a * b <= a * c
<1>1. a * (c - b) \in Nat /\ a * b \in Nat /\ a * c \in Nat
    OBVIOUS
<1>2. a * (c - b) = a * c - a * b
    OBVIOUS
<1>. QED
    BY <1>1, <1>2

LEMMA PositiveProduct ==
    ASSUME NEW a \in Nat \ {0}, NEW b \in Nat \ {0}
    PROVE  a * b \in Nat \ {0} /\ -a * b = -(a * b)
OBVIOUS

\* A gain, or a loss that is smaller than the one from the best price, is no
\* loss of the trailing stop.
LEMMA GainIsNoLoss ==
    ASSUME NEW b \in Barriers, NEW c \in Nat \ {0}, NEW p \in Nat \ {0}, Gain(b, c, p) >= 0
    PROVE  ~Lost(b, c, p, TrailingStop)
<1>1. TrailingStop * c \in Nat \ {0} /\ -TrailingStop * c = -(TrailingStop * c)
    BY PositiveProduct, BarrierAssumption
<1>2. PICK t \in Nat \ {0} : -TrailingStop * c = -t
    BY <1>1
<1>3. Gain(b, c, p) \in Int
    BY DEF Gain
<1>. QED
    BY <1>2, <1>3 DEF Lost

LEMMA TrailsTheBest ==
    ASSUME NEW b \in Barriers, NEW c \in Nat \ {0}, NEW p \in Nat \ {0},
           b.trough <= c, c <= b.peak, ~Lost(b, Best(b), p, TrailingStop)
    PROVE  ~Lost(b, c, p, TrailingStop)
<1>1. b.peak \in Nat \ {0} /\ b.trough \in Nat \ {0} /\ TrailingStop \in Nat \ {0}
      /\ b.long \in BOOLEAN
    BY BarrierAssumption DEF Barriers
<1>2. PICK m \in Nat \ {0} : m = Best(b)
    BY <1>1 DEF Best
<1>3. PICK x \in Nat : x = TrailingStop * c /\ -TrailingStop * c = -x
    BY <1>1, PositiveProduct
<1>4. PICK y \in Nat : y = TrailingStop * m /\ -TrailingStop * m = -y
    BY <1>1, PositiveProduct
<1>5. CASE b.long
    <2>1. c <= m /\ (p - m) * 100 > -y
        BY <1>1, <1>2, <1>4, <1>5 DEF Best, Lost, Gain
    <2>2. CASE TrailingStop <= 100
        <3>1. PICK a \in Nat : a = 100 - TrailingStop
            BY <1>1, <2>2
        <3>2. a * c <= a * m /\ a * c \in Nat /\ a * m \in Nat
            BY <2>1, Products
        <3>3. a * c = 100 * c - x /\ a * m = 100 * m - y
            BY <1>1, <1>3, <1>4, <3>1
        <3>4. (p - c) * 100 > -x
            BY <2>1, <3>2, <3>3
        <3>. QED
            BY <1>3, <1>5, <3>4 DEF Lost, Gain
    <2>3. CASE TrailingStop > 100
        <3>1. PICK a \in Nat : a = TrailingStop - 100
            BY <1>1, <2>3
        <3>2. a * c \in Nat /\ a * c = x - 100 * c
            BY <1>1, <1>3, <3>1
        <3>3. (p - c) * 100 > -x
            BY <3>2
        <3>. QED
            BY <1>3, <1>5, <3>3 DEF Lost, Gain
    <2>. QED
        BY <1>1, <2>2, <2>3
<1>6. CASE ~b.long
    <2>1. m <= c /\ (m - p) * 100 > -y
        BY <1>1, <1>2, <1>4, <1>6 DEF Best, Lost, Gain
    <2>2. y <= x
        BY <1>1, <1>3, <1>4, <2>1, Products
    <2>3. (c - p) * 100 > -x
        BY <2>1, <2>2
    <2>. QED
        BY <1>3, <1>6, <2>3 DEF Lost, Gain
<1>. QED
    BY <1>1, <1>5, <1>6

\* check() of one price keeps what the barriers remember, and unless it closes
\* the position, the price is none at which it is to be stopped.
LEMMA CheckKeeps ==
    ASSUME NEW b \in Barriers, NEW p \in Prices, NEW when \in Nat, NEW prices \in SUBSET Prices,
           Remembers(b, prices), NEW result, result = Check(b, p, when)
    PROVE  /\ Remembers(result.barrier, prices \cup {p})
           /\ result.reason \in {"none", "partial_take_profit"} =>
                Inside(result.barrier, prices \cup {p}, p)
           /\ result.reason = "none" => NotYet(result.barrier, p, when)
           /\ result.barrier.partial <=> (b.partial \/ result.reason = "partial_take_profit")
           /\ result.reason = "partial_take_profit" => ~b.partial
<1>1. p \in Nat \ {0} /\ prices \in SUBSET (Nat \ {0})
    BY LiveAssumption
<1>2. b.long \in BOOLEAN /\ b.armed \in BOOLEAN /\ b.partial \in BOOLEAN
      /\ b.peak \in Nat \ {0} /\ b.trough \in Nat \ {0}
    BY DEF Barriers
<1>3. PICK t : t = Tracked(b, p)
    OBVIOUS
<1>4. PICK reason : reason = Reason(t, p, when)
    OBVIOUS
<1>5. PICK a \in Barriers : a = result.barrier
    BY CheckType
<1>6. PICK even : even = Gained(b, EntryPrice, p, BreakEven)
    OBVIOUS
<1>7. even \in BOOLEAN
    BY <1>6 DEF Gained
<1>8. t = [b EXCEPT !.peak = IF p > b.peak THEN p ELSE b.peak,
                    !.trough = IF p < b.trough THEN p ELSE b.trough,
                    !.armed = b.armed \/ even]
    BY <1>3, <1>6 DEF Tracked
<1>9. /\ t \in Barriers /\ t.long = b.long /\ t.partial = b.partial /\ t.armed = (b.armed \/ even)
      /\ t.entered = b.entered
      /\ t.peak >= b.peak /\ t.peak >= p /\ t.trough <= b.trough /\ t.trough <= p
    <2>1. PICK peak \in Nat \ {0} : peak = (IF p > b.peak THEN p ELSE b.peak)
        BY <1>1, <1>2
    <2>2. PICK trough \in Nat \ {0} : trough = (IF p < b.trough THEN p ELSE b.trough)
        BY <1>1, <1>2
    <2>3. PICK armed \in BOOLEAN : armed = (b.armed \/ even)
        BY <1>2, <1>7
    <2>4. peak >= b.peak /\ peak >= p /\ trough <= b.trough /\ trough <= p
        BY <1>1, <1>2, <2>1, <2>2
    <2>5. t = [b EXCEPT !.peak = peak, !.trough = trough, !.armed = armed]
        BY <1>8, <2>1, <2>2, <2>3
    <2>6. t \in Barriers /\ t.long = b.long /\ t.partial = b.partial /\ t.armed = armed
          /\ t.entered = b.entered /\ t.peak = peak /\ t.trough = trough
        BY <2>5 DEF Barriers
    <2>. QED
        BY <2>3, <2>4, <2>6
<1>10. result.reason = reason
       /\ a = [t EXCEPT !.partial = t.partial \/ reason = "partial_take_profit"]
    BY <1>3, <1>4, <1>5 DEF Check
<1>11. /\ a.long = b.long /\ a.armed = t.armed /\ a.peak = t.peak /\ a.trough = t.trough
       /\ a.partial = (b.partial \/ reason = "partial_take_profit")
       /\ a.entered = t.entered
    BY <1>9, <1>10 DEF Barriers
<1>12. \A from \in Int, price \in Int : Gain(t, from, price) = Gain(b, from, price)
                                        /\ Gain(a, from, price) = Gain(b, from, price)
                                        /\ Gain(b, from, price) \in Int
    BY <1>9, <1>11 DEF Gain
<1>13. EntryPrice \in Nat \ {0} /\ Partial \in Nat \ {0} /\ BreakEven \in Nat \ {0}
       /\ StopLoss \in Nat \ {0} /\ TrailingStop \in Nat \ {0}
    BY BarrierAssumption
<1>14. \A price \in Int, pct \in Int :
            /\ Gained(t, EntryPrice, price, pct) <=> Gained(b, EntryPrice, price, pct)
            /\ Gained(a, EntryPrice, price, pct) <=> Gained(b, EntryPrice, price, pct)
    <2>. TAKE price \in Int, pct \in Int
    <2>1. Gain(t, EntryPrice, price) = Gain(b, EntryPrice, price)
          /\ Gain(a, EntryPrice, price) = Gain(b, EntryPrice, price)
        BY <1>9, <1>11 DEF Gain
    <2>. QED
        BY <2>1 DEF Gained
<1>15. /\ reason = "partial_take_profit" <=> ~t.partial /\ Gained(t, EntryPrice, p, Partial)
       /\ reason = "none" => /\ ~(t.armed /\ Gain(t, EntryPrice, p) <= 0)
                             /\ ~Lost(t, Best(t), p, TrailingStop)
                             /\ ~Lost(t, EntryPrice, p, StopLoss)
                             /\ ~Gained(t, EntryPrice, p, TakeProfit)
                             /\ ~(when - t.entered >= TimeLimit)
    BY <1>4, <1>9 DEF Reason
<1>16. Remembers(a, prices \cup {p})
    <2>. SUFFICES ASSUME NEW c \in prices \cup {p}
                  PROVE  /\ a.trough <= c /\ c <= a.peak
                         /\ Gained(a, EntryPrice, c, BreakEven) => a.armed
                         /\ Gained(a, EntryPrice, c, Partial) => a.partial
        BY DEF Remembers
    <2>1. CASE c \in prices
        <3>1. /\ b.trough <= c /\ c <= b.peak
              /\ Gained(b, EntryPrice, c, BreakEven) => b.armed
              /\ Gained(b, EntryPrice, c, Partial) => b.partial
            BY <2>1 DEF Remembers
        <3>2. /\ Gained(a, EntryPrice, c, BreakEven) <=> Gained(b, EntryPrice, c, BreakEven)
              /\ Gained(a, EntryPrice, c, Partial) <=> Gained(b, EntryPrice, c, Partial)
            BY <1>1, <1>13, <1>14, <2>1
        <3>3. a.trough <= c /\ c <= a.peak
            BY <1>1, <1>2, <1>9, <1>11, <2>1, <3>1 DEF Barriers
        <3>. QED
            BY <1>9, <1>11, <3>1, <3>2, <3>3
    <2>2. CASE c = p
        <3>1. /\ Gained(a, EntryPrice, p, BreakEven) <=> even
              /\ Gained(a, EntryPrice, p, Partial) <=> Gained(t, EntryPrice, p, Partial)
            BY <1>1, <1>6, <1>13, <1>14
        <3>2. Gained(t, EntryPrice, p, Partial) => a.partial
            BY <1>9, <1>11, <1>15
        <3>. QED
            BY <1>1, <1>9, <1>11, <2>2, <3>1, <3>2
    <2>. QED
        BY <2>1, <2>2
<1>17. ASSUME reason = "none"
       PROVE  Inside(a, prices \cup {p}, p)
    <2>1. ~Lost(a, EntryPrice, p, StopLoss)
        BY <1>1, <1>12, <1>13, <1>15, <1>17 DEF Lost
    <2>2. Best(a) = Best(t) /\ Best(t) \in Int
        BY <1>9, <1>11 DEF Best, Barriers
    <2>3. ~Lost(a, Best(a), p, TrailingStop)
        BY <1>1, <1>12, <1>15, <1>17, <2>2 DEF Lost
    <2>4. \A c \in prices \cup {p} : ~Lost(a, c, p, TrailingStop)
        BY <1>1, <1>16, <2>3, TrailsTheBest DEF Remembers
    <2>5. (\E c \in prices \cup {p} : Gained(a, EntryPrice, c, BreakEven)) => t.armed
        BY <1>11, <1>16 DEF Remembers
    <2>6. t.armed => Gain(a, EntryPrice, p) > 0
        BY <1>1, <1>12, <1>13, <1>15, <1>17
    <2>. QED
        BY <2>1, <2>4, <2>5, <2>6 DEF Inside
<1>18. ASSUME reason = "partial_take_profit"
       PROVE  Inside(a, prices \cup {p}, p)
    <2>1. PICK z \in Nat \ {0} : z = Partial * EntryPrice
        BY <1>13, PositiveProduct
    <2>2. PICK y \in Nat \ {0} : -StopLoss * EntryPrice = -y
        BY <1>13, PositiveProduct
    <2>3. PICK g \in Int : g = Gain(b, EntryPrice, p) /\ g = Gain(a, EntryPrice, p)
                            /\ g = Gain(t, EntryPrice, p)
        <3>1. Gain(a, EntryPrice, p) = Gain(b, EntryPrice, p)
              /\ Gain(t, EntryPrice, p) = Gain(b, EntryPrice, p)
            BY <1>9, <1>11 DEF Gain
        <3>2. Gain(b, EntryPrice, p) \in Int
            BY <1>1, <1>2, <1>13 DEF Gain
        <3>. QED
            BY <3>1, <3>2
    <2>4. g * 100 >= z
        BY <1>15, <1>18, <2>1, <2>3 DEF Gained
    <2>5. g > 0
        BY <2>4
    <2>6. ~Lost(a, EntryPrice, p, StopLoss)
        BY <2>2, <2>3, <2>5 DEF Lost
    <2>7. \A c \in prices \cup {p} : ~Lost(a, c, p, TrailingStop)
        <3>. SUFFICES ASSUME NEW c \in prices \cup {p}
                      PROVE  Gain(a, c, p) >= 0
            BY <1>1, GainIsNoLoss
        <3>1. CASE c = p
            BY <1>1, <3>1 DEF Gain
        <3>2. CASE c \in prices
            <4>1. ~Gained(b, EntryPrice, c, Partial)
                BY <1>9, <1>15, <1>18, <3>2 DEF Remembers
            <4>2. ~(Gain(b, EntryPrice, c) * 100 >= z)
                BY <2>1, <4>1 DEF Gained
            <4>3. c \in Nat
                BY <1>1, <3>2
            <4>. QED
                BY <1>1, <1>2, <1>11, <1>13, <2>3, <2>4, <4>2, <4>3 DEF Gain
        <3>. QED
            BY <3>1, <3>2
    <2>. QED
        BY <2>3, <2>5, <2>6, <2>7 DEF Inside
<1>19. ASSUME reason = "none"
       PROVE  NotYet(a, p, when)
    <2>1. TakeProfit \in Int /\ TimeLimit \in Int
        BY BarrierAssumption
    <2>2. ~Gained(a, EntryPrice, p, TakeProfit)
        BY <1>1, <1>14, <1>15, <1>19, <2>1
    <2>3. a.entered \in Nat /\ a.entered = t.entered
        BY <1>11 DEF Barriers
    <2>. QED
        BY <1>15, <1>19, <2>1, <2>2, <2>3 DEF NotYet
<1>20. reason = "partial_take_profit" => ~b.partial
    BY <1>9, <1>15
<1>. QED
    BY <1>5, <1>10, <1>11, <1>16, <1>17, <1>18, <1>19, <1>20

\* Every price that the barriers saw.
Seen == {closes[i].price : i \in 1..Len(closes)}

TookPart(list) == {i \in 1..Len(list) : list[i].reason = "partial_take_profit"}

BarrierInv ==
    /\ Remembers(barrier, Seen)
    /\ barrier.partial <=> TookPart(closes) # {}
    /\ \A i, j \in TookPart(closes) : i = j
    /\ exit \in {"none", "partial_take_profit"} /\ closes # <<>> =>
        LET last == closes[Len(closes)]
        IN  /\ Inside(barrier, Seen, last.price)
            /\ last.reason = "none" => NotYet(barrier, last.price, last.when)

\* One more close.
LEMMA TookPartMore ==
    ASSUME NEW list \in Seq(Closes), NEW close \in Closes
    PROVE  LET more == Append(list, close)
           IN  /\ more[Len(more)] = close
               /\ {more[i].price : i \in 1..Len(more)}
                    = {list[i].price : i \in 1..Len(list)} \cup {close.price}
               /\ close.reason = "partial_take_profit" =>
                    TookPart(more) = TookPart(list) \cup {Len(list) + 1}
               /\ close.reason # "partial_take_profit" => TookPart(more) = TookPart(list)
<1>1. PICK n \in Nat : n = Len(list)
    OBVIOUS
<1>2. PICK more : more = Append(list, close)
    OBVIOUS
<1>3. Len(more) = n + 1 /\ more[n + 1] = close /\ \A i \in 1..n : more[i] = list[i]
    BY <1>1, <1>2
<1>4. 1..(n + 1) = (1..n) \cup {n + 1} /\ n + 1 \notin 1..n
    OBVIOUS
<1>5. {more[i].price : i \in 1..(n + 1)} = {list[i].price : i \in 1..n} \cup {close.price}
    BY <1>3, <1>4
<1>6. TookPart(more) = {i \in (1..n) \cup {n + 1} : more[i].reason = "partial_take_profit"}
      /\ TookPart(list) = {i \in 1..n : list[i].reason = "partial_take_profit"}
    BY <1>1, <1>3, <1>4 DEF TookPart
<1>7. close.reason = "partial_take_profit" => TookPart(more) = TookPart(list) \cup {n + 1}
    BY <1>3, <1>6
<1>8. close.reason # "partial_take_profit" => TookPart(more) = TookPart(list)
    BY <1>3, <1>6
<1>. QED
    BY <1>1, <1>2, <1>3, <1>5, <1>7, <1>8

LEMMA BarrierStep == TypeOK /\ BarrierInv /\ [Next]_vars => BarrierInv'
<1>. SUFFICES ASSUME TypeOK, BarrierInv, [Next]_vars PROVE BarrierInv'
    OBVIOUS
<1>1. ASSUME UNCHANGED position
      PROVE  BarrierInv'
    BY <1>1 DEF position, BarrierInv, Seen, TookPart
<1>2. ASSUME NEW w \in Workers, Handle(w)
      PROVE  BarrierInv'
    <2>1. PICK item : item = Head(waiting)
        OBVIOUS
    <2>2. waiting # <<>> /\ Called(item)
        BY <1>2, <2>1 DEF Handle, Begin
    <2>3. item \in Jobs \cup Events
        BY <2>1, <2>2 DEF TypeOK
    <2>4. CASE item.kind = "event" /\ item.source = "bars" /\ exit \in {"none", "partial_take_profit"}
        <3>1. item \in Events
            BY <2>3, <2>4 DEF Jobs
        <3>2. item.event \in BarEvents
            BY <2>4, <3>1 DEF Events
        <3>3. PICK p \in Prices, when \in Nat : p = item.event.close /\ when = item.event.when
            BY <3>2 DEF BarEvents
        <3>4. PICK result : result = Check(barrier, p, when)
            OBVIOUS
        <3>5. PICK close \in Closes :
                /\ close.price = p /\ close.when = when /\ close.reason = result.reason
                /\ close = [price |-> p, when |-> when, reason |-> result.reason]
            <4>1. result.reason \in Reasons
                BY <3>4, Typed, CheckType
            <4>. QED
                BY <4>1 DEF Closes
        <3>6. /\ barrier' = result.barrier
              /\ exit' = IF result.reason = "none" THEN exit ELSE result.reason
              /\ closes' = Append(closes, close)
            BY <2>2, <2>4, <3>3, <3>4, <3>5 DEF Called
        <3>7. closes \in Seq(Closes)
            BY DEF TypeOK
        <3>8. Seen \in SUBSET Prices
            <4>1. \A i \in 1..Len(closes) : closes[i] \in Closes
                BY <3>7
            <4>. QED
                BY <4>1 DEF Seen, Closes
        <3>9. /\ Seen' = Seen \cup {p} /\ closes'[Len(closes')] = close
              /\ close.reason = "partial_take_profit" =>
                    TookPart(closes') = TookPart(closes) \cup {Len(closes) + 1}
              /\ close.reason # "partial_take_profit" => TookPart(closes') = TookPart(closes)
            BY <3>5, <3>6, <3>7, TookPartMore DEF Seen
        <3>10. /\ Remembers(result.barrier, Seen \cup {p})
               /\ result.reason \in {"none", "partial_take_profit"} =>
                    Inside(result.barrier, Seen \cup {p}, p)
               /\ result.reason = "none" => NotYet(result.barrier, p, when)
               /\ result.barrier.partial <=> (barrier.partial \/ result.reason = "partial_take_profit")
               /\ result.reason = "partial_take_profit" => ~barrier.partial
            BY <3>4, <3>8, Typed, CheckKeeps DEF BarrierInv
        <3>11. exit' \in {"none", "partial_take_profit"} =>
                    result.reason \in {"none", "partial_take_profit"}
            BY <3>6
        <3>12. /\ barrier'.partial <=> TookPart(closes') # {}
               /\ \A i, j \in TookPart(closes') : i = j
            <4>1. CASE close.reason = "partial_take_profit"
                <5>1. TookPart(closes) = {} /\ TookPart(closes') = {Len(closes) + 1}
                    BY <3>5, <3>9, <3>10, <4>1 DEF BarrierInv
                <5>. QED
                    BY <3>5, <3>6, <3>10, <4>1, <5>1
            <4>2. CASE close.reason # "partial_take_profit"
                BY <3>5, <3>6, <3>9, <3>10, <4>2 DEF BarrierInv
            <4>. QED
                BY <4>1, <4>2
        <3>13. exit' \in {"none", "partial_take_profit"} =>
                /\ Inside(barrier', Seen', close.price)
                /\ close.reason = "none" => NotYet(barrier', close.price, close.when)
            BY <3>5, <3>6, <3>9, <3>10, <3>11
        <3>. QED
            BY <3>6, <3>9, <3>10, <3>12, <3>13 DEF BarrierInv
    <2>5. CASE ~(item.kind = "event" /\ item.source = "bars"
                 /\ exit \in {"none", "partial_take_profit"})
        BY <1>1, <2>2, <2>5 DEF Called
    <2>. QED
        BY <2>4, <2>5
<1>3. CASE \/ ReceiveTrade \/ ReceiveUpdate \/ Flush \/ Tick \/ Dispatch \/ StopTrading
           \/ UNCHANGED vars \/ \E w \in Workers : HandlerEnds(w) \/ Schedule(w)
    BY <1>1, <1>3 DEF ReceiveTrade, ReceiveUpdate, Flush, Tick, Dispatch, StopTrading, HandlerEnds,
                      Schedule, vars
<1>. QED
    BY <1>2, <1>3 DEF Next

\* Exits are taken, for any barriers, long or short, and any prices and times: the
\* last close of a position that is still open, all or the rest of it, is no loss
\* of the stop loss, nor of the trailing stop from any close it has seen, and a gain
\* if it ever gained what arms the break even stop; if check() said nothing at that
\* close, it is below the take profit and the time limit, and the part was taken
\* if it is to be; and the part is taken once.
THEOREM AlwaysInsideBarriers == Spec => []InsideBarriers
<1>1. Init => BarrierInv
    <2>. SUFFICES ASSUME Init PROVE BarrierInv
        OBVIOUS
    <2>1. closes = <<>> /\ Seen = {} /\ TookPart(closes) = {}
        BY DEF Init, Seen, TookPart
    <2>2. barrier.partial = FALSE
        BY DEF Init, NewBarrier
    <2>. QED
        BY <2>1, <2>2 DEF BarrierInv, Remembers
<1>2. TypeOK /\ BarrierInv => InsideBarriers
    <2>. SUFFICES ASSUME TypeOK, BarrierInv PROVE InsideBarriers
        OBVIOUS
    <2>1. closes \in Seq(Closes) /\ DOMAIN closes = 1..Len(closes)
        BY DEF TypeOK
    <2>2. \A i \in DOMAIN closes : closes[i].price \in Seen
        BY <2>1 DEF Seen
    <2>3. ASSUME exit \in {"none", "partial_take_profit"}, closes # <<>>,
                 NEW last, last = closes[Len(closes)]
          PROVE  /\ ~Lost(barrier, EntryPrice, last.price, StopLoss)
                 /\ \A i \in DOMAIN closes : ~Lost(barrier, closes[i].price, last.price, TrailingStop)
                 /\ (\E i \in DOMAIN closes : Gained(barrier, EntryPrice, closes[i].price, BreakEven))
                      => Gain(barrier, EntryPrice, last.price) > 0
                 /\ last.reason = "none" =>
                     /\ ~Gained(barrier, EntryPrice, last.price, TakeProfit)
                     /\ last.when - barrier.entered < TimeLimit
                     /\ Gained(barrier, EntryPrice, last.price, Partial) =>
                         \E i \in DOMAIN closes : closes[i].reason = "partial_take_profit"
        <3>1. Inside(barrier, Seen, last.price)
              /\ (last.reason = "none" => NotYet(barrier, last.price, last.when))
            BY <2>3 DEF BarrierInv
        <3>2. last.price \in Seen
            BY <2>1, <2>2, <2>3
        <3>3. Gained(barrier, EntryPrice, last.price, Partial) => TookPart(closes) # {}
            BY <3>2 DEF BarrierInv, Remembers
        <3>. QED
            BY <2>1, <2>2, <3>1, <3>3 DEF Inside, NotYet, TookPart
    <2>4. \A i, j \in DOMAIN closes :
            closes[i].reason = "partial_take_profit" /\ closes[j].reason = "partial_take_profit" => i = j
        BY <2>1 DEF BarrierInv, TookPart
    <2>. QED
        BY <2>3, <2>4 DEF InsideBarriers
<1>. QED
    BY <1>1, <1>2, InitTypes, TypesStep, BarrierStep, PTL DEF Spec
-----------------------------------------------------------------------------
(***************************************************************************)
(* The bars.                                                               *)
(***************************************************************************)

\* The windows that are over once one more is: those before, and it, unless it
\* is one before the first.
LEMMA NextWindow ==
    ASSUME NEW first \in Nat, NEW begin \in Nat, NEW q \in Nat, begin = BarDuration * q
    PROVE  /\ begin + BarDuration = BarDuration * (q + 1)
           /\ \A b : b \in Earlier(first, begin + BarDuration)
                        <=> b \in Earlier(first, begin) \/ (b = begin /\ first <= begin)
<1>. USE BarAssumption
<1>1. BarDuration * (q + 1) = begin + BarDuration
    OBVIOUS
<1>2. begin % BarDuration = 0
    OBVIOUS
<1>3. ASSUME NEW b \in 0..(begin + BarDuration - 1), b % BarDuration = 0
      PROVE  b <= begin
    <2>1. b = (BarDuration * (b \div BarDuration)) + (b % BarDuration)
        OBVIOUS
    <2>2. PICK p \in Nat : p = b \div BarDuration
        OBVIOUS
    <2>3. b = BarDuration * p
        BY <1>3, <2>1, <2>2
    <2>4. CASE p <= q
        BY <2>3, <2>4, Products
    <2>5. CASE p >= q + 1
        <3>1. BarDuration * (q + 1) <= BarDuration * p
            BY <2>5, Products, q + 1 \in Nat
        <3>2. BarDuration * p \in Nat
            BY <2>2
        <3>. QED
            BY <1>1, <2>3, <3>1, <3>2
    <2>. QED
        BY <2>2, <2>4, <2>5
<1>. QED
    BY <1>1, <1>2, <1>3 DEF Earlier

\* What BarsComplete says of a list of accepted trades and of published bars.
Complete(list, published, begin, first) ==
    /\ \A i \in 1..Len(published) :
        /\ TradesIn(list, published[i].begin) # <<>>
        /\ published[i] = BarOf(published[i].begin, TradesIn(list, published[i].begin))
        /\ i > 1 => published[i - 1].begin < published[i].begin
    /\ \A b \in Earlier(first, begin) :
        TradesIn(list, b) # <<>> => \E i \in 1..Len(published) : published[i].begin = b
    /\ \A i \in 1..Len(list), b \in Earlier(first, begin) :
        list[i].trade.when \in b..(End(b) - 1) => list[i].open <= b

LEMMA LastOrBefore ==
    ASSUME NEW n \in Nat, NEW k \in 1..(n + 1)
    PROVE  k \in 1..n \/ k = n + 1
OBVIOUS

\* A trade that is accepted is of no window before the one that is open.
LEMMA LaterTrade ==
    ASSUME NEW list \in Seq(Records), NEW r \in Records, NEW b \in Nat, b < r.open
    PROVE  TradesIn(Append(list, r), b) = TradesIn(list, b)
<1>1. PICK more : more = Append(list, r)
    OBVIOUS
<1>2. PICK n \in Nat : n = Len(list)
    OBVIOUS
<1>3. more \in Seq(Records) /\ Len(more) = n + 1 /\ more[n + 1] = r
      /\ \A k \in 1..n : more[k] = list[k]
    BY <1>1, <1>2
<1>4. Filtered(TradesIn(more, b), n + 1, ItsOf(more, b), TradeOf(more), Trades)
    BY <1>3, TradesFilter
<1>5. Filtered(TradesIn(list, b), n, ItsOf(list, b), TradeOf(list), Trades)
    BY <1>2, TradesFilter
<1>6. \A k \in 1..n : (0 + k \in ItsOf(more, b) <=> k \in ItsOf(list, b))
                      /\ TradeOf(more)[0 + k] = TradeOf(list)[k]
    BY <1>2, <1>3 DEF ItsOf, TradeOf
<1>7. \A k \in (0 + n + 1)..(n + 1) : k \notin ItsOf(more, b)
    <2>1. \A k \in (0 + n + 1)..(n + 1) : k = n + 1
        OBVIOUS
    <2>2. n + 1 \notin ItsOf(more, b)
        BY <1>3 DEF ItsOf, Records
    <2>. QED
        BY <2>1, <2>2
<1>8. n + 1 \in Nat /\ 0 \in Nat /\ 0 + n <= n + 1 /\ \A k \in 1..0 : k \notin ItsOf(more, b)
    OBVIOUS
<1>9. Agree(0, n, n + 1, ItsOf(more, b), ItsOf(list, b), TradeOf(more), TradeOf(list))
    BY <1>6, <1>7, <1>8, Zenon DEF Agree
<1>10. TradesIn(more, b) = TradesIn(list, b)
    BY <1>4, <1>5, <1>8, <1>9, FiltersAgree, Zenon
<1>. QED
    BY <1>1, <1>10

LEMMA HoldsWith ==
    ASSUME NEW a, NEW list, NEW n \in Nat, NEW m \in Nat, NEW d \in Nat, d + m = n,
           Len(list) = n, Len(a.trades) = m,
           \A k \in 1..m : a.trades[k] = list[d + k].trade,
           \A k \in 1..d : list[k].trade.when < a.begin,
           \A i, j \in 1..n : i < j => list[i].trade.when <= list[j].trade.when,
           \A i \in 1..n : list[i].trade.when <= a.nextGe /\ list[i].open <= a.begin
    PROVE  Holds(a, list)
<1>1. n - m = d /\ m <= n
    OBVIOUS
<1>. QED
    BY <1>1 DEF Holds

\* The invariant, of an aggregator, what it accepted and what it published.
InStep(a, list, published, first) ==
    /\ Holds(a, list)
    /\ Opened(a, published, first)
    /\ Complete(list, published, a.begin, first)

Accepts(a, list, trade, next, more) ==
    /\ InOrder(a, trade) /\ next = PushTrade(a, trade)
    /\ more = Append(list, [trade |-> trade, open |-> a.begin])

LEMMA AcceptCompletes ==
    ASSUME NEW a \in Aggregators, NEW list \in Seq(Records), NEW published \in Seq(BarEvents),
           NEW first \in Nat, InStep(a, list, published, first),
           NEW trade \in Trades, NEW next, NEW more, Accepts(a, list, trade, next, more)
    PROVE  InStep(next, more, published, first)
<1>. USE DEF InStep
<1>0. /\ InOrder(a, trade) /\ next = PushTrade(a, trade)
      /\ more = Append(list, [trade |-> trade, open |-> a.begin])
    BY DEF Accepts
<1>1. a.trades \in Seq(Trades) /\ a.nextGe \in Nat /\ a.begin \in Nat /\ trade.when \in Nat
    BY DEF Aggregators, Trades
<1>2. PICK n \in Nat, m \in Nat : n = Len(list) /\ m = Len(a.trades)
    BY <1>1
<1>3. PICK r \in Records : /\ r.trade = trade /\ r.open = a.begin /\ more = Append(list, r)
    <2>1. PICK r : r = [trade |-> trade, open |-> a.begin]
        OBVIOUS
    <2>2. r \in Records /\ r.trade = trade /\ r.open = a.begin
        BY <1>1, <2>1 DEF Records
    <2>3. more = Append(list, r)
        BY <1>0, <2>1
    <2>. QED
        BY <2>2, <2>3, Zenon
<1>4. more \in Seq(Records) /\ Len(more) = n + 1 /\ more[n + 1] = r
      /\ \A k \in 1..n : more[k] = list[k]
    BY <1>2, <1>3
<1>5. PICK kept : kept = Append(a.trades, trade)
    OBVIOUS
<1>6. Len(kept) = m + 1 /\ kept[m + 1] = trade /\ \A k \in 1..m : kept[k] = a.trades[k]
    BY <1>1, <1>2, <1>5
<1>7. next.trades = kept /\ next.nextGe = trade.when /\ next.begin = a.begin /\ next.skip = a.skip
    BY <1>0, <1>5 DEF PushTrade, Aggregators
<1>8. trade.when >= a.nextGe
    BY <1>0 DEF InOrder
<1>9. \A k \in 1..n : list[k].trade.when \in Nat /\ list[k].open \in Nat
    <2>1. \A k \in 1..n : list[k] \in Records
        BY <1>2
    <2>. QED
        BY <2>1 DEF Records, Trades
<1>10. /\ m <= n
       /\ \A k \in 1..m : a.trades[k] = list[n - m + k].trade
       /\ \A k \in 1..(n - m) : list[k].trade.when < a.begin
       /\ \A i, j \in 1..n : i < j => list[i].trade.when <= list[j].trade.when
       /\ \A i \in 1..n : list[i].trade.when <= a.nextGe /\ list[i].open <= a.begin
    BY <1>2 DEF Holds
<1>11. Holds(next, more)
    <2>1. n - m \in Nat /\ n - m + (m + 1) = n + 1 /\ n + 1 \in Nat /\ m + 1 \in Nat
        BY <1>10
    <2>2. ASSUME NEW k \in 1..(m + 1)
          PROVE  kept[k] = more[n - m + k].trade
        <3>1. CASE k \in 1..m
            <4>1. n - m + k \in 1..n
                BY <1>10, <3>1
            <4>. QED
                BY <1>4, <1>6, <1>10, <3>1, <4>1
        <3>2. CASE k = m + 1
            <4>1. n - m + k = n + 1
                BY <3>2
            <4>. QED
                BY <1>3, <1>4, <1>6, <3>2, <4>1
        <3>. QED
            BY <3>1, <3>2, LastOrBefore, Zenon
    <2>3. \A k \in 1..(n - m) : more[k].trade.when < a.begin
        BY <1>4, <1>10
    <2>4. \A i \in 1..(n + 1) : more[i].trade.when <= trade.when /\ more[i].open <= a.begin
        <3>. TAKE i \in 1..(n + 1)
        <3>1. CASE i \in 1..n
            BY <1>1, <1>4, <1>8, <1>9, <1>10, <3>1
        <3>2. CASE i = n + 1
            BY <1>1, <1>3, <1>4, <3>2
        <3>. QED
            BY <3>1, <3>2, LastOrBefore, Zenon
    <2>5. \A i, j \in 1..(n + 1) : i < j => more[i].trade.when <= more[j].trade.when
        <3>. SUFFICES ASSUME NEW i \in 1..(n + 1), NEW j \in 1..(n + 1), i < j
                      PROVE  more[i].trade.when <= more[j].trade.when
            OBVIOUS
        <3>1. CASE j \in 1..n
            BY <1>4, <1>10, <3>1, i \in 1..n
        <3>2. CASE j = n + 1
            BY <1>3, <1>4, <2>4, <3>2
        <3>. QED
            BY <3>1, <3>2, LastOrBefore, Zenon
    <2>. QED
        <3>1. PICK d \in Nat : d = n - m
            BY <2>1
        <3>2. /\ d + (m + 1) = n + 1 /\ Len(next.trades) = m + 1
              /\ \A k \in 1..(m + 1) : next.trades[k] = more[d + k].trade
              /\ \A k \in 1..d : more[k].trade.when < next.begin
              /\ \A i \in 1..(n + 1) : more[i].trade.when <= next.nextGe /\ more[i].open <= next.begin
            BY <1>6, <1>7, <2>1, <2>2, <2>3, <2>4, <3>1
        <3>. QED
            BY <1>4, <2>1, <2>5, <3>2, HoldsWith, Zenon
<1>12. \A b \in Earlier(first, a.begin) : b \in Nat /\ End(b) \in Int /\ End(b) <= trade.when
    <2>. TAKE b \in Earlier(first, a.begin)
    <2>1. b \in Nat
        BY <1>1 DEF Earlier
    <2>2. End(b) \in Int
        BY <2>1, BarAssumption DEF End
    <2>3. End(b) <= a.nextGe
        BY DEF Opened
    <2>. QED
        BY <1>1, <1>8, <2>1, <2>2, <2>3
<1>13. Opened(next, published, first)
    BY <1>7, <1>12 DEF Opened
<1>14. \A b \in Earlier(first, a.begin) : TradesIn(more, b) = TradesIn(list, b)
    <2>. TAKE b \in Earlier(first, a.begin)
    <2>1. b \in Nat /\ b < r.open
        BY <1>1, <1>3 DEF Earlier
    <2>. QED
        BY <1>3, <2>1, LaterTrade
<1>15. \A i \in 1..Len(published) : published[i].begin \in Earlier(first, a.begin)
    BY DEF Opened
<1>16. \A i \in 1..(n + 1), b \in Earlier(first, a.begin) :
            more[i].trade.when \in b..(End(b) - 1) => more[i].open <= b
    <2>. TAKE i \in 1..(n + 1), b \in Earlier(first, a.begin)
    <2>1. CASE i \in 1..n
        BY <1>2, <1>4, <2>1 DEF Complete
    <2>2. CASE i = n + 1
        <3>1. trade.when \notin b..(End(b) - 1)
            BY <1>1, <1>12
        <3>. QED
            BY <1>3, <1>4, <2>2, <3>1
    <2>. QED
        BY <2>1, <2>2, LastOrBefore, Zenon
<1>17. Complete(more, published, a.begin, first)
    BY <1>4, <1>14, <1>15, <1>16 DEF Complete
<1>. QED
    BY <1>7, <1>11, <1>13, <1>17
\* A flush takes exactly the trades that were accepted of the window.
LEMMA WindowTrades ==
    ASSUME NEW a \in Aggregators, NEW list \in Seq(Records), Holds(a, list)
    PROVE  TradesIn(list, a.begin) = InWindow(a)
<1>1. a.trades \in Seq(Trades) /\ a.nextGe \in Nat /\ a.begin \in Nat /\ End(a.begin) \in Int
    BY BarAssumption DEF Aggregators, End
<1>2. PICK n \in Nat, m \in Nat : n = Len(list) /\ m = Len(a.trades)
    BY <1>1
<1>3. PICK window : window = Current(a)
    OBVIOUS
<1>4. PICK c \in 0..m :
        /\ window \in Seq(Trades) /\ Len(window) = c
        /\ \A k \in 1..c : window[k] = a.trades[k] /\ a.trades[k].when <= End(a.begin)
        /\ c < m => a.trades[c + 1].when > End(a.begin)
    BY <1>2, <1>3, CurrentTrades
<1>5. /\ m <= n
      /\ \A k \in 1..m : a.trades[k] = list[n - m + k].trade
      /\ \A k \in 1..(n - m) : list[k].trade.when < a.begin
      /\ \A i, j \in 1..n : i < j => list[i].trade.when <= list[j].trade.when
      /\ \A i \in 1..n : list[i].open <= a.begin
    BY <1>2 DEF Holds
<1>6. PICK d \in Nat : d = n - m
    BY <1>5
<1>7. \A k \in 1..n : list[k].trade.when \in Nat
    <2>1. \A k \in 1..n : list[k] \in Records
        BY <1>2
    <2>. QED
        BY <2>1 DEF Records, Trades
<1>8. \A k \in 1..c : d + k \in 1..n /\ list[d + k].trade = window[k]
                      /\ window[k].when <= End(a.begin)
    BY <1>4, <1>5, <1>6
<1>9. Filtered(TradesIn(list, a.begin), n, ItsOf(list, a.begin), TradeOf(list), Trades)
    BY <1>1, <1>2, TradesFilter
<1>10. Filtered(InWindow(a), c, Kept(window, a.begin), window, Trades)
    BY <1>3, <1>4, InWindowFilters
<1>11. \A k \in 1..d : k \notin ItsOf(list, a.begin)
    BY <1>1, <1>2, <1>5, <1>6, <1>7 DEF ItsOf
<1>12. \A k \in 1..c : (d + k \in ItsOf(list, a.begin) <=> k \in Kept(window, a.begin))
                       /\ TradeOf(list)[d + k] = window[k]
    <2>. TAKE k \in 1..c
    <2>1. d + k \in 1..n /\ list[d + k].trade = window[k] /\ window[k].when <= End(a.begin)
          /\ window[k].when \in Nat /\ list[d + k].open <= a.begin
        BY <1>5, <1>7, <1>8
    <2>. QED
        BY <1>1, <1>2, <1>4, <2>1 DEF ItsOf, Kept, TradeOf
<1>13. \A k \in (d + c + 1)..n : k \notin ItsOf(list, a.begin)
    <2>. SUFFICES ASSUME NEW k \in (d + c + 1)..n
                  PROVE  list[k].trade.when > End(a.begin)
        BY <1>1, <1>7 DEF ItsOf
    <2>1. c < m /\ c + 1 \in 1..m /\ d + (c + 1) \in 1..n /\ k \in 1..n
        BY <1>6
    <2>2. list[d + (c + 1)].trade.when > End(a.begin)
        BY <1>4, <1>5, <1>6, <2>1
    <2>3. k = d + (c + 1) \/ d + (c + 1) < k
        BY <2>1
    <2>4. list[d + (c + 1)].trade.when <= list[k].trade.when
        BY <1>5, <1>7, <2>1, <2>3
    <2>5. list[d + (c + 1)].trade.when \in Nat /\ list[k].trade.when \in Nat
        BY <1>7, <2>1
    <2>. QED
        BY <1>1, <2>2, <2>4, <2>5
<1>14. d + c <= n
    BY <1>6
<1>15. Agree(d, c, n, ItsOf(list, a.begin), Kept(window, a.begin), TradeOf(list), window)
    BY <1>11, <1>12, <1>13, <1>14, Zenon DEF Agree
<1>16. c \in Nat
    OBVIOUS
<1>. QED
    BY <1>9, <1>10, <1>15, <1>16, FiltersAgree, Zenon

LEMMA FlushCompletes ==
    ASSUME NEW a \in Aggregators, NEW list \in Seq(Records), NEW published \in Seq(BarEvents),
           NEW first \in Nat, InStep(a, list, published, first),
           NEW next, next = AfterFlush(a), NEW more, more = published \o Flushed(a)
    PROVE  InStep(next, list, more, first)
<1>. USE DEF InStep
<1>1. a.trades \in Seq(Trades) /\ a.nextGe \in Nat /\ a.begin \in Nat /\ End(a.begin) \in Nat
    BY BarAssumption DEF Aggregators, End
<1>2. PICK n \in Nat, m \in Nat, l \in Nat : n = Len(list) /\ m = Len(a.trades) /\ l = Len(published)
    BY <1>1
<1>3. PICK c \in 0..m :
        /\ c = Len(Current(a))
        /\ \A k \in 1..c : a.trades[k].when <= End(a.begin)
    BY <1>2, CurrentTrades
<1>4. /\ Len(next.trades) = m - c /\ \A k \in 1..(m - c) : next.trades[k] = a.trades[c + k]
      /\ next.nextGe \in Nat /\ next.nextGe >= a.nextGe /\ next.nextGe >= End(a.begin)
      /\ next.skip = FALSE /\ next.begin = a.begin + BarDuration
    BY <1>2, <1>3, FlushKeeps DEF Aggregators
<1>5. /\ m <= n
      /\ \A k \in 1..m : a.trades[k] = list[n - m + k].trade
      /\ \A k \in 1..(n - m) : list[k].trade.when < a.begin
      /\ \A i, j \in 1..n : i < j => list[i].trade.when <= list[j].trade.when
      /\ \A i \in 1..n : list[i].trade.when <= a.nextGe /\ list[i].open <= a.begin
    BY <1>2 DEF Holds
<1>6. \A k \in 1..n : list[k].trade.when \in Nat /\ list[k].open \in Nat
    <2>1. \A k \in 1..n : list[k] \in Records
        BY <1>2
    <2>. QED
        BY <2>1 DEF Records, Trades
<1>7. Holds(next, list)
    <2>1. PICK d \in Nat, e \in Nat : e = m - c /\ d = n - m + c
        BY <1>5
    <2>2. d + e = n /\ Len(next.trades) = e
        BY <1>4, <2>1
    <2>3. \A k \in 1..e : next.trades[k] = list[d + k].trade
        <3>. TAKE k \in 1..e
        <3>1. c + k \in 1..m /\ n - m + (c + k) = d + k
            BY <2>1
        <3>. QED
            BY <1>4, <1>5, <2>1, <3>1
    <2>4. \A k \in 1..d : list[k].trade.when < next.begin
        <3>. TAKE k \in 1..d
        <3>1. k \in 1..n
            BY <2>2
        <3>2. CASE k \in 1..(n - m)
            BY <1>1, <1>4, <1>5, <1>6, <3>1, <3>2, BarAssumption
        <3>3. CASE k \notin 1..(n - m)
            <4>1. k - (n - m) \in 1..c /\ k - (n - m) \in 1..m /\ n - m + (k - (n - m)) = k
                BY <1>5, <2>1, <3>3
            <4>2. list[k].trade.when <= End(a.begin)
                BY <1>3, <1>5, <4>1
            <4>. QED
                BY <1>1, <1>4, <1>6, <3>1, <4>2, BarAssumption DEF End
        <3>. QED
            BY <3>2, <3>3
    <2>5. \A i \in 1..n : list[i].trade.when <= next.nextGe /\ list[i].open <= next.begin
        BY <1>1, <1>4, <1>5, <1>6, BarAssumption
    <2>. QED
        BY <1>2, <1>5, <2>2, <2>3, <2>4, <2>5, HoldsWith, Zenon
<1>8. PICK q \in Nat : a.begin = BarDuration * q
    BY DEF Opened
<1>9. /\ next.begin = BarDuration * (q + 1)
      /\ \A b : b \in Earlier(first, next.begin)
                    <=> b \in Earlier(first, a.begin) \/ (b = a.begin /\ first <= a.begin)
      /\ first <= a.begin <=> ~a.skip
      /\ first <= next.begin
    BY <1>1, <1>4, <1>8, NextWindow DEF Opened
<1>10. \A b \in Earlier(first, a.begin) : b \in Nat /\ b < a.begin /\ End(b) \in Int /\ End(b) <= a.nextGe
    <2>. TAKE b \in Earlier(first, a.begin)
    <2>1. b \in Nat /\ b < a.begin
        BY <1>1 DEF Earlier
    <2>2. End(b) \in Int
        BY <2>1, BarAssumption DEF End
    <2>3. End(b) <= a.nextGe
        BY DEF Opened
    <2>. QED
        BY <2>1, <2>2, <2>3
<1>11. PICK bar : bar = BarOf(a.begin, InWindow(a))
    OBVIOUS
<1>12. bar.begin = a.begin
    BY <1>11 DEF BarOf
<1>13. \/ (a.skip \/ InWindow(a) = <<>>) /\ more = published
       \/ ~a.skip /\ InWindow(a) # <<>> /\ more = Append(published, bar)
    BY <1>11 DEF Flushed
<1>14. /\ Len(more) = l \/ (Len(more) = l + 1 /\ more[l + 1] = bar /\ ~a.skip /\ InWindow(a) # <<>>)
       /\ \A i \in 1..l : more[i] = published[i]
       /\ ~a.skip /\ InWindow(a) # <<>> => Len(more) = l + 1 /\ more[l + 1] = bar
    <2>1. CASE (a.skip \/ InWindow(a) = <<>>) /\ more = published
        BY <1>2, <2>1
    <2>2. CASE ~a.skip /\ InWindow(a) # <<>> /\ more = Append(published, bar)
        BY <1>2, <2>2
    <2>. QED
        BY <1>13, <2>1, <2>2, Zenon
<1>15. \A i \in 1..Len(more) : i \in 1..l \/ (i = l + 1 /\ more[i] = bar /\ ~a.skip /\ InWindow(a) # <<>>)
    <2>. TAKE i \in 1..Len(more)
    <2>1. CASE Len(more) = l
        BY <2>1
    <2>2. CASE Len(more) = l + 1 /\ more[l + 1] = bar /\ ~a.skip /\ InWindow(a) # <<>>
        <3>1. i \in 1..l \/ i = l + 1
            BY <2>2
        <3>. QED
            BY <2>2, <3>1, Zenon
    <2>. QED
        BY <1>14, <2>1, <2>2, Zenon
<1>16. \A i \in 1..l : more[i].begin \in Earlier(first, a.begin)
    BY <1>2, <1>14 DEF Opened
<1>17. TradesIn(list, a.begin) = InWindow(a)
    BY WindowTrades
<1>18. Opened(next, more, first)
    <2>1. q + 1 \in Nat
        OBVIOUS
    <2>2. \A b \in Earlier(first, next.begin) : End(b) <= next.nextGe
        BY <1>1, <1>4, <1>9, <1>10
    <2>3. \A i \in 1..Len(more) : more[i].begin \in Earlier(first, next.begin)
        BY <1>9, <1>12, <1>15, <1>16
    <2>4. first <= next.begin + BarDuration /\ ~(next.begin < first) /\ ~next.skip
        BY <1>1, <1>4, <1>9, BarAssumption
    <2>. QED
        BY <1>9, <2>1, <2>2, <2>3, <2>4 DEF Opened
<1>19. Complete(list, more, next.begin, first)
    <2>1. ASSUME NEW i \in 1..Len(more)
          PROVE  /\ TradesIn(list, more[i].begin) # <<>>
                 /\ more[i] = BarOf(more[i].begin, TradesIn(list, more[i].begin))
                 /\ i > 1 => more[i - 1].begin < more[i].begin
        <3>1. CASE i \in 1..l
            <4>1. i > 1 => i - 1 \in 1..l
                BY <3>1
            <4>. QED
                BY <1>2, <1>14, <3>1, <4>1 DEF Complete
        <3>2. CASE i = l + 1 /\ more[i] = bar /\ ~a.skip /\ InWindow(a) # <<>>
            <4>1. i > 1 => i - 1 \in 1..l
                BY <3>2
            <4>2. i > 1 => more[i - 1].begin < more[i].begin
                BY <1>10, <1>12, <1>16, <3>2, <4>1
            <4>. QED
                BY <1>11, <1>12, <1>17, <3>2, <4>2
        <3>. QED
            BY <1>15, <3>1, <3>2, Zenon
    <2>2. ASSUME NEW b \in Earlier(first, next.begin), TradesIn(list, b) # <<>>
          PROVE  \E i \in 1..Len(more) : more[i].begin = b
        <3>1. CASE b \in Earlier(first, a.begin)
            <4>1. PICK i \in 1..l : published[i].begin = b
                BY <1>2, <2>2, <3>1 DEF Complete
            <4>2. i \in 1..Len(more) /\ more[i] = published[i]
                BY <1>14, <4>1
            <4>. QED
                BY <4>1, <4>2, Zenon
        <3>2. CASE b = a.begin /\ first <= a.begin
            <4>1. ~a.skip
                BY <1>9, <3>2
            <4>2. a.skip \in BOOLEAN
                BY DEF Aggregators
            <4>3. Len(more) = l + 1 /\ more[l + 1] = bar
                BY <1>14, <1>17, <2>2, <3>2, <4>1
            <4>. QED
                BY <1>12, <3>2, <4>3
        <3>. QED
            BY <1>9, <3>1, <3>2
    <2>3. ASSUME NEW i \in 1..Len(list), NEW b \in Earlier(first, next.begin),
                 list[i].trade.when \in b..(End(b) - 1)
          PROVE  list[i].open <= b
        <3>1. CASE b \in Earlier(first, a.begin)
            BY <2>3, <3>1 DEF Complete
        <3>2. CASE b = a.begin
            BY <1>2, <1>5, <3>2
        <3>. QED
            BY <1>9, <3>1, <3>2
    <2>. QED
        BY <2>1, <2>2, <2>3 DEF Complete
<1>. QED
    BY <1>7, <1>18, <1>19

\* The invariant of live trading's bars.
BarsInv == InStep(agg, accepted, bars, firstBar)

LEMMA BarsStep == TypeOK /\ BarsInv /\ [Next]_vars => BarsInv'
<1>. SUFFICES ASSUME TypeOK, BarsInv, [Next]_vars PROVE BarsInv'
    OBVIOUS
<1>1. agg \in Aggregators /\ accepted \in Seq(Records) /\ bars \in Seq(BarEvents) /\ firstBar \in Nat
    BY Typed DEF TypeOK
<1>2. ASSUME UNCHANGED trading
      PROVE  BarsInv'
    BY <1>2 DEF trading, BarsInv
<1>3. ASSUME ReceiveTrade
      PROVE  BarsInv'
    <2>1. PICK when \in Received, price \in Prices :
            LET trade == [when |-> when, price |-> price]
            IN  /\ agg' = PushTrade(agg, trade)
                /\ accepted' = IF InOrder(agg, trade)
                               THEN Append(accepted, [trade |-> trade, open |-> agg.begin])
                               ELSE accepted
        BY <1>3 DEF ReceiveTrade
    <2>2. PICK trade \in Trades : trade = [when |-> when, price |-> price]
        <3>1. [when |-> when, price |-> price] \in Trades
            BY DEF Received, Trades
        <3>. QED
            BY <3>1, Zenon
    <2>3. UNCHANGED <<bars, firstBar>>
        BY <1>3 DEF ReceiveTrade
    <2>4. CASE InOrder(agg, trade)
        <3>1. Accepts(agg, accepted, trade, agg', accepted')
            BY <2>1, <2>2, <2>4 DEF Accepts
        <3>2. InStep(agg, accepted, bars, firstBar)
            BY DEF BarsInv
        <3>3. InStep(agg', accepted', bars, firstBar)
            BY <1>1, <3>1, <3>2, AcceptCompletes
        <3>. QED
            BY <2>3, <3>3 DEF BarsInv
    <2>5. CASE ~InOrder(agg, trade)
        <3>1. agg' = agg /\ accepted' = accepted
            BY <2>1, <2>2, <2>5 DEF PushTrade
        <3>. QED
            BY <1>2, <2>3, <3>1 DEF trading
    <2>. QED
        BY <2>4, <2>5
<1>4. ASSUME Flush
      PROVE  BarsInv'
    <2>1. agg' = AfterFlush(agg) /\ bars' = bars \o Flushed(agg) /\ UNCHANGED <<accepted, firstBar>>
        BY <1>4 DEF Flush
    <2>2. InStep(agg, accepted, bars, firstBar)
        BY DEF BarsInv
    <2>3. InStep(agg', accepted, bars', firstBar)
        BY <1>1, <2>1, <2>2, FlushCompletes
    <2>. QED
        BY <2>1, <2>3 DEF BarsInv
<1>5. CASE \/ ReceiveUpdate \/ Tick \/ Dispatch \/ StopTrading \/ UNCHANGED vars
           \/ \E w \in Workers : Handle(w) \/ HandlerEnds(w) \/ Schedule(w)
    BY <1>2, <1>5 DEF ReceiveUpdate, Tick, Dispatch, StopTrading, Handle, HandlerEnds, Schedule, vars
<1>. QED
    BY <1>3, <1>4, <1>5 DEF Next

LEMMA BarsInit == Init => BarsInv
<1>. SUFFICES ASSUME Init PROVE BarsInv
    OBVIOUS
<1>. USE BarAssumption
<1>1. PICK start \in Starts :
        /\ agg = NewAggregator(clock, start.skip)
        /\ firstBar = agg.begin + (IF start.skip THEN BarDuration ELSE 0)
    BY DEF Init
<1>2. agg.trades = <<>> /\ agg.nextGe = 0 /\ agg.skip = start.skip
      /\ agg.begin = clock - (clock % BarDuration)
    BY <1>1 DEF NewAggregator
<1>3. agg.begin \in Nat /\ \E q \in Nat : agg.begin = BarDuration * q
    <2>1. clock \in Nat
        BY LiveAssumption DEF Init
    <2>2. agg.begin \in 0..clock /\ \E q \in Nat : agg.begin = BarDuration * q
        BY <1>2, <2>1, StartOfWindow, Zenon
    <2>. QED
        BY <2>1, <2>2
<1>4. start.skip \in BOOLEAN
    BY LiveAssumption
<1>5. /\ agg.begin < firstBar <=> agg.skip
      /\ firstBar <= agg.begin + BarDuration
      /\ firstBar \in Nat /\ agg.begin <= firstBar
    BY <1>1, <1>2, <1>3, <1>4
<1>6. accepted = <<>> /\ bars = <<>> /\ Len(accepted) = 0 /\ Len(bars) = 0 /\ Len(agg.trades) = 0
    BY <1>2 DEF Init
<1>7. Earlier(firstBar, agg.begin) = {}
    BY <1>3, <1>5 DEF Earlier
<1>8. Holds(agg, accepted)
    BY <1>6 DEF Holds
<1>9. Opened(agg, bars, firstBar)
    BY <1>3, <1>5, <1>6, <1>7 DEF Opened
<1>10. Complete(accepted, bars, agg.begin, firstBar)
    BY <1>6, <1>7 DEF Complete
<1>. QED
    BY <1>8, <1>9, <1>10 DEF BarsInv, InStep

\* A window has trades if one of them is its.
LEMMA HasTrades ==
    ASSUME NEW list \in Seq(Records), NEW begin \in Nat, NEW i \in ItsOf(list, begin)
    PROVE  TradesIn(list, begin) # <<>>
<1>1. PICK n \in Nat : n = Len(list) /\ i \in 1..n
    BY DEF ItsOf
<1>2. PICK h : /\ Filters(h, n, ItsOf(list, begin), TradeOf(list), Trades)
               /\ TradesIn(list, begin) = h[n]
    BY <1>1, TradesFilter DEF Filtered
<1>3. PICK I : I = ItsOf(list, begin)
    OBVIOUS
<1>4. /\ \A k \in 0..n : h[k] \in Seq(Trades)
      /\ \A k \in 1..n : h[k] = IF k \in I THEN Append(h[k - 1], TradeOf(list)[k]) ELSE h[k - 1]
    BY <1>2, <1>3 DEF Filters
<1>5. \A k \in 1..n : k \in I => h[k] # <<>>
    <2>. SUFFICES ASSUME NEW k \in 1..n, k \in I PROVE h[k] # <<>>
        OBVIOUS
    <2>1. k - 1 \in 0..n
        OBVIOUS
    <2>2. h[k - 1] \in Seq(Trades) /\ h[k] = Append(h[k - 1], TradeOf(list)[k])
        BY <1>4, <2>1
    <2>3. Len(h[k]) = Len(h[k - 1]) + 1 /\ Len(h[k - 1]) \in Nat
        BY <2>2
    <2>. QED
        BY <2>3
<1>6. ASSUME NEW k \in Nat, k >= i, k + 1 <= n, h[k] # <<>>
      PROVE  h[k + 1] # <<>>
    <2>1. k + 1 \in 1..n /\ (k + 1) - 1 = k
        BY <1>1, <1>6
    <2>2. h[k + 1] = h[k] \/ k + 1 \in I
        BY <1>4, <2>1
    <2>. QED
        BY <1>5, <1>6, <2>1, <2>2
<1>7. SUFFICES ASSUME h[n] = <<>> PROVE FALSE
    BY <1>2
<1>. DEFINE Without == {k \in Nat : k >= i /\ k <= n /\ h[k] = <<>>}
<1>8. n \in Without
    BY <1>1, <1>7
<1>9. PICK m \in Without : \A k \in Without : m <= k
    <2>1. Without \in SUBSET Nat /\ Without # {}
        BY <1>8
    <2>. QED
        BY <2>1, MinIsLeast
<1>10. CASE m = i
    BY <1>1, <1>3, <1>5, <1>10
<1>11. CASE m # i
    <2>1. m - 1 \in Nat /\ m - 1 >= i /\ (m - 1) + 1 <= n /\ (m - 1) + 1 = m
        BY <1>1, <1>11
    <2>2. m - 1 \notin Without
        BY <1>9, <2>1
    <2>3. h[m - 1] # <<>>
        BY <2>1, <2>2
    <2>4. h[m] # <<>>
        BY <1>6, <2>1, <2>3
    <2>. QED
        BY <2>4
<1>. QED
    BY <1>10, <1>11

\* The bars are complete, for any trades in any order, any windows and delay, and
\* whether the first window is skipped or not: a bar is made of exactly the trades
\* of its window that push_trade took before the flush, and a trade that it took is
\* in the bar of its window once that was flushed, but for the windows before the
\* first, the last millisecond before the next window, and the last instant.
THEOREM BarsAlwaysComplete == Spec => []BarsComplete
<1>1. TypeOK /\ BarsInv => BarsComplete
    <2>. SUFFICES ASSUME TypeOK, BarsInv PROVE BarsComplete
        OBVIOUS
    <2>1. \A b : TradesOf(b) = TradesIn(accepted, b)
        BY DEF TradesOf, TradesIn, Its, FoldLeft, MapThenFoldSet
    <2>2. DOMAIN bars = 1..Len(bars) /\ DOMAIN accepted = 1..Len(accepted)
          /\ accepted \in Seq(Records) /\ agg.begin \in Nat /\ firstBar \in Nat
        BY Typed DEF TypeOK
    <2>3. Complete(accepted, bars, agg.begin, firstBar)
        BY DEF BarsInv, InStep
    <2>4. ASSUME NEW i \in DOMAIN accepted, NEW when, when = accepted[i].trade.when,
                 NEW begin, begin = WindowOf(when), begin < agg.begin, ~(begin < firstBar),
                 ~(when > End(begin)), ~(when = End(begin) /\ accepted[i].open > begin)
          PROVE  Its(accepted[i], begin) /\ \E j \in DOMAIN bars : bars[j].begin = begin
        <3>1. accepted[i] \in Records /\ i \in 1..Len(accepted)
            BY <2>2
        <3>2. when \in Nat /\ accepted[i].open \in Nat
            BY <2>4, <3>1 DEF Records, Trades
        <3>3. begin \in 0..when /\ \E q \in Nat : begin = BarDuration * q
            BY <2>4, <3>2, StartOfWindow DEF WindowOf
        <3>4. begin % BarDuration = 0
            BY <3>3, BarAssumption
        <3>5. begin \in Earlier(firstBar, agg.begin)
            BY <2>2, <2>4, <3>3, <3>4 DEF Earlier
        <3>6. End(begin) \in Int
            BY <3>3, BarAssumption DEF End
        <3>7. when \in begin..(End(begin) - 1) => accepted[i].open <= begin
            BY <2>3, <2>4, <3>1, <3>5 DEF Complete
        <3>8. when \in begin..End(begin) /\ accepted[i].open <= begin
            BY <2>4, <3>2, <3>3, <3>6, <3>7
        <3>9. TradesIn(accepted, begin) # <<>>
            BY <2>2, <2>4, <3>1, <3>3, <3>8, HasTrades DEF ItsOf
        <3>10. \E j \in 1..Len(bars) : bars[j].begin = begin
            BY <2>3, <3>5, <3>9 DEF Complete
        <3>. QED
            BY <2>2, <2>4, <3>8, <3>10 DEF Its
    <2>5. \A i \in DOMAIN bars :
            /\ TradesOf(bars[i].begin) # <<>>
            /\ bars[i] = BarOf(bars[i].begin, TradesOf(bars[i].begin))
            /\ i > 1 => bars[i - 1].begin < bars[i].begin
        BY <2>1, <2>2, <2>3 DEF Complete
    <2>. QED
        BY <2>4, <2>5 DEF BarsComplete
<1>. QED
    BY <1>1, InitTypes, TypesStep, BarsInit, BarsStep, PTL DEF Spec
=============================================================================
