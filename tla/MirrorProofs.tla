---------------------------- MODULE MirrorProofs ----------------------------
(***************************************************************************)
(* The order book mirror, for any number of prices, amounts, updates and   *)
(* failures, and any depths that the updater accepts: the book a strategy  *)
(* reads is the exchange's, and a check never finds a difference.          *)
(***************************************************************************)
EXTENDS OrderBookMirror, Foundations, TLAPS, FiniteSetTheorems, SequenceTheorems

Book == [id : Ids, levels : [Sides -> [Prices -> Amounts]],
         bound : [Sides -> Prices \union {NoBound}]]

\* A book is the exchange's at the update it claims, down to its bounds.
GoodBook(b) ==
    /\ b \in Book /\ b.id <= Len(log)
    /\ \A s \in Sides : \A p \in Prices :
        b.levels[s][p] = IF p <= b.bound[s] THEN AmountAt(b.id, s, p) ELSE 0

GoodDiff(diff) == diff \in Diffs /\ diff.first <= diff.final /\ diff.final <= Len(log)

LogType == log \in Seq(Update) /\ Len(log) <= MaxUpdates
-----------------------------------------------------------------------------
(***************************************************************************)
(* The exchange's book after so many updates of a log.                     *)
(***************************************************************************)
Touching(lg, ids, s, p) == {i \in ids : lg[i].side = s /\ lg[i].price = p}

Latest(S) == CHOOSE i \in S : \A j \in S : j <= i

AmountIn(lg, id, s, p) ==
    IF Touching(lg, 1..id, s, p) = {} THEN 1 ELSE lg[Latest(Touching(lg, 1..id, s, p))].amount

LEMMA AmountAtIsIn ==
    ASSUME NEW id, NEW s, NEW p
    PROVE  AmountAt(id, s, p) = AmountIn(log, id, s, p)
BY DEF AmountAt, AmountIn, Touching, Latest

LEMMA LatestIsOne ==
    ASSUME NEW n \in Nat, NEW S \in SUBSET (1..n), S # {}
    PROVE  Latest(S) \in S
<1>1. IsFiniteSet(S)
    <2>1. IsFiniteSet(1..n)
        BY FS_Interval
    <2>. QED
        BY <2>1, FS_Subset
<1>2. Max(S) \in S /\ \A j \in S : j <= Max(S)
    BY <1>1, MaxIsGreatest
<1>3. \E i \in S : \A j \in S : j <= i
    BY <1>2
<1>. QED
    BY <1>3, Zenon DEF Latest

LEMMA AmountIsAmount ==
    ASSUME NEW lg \in Seq(Update), NEW id \in 0..Len(lg), NEW s, NEW p
    PROVE  AmountIn(lg, id, s, p) \in Amounts
<1>. DEFINE touching == Touching(lg, 1..id, s, p)
<1>1. CASE touching = {}
    BY <1>1, MirrorAssumption DEF AmountIn, Amounts
<1>2. CASE touching # {}
    <2>1. touching \in SUBSET (1..id)
        BY DEF Touching
    <2>2. Latest(touching) \in 1..id
        <3>1. id \in Nat
            OBVIOUS
        <3>. HIDE DEF touching
        <3>2. Latest(touching) \in touching
            BY <1>2, <2>1, <3>1, LatestIsOne
        <3>. QED
            BY <2>1, <3>2
    <2>3. lg[Latest(touching)] \in Update
        BY <2>2
    <2>. QED
        BY <1>2, <2>3 DEF AmountIn, Update
<1>. QED
    BY <1>1, <1>2

\* What the log gains later does not change it.
LEMMA AmountKept ==
    ASSUME NEW lg \in Seq(Update), NEW u \in Update, NEW id \in 0..Len(lg), NEW s, NEW p
    PROVE  AmountIn(Append(lg, u), id, s, p) = AmountIn(lg, id, s, p)
<1>1. \A i \in 1..id : Append(lg, u)[i] = lg[i]
    OBVIOUS
<1>2. Touching(Append(lg, u), 1..id, s, p) = Touching(lg, 1..id, s, p)
    BY <1>1 DEF Touching
<1>. DEFINE touching == Touching(lg, 1..id, s, p)
<1>3. CASE touching = {}
    BY <1>2, <1>3 DEF AmountIn
<1>4. CASE touching # {}
    <2>1. touching \in SUBSET (1..id)
        BY DEF Touching
    <2>2. Latest(touching) \in 1..id
        <3>1. id \in Nat
            OBVIOUS
        <3>. HIDE DEF touching
        <3>2. Latest(touching) \in touching
            BY <1>4, <2>1, <3>1, LatestIsOne
        <3>. QED
            BY <2>1, <3>2
    <2>. QED
        BY <1>1, <1>2, <1>4, <2>2 DEF AmountIn
<1>. QED
    BY <1>3, <1>4

\* Nor do updates of other prices.
LEMMA AmountUntouched ==
    ASSUME NEW lg, NEW id \in Nat, NEW final \in Nat, id <= final, NEW s, NEW p,
           Touching(lg, (id + 1)..final, s, p) = {}
    PROVE  AmountIn(lg, final, s, p) = AmountIn(lg, id, s, p)
<1>1. 1..final = (1..id) \union ((id + 1)..final)
    OBVIOUS
<1>2. Touching(lg, 1..final, s, p) = Touching(lg, 1..id, s, p)
    BY <1>1 DEF Touching
<1>. QED
    BY <1>2 DEF AmountIn
-----------------------------------------------------------------------------
(***************************************************************************)
(* The best levels of a side.                                              *)
(***************************************************************************)
LEMMA PricesFinite ==
    ASSUME NEW S \in SUBSET Prices
    PROVE  IsFiniteSet(S) /\ Cardinality(S) \in Nat
<1>1. IsFiniteSet(Prices)
    BY FS_Interval, MirrorAssumption DEF Prices
<1>. QED
    BY <1>1, FS_Subset, FS_CardinalityType

LEMMA BoundIsWorst ==
    ASSUME NEW side
    PROVE  /\ Bound(side) \in Prices \union {NoBound}
           /\ Levels(side) = {} => Bound(side) = NoBound
           /\ \A q \in Levels(side) : q <= Bound(side) /\ Bound(side) \in Levels(side)
<1>. DEFINE L == Levels(side)
<1>1. L \in SUBSET Prices
    BY DEF Levels
<1>2. CASE L = {}
    BY <1>2 DEF Bound
<1>3. CASE L # {}
    <2>1. IsFiniteSet(L) /\ L \in SUBSET Int
        BY <1>1, PricesFinite DEF Prices
    <2>2. Max(L) \in L /\ \A q \in L : q <= Max(L)
        <3>. HIDE DEF L
        <3>. QED
            BY <1>3, <2>1, MaxIsGreatest
    <2>. QED
        BY <1>1, <1>3, <2>2 DEF Bound
<1>. QED
    BY <1>2, <1>3

\* Up to the worst of them they are the side's, and then there are none.
LEMMA TopIsPrefix ==
    ASSUME NEW side \in [Prices -> Amounts], NEW limit \in Nat
    PROVE  /\ Top(side, limit) \in [Prices -> Amounts]
           /\ \A p \in Prices :
                Top(side, limit)[p] = IF p <= Bound(Top(side, limit)) THEN side[p] ELSE 0
<1>. DEFINE T == Top(side, limit)
            below(p) == {q \in Levels(side) : q <= p}
            b == Bound(T)
<1>1. T \in [Prices -> Amounts]
    BY MirrorAssumption DEF Top, Amounts
<1>2. \A p \in Prices : T[p] = IF Cardinality(below(p)) <= limit THEN side[p] ELSE 0
    BY DEF Top
<1>3. /\ b \in Prices \union {NoBound}
      /\ \A q \in Levels(T) : q <= b /\ b \in Levels(T)
      /\ Levels(T) = {} => b = NoBound
    <2>. HIDE DEF T
    <2>. QED
        BY BoundIsWorst
<1>4. ASSUME NEW p \in Prices
      PROVE  T[p] = IF p <= b THEN side[p] ELSE 0
    <2>0. T[p] \in Nat /\ p \in Nat \ {0}
        BY <1>1, MirrorAssumption DEF Amounts, Prices
    <2>1. CASE p <= b
        <3>0. b # NoBound
            BY <2>0, <2>1 DEF NoBound
        <3>1. b \in Levels(T) /\ b \in Prices
            BY <1>3, <3>0
        <3>2. Cardinality(below(b)) <= limit
            BY <1>2, <3>1 DEF Levels
        <3>3. below(p) \in SUBSET below(b) /\ below(b) \in SUBSET Prices
            BY <2>1, <3>1 DEF Prices, Levels
        <3>4. Cardinality(below(p)) <= Cardinality(below(b)) /\ Cardinality(below(b)) \in Nat
              /\ Cardinality(below(p)) \in Nat
            <4>1. below(p) \in SUBSET Prices
                BY <3>3
            <4>. HIDE DEF below
            <4>. QED
                BY <3>3, <4>1, PricesFinite, FS_Subset
        <3>5. Cardinality(below(p)) <= limit
            BY <3>2, <3>4
        <3>. QED
            BY <1>2, <2>1, <3>5
    <2>2. CASE ~(p <= b)
        <3>1. p \notin Levels(T)
            BY <1>3, <2>2
        <3>. QED
            BY <2>0, <2>2, <3>1 DEF Levels
    <2>. QED
        BY <2>1, <2>2
<1>. QED
    BY <1>1, <1>4
-----------------------------------------------------------------------------
(***************************************************************************)
(* What is made of good books.                                             *)
(***************************************************************************)
LEMMA SideIsSide ==
    ASSUME LogType, NEW id \in 0..Len(log), NEW s
    PROVE  SideAt(id, s) \in [Prices -> Amounts]
           /\ \A p \in Prices : SideAt(id, s)[p] = AmountAt(id, s, p)
BY AmountAtIsIn, AmountIsAmount DEF SideAt, LogType

LEMMA FromExchangeGood ==
    ASSUME LogType, NEW id \in 0..Len(log), NEW limit \in Nat
    PROVE  GoodBook(FromExchange(id, limit))
<1>. DEFINE b == FromExchange(id, limit)
<1>1. /\ b.id = id /\ DOMAIN b = {"id", "levels", "bound"}
      /\ b = [id |-> b.id, levels |-> b.levels, bound |-> b.bound]
      /\ b.levels = [s \in Sides |-> Top(SideAt(id, s), limit)]
      /\ b.bound = [s \in Sides |-> Bound(b.levels[s])]
    BY DEF FromExchange
<1>. HIDE DEF b
<1>2. ASSUME NEW s \in Sides
      PROVE  /\ b.levels[s] \in [Prices -> Amounts]
             /\ b.bound[s] \in Prices \union {NoBound}
             /\ \A p \in Prices :
                    b.levels[s][p] = IF p <= b.bound[s] THEN AmountAt(b.id, s, p) ELSE 0
    <2>1. b.levels[s] = Top(SideAt(id, s), limit) /\ b.bound[s] = Bound(b.levels[s])
        BY <1>1
    <2>2. SideAt(id, s) \in [Prices -> Amounts] /\ \A p \in Prices : SideAt(id, s)[p] = AmountAt(id, s, p)
        BY SideIsSide
    <2>. QED
        BY <1>1, <2>1, <2>2, TopIsPrefix, BoundIsWorst
<1>3. b \in Book
    <2>1. id \in Ids
        BY MirrorAssumption DEF Ids, LogType
    <2>2. b.levels \in [Sides -> [Prices -> Amounts]] /\ b.bound \in [Sides -> Prices \union {NoBound}]
        BY <1>1, <1>2
    <2>. QED
        BY <1>1, <2>1, <2>2 DEF Book
<1>4. GoodBook(b)
    BY <1>1, <1>2, <1>3 DEF GoodBook
<1>. QED
    BY <1>4 DEF b

LEMMA DiffKeepsGood ==
    ASSUME LogType, NEW b, GoodBook(b), NEW diff, GoodDiff(diff), ~TooOld(b, diff)
    PROVE  GoodBook(UpdateFromDiff(b, diff))
<1>. DEFINE new == UpdateFromDiff(b, diff)
<1>1. /\ b \in Book /\ b.id \in Nat /\ diff.first \in Nat /\ diff.final \in Nat
      /\ diff.first <= diff.final /\ diff.final <= Len(log) /\ diff.final \in Ids
      /\ diff.final \in 0..Len(log)
    BY MirrorAssumption DEF GoodBook, GoodDiff, Diffs, Book, Ids, LogType
<1>2. CASE diff.first - b.id < 0
    BY <1>2 DEF UpdateFromDiff
<1>3. CASE ~(diff.first - b.id < 0)
    <2>1. /\ new \in [id : {diff.final}, levels : {new.levels}, bound : {b.bound}]
          /\ new.levels = [s \in Sides |-> [p \in Prices |->
                IF p \in Touched(diff, s) /\ p <= b.bound[s]
                THEN AmountAt(diff.final, s, p) ELSE b.levels[s][p]]]
        BY <1>1, <1>3 DEF UpdateFromDiff, Book
    <2>. HIDE DEF new
    <2>2. new.id = diff.final /\ new.bound = b.bound
        BY <2>1
    <2>3. diff.first <= b.id + 1 /\ b.id <= diff.final
        BY <1>1, <1>3 DEF TooOld
    <2>4. ASSUME NEW s \in Sides, NEW p \in Prices
          PROVE  /\ new.levels[s][p] = IF p <= new.bound[s] THEN AmountAt(new.id, s, p) ELSE 0
                 /\ new.levels[s][p] \in Amounts
        <3>1. AmountAt(diff.final, s, p) \in Amounts
            BY <1>1, AmountAtIsIn, AmountIsAmount DEF LogType
        <3>2. /\ b.levels[s][p] = IF p <= b.bound[s] THEN AmountAt(b.id, s, p) ELSE 0
              /\ b.levels[s][p] \in Amounts
            BY <1>1 DEF GoodBook, Book
        <3>3. CASE p \in Touched(diff, s)
            BY <2>1, <2>2, <3>1, <3>2, <3>3
        <3>4. CASE p \notin Touched(diff, s)
            <4>1. Touching(log, (b.id + 1)..diff.final, s, p) = {}
                <5>1. \A i \in (b.id + 1)..diff.final : i \in diff.first..diff.final
                    BY <1>1, <2>3
                <5>. QED
                    BY <3>4, <5>1 DEF Touched, Touching
            <4>2. AmountAt(diff.final, s, p) = AmountAt(b.id, s, p)
                BY <1>1, <2>3, <4>1, AmountUntouched, AmountAtIsIn
            <4>. QED
                BY <2>1, <2>2, <3>2, <3>4, <4>2
        <3>. QED
            BY <3>3, <3>4
    <2>5. new.levels \in [Sides -> [Prices -> Amounts]]
        BY <2>1, <2>4
    <2>6. new \in Book
        BY <1>1, <2>1, <2>5 DEF Book
    <2>7. GoodBook(new)
        BY <1>1, <2>2, <2>4, <2>6 DEF GoodBook
    <2>. QED
        BY <2>7 DEF new
<1>. QED
    BY <1>2, <1>3 DEF GoodBook

LEMMA ComparedGood ==
    ASSUME LogType, NEW b, GoodBook(b), NEW snap, snap.id = b.id, snap.limit \in Nat
    PROVE  GoodBook(Compared(snap, b).book)
<1>. DEFINE new == {s \in Sides : Refreshes(snap, b, s) /\ Reached(snap, b, s)}
            levels == [s \in Sides |-> IF s \in new THEN Top(SideAt(snap.id, s), snap.limit)
                                                    ELSE b.levels[s]]
            bound == [s \in Sides |-> IF s \in new THEN Bound(levels[s]) ELSE b.bound[s]]
            r == [b EXCEPT !.levels = levels, !.bound = bound]
<1>1. Compared(snap, b).book = r
    BY DEF Compared
<1>2. b \in Book /\ b.id \in 0..Len(log)
    BY MirrorAssumption DEF GoodBook, Book, Ids
<1>3. ASSUME NEW s \in Sides
      PROVE  /\ levels[s] \in [Prices -> Amounts] /\ bound[s] \in Prices \union {NoBound}
             /\ \A p \in Prices : levels[s][p] = IF p <= bound[s] THEN AmountAt(b.id, s, p) ELSE 0
    <2>1. SideAt(b.id, s) \in [Prices -> Amounts]
          /\ \A p \in Prices : SideAt(b.id, s)[p] = AmountAt(b.id, s, p)
        BY <1>2, SideIsSide
    <2>2. CASE s \in new
        <3>1. levels[s] = Top(SideAt(b.id, s), snap.limit) /\ bound[s] = Bound(levels[s])
            BY <2>2
        <3>. HIDE DEF levels, bound
        <3>. QED
            BY <2>1, <3>1, TopIsPrefix, BoundIsWorst
    <2>3. CASE s \notin new
        <3>1. levels[s] = b.levels[s] /\ bound[s] = b.bound[s]
            BY <2>3
        <3>. HIDE DEF levels, bound, new
        <3>. QED
            BY <1>2, <3>1 DEF GoodBook, Book
    <2>. QED
        BY <2>2, <2>3
<1>4. levels \in [Sides -> [Prices -> Amounts]] /\ bound \in [Sides -> Prices \union {NoBound}]
    BY <1>3
<1>5. r \in Book /\ r.id = b.id /\ r.levels = levels /\ r.bound = bound
    <2>. HIDE DEF levels, bound
    <2>. QED
        BY <1>2, <1>4 DEF Book
<1>6. GoodBook(r)
    <2>. HIDE DEF levels, bound, r
    <2>. QED
        BY <1>3, <1>5 DEF GoodBook
<1>. QED
    BY <1>1, <1>6
-----------------------------------------------------------------------------
(***************************************************************************)
(* The diffs of the buffer, applied in turn.                               *)
(***************************************************************************)

\* What a diff makes of a book that the diffs before it have made.
Further(r, diff) ==
    IF r.raised \/ TooOld(r.book, diff)
    THEN [r EXCEPT !.raised = TRUE]
    ELSE [r EXCEPT !.book = UpdateFromDiff(r.book, diff)]

Outcomes == {r \in [book : Book, raised : BOOLEAN] : GoodBook(r.book)}

LEMMA FurtherGood ==
    ASSUME LogType, NEW r \in Outcomes, NEW diff, GoodDiff(diff)
    PROVE  Further(r, diff) \in Outcomes
<1>1. CASE r.raised \/ TooOld(r.book, diff)
    BY <1>1 DEF Further, Outcomes
<1>2. CASE ~(r.raised \/ TooOld(r.book, diff))
    <2>1. GoodBook(UpdateFromDiff(r.book, diff))
        BY <1>2, DiffKeepsGood DEF Outcomes
    <2>2. UpdateFromDiff(r.book, diff) \in Book
        BY <2>1 DEF GoodBook
    <2>. QED
        BY <1>2, <2>1, <2>2 DEF Further, Outcomes
<1>. QED
    BY <1>1, <1>2

\* The recursion of the fold has a solution, and so it has the one it chooses.
Folds(g, b, diffs) ==
    g = [S \in SUBSET DOMAIN diffs |->
            IF S = {} THEN [book |-> b, raised |-> FALSE]
            ELSE Further(g[S \ {Max(S)}], diffs[Max(S)])]
LEMMA FoldsChosen ==
    ASSUME LogType, NEW b, GoodBook(b), NEW diffs \in Seq(Diffs),
           \A i \in 1..Len(diffs) : GoodDiff(diffs[i])
    PROVE  \E g : Folds(g, b, diffs) /\ Applied(b, diffs) = g[1..Len(diffs)]
<1>. DEFINE n == Len(diffs)
            base == [book |-> b, raised |-> FALSE]
            F == [x \in Outcomes \X (1..n) |-> Further(x[1], diffs[x[2]])]
<1>1. base \in Outcomes
    BY DEF Outcomes, GoodBook
<1>2. \A r \in Outcomes, i \in 1..n : Further(r, diffs[i]) \in Outcomes /\ F[<<r, i>>] = Further(r, diffs[i])
    BY FurtherGood
<1>3. F \in [Outcomes \X (1..n) -> Outcomes]
    BY <1>2
<1>4. n \in Nat /\ DOMAIN diffs = 1..n
    OBVIOUS
<1>. HIDE DEF F, base, n
<1>5. PICK g : IsFold(g, Outcomes, base, n, F)
    BY <1>1, <1>3, <1>4, FoldExists
<1>. g \in [SUBSET (1..n) -> Outcomes]
    BY <1>5 DEF IsFold
<1>6. ASSUME NEW S \in SUBSET (1..n), S # {}
      PROVE  F[<<g[S \ {Max(S)}], Max(S)>>] = Further(g[S \ {Max(S)}], diffs[Max(S)])
    <2>1. IsFiniteSet(1..n)
        BY <1>4, FS_Interval
    <2>2. IsFiniteSet(S)
        BY <2>1, FS_Subset
    <2>3. S \in SUBSET Int
        OBVIOUS
    <2>. Max(S) \in S
        BY <1>6, <2>2, <2>3, MaxIsGreatest
    <2>4. Max(S) \in 1..n /\ g[S \ {Max(S)}] \in Outcomes
        OBVIOUS
    <2>. QED
        BY <1>2, <2>4
<1>7. Folds(g, b, diffs)
    <2>1. g = [S \in SUBSET (1..n) |-> g[S]]
        OBVIOUS
    <2>2. \A S \in SUBSET (1..n) :
            g[S] = IF S = {} THEN base ELSE Further(g[S \ {Max(S)}], diffs[Max(S)])
        BY <1>5, <1>6 DEF IsFold
    <2>. QED
        BY <1>4, <2>1, <2>2 DEF Folds, base
<1>. DEFINE chosen == CHOOSE h : Folds(h, b, diffs)
<1>8. Folds(chosen, b, diffs)
    BY <1>7
<1>9. Applied(b, diffs) = chosen[DOMAIN diffs]
    BY DEF Applied, FoldLeft, MapThenFoldSet, Folds, Further
<1>. QED
    BY <1>4, <1>8, <1>9 DEF n

LEMMA AppliedGood ==
    ASSUME LogType, NEW b, GoodBook(b), NEW diffs \in Seq(Diffs),
           \A i \in 1..Len(diffs) : GoodDiff(diffs[i])
    PROVE  GoodBook(Applied(b, diffs).book)
<1>1. PICK g : Folds(g, b, diffs) /\ Applied(b, diffs) = g[1..Len(diffs)]
    BY FoldsChosen
<1>. DEFINE n == Len(diffs)
            Good == {k \in Nat : k <= n => g[1..k] \in Outcomes}
<1>2. \A S \in SUBSET (1..n) :
        g[S] = IF S = {} THEN [book |-> b, raised |-> FALSE]
               ELSE Further(g[S \ {Max(S)}], diffs[Max(S)])
    <2>1. DOMAIN diffs = 1..n
        OBVIOUS
    <2>. HIDE DEF n
    <2>. QED
        BY <1>1, <2>1, Zenon DEF Folds
<1>3. 0 \in Good
    <2>1. 1..0 = {} /\ {} \in SUBSET (1..n)
        OBVIOUS
    <2>2. g[1..0] = [book |-> b, raised |-> FALSE]
        BY <1>2, <2>1
    <2>3. [book |-> b, raised |-> FALSE] \in Outcomes
        BY DEF Outcomes, GoodBook
    <2>. QED
        BY <2>2, <2>3
<1>4. ASSUME NEW k \in Nat, k \in Good
      PROVE  k + 1 \in Good
    <2>1. CASE k + 1 <= n
        <3>1. g[1..k] \in Outcomes
            BY <1>4, <2>1
        <3>2. Max(1..(k + 1)) = k + 1 /\ (1..(k + 1)) \ {k + 1} = 1..k /\ 1..(k + 1) # {}
            BY SegmentMax, k + 1 \in Nat \ {0}, (k + 1) - 1 = k
        <3>3. 1..(k + 1) \in SUBSET (1..n) /\ k + 1 \in 1..n
            BY <2>1
        <3>4. g[1..(k + 1)] = Further(g[1..k], diffs[k + 1])
            BY <1>2, <3>2, <3>3
        <3>5. GoodDiff(diffs[k + 1])
            BY <3>3
        <3>6. g[1..(k + 1)] \in Outcomes
            BY <3>1, <3>4, <3>5, FurtherGood
        <3>. QED
            BY <3>6
    <2>. QED
        BY <2>1
<1>5. n \in Good /\ n <= n
    <2>1. \A k \in Nat : k \in Good
        <3>. HIDE DEF Good
        <3>. QED
            BY <1>3, <1>4, InductionOverNat
    <2>2. n \in Nat
        OBVIOUS
    <2>. HIDE DEF Good, n
    <2>. QED
        BY <2>1, <2>2
<1>. QED
    BY <1>1, <1>5 DEF Outcomes
-----------------------------------------------------------------------------
(***************************************************************************)
(* The mirror.                                                             *)
(***************************************************************************)
Depths == {CheckDepth, MaxDepth}

MInv ==
    /\ TypeOK /\ GoodBook(book)
    /\ \A i \in 1..Len(buffer) : GoodDiff(buffer[i])
    /\ fetch.at = "fetching" => fetch.limit \in Depths
    /\ snapshot.id # -1 => snapshot.limit \in Depths

LEMMA TypeParts ==
    ASSUME TypeOK
    PROVE  /\ LogType /\ Len(log) \in Nat /\ Len(log) \in Ids /\ 0..Len(log) \in SUBSET Ids
           /\ streamed \in 0..Len(log) /\ book \in Book /\ buffer \in Seq(Diffs)
           /\ snapshot \in [id : Ids \union {-1}, limit : {0, CheckDepth, MaxDepth}]
           /\ fetch \in [at : {"none", "sleep", "fetching"}, since : Ids, limit : {0, CheckDepth, MaxDepth}]
           /\ {0, CheckDepth, MaxDepth} \in SUBSET Nat
<1>1. Len(log) \in Nat
    BY DEF TypeOK
<1>2. MaxUpdates \in Nat
    BY MirrorAssumption
<1>. QED
    BY <1>1, <1>2, MirrorAssumption DEF TypeOK, LogType, Ids, Book

\* A book stays good as long as the log stays.
LEMMA GoodStays ==
    ASSUME NEW b, GoodBook(b), book' = b, log' = log
    PROVE  GoodBook(book)'
<1>1. ASSUME NEW s, NEW p
      PROVE  AmountAt(book.id, s, p)' = AmountAt(b.id, s, p)
    BY DEF AmountAt
<1>. QED
    BY <1>1 DEF GoodBook

LEMMA RequestType ==
    ASSUME TypeOK, NEW limit \in Depths
    PROVE  /\ Request(limit) \in [at : {"none", "sleep", "fetching"}, since : Ids,
                                  limit : {0, CheckDepth, MaxDepth}]
           /\ Request(limit).limit \in Depths
BY TypeParts DEF Request, Depths

LEMMA InitGood ==
    ASSUME Init
    PROVE  MInv
<1>1. /\ log = <<>> /\ streamed = 0 /\ state = "initializing" /\ buffer = <<>> /\ fetch = NoFetch
      /\ snapshot = NoSnapshot /\ lost = 0 /\ failures = 0
      /\ book = [id |-> 0, levels |-> [s \in Sides |-> [p \in Prices |-> 0]],
                 bound |-> [s \in Sides |-> NoBound]]
    BY DEF Init
<1>2. 0 \in Ids /\ 0 \in Amounts /\ Len(log) = 0
    BY <1>1, MirrorAssumption DEF Ids, Amounts
<1>3. book \in Book
    BY <1>1, <1>2 DEF Book
<1>4. GoodBook(book)
    <2>1. \A s \in Sides, p \in Prices : book.levels[s][p] = 0 /\ ~(p <= book.bound[s])
        BY <1>1 DEF NoBound, Prices
    <2>2. book.id <= Len(log)
        BY <1>1, <1>2
    <2>. QED
        BY <1>3, <2>1, <2>2 DEF GoodBook
<1>5. TypeOK
    <2>1. fetch \in [at : {"none", "sleep", "fetching"}, since : Ids, limit : {0, CheckDepth, MaxDepth}]
        BY <1>1, <1>2 DEF NoFetch
    <2>2. snapshot \in [id : Ids \union {-1}, limit : {0, CheckDepth, MaxDepth}]
        BY <1>1 DEF NoSnapshot
    <2>3. lost \in 0..MaxLost /\ failures \in 0..MaxFailures /\ Len(log) <= MaxUpdates
        BY <1>1, <1>2, MirrorAssumption
    <2>. QED
        BY <1>1, <1>2, <1>3, <2>1, <2>2, <2>3 DEF TypeOK, Book
<1>. QED
    BY <1>1, <1>4, <1>5 DEF MInv, NoFetch, NoSnapshot

LEMMA ExchangeUpdatesGood ==
    ASSUME MInv, ExchangeUpdates
    PROVE  MInv'
<1>. USE DEF MInv
<1>1. PICK u \in Update : log' = Append(log, u)
    BY DEF ExchangeUpdates
<1>2. /\ Len(log) < MaxUpdates
      /\ UNCHANGED <<streamed, state, book, buffer, fetch, snapshot, lost, failures>>
    BY DEF ExchangeUpdates
<1>3. log \in Seq(Update) /\ Len(log) \in Nat /\ streamed \in 0..Len(log)
    BY TypeParts DEF LogType
<1>4. log' \in Seq(Update) /\ Len(log') = Len(log) + 1
    BY <1>1, <1>3
<1>5. TypeOK'
    <2>1. streamed' \in 0..Len(log')
        BY <1>2, <1>3, <1>4
    <2>2. Len(log') <= MaxUpdates
        BY <1>2, <1>3, <1>4, MirrorAssumption
    <2>. QED
        BY <1>2, <1>4, <2>1, <2>2 DEF TypeOK
<1>6. GoodBook(book)'
    <2>1. book \in Book /\ book.id \in 0..Len(log) /\ book' = book
        BY <1>2, <1>3, MirrorAssumption DEF GoodBook, Book, Ids
    <2>2. ASSUME NEW s \in Sides, NEW p \in Prices
          PROVE  AmountAt(book.id, s, p)' = AmountAt(book.id, s, p)
        <3>1. AmountIn(Append(log, u), book.id, s, p) = AmountIn(log, book.id, s, p)
            BY <1>3, <2>1, AmountKept
        <3>2. AmountAt(book.id, s, p) = AmountIn(log, book.id, s, p)
            BY AmountAtIsIn
        <3>3. AmountAt(book.id, s, p)' = AmountIn(Append(log, u), book.id, s, p)
            BY <1>1, <2>1 DEF AmountAt, AmountIn, Touching, Latest
        <3>. QED
            BY <3>1, <3>2, <3>3
    <2>3. book.id <= Len(log')
        BY <1>3, <1>4, <2>1
    <2>. QED
        BY <2>1, <2>2, <2>3 DEF GoodBook
<1>7. \A i \in 1..Len(buffer') : GoodDiff(buffer[i])'
    <2>1. \A diff : GoodDiff(diff) => diff \in Diffs /\ diff.first <= diff.final /\ diff.final <= Len(log) + 1
        BY <1>3 DEF GoodDiff, Diffs
    <2>. QED
        BY <1>2, <1>4, <2>1 DEF GoodDiff
<1>. QED
    BY <1>2, <1>5, <1>6, <1>7

\* The log, what was streamed and the bounds change as they should.
Kept == /\ log' = log /\ streamed' \in 0..Len(log)
        /\ lost' \in 0..MaxLost /\ failures' \in 0..MaxFailures

LEMMA CheckedGood ==
    ASSUME LogType, NEW b, GoodBook(b), NEW snap, snap.limit \in Nat
    PROVE  GoodBook(Checked(snap, b).book)
BY ComparedGood DEF Checked

LEMMA StartAgainGood ==
    ASSUME MInv, Kept, StartAgain, NEW b, GoodBook(b), book' = b
    PROVE  MInv'
<1>. USE DEF MInv
<1>1. /\ state' = "initializing" /\ buffer' = <<>> /\ fetch' = NoFetch /\ snapshot' = NoSnapshot
      /\ log' = log /\ streamed' \in 0..Len(log)
    BY DEF StartAgain, Kept
<1>2. GoodBook(book)'
    BY <1>1, GoodStays
<1>3. b \in Book /\ LogType /\ 0 \in Ids
    BY MirrorAssumption, TypeParts DEF GoodBook, Ids
<1>4. TypeOK'
    BY <1>1, <1>3 DEF TypeOK, Kept, NoFetch, NoSnapshot, Book, LogType
<1>. QED
    BY <1>1, <1>2, <1>4 DEF NoFetch, NoSnapshot

LEMMA GoesOnGood ==
    ASSUME MInv, Kept, NEW b, GoodBook(b), book' = b, state' \in {"initializing", "updating"},
           NEW f, fetch' = f,
           f \in [at : {"none", "sleep", "fetching"}, since : Ids, limit : {0, CheckDepth, MaxDepth}],
           f.at = "fetching" => f.limit \in Depths,
           NEW s, snapshot' = s, s \in [id : Ids \union {-1}, limit : {0, CheckDepth, MaxDepth}],
           s.id # -1 => s.limit \in Depths,
           NEW q \in Seq(Diffs), buffer' = q, \A i \in 1..Len(q) : GoodDiff(q[i])
    PROVE  MInv'
<1>. USE DEF MInv
<1>1. log' = log /\ streamed' \in 0..Len(log)
    BY DEF Kept
<1>2. GoodBook(book)'
    BY <1>1, GoodStays
<1>3. b \in Book
    BY DEF GoodBook
<1>4. TypeOK'
    BY <1>1, <1>3 DEF TypeOK, Kept, Book
<1>5. \A i \in 1..Len(buffer') : GoodDiff(buffer[i])'
    BY <1>1 DEF GoodDiff
<1>. QED
    BY <1>2, <1>4, <1>5

LEMMA StreamedDiff ==
    ASSUME TypeOK, NEW final \in (streamed + 1)..Len(log)
    PROVE  GoodDiff([first |-> streamed + 1, final |-> final]) /\ final \in 0..Len(log)
<1>1. /\ Len(log) \in Nat /\ Len(log) <= MaxUpdates /\ MaxUpdates \in Nat
      /\ streamed \in Nat /\ streamed <= Len(log)
    BY TypeParts, MirrorAssumption DEF LogType
<1>2. streamed + 1 \in 1..MaxUpdates /\ final \in 1..MaxUpdates /\ final \in 0..Len(log)
    BY <1>1
<1>. QED
    BY <1>2 DEF GoodDiff, Diffs

LEMMA DiffArrivesGood ==
    ASSUME MInv, DiffArrives
    PROVE  MInv'
<1>. USE DEF MInv
<1>1. PICK final \in (streamed + 1)..Len(log) :
        LET diff == [first |-> streamed + 1, final |-> final]
        IN  /\ BufferDiff(diff) \/ ApplyDiff(diff)
            /\ streamed' = final
            /\ UNCHANGED <<log, lost, failures>>
    BY DEF DiffArrives
<1>. DEFINE diff == [first |-> streamed + 1, final |-> final]
<1>2. GoodDiff(diff) /\ Kept
    <2>1. GoodDiff(diff) /\ final \in 0..Len(log)
        BY StreamedDiff
    <2>2. lost \in 0..MaxLost /\ failures \in 0..MaxFailures
        BY DEF TypeOK
    <2>. QED
        BY <1>1, <2>1, <2>2 DEF Kept
<1>3. BufferDiff(diff) \/ ApplyDiff(diff)
    BY <1>1
<1>4. diff \in Diffs
    BY <1>2 DEF GoodDiff
<1>. HIDE DEF diff
<1>5. /\ LogType /\ buffer \in Seq(Diffs)
      /\ snapshot \in [id : Ids \union {-1}, limit : {0, CheckDepth, MaxDepth}]
      /\ fetch \in [at : {"none", "sleep", "fetching"}, since : Ids, limit : {0, CheckDepth, MaxDepth}]
      /\ {0, CheckDepth, MaxDepth} \in SUBSET Nat
      /\ state \in {"initializing", "updating"}
    BY TypeParts DEF TypeOK
<1>6. CASE BufferDiff(diff)
    <2>1. MaxDepth \in Depths
        BY DEF Depths
    <2>2. PICK f : /\ f = IF fetch = NoFetch THEN Request(MaxDepth) ELSE fetch
                   /\ fetch' = f
        BY <1>6 DEF BufferDiff
    <2>3. /\ f \in [at : {"none", "sleep", "fetching"}, since : Ids, limit : {0, CheckDepth, MaxDepth}]
          /\ f.at = "fetching" => f.limit \in Depths
        BY <1>5, <2>1, <2>2, RequestType
    <2>4. PICK q : q = Append(buffer, diff) /\ buffer' = q
        BY <1>6 DEF BufferDiff
    <2>5. q \in Seq(Diffs) /\ \A i \in 1..Len(q) : GoodDiff(q[i])
        <3>1. \A i \in 1..Len(q) : i \in 1..Len(buffer) \/ i = Len(buffer) + 1
            BY <1>4, <1>5, <2>4
        <3>2. /\ \A i \in 1..Len(buffer) : q[i] = buffer[i]
              /\ q[Len(buffer) + 1] = diff
            BY <1>4, <1>5, <2>4
        <3>. QED
            BY <1>2, <1>4, <1>5, <2>4, <3>1, <3>2
    <2>6. UNCHANGED <<state, book, snapshot>>
        BY <1>6 DEF BufferDiff
    <2>. QED
        BY <1>2, <1>5, <2>2, <2>3, <2>4, <2>5, <2>6, GoesOnGood
<1>7. CASE ApplyDiff(diff) /\ TooOld(book, diff)
    BY <1>2, <1>7, StartAgainGood DEF ApplyDiff
<1>8. CASE ApplyDiff(diff) /\ ~TooOld(book, diff)
    <2>. DEFINE checked == Checked(snapshot, UpdateFromDiff(book, diff))
    <2>1. GoodBook(UpdateFromDiff(book, diff))
        BY <1>2, <1>5, <1>8, DiffKeepsGood
    <2>2. GoodBook(checked.book)
        BY <1>5, <2>1, CheckedGood
    <2>3. book' = checked.book /\ (StartAgain \/ UNCHANGED <<state, buffer, fetch, snapshot>>)
        BY <1>8 DEF ApplyDiff
    <2>. HIDE DEF checked
    <2>4. CASE StartAgain
        BY <1>2, <2>2, <2>3, <2>4, StartAgainGood
    <2>5. CASE UNCHANGED <<state, buffer, fetch, snapshot>>
        BY <1>2, <1>5, <2>2, <2>3, <2>5, GoesOnGood
    <2>. QED
        BY <2>3, <2>4, <2>5
<1>. QED
    BY <1>3, <1>6, <1>7, <1>8

LEMMA SnapshotStartsGood ==
    ASSUME MInv, SnapshotStarts
    PROVE  MInv'
<1>. USE DEF MInv
<1>1. PICK id \in fetch.since..Len(log) :
        IF Startable(id)
        THEN /\ book' = Rebuilt(id).book
             /\ IF Thin(book', 0)
                THEN /\ fetch' = Request(MaxDepth)
                     /\ UNCHANGED <<state, buffer>>
                ELSE /\ state' = "updating"
                     /\ buffer' = <<>>
                     /\ fetch' = Sleeping
        ELSE /\ fetch' = Request(MaxDepth)
             /\ UNCHANGED <<state, book, buffer>>
    BY DEF SnapshotStarts
<1>2. /\ LogType /\ buffer \in Seq(Diffs) /\ Len(log) \in Nat
      /\ snapshot \in [id : Ids \union {-1}, limit : {0, CheckDepth, MaxDepth}]
      /\ {0, CheckDepth, MaxDepth} \in SUBSET Nat
      /\ state \in {"initializing", "updating"}
      /\ id \in 0..Len(log)
    BY TypeParts, MirrorAssumption DEF TypeOK, Ids
<1>3. Kept /\ snapshot' = snapshot
    BY DEF SnapshotStarts, Kept, TypeOK
<1>4. GoodBook(Rebuilt(id).book)
    <2>. DEFINE after == {i \in 1..Len(buffer) : buffer[i].final > id}
                k == Min(after \union {Len(buffer) + 1})
                q == SubSeq(buffer, k, Len(buffer))
    <2>1. Rebuilt(id) = Applied(FromExchange(id, MaxDepth), q)
        BY DEF Rebuilt
    <2>2. GoodBook(FromExchange(id, MaxDepth))
        BY <1>2, FromExchangeGood
    <2>3. k \in 1..Len(buffer) + 1
        <3>1. after \union {Len(buffer) + 1} \in SUBSET (1..Len(buffer) + 1)
            BY <1>2
        <3>2. after \union {Len(buffer) + 1} \in SUBSET Nat
            BY <3>1
        <3>. QED
            BY <3>1, <3>2, MinIsLeast
    <2>. HIDE DEF k
    <2>4. /\ q \in Seq(Diffs)
          /\ \A i \in 1..Len(q) : q[i] = buffer[i + k - 1] /\ i + k - 1 \in 1..Len(buffer)
        BY <1>2, <2>3, SubSeqProperties
    <2>5. \A i \in 1..Len(q) : GoodDiff(q[i])
        BY <2>4
    <2>. QED
        BY <1>2, <2>1, <2>2, <2>4, <2>5, AppliedGood
<1>5. MaxDepth \in Depths
    BY DEF Depths
<1>6. PICK b : book' = b /\ GoodBook(b)
    BY <1>1, <1>4
<1>7. PICK f : f \in {Request(MaxDepth), Sleeping} /\ fetch' = f
    BY <1>1
<1>8. /\ f \in [at : {"none", "sleep", "fetching"}, since : Ids, limit : {0, CheckDepth, MaxDepth}]
      /\ f.at = "fetching" => f.limit \in Depths
    <2>1. 0 \in Ids
        BY MirrorAssumption DEF Ids
    <2>. QED
        BY <1>5, <1>7, <2>1, RequestType DEF Sleeping
<1>9. PICK q \in Seq(Diffs) : buffer' = q /\ \A i \in 1..Len(q) : GoodDiff(q[i])
    <2>1. CASE buffer' = buffer
        BY <1>2, <2>1
    <2>2. CASE buffer' = <<>>
        <3>1. <<>> \in Seq(Diffs) /\ \A i \in 1..Len(<<>>) : GoodDiff(<<>>[i])
            <4>1. 1..Len(<<>>) = {}
                OBVIOUS
            <4>. QED
                BY <4>1
        <3>. QED
            BY <2>2, <3>1, Zenon
    <2>. QED
        BY <1>1, <2>1, <2>2
<1>10. state' \in {"initializing", "updating"}
    BY <1>1, <1>2
<1>. QED
    BY <1>2, <1>3, <1>6, <1>7, <1>8, <1>9, <1>10, GoesOnGood

LEMMA SnapshotChecksGood ==
    ASSUME MInv, SnapshotChecks
    PROVE  MInv'
<1>. USE DEF MInv
<1>1. PICK id \in fetch.since..Len(log) :
        LET snap == [id |-> id, limit |-> fetch.limit]
            checked == Checked(snap, book)
        IN  /\ book' = checked.book
            /\ IF checked.mismatch THEN StartAgain
               ELSE /\ snapshot' = snap
                    /\ fetch' = Sleeping
                    /\ UNCHANGED <<state, buffer>>
    BY DEF SnapshotChecks
<1>. DEFINE snap == [id |-> id, limit |-> fetch.limit]
            checked == Checked(snap, book)
<1>2. /\ LogType /\ buffer \in Seq(Diffs)
      /\ {0, CheckDepth, MaxDepth} \in SUBSET Nat
      /\ state \in {"initializing", "updating"} /\ 0 \in Ids
      /\ id \in Ids /\ fetch.limit \in {0, CheckDepth, MaxDepth} /\ fetch.limit \in Depths
    BY TypeParts, MirrorAssumption DEF TypeOK, Ids, SnapshotChecks
<1>3. Kept
    BY DEF SnapshotChecks, Kept, TypeOK
<1>4. /\ snap \in [id : Ids \union {-1}, limit : {0, CheckDepth, MaxDepth}]
      /\ snap.limit \in Depths /\ snap.limit \in Nat
    BY <1>2
<1>5. /\ book' = checked.book
      /\ StartAgain \/ (snapshot' = snap /\ fetch' = Sleeping /\ UNCHANGED <<state, buffer>>)
    BY <1>1
<1>. HIDE DEF snap
<1>6. GoodBook(checked.book)
    BY <1>2, <1>4, CheckedGood
<1>. HIDE DEF checked
<1>7. CASE StartAgain
    BY <1>3, <1>5, <1>6, <1>7, StartAgainGood
<1>8. CASE snapshot' = snap /\ fetch' = Sleeping /\ UNCHANGED <<state, buffer>>
    <2>1. /\ Sleeping \in [at : {"none", "sleep", "fetching"}, since : Ids, limit : {0, CheckDepth, MaxDepth}]
          /\ Sleeping.at # "fetching"
        BY <1>2 DEF Sleeping
    <2>. QED
        BY <1>2, <1>3, <1>4, <1>5, <1>6, <1>8, <2>1, GoesOnGood
<1>. QED
    BY <1>5, <1>7, <1>8

LEMMA OthersGood ==
    ASSUME MInv, DiffLost \/ WakeUp \/ FetchFails \/ UNCHANGED vars
    PROVE  MInv'
<1>. USE DEF MInv
<1>1. /\ LogType /\ buffer \in Seq(Diffs) /\ 0 \in Ids
      /\ snapshot \in [id : Ids \union {-1}, limit : {0, CheckDepth, MaxDepth}]
      /\ fetch \in [at : {"none", "sleep", "fetching"}, since : Ids, limit : {0, CheckDepth, MaxDepth}]
      /\ state \in {"initializing", "updating"}
    BY TypeParts, MirrorAssumption DEF TypeOK, Ids
<1>2. Kept
    <2>1. /\ log' = log /\ streamed \in 0..Len(log) /\ Len(log) \in Nat
          /\ lost \in 0..MaxLost /\ failures \in 0..MaxFailures
        BY TypeParts DEF TypeOK, DiffLost, WakeUp, FetchFails, vars
    <2>2. streamed' \in 0..Len(log)
        BY <2>1 DEF DiffLost, WakeUp, FetchFails, vars
    <2>3. lost' \in 0..MaxLost /\ failures' \in 0..MaxFailures
        BY <2>1, MirrorAssumption DEF DiffLost, WakeUp, FetchFails, vars
    <2>. QED
        BY <2>1, <2>2, <2>3 DEF Kept
<1>3. UNCHANGED <<state, book, buffer, snapshot>>
    BY DEF DiffLost, WakeUp, FetchFails, vars
<1>4. PICK f : /\ fetch' = f
               /\ f \in {fetch, Sleeping, Request(MaxDepth), Request(CheckDepth)}
    BY DEF DiffLost, WakeUp, FetchFails, vars
<1>5. MaxDepth \in Depths /\ CheckDepth \in Depths
    BY DEF Depths
<1>6. /\ f \in [at : {"none", "sleep", "fetching"}, since : Ids, limit : {0, CheckDepth, MaxDepth}]
      /\ f.at = "fetching" => f.limit \in Depths
    <2>1. CASE f = fetch
        BY <1>1, <2>1
    <2>2. CASE f = Sleeping
        BY <1>1, <2>2 DEF Sleeping
    <2>3. CASE f = Request(MaxDepth) \/ f = Request(CheckDepth)
        BY <1>5, <2>3, RequestType
    <2>. QED
        BY <1>4, <2>1, <2>2, <2>3
<1>. QED
    BY <1>1, <1>2, <1>3, <1>4, <1>6, GoesOnGood

LEMMA MirrorStep ==
    ASSUME MInv, [Next]_vars
    PROVE  MInv'
BY ExchangeUpdatesGood, DiffArrivesGood, SnapshotStartsGood, SnapshotChecksGood, OthersGood DEF Next

\* What the mirror's proofs rest on is kept by every step.
THEOREM MirrorInvariant == Spec => []MInv
BY InitGood, MirrorStep, PTL DEF Spec

\* Every variable of the mirror keeps its type.
THEOREM MirrorTypes == Spec => []TypeOK
<1>1. MInv => TypeOK
    BY DEF MInv
<1>. QED
    BY <1>1, MirrorInvariant, PTL

\* The book a strategy reads is the exchange's at the update it claims, down to its bound.
THEOREM BookIsAccurate == Spec => []Accurate
<1>1. MInv => Accurate
    BY DEF MInv, GoodBook, Accurate
<1>. QED
    BY <1>1, MirrorInvariant, PTL
-----------------------------------------------------------------------------
(***************************************************************************)
(* A check finds no difference: the levels of a book and those of a        *)
(* snapshot of the same update are both the best of one side, and a        *)
(* snapshot that is not longer than the book holds as many as are checked. *)
(***************************************************************************)
LEMMA SamePrefix ==
    ASSUME NEW side \in [Prices -> Amounts], NEW L \in [Prices -> Amounts],
           NEW limit \in Nat, CheckDepth <= limit,
           NEW bl \in Prices \union {NoBound},
           \A p \in Prices : L[p] = IF p <= bl THEN side[p] ELSE 0,
           Depth(Top(side, limit)) <= Depth(L)
    PROVE  Top(Top(side, limit), CheckDepth) = Top(L, CheckDepth)
<1>. DEFINE T == Top(side, limit)
            bt == Bound(T)
            upTo(S, p) == {q \in S : q <= p}
<1>1. /\ T \in [Prices -> Amounts] /\ \A p \in Prices : T[p] = IF p <= bt THEN side[p] ELSE 0
      /\ bt \in Prices \union {NoBound}
    <2>1. bt \in Prices \union {NoBound}
        BY BoundIsWorst
    <2>. QED
        BY <2>1, TopIsPrefix
<1>2. \A p \in Prices :
        T[p] = IF Cardinality(upTo(Levels(side), p)) <= limit THEN side[p] ELSE 0
    BY DEF Top
<1>3. Depth(T) <= Depth(L)
    OBVIOUS
<1>. HIDE DEF T, bt
<1>4. /\ Prices \in SUBSET Nat /\ bt \in Nat /\ bl \in Nat /\ CheckDepth \in Nat
      /\ \A p \in Prices : T[p] \in Nat /\ L[p] \in Nat /\ side[p] \in Nat
    <2>1. Prices \in SUBSET Nat /\ Amounts \in SUBSET Nat /\ NoBound \in Nat
        BY MirrorAssumption DEF Prices, Amounts, NoBound
    <2>2. CheckDepth \in Nat
        BY MirrorAssumption
    <2>3. \A p \in Prices : T[p] \in Amounts /\ L[p] \in Amounts /\ side[p] \in Amounts
        BY <1>1
    <2>. QED
        BY <1>1, <2>1, <2>2, <2>3
<1>5. Levels(T) \in SUBSET Prices /\ Levels(L) \in SUBSET Prices
    BY DEF Levels
<1>6. Levels(T) \in SUBSET Levels(L)
    <2>1. CASE bt <= bl
        <3>1. ASSUME NEW p \in Prices, T[p] > 0
              PROVE  L[p] > 0
            <4>1. p <= bt /\ T[p] = side[p]
                BY <1>1, <3>1
            <4>2. p <= bl
                BY <1>4, <2>1, <4>1
            <4>. QED
                BY <3>1, <4>1, <4>2
        <3>. QED
            BY <3>1 DEF Levels
    <2>2. CASE bl <= bt
        <3>1. Levels(L) \in SUBSET Levels(T)
            <4>1. ASSUME NEW p \in Prices, L[p] > 0
                  PROVE  T[p] > 0
                <5>1. p <= bl /\ L[p] = side[p]
                    BY <4>1
                <5>2. p <= bt
                    BY <1>4, <2>2, <5>1
                <5>. QED
                    BY <1>1, <4>1, <5>1, <5>2
            <4>. QED
                BY <4>1 DEF Levels
        <3>2. /\ IsFiniteSet(Levels(T)) /\ Cardinality(Levels(T)) \in Nat
              /\ Cardinality(Levels(L)) \in Nat
            BY <1>5, PricesFinite
        <3>3. Cardinality(Levels(L)) <= Cardinality(Levels(T))
              /\ (Cardinality(Levels(L)) = Cardinality(Levels(T)) => Levels(L) = Levels(T))
            BY <3>1, <3>2, FS_Subset
        <3>4. Levels(L) = Levels(T)
            BY <1>3, <3>2, <3>3 DEF Depth
        <3>. QED
            BY <3>4
    <2>. QED
        BY <1>4, <2>1, <2>2
<1>7. ASSUME NEW p \in Prices
      PROVE  Top(T, CheckDepth)[p] = Top(L, CheckDepth)[p]
    <2>1. /\ Top(T, CheckDepth)[p] = IF Cardinality(upTo(Levels(T), p)) <= CheckDepth THEN T[p] ELSE 0
          /\ Top(L, CheckDepth)[p] = IF Cardinality(upTo(Levels(L), p)) <= CheckDepth THEN L[p] ELSE 0
        BY DEF Top
    <2>2. CASE p \in Levels(T)
        <3>1. p <= bt /\ T[p] = side[p] /\ L[p] = side[p]
            BY <1>1, <1>4, <1>6, <2>2 DEF Levels
        <3>2. upTo(Levels(L), p) = upTo(Levels(T), p)
            <4>1. ASSUME NEW q \in Levels(L), q <= p
                  PROVE  q \in Levels(T)
                BY <1>1, <1>4, <1>5, <3>1, <4>1 DEF Levels
            <4>. QED
                BY <1>6, <4>1
        <3>. QED
            BY <2>1, <3>1, <3>2
    <2>3. CASE p \notin Levels(T)
        <3>1. T[p] = 0
            BY <1>4, <2>3 DEF Levels
        <3>2. CASE p \notin Levels(L)
            BY <1>4, <2>1, <3>1, <3>2 DEF Levels
        <3>3. CASE p \in Levels(L)
            <4>1. p <= bl /\ side[p] # 0 /\ L[p] = side[p]
                BY <1>4, <3>3 DEF Levels
            <4>2. ~(Cardinality(upTo(Levels(side), p)) <= limit)
                BY <1>2, <3>1, <4>1
            <4>3. upTo(Levels(L), p) = upTo(Levels(side), p)
                <5>1. ASSUME NEW q \in Prices, q <= p
                      PROVE  L[q] = side[q]
                    <6>1. q <= bl
                        BY <1>4, <4>1, <5>1
                    <6>. QED
                        BY <6>1
                <5>. QED
                    BY <5>1 DEF Levels
            <4>4. Cardinality(upTo(Levels(L), p)) \in Nat
                <5>1. upTo(Levels(L), p) \in SUBSET Prices
                    BY <1>5
                <5>. QED
                    BY <5>1, PricesFinite
            <4>5. ~(Cardinality(upTo(Levels(L), p)) <= CheckDepth)
                BY <1>4, <4>2, <4>3, <4>4
            <4>. QED
                BY <2>1, <3>1, <4>5
        <3>. QED
            BY <3>2, <3>3
    <2>. QED
        BY <2>2, <2>3
<1>8. Top(T, CheckDepth) = Top(L, CheckDepth)
    <2>1. /\ Top(T, CheckDepth) = [p \in Prices |-> Top(T, CheckDepth)[p]]
          /\ Top(L, CheckDepth) = [p \in Prices |-> Top(L, CheckDepth)[p]]
        BY DEF Top
    <2>. QED
        BY <1>7, <2>1
<1>. QED
    BY <1>8 DEF T

LEMMA NoMismatch ==
    ASSUME LogType, NEW b, GoodBook(b), NEW snap,
           snap.id = b.id => snap.limit \in Depths
    PROVE  Checked(snap, b).mismatch = FALSE
<1>1. CASE snap.id # b.id
    BY <1>1 DEF Checked
<1>2. CASE snap.id = b.id
    <2>1. snap.limit \in Nat /\ CheckDepth <= snap.limit
        BY <1>2, MirrorAssumption DEF Depths
    <2>2. b \in Book /\ b.id \in 0..Len(log)
        BY MirrorAssumption DEF GoodBook, Book, Ids, LogType
    <2>3. ASSUME NEW s \in Sides
          PROVE  ~Mismatch(snap, b, s)
        <3>. DEFINE side == SideAt(b.id, s)
                    T == Top(side, snap.limit)
                    L == b.levels[s]
        <3>1. side \in [Prices -> Amounts] /\ \A p \in Prices : side[p] = AmountAt(b.id, s, p)
            BY <2>2, SideIsSide
        <3>2. /\ L \in [Prices -> Amounts] /\ b.bound[s] \in Prices \union {NoBound}
              /\ \A p \in Prices : L[p] = IF p <= b.bound[s] THEN side[p] ELSE 0
            BY <2>2, <3>1 DEF GoodBook, Book
        <3>3. Mismatch(snap, b, s) <=> /\ ~(Depth(T) > Depth(L))
                                       /\ Top(T, CheckDepth) # Top(L, CheckDepth)
            BY <1>2 DEF Mismatch, Refreshes
        <3>4. Depth(T) \in Nat /\ Depth(L) \in Nat
            BY PricesFinite DEF Depth, Levels
        <3>. HIDE DEF side, L
        <3>5. Depth(T) <= Depth(L) => Top(T, CheckDepth) = Top(L, CheckDepth)
            BY <2>1, <3>1, <3>2, SamePrefix
        <3>. QED
            BY <3>3, <3>4, <3>5
    <2>. QED
        BY <1>2, <2>3 DEF Checked, Compared
<1>. QED
    BY <1>1, <1>2

\* The updater starts again when a diff is missing or a side is thin, and never for a check.
LEMMA RestartStep ==
    ASSUME MInv, Next, state = "updating", state' = "initializing"
    PROVE  book.id < streamed \/ Thin(book', RestartDepth)
<1>. USE DEF MInv
<1>1. /\ LogType /\ book \in Book /\ book.id \in Nat /\ streamed \in Nat
      /\ snapshot.id # -1 => snapshot.limit \in Depths
    BY TypeParts, MirrorAssumption DEF Book, Ids
<1>2. CASE DiffArrives
    <2>1. PICK final \in (streamed + 1)..Len(log) :
                ApplyDiff([first |-> streamed + 1, final |-> final])
        BY <1>2 DEF DiffArrives, BufferDiff
    <2>. DEFINE diff == [first |-> streamed + 1, final |-> final]
                upd == UpdateFromDiff(book, diff)
                checked == Checked(snapshot, upd)
    <2>2. CASE TooOld(book, diff)
        BY <1>1, <2>2 DEF TooOld
    <2>3. CASE ~TooOld(book, diff)
        <3>1. GoodBook(upd)
            BY <1>1, <2>3, StreamedDiff, DiffKeepsGood
        <3>2. upd.id # -1
            BY <3>1, MirrorAssumption DEF GoodBook, Book, Ids
        <3>3. checked.mismatch = FALSE
            <4>. HIDE DEF upd
            <4>. QED
                BY <1>1, <3>1, <3>2, NoMismatch
        <3>4. book' = checked.book /\ (checked.mismatch \/ Thin(checked.book, RestartDepth) \/ state' = state)
            BY <2>1, <2>3 DEF ApplyDiff
        <3>. HIDE DEF checked
        <3>. QED
            BY <3>3, <3>4
    <2>. QED
        BY <2>2, <2>3
<1>3. CASE SnapshotChecks
    <2>1. PICK id \in fetch.since..Len(log) :
            Checked([id |-> id, limit |-> fetch.limit], book).mismatch \/ state' = state
        BY <1>3 DEF SnapshotChecks
    <2>2. fetch.limit \in Depths
        BY <1>3 DEF SnapshotChecks
    <2>3. Checked([id |-> id, limit |-> fetch.limit], book).mismatch = FALSE
        BY <1>1, <2>2, NoMismatch
    <2>. QED
        BY <2>1, <2>3
<1>. QED
    BY <1>2, <1>3 DEF Next, ExchangeUpdates, DiffLost, SnapshotStarts, WakeUp, FetchFails

\* A snapshot that is compared with the book finds no difference but of diffs that were lost or
\* skipped, so the updater starts again for those only, or before a side runs out of levels.
THEOREM NoRestartForNothing == Spec => RestartsForAReason
<1>1. ASSUME MInv, [Next]_vars
      PROVE  [state = "updating" /\ state' = "initializing"
              => (book.id < streamed \/ Thin(book', RestartDepth))]_vars
    BY <1>1, RestartStep
<1>. QED
    BY <1>1, MirrorInvariant, PTL DEF Spec, RestartsForAReason
=============================================================================
