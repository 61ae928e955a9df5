---------------------------- MODULE Foundations ----------------------------
(***************************************************************************)
(* What the proofs need of sets of numbers and of finite sets, and the     *)
(* libraries do not have in a form the provers can use: least and greatest *)
(* elements, induction, and the values of the folds and sums that the      *)
(* community modules define.                                               *)
(***************************************************************************)
EXTENDS Integers, FiniteSets, FiniteSetsExt, Functions, TLAPS, FiniteSetTheorems, WellFoundedInduction

\* A set of natural numbers has a least element, which is what Min chooses.
LEMMA MinIsLeast ==
    ASSUME NEW S \in SUBSET Nat, S # {}
    PROVE  Min(S) \in S /\ \A x \in S : Min(S) <= x
<1>. DEFINE R == {ss \in Nat \X Nat : ss[1] < ss[2]}
<1>1. IsWellFoundedOn(R, Nat)
    BY NatLessThanWellFounded, Zenon DEF OpToRel
<1>2. \A x, y \in Nat : x < y => <<x, y>> \in R
    OBVIOUS
<1>. HIDE DEF R
<1>3. PICK m \in S : \A x \in S : ~(<<x, m>> \in R)
    BY <1>1, WFMin
<1>4. ASSUME NEW x \in S
      PROVE  m <= x
    <2>1. x \in Nat /\ m \in Nat
        OBVIOUS
    <2>2. ~(x < m)
        BY <1>2, <1>3, <2>1
    <2>. QED
        BY <2>1, <2>2
<1>. QED
    BY <1>4 DEF Min

\* A finite list of integers has a greatest: the first prefix without one would be longer than
\* a prefix with one, by one element.
LEMMA GreatestOfList ==
    ASSUME NEW n \in Nat \ {0}, NEW f \in [1..n -> Int]
    PROVE  \E m \in 1..n : \A i \in 1..n : f[i] <= f[m]
<1>. DEFINE Greatest(m, k) == \A i \in 1..k : f[i] <= f[m]
            Bad == {k \in 1..n : \A m \in 1..k : ~Greatest(m, k)}
<1>1. ASSUME Bad # {}
      PROVE  FALSE
    <2>. DEFINE k == Min(Bad)
    <2>1. Bad \in SUBSET Nat
        OBVIOUS
    <2>2. k \in Bad /\ \A x \in Bad : k <= x
        <3>. HIDE DEF Bad
        <3>. QED
            BY <1>1, <2>1, MinIsLeast
    <2>. HIDE DEF k
    <2>. k \in 1..n /\ \A m \in 1..k : ~Greatest(m, k)
        BY <2>2
    <2>3. CASE k = 1
        BY <2>3
    <2>4. CASE k # 1
        <3>1. k - 1 \in 1..n /\ k - 1 \notin Bad
            <4>1. k - 1 \in 1..n /\ ~(k <= k - 1)
                BY <2>4
            <4>. QED
                BY <2>2, <4>1
        <3>2. PICK m \in 1..(k - 1) : Greatest(m, k - 1)
            BY <3>1
        <3>3. m \in 1..k /\ k \in 1..k /\ \A i \in 1..k : i \in 1..(k - 1) \/ i = k
            BY <2>4
        <3>4. f[k] \in Int /\ f[m] \in Int /\ \A i \in 1..k : f[i] \in Int
            BY <3>3
        <3>5. CASE f[k] <= f[m]
            BY <3>2, <3>3, <3>4, <3>5
        <3>6. CASE f[m] < f[k]
            <4>1. \A i \in 1..(k - 1) : f[i] <= f[m] /\ f[i] \in Int
                BY <3>1, <3>2, <3>4
            <4>2. Greatest(k, k)
                BY <3>3, <3>4, <3>6, <4>1
            <4>. QED
                BY <3>3, <4>2
        <3>. QED
            BY <3>4, <3>5, <3>6
    <2>. QED
        BY <2>3, <2>4
<1>2. n \in 1..n /\ n \notin Bad
    <2>1. n \in 1..n
        OBVIOUS
    <2>. HIDE DEF Bad
    <2>. QED
        BY <1>1, <2>1
<1>. QED
    BY <1>2

\* The elements of a finite set, as a list.
LEMMA Listed ==
    ASSUME NEW S, IsFiniteSet(S), S # {}
    PROVE  \E n \in Nat \ {0} : \E f \in [1..n -> S] : \A x \in S : \E i \in 1..n : f[i] = x
<1>. DEFINE n == Cardinality(S)
<1>1. n \in Nat /\ n # 0
    BY FS_CardinalityType, FS_EmptySet
<1>2. PICK f : f \in Bijection(1..n, S)
    BY FS_CardinalityType DEF ExistsBijection
<1>3. f \in [1..n -> S] /\ \A x \in S : \E i \in 1..n : f[i] = x
    BY <1>2 DEF Bijection, Surjection
<1>. QED
    BY <1>1, <1>3

LEMMA MaxIsGreatest ==
    ASSUME NEW S \in SUBSET Int, IsFiniteSet(S), S # {}
    PROVE  Max(S) \in S /\ \A x \in S : x <= Max(S)
<1>1. PICK n \in Nat \ {0} : \E f \in [1..n -> S] : \A x \in S : \E i \in 1..n : f[i] = x
    BY Listed
<1>2. PICK f \in [1..n -> S] : \A x \in S : \E i \in 1..n : f[i] = x
    BY <1>1
<1>3. f \in [1..n -> Int]
    OBVIOUS
<1>4. PICK m \in 1..n : \A i \in 1..n : f[i] <= f[m]
    BY <1>3, GreatestOfList
<1>5. f[m] \in S /\ \A x \in S : f[m] >= x
    BY <1>2, <1>3, <1>4
<1>. QED
    BY <1>5 DEF Max

LEMMA MinIsLeastInt ==
    ASSUME NEW S \in SUBSET Int, IsFiniteSet(S), S # {}
    PROVE  Min(S) \in S /\ \A x \in S : Min(S) <= x
<1>1. PICK n \in Nat \ {0} : \E f \in [1..n -> S] : \A x \in S : \E i \in 1..n : f[i] = x
    BY Listed
<1>2. PICK f \in [1..n -> S] : \A x \in S : \E i \in 1..n : f[i] = x
    BY <1>1
<1>. DEFINE g == [i \in 1..n |-> -f[i]]
<1>3. g \in [1..n -> Int] /\ \A i \in 1..n : f[i] \in Int /\ g[i] = -f[i]
    <2>1. \A i \in 1..n : f[i] \in Int
        OBVIOUS
    <2>2. \A i \in 1..n : -f[i] \in Int
        BY <2>1
    <2>. QED
        BY <2>1, <2>2
<1>. HIDE DEF g
<1>4. PICK m \in 1..n : \A i \in 1..n : g[i] <= g[m]
    BY <1>3, GreatestOfList
<1>5. f[m] \in S /\ \A x \in S : f[m] <= x
    <2>1. \A i \in 1..n : f[m] <= f[i]
        BY <1>3, <1>4
    <2>. QED
        BY <1>2, <2>1
<1>. QED
    BY <1>5 DEF Min

LEMMA MaxOfTwo ==
    ASSUME NEW a \in Int, NEW b \in Int
    PROVE  Max({a, b}) = IF a >= b THEN a ELSE b
BY DEF Max
-----------------------------------------------------------------------------
(***************************************************************************)
(* Induction over numbers in terms of sets: a set of numbers that is not   *)
(* empty has a least one, which stands for the rule of induction.          *)
(***************************************************************************)
LEMMA InductionOverNat ==
    ASSUME NEW S, 0 \in S, \A n \in Nat : n \in S => n + 1 \in S
    PROVE  \A n \in Nat : n \in S
<1>. DEFINE Rest == {n \in Nat : n \notin S}
            m == Min(Rest)
<1>1. ASSUME Rest # {}
      PROVE  FALSE
    <2>1. Rest \in SUBSET Nat
        OBVIOUS
    <2>. HIDE DEF Rest
    <2>2. m \in Rest /\ \A x \in Rest : m <= x
        BY <1>1, <2>1, MinIsLeast
    <2>. HIDE DEF m
    <2>3. m \in Nat /\ m \notin S /\ m # 0
        BY <2>2 DEF Rest
    <2>4. m - 1 \in Nat /\ ~(m <= m - 1)
        BY <2>3
    <2>5. m - 1 \in S
        BY <2>2, <2>4 DEF Rest
    <2>6. (m - 1) + 1 \in S
        BY <2>4, <2>5
    <2>7. (m - 1) + 1 = m
        BY <2>3
    <2>. QED
        BY <2>3, <2>6, <2>7
<1>. QED
    BY <1>1

LEMMA SegmentMax ==
    ASSUME NEW k \in Nat \ {0}
    PROVE  Max(1..k) = k /\ (1..k) \ {k} = 1..(k - 1) /\ 1..k # {}
<1>1. k \in 1..k /\ \A i \in 1..k : k >= i
    OBVIOUS
<1>2. \A m \in 1..k : (\A i \in 1..k : m >= i) => m = k
    BY <1>1
<1>3. Max(1..k) = k
    BY <1>1, <1>2 DEF Max
<1>4. (1..k) \ {k} = 1..(k - 1)
    OBVIOUS
<1>. QED
    BY <1>1, <1>3, <1>4

\* A fold over a list, which the community modules define on the sets of its indices, has values:
\* F gives what an element makes of what those before it made.
IsFold(g, B, base, k, F) ==
    /\ g \in [SUBSET (1..k) -> B]
    /\ \A S \in SUBSET (1..k) :
        g[S] = IF S = {} THEN base ELSE F[<<g[S \ {Max(S)}], Max(S)>>]

LEMMA FoldExists ==
    ASSUME NEW B, NEW base \in B, NEW n \in Nat, NEW F \in [B \X (1..n) -> B]
    PROVE  \E g : IsFold(g, B, base, n, F)
<1>. DEFINE Fold(g, k) ==
                /\ g \in [SUBSET (1..k) -> B]
                /\ \A S \in SUBSET (1..k) :
                    g[S] = IF S = {} THEN base ELSE F[<<g[S \ {Max(S)}], Max(S)>>]
            Good == {k \in Nat : k <= n => \E g : Fold(g, k)}
<1>1. 0 \in Good
    <2>. DEFINE g == [S \in SUBSET (1..0) |-> base]
    <2>1. \A S \in SUBSET (1..0) : S = {}
        OBVIOUS
    <2>2. Fold(g, 0)
        BY <2>1
    <2>. QED
        BY <2>2
<1>2. ASSUME NEW k \in Nat, k \in Good
      PROVE  k + 1 \in Good
    <2>1. CASE ~(k + 1 <= n)
        BY <2>1
    <2>2. CASE k + 1 <= n
        <3>1. PICK g : Fold(g, k)
            <4>1. k <= n
                BY <2>2
            <4>. HIDE DEF Fold
            <4>. QED
                BY <1>2, <4>1
        <3>. DEFINE m == k + 1
                    h == [S \in SUBSET (1..m) |-> IF m \in S THEN F[<<g[S \ {m}], m>>] ELSE g[S]]
        <3>2. ASSUME NEW S \in SUBSET (1..m), m \in S
              PROVE  /\ S # {} /\ Max(S) = m /\ S \ {m} \in SUBSET (1..k)
                     /\ h[S] = F[<<g[S \ {m}], m>>] /\ h[S \ {m}] = g[S \ {m}] /\ h[S] \in B
            <4>1. \A i \in S : i \in 1..m /\ m >= i /\ i \in Int
                OBVIOUS
            <4>2. \A x \in S : (\A i \in S : x >= i) => x = m
                BY <3>2, <4>1
            <4>3. Max(S) = m
                <5>1. m \in S /\ \A i \in S : m >= i
                    BY <3>2, <4>1
                <5>. HIDE DEF m
                <5>. QED
                    BY <4>2, <5>1 DEF Max
            <4>4. S \ {m} \in SUBSET (1..k) /\ m \notin S \ {m} /\ S \ {m} \in SUBSET (1..m)
                BY <4>1
            <4>5. g[S \ {m}] \in B /\ m \in 1..n
                BY <2>2, <3>1, <4>4
            <4>6. F[<<g[S \ {m}], m>>] \in B
                BY <4>5
            <4>. QED
                BY <3>2, <4>3, <4>4, <4>6
        <3>3. ASSUME NEW S \in SUBSET (1..m), m \notin S
              PROVE  /\ S \in SUBSET (1..k) /\ h[S] = g[S] /\ h[S] \in B
                     /\ S # {} => Max(S) \in S /\ S \ {Max(S)} \in SUBSET (1..k)
                                  /\ h[S \ {Max(S)}] = g[S \ {Max(S)}]
            <4>1. S \in SUBSET (1..k)
                BY <3>3
            <4>2. S # {} => Max(S) \in S
                <5>1. IsFiniteSet(1..m)
                    BY FS_Interval
                <5>2. IsFiniteSet(S)
                    BY <5>1, FS_Subset
                <5>3. S \in SUBSET Int
                    OBVIOUS
                <5>. QED
                    BY <5>2, <5>3, MaxIsGreatest
            <4>3. S \ {Max(S)} \in SUBSET (1..k) /\ S \ {Max(S)} \in SUBSET (1..m) /\ m \notin S \ {Max(S)}
                BY <3>3, <4>1
            <4>. QED
                BY <3>1, <3>3, <4>1, <4>2, <4>3
        <3>4. Fold(h, m)
            <4>1. ASSUME NEW S \in SUBSET (1..m)
                  PROVE  /\ h[S] \in B
                         /\ h[S] = IF S = {} THEN base ELSE F[<<h[S \ {Max(S)}], Max(S)>>]
                <5>1. CASE m \in S
                    <6>. HIDE DEF h, m
                    <6>. QED
                        BY <3>2, <5>1
                <5>2. CASE m \notin S
                    <6>1. /\ S \in SUBSET (1..k) /\ h[S] = g[S] /\ h[S] \in B
                          /\ S # {} => h[S \ {Max(S)}] = g[S \ {Max(S)}]
                        <7>. HIDE DEF h, m
                        <7>. QED
                            BY <3>3, <5>2
                    <6>2. g[S] = IF S = {} THEN base ELSE F[<<g[S \ {Max(S)}], Max(S)>>]
                        BY <3>1, <6>1
                    <6>. HIDE DEF h, m
                    <6>. QED
                        BY <6>1, <6>2
                <5>. QED
                    BY <5>1, <5>2
            <4>2. h = [S \in SUBSET (1..m) |-> h[S]]
                OBVIOUS
            <4>. HIDE DEF h, m
            <4>3. h \in [SUBSET (1..m) -> B]
                BY <4>1, <4>2
            <4>. QED
                BY <4>1, <4>3
        <3>5. m \in Nat /\ m = k + 1
            OBVIOUS
        <3>. HIDE DEF h, Fold, m
        <3>. QED
            BY <3>4, <3>5
    <2>. QED
        BY <2>1, <2>2
<1>3. \A k \in Nat : k \in Good
    <2>. HIDE DEF Good
    <2>. QED
        BY <1>1, <1>2, InductionOverNat
<1>4. PICK g : Fold(g, n)
    <2>1. n \in Good
        <3>. HIDE DEF Good
        <3>. QED
            BY <1>3
    <2>2. n <= n
        OBVIOUS
    <2>. HIDE DEF Fold
    <2>. QED
        BY <2>1, <2>2
<1>. QED
    BY <1>4 DEF IsFold
-----------------------------------------------------------------------------
(***************************************************************************)
(* Sums over a finite set, which the community modules define by taking    *)
(* elements from it in any order: h holds the sums of f over the subsets.  *)
(***************************************************************************)
OneOf(S) == CHOOSE x \in S : TRUE

Additive(h, f, S) ==
    /\ h \in [SUBSET S -> Int]
    /\ h[{}] = 0
    /\ \A T \in SUBSET S : \A x \in T : h[T] = f[x] + h[T \ {x}]

LEMMA AdditiveExtends ==
    ASSUME NEW S, NEW x \in S, NEW f, f[x] \in Int, \A y \in S : f[y] \in Int,
           NEW h, Additive(h, f, S \ {x})
    PROVE  \E g : Additive(g, f, S)
<1>. DEFINE g == [T \in SUBSET S |-> IF x \in T THEN f[x] + h[T \ {x}] ELSE h[T]]
<1>1. /\ h \in [SUBSET (S \ {x}) -> Int] /\ h[{}] = 0
      /\ \A T \in SUBSET (S \ {x}) : \A y \in T : h[T] = f[y] + h[T \ {y}]
    BY DEF Additive
<1>2. ASSUME NEW T \in SUBSET S
      PROVE  /\ T \ {x} \in SUBSET (S \ {x}) /\ h[T \ {x}] \in Int /\ g[T] \in Int
             /\ x \in T => g[T] = f[x] + h[T \ {x}]
             /\ x \notin T => g[T] = h[T] /\ T \in SUBSET (S \ {x})
    <2>1. T \ {x} \in SUBSET (S \ {x}) /\ (x \notin T => T \in SUBSET (S \ {x}))
        OBVIOUS
    <2>2. h[T \ {x}] \in Int /\ (x \notin T => h[T] \in Int)
        BY <1>1, <2>1
    <2>. QED
        BY <2>1, <2>2
<1>3. g = [T \in SUBSET S |-> g[T]]
    OBVIOUS
<1>. HIDE DEF g
<1>4. g \in [SUBSET S -> Int]
    BY <1>2, <1>3
<1>5. g[{}] = 0
    <2>1. {} \in SUBSET S /\ x \notin {}
        OBVIOUS
    <2>. QED
        BY <1>1, <1>2, <2>1
<1>6. ASSUME NEW T \in SUBSET S, NEW y \in T
      PROVE  g[T] = f[y] + g[T \ {y}]
    <2>0. T \ {y} \in SUBSET S
        OBVIOUS
    <2>1. CASE x \notin T
        <3>1. g[T] = h[T] /\ T \in SUBSET (S \ {x}) /\ g[T \ {y}] = h[T \ {y}]
            BY <1>2, <2>0, <2>1
        <3>. QED
            BY <1>1, <3>1
    <2>2. CASE x \in T /\ y = x
        <3>1. x \notin T \ {y}
            BY <2>2
        <3>2. g[T] = f[x] + h[T \ {x}] /\ g[T \ {y}] = h[T \ {y}]
            BY <1>2, <2>0, <2>2, <3>1
        <3>. QED
            BY <2>2, <3>2
    <2>3. CASE x \in T /\ y # x
        <3>1. y \in T \ {x} /\ x \in T \ {y} /\ (T \ {y}) \ {x} = (T \ {x}) \ {y}
            BY <2>3
        <3>2. g[T] = f[x] + h[T \ {x}] /\ g[T \ {y}] = f[x] + h[(T \ {y}) \ {x}]
            BY <1>2, <2>0, <2>3, <3>1
        <3>3. h[T \ {x}] = f[y] + h[(T \ {x}) \ {y}]
            BY <1>1, <1>2, <3>1
        <3>4. h[(T \ {y}) \ {x}] \in Int /\ f[y] \in Int
            BY <1>2, <2>0
        <3>5. \A a, b, c \in Int : a + (b + c) = b + (a + c)
            OBVIOUS
        <3>6. g[T] = f[x] + (f[y] + h[(T \ {y}) \ {x}])
            BY <3>1, <3>2, <3>3
        <3>. QED
            BY <3>2, <3>4, <3>5, <3>6
    <2>. QED
        BY <2>1, <2>2, <2>3
<1>. QED
    BY <1>4, <1>5, <1>6 DEF Additive

\* A set that one element is taken from.
LEMMA OneFewer ==
    ASSUME NEW T, IsFiniteSet(T), NEW n \in Nat, Cardinality(T) = n + 1, NEW x \in T
    PROVE  Cardinality(T \ {x}) = n
<1>1. Cardinality(T \ {x}) = Cardinality(T) - 1
    BY FS_RemoveElement
<1>. QED
    BY <1>1

LEMMA AdditiveExists ==
    ASSUME NEW U, IsFiniteSet(U), NEW f, \A y \in U : f[y] \in Int
    PROVE  \E h : Additive(h, f, U)
<1>. DEFINE Good == {n \in Nat : \A S \in SUBSET U : Cardinality(S) = n => \E h : Additive(h, f, S)}
<1>1. \A S \in SUBSET U : IsFiniteSet(S) /\ Cardinality(S) \in Nat
    BY FS_Subset, FS_CardinalityType
<1>2. 0 \in Good
    <2>1. ASSUME NEW S \in SUBSET U, Cardinality(S) = 0
          PROVE  \E h : Additive(h, f, S)
        <3>1. S = {}
            BY <1>1, <2>1, FS_EmptySet
        <3>. DEFINE h == [T \in {{}} |-> 0]
        <3>2. SUBSET S = {{}}
            BY <3>1
        <3>3. Additive(h, f, S)
            BY <3>2 DEF Additive
        <3>. QED
            BY <3>3
    <2>. QED
        BY <2>1
<1>3. ASSUME NEW n \in Nat, n \in Good
      PROVE  n + 1 \in Good
    <2>1. ASSUME NEW S \in SUBSET U, Cardinality(S) = n + 1
          PROVE  \E h : Additive(h, f, S)
        <3>1. S # {}
            BY <2>1, FS_EmptySet
        <3>2. PICK x \in S : TRUE
            BY <3>1
        <3>3. S \ {x} \in SUBSET U /\ Cardinality(S \ {x}) = n
            BY <1>1, <2>1, OneFewer
        <3>4. PICK h : Additive(h, f, S \ {x})
            BY <1>3, <3>3
        <3>5. f[x] \in Int /\ \A y \in S : f[y] \in Int
            OBVIOUS
        <3>. QED
            BY <3>4, <3>5, AdditiveExtends
    <2>. QED
        BY <2>1
<1>4. \A n \in Nat : n \in Good
    <2>. HIDE DEF Good
    <2>. QED
        BY <1>2, <1>3, InductionOverNat
<1>. QED
    BY <1>1, <1>4

\* Sums of the same terms are the same, whatever else is summed.
LEMMA AdditiveAgree ==
    ASSUME NEW S, NEW R, NEW f, NEW g, NEW h, NEW k, Additive(h, f, S), Additive(k, g, R),
           NEW U \in SUBSET (S \cap R), IsFiniteSet(U), \A x \in U : f[x] = g[x]
    PROVE  h[U] = k[U]
<1>. DEFINE Good == {n \in Nat : \A T \in SUBSET U : Cardinality(T) = n => h[T] = k[T]}
<1>1. \A T \in SUBSET U : IsFiniteSet(T) /\ Cardinality(T) \in Nat
    BY FS_Subset, FS_CardinalityType
<1>2. 0 \in Good
    <2>1. ASSUME NEW T \in SUBSET U, Cardinality(T) = 0
          PROVE  h[T] = k[T]
        <3>1. T = {}
            BY <1>1, <2>1, FS_EmptySet
        <3>. QED
            BY <3>1 DEF Additive
    <2>. QED
        BY <2>1
<1>3. ASSUME NEW n \in Nat, n \in Good
      PROVE  n + 1 \in Good
    <2>1. ASSUME NEW T \in SUBSET U, Cardinality(T) = n + 1
          PROVE  h[T] = k[T]
        <3>1. T # {}
            BY <2>1, FS_EmptySet
        <3>2. PICK x \in T : TRUE
            BY <3>1
        <3>3. T \ {x} \in SUBSET U /\ Cardinality(T \ {x}) = n
            BY <1>1, <2>1, OneFewer
        <3>4. h[T] = f[x] + h[T \ {x}] /\ k[T] = g[x] + k[T \ {x}]
            BY DEF Additive
        <3>5. h[T \ {x}] = k[T \ {x}]
            BY <1>3, <3>3
        <3>. QED
            BY <3>4, <3>5
    <2>. QED
        BY <2>1
<1>4. \A n \in Nat : n \in Good
    <2>. HIDE DEF Good
    <2>. QED
        BY <1>2, <1>3, InductionOverNat
<1>. QED
    BY <1>1, <1>4

\* What the sum of the community modules is.
Takes(h, f, S) ==
    h = [T \in SUBSET S |-> IF T = {} THEN 0 ELSE f[OneOf(T)] + h[T \ {OneOf(T)}]]

LEMMA TakesIsAdditive ==
    ASSUME NEW S, IsFiniteSet(S), NEW f, NEW h, NEW k, Takes(h, f, S), Additive(k, f, S)
    PROVE  h[S] = k[S]
<1>. DEFINE Good == {n \in Nat : \A T \in SUBSET S : Cardinality(T) = n => h[T] = k[T]}
<1>1. \A T \in SUBSET S : IsFiniteSet(T) /\ Cardinality(T) \in Nat
    BY FS_Subset, FS_CardinalityType
<1>2. \A T \in SUBSET S : h[T] = IF T = {} THEN 0 ELSE f[OneOf(T)] + h[T \ {OneOf(T)}]
    BY DEF Takes
<1>3. 0 \in Good
    <2>1. ASSUME NEW T \in SUBSET S, Cardinality(T) = 0
          PROVE  h[T] = k[T]
        <3>1. T = {}
            BY <1>1, <2>1, FS_EmptySet
        <3>. QED
            BY <1>2, <3>1 DEF Additive
    <2>. QED
        BY <2>1
<1>4. ASSUME NEW n \in Nat, n \in Good
      PROVE  n + 1 \in Good
    <2>1. ASSUME NEW T \in SUBSET S, Cardinality(T) = n + 1
          PROVE  h[T] = k[T]
        <3>1. T # {}
            BY <2>1, FS_EmptySet
        <3>2. OneOf(T) \in T
            BY <3>1, Zenon DEF OneOf
        <3>3. T \ {OneOf(T)} \in SUBSET S /\ Cardinality(T \ {OneOf(T)}) = n
            BY <1>1, <2>1, <3>2, OneFewer
        <3>4. h[T] = f[OneOf(T)] + h[T \ {OneOf(T)}] /\ k[T] = f[OneOf(T)] + k[T \ {OneOf(T)}]
            BY <1>2, <3>1, <3>2 DEF Additive
        <3>5. h[T \ {OneOf(T)}] = k[T \ {OneOf(T)}]
            BY <1>4, <3>3
        <3>. QED
            BY <3>4, <3>5
    <2>. QED
        BY <2>1
<1>5. \A n \in Nat : n \in Good
    <2>. HIDE DEF Good
    <2>. QED
        BY <1>3, <1>4, InductionOverNat
<1>. QED
    BY <1>1, <1>5

LEMMA SumIsAdditive ==
    ASSUME NEW S, IsFiniteSet(S), NEW f, \A x \in S : f[x] \in Int
    PROVE  \E h : Additive(h, f, S) /\ SumFunctionOnSet(f, S) = h[S]
<1>1. PICK k : Additive(k, f, S)
    BY AdditiveExists
<1>2. Takes(k, f, S)
    <2>1. k = [T \in SUBSET S |-> k[T]] /\ k[{}] = 0
        BY <1>1 DEF Additive
    <2>2. ASSUME NEW T \in SUBSET S, T # {}
          PROVE  k[T] = f[OneOf(T)] + k[T \ {OneOf(T)}]
        <3>1. OneOf(T) \in T
            BY <2>2, Zenon DEF OneOf
        <3>. QED
            BY <1>1, <3>1 DEF Additive
    <2>. QED
        BY <2>1, <2>2 DEF Takes
<1>. DEFINE h == CHOOSE h : Takes(h, f, S)
<1>3. Takes(h, f, S)
    BY <1>2
<1>4. SumFunctionOnSet(f, S) = h[S]
    BY DEF SumFunctionOnSet, FoldFunctionOnSet, MapThenFoldSet, Takes, OneOf
<1>. HIDE DEF h
<1>5. h[S] = k[S]
    BY <1>1, <1>3, TakesIsAdditive
<1>. QED
    BY <1>1, <1>4, <1>5

LEMMA SumOverNone == ASSUME NEW f PROVE SumFunctionOnSet(f, {}) = 0
<1>1. PICK h : Additive(h, f, {}) /\ SumFunctionOnSet(f, {}) = h[{}]
    BY SumIsAdditive, FS_EmptySet
<1>. QED
    BY <1>1 DEF Additive

LEMMA SumOverType ==
    ASSUME NEW S, IsFiniteSet(S), NEW f, \A x \in S : f[x] \in Int
    PROVE  SumFunctionOnSet(f, S) \in Int
<1>1. PICK h : Additive(h, f, S) /\ SumFunctionOnSet(f, S) = h[S]
    BY SumIsAdditive
<1>2. S \in SUBSET S
    OBVIOUS
<1>. QED
    BY <1>1, <1>2 DEF Additive

\* One term more.
LEMMA SumOverMore ==
    ASSUME NEW S, IsFiniteSet(S), NEW x, x \notin S, NEW f, NEW g,
           \A y \in S : f[y] \in Int, \A y \in S : g[y] = f[y], g[x] \in Int
    PROVE  SumFunctionOnSet(g, S \union {x}) = SumFunctionOnSet(f, S) + g[x]
<1>. DEFINE R == S \union {x}
<1>1. IsFiniteSet(R) /\ S \in SUBSET (R \cap S) /\ R \in SUBSET R /\ x \in R /\ R \ {x} = S
    BY FS_AddElement
<1>2. PICK h : Additive(h, f, S) /\ SumFunctionOnSet(f, S) = h[S]
    BY SumIsAdditive
<1>3. \A y \in R : g[y] \in Int
    OBVIOUS
<1>. HIDE DEF R
<1>4. PICK k : Additive(k, g, R) /\ SumFunctionOnSet(g, R) = k[R]
    BY <1>1, <1>3, SumIsAdditive
<1>5. k[R] = g[x] + k[S]
    BY <1>1, <1>4 DEF Additive
<1>6. k[S] = h[S]
    BY <1>1, <1>2, <1>4, AdditiveAgree
<1>7. h[S] \in Int
    <2>1. S \in SUBSET S
        OBVIOUS
    <2>. QED
        BY <1>2, <2>1 DEF Additive
<1>. QED
    BY <1>2, <1>4, <1>5, <1>6, <1>7 DEF R

LEMMA SumOverSame ==
    ASSUME NEW S, IsFiniteSet(S), NEW f, NEW g, \A y \in S : f[y] \in Int /\ g[y] = f[y]
    PROVE  SumFunctionOnSet(g, S) = SumFunctionOnSet(f, S)
<1>1. PICK h : Additive(h, f, S) /\ SumFunctionOnSet(f, S) = h[S]
    BY SumIsAdditive
<1>2. PICK k : Additive(k, g, S) /\ SumFunctionOnSet(g, S) = k[S]
    BY SumIsAdditive
<1>3. S \in SUBSET (S \cap S)
    OBVIOUS
<1>4. h[S] = k[S]
    BY <1>1, <1>2, <1>3, AdditiveAgree
<1>. QED
    BY <1>1, <1>2, <1>4
\* The terms of a part and those of the rest.
LEMMA SumOfParts ==
    ASSUME NEW S, IsFiniteSet(S), NEW P \in SUBSET S, NEW f, \A x \in S : f[x] \in Int
    PROVE  SumFunctionOnSet(f, S) = SumFunctionOnSet(f, P) + SumFunctionOnSet(f, S \ P)
<1>1. PICK h : Additive(h, f, S) /\ SumFunctionOnSet(f, S) = h[S]
    BY SumIsAdditive
<1>. DEFINE Good == {n \in Nat : \A T \in SUBSET S : Cardinality(T) = n => h[S] = h[T] + h[S \ T]}
<1>2. \A T \in SUBSET S : IsFiniteSet(T) /\ Cardinality(T) \in Nat /\ h[T] \in Int
    BY <1>1, FS_Subset, FS_CardinalityType DEF Additive
<1>3. 0 \in Good
    <2>1. ASSUME NEW T \in SUBSET S, Cardinality(T) = 0
          PROVE  h[S] = h[T] + h[S \ T]
        <3>1. T = {} /\ S \ T = S /\ S \in SUBSET S
            BY <1>2, <2>1, FS_EmptySet
        <3>2. h[T] = 0 /\ h[S] \in Int
            BY <1>1, <1>2, <3>1 DEF Additive
        <3>. QED
            BY <3>1, <3>2
    <2>. QED
        BY <2>1
<1>4. ASSUME NEW n \in Nat, n \in Good
      PROVE  n + 1 \in Good
    <2>1. ASSUME NEW T \in SUBSET S, Cardinality(T) = n + 1
          PROVE  h[S] = h[T] + h[S \ T]
        <3>1. T # {}
            BY <2>1, FS_EmptySet
        <3>2. PICK x \in T : TRUE
            BY <3>1
        <3>. DEFINE R == T \ {x}
        <3>3. R \in SUBSET S /\ Cardinality(R) = n
            BY <1>2, <2>1, OneFewer
        <3>4. x \in S \ R /\ (S \ R) \ {x} = S \ T /\ S \ R \in SUBSET S /\ S \ T \in SUBSET S
            OBVIOUS
        <3>5. h[S] = h[R] + h[S \ R]
            BY <1>4, <3>3
        <3>6. h[T] = f[x] + h[R] /\ h[S \ R] = f[x] + h[S \ T]
            BY <1>1, <3>4 DEF Additive
        <3>7. h[R] \in Int /\ h[S \ T] \in Int /\ f[x] \in Int
            BY <1>2, <3>3, <3>4
        <3>. HIDE DEF R
        <3>. QED
            BY <3>5, <3>6, <3>7
    <2>. QED
        BY <2>1
<1>5. \A n \in Nat : n \in Good
    <2>. HIDE DEF Good
    <2>. QED
        BY <1>3, <1>4, InductionOverNat
<1>6. ASSUME NEW T \in SUBSET S
      PROVE  SumFunctionOnSet(f, T) = h[T]
    <2>1. IsFiniteSet(T) /\ \A x \in T : f[x] \in Int
        BY <1>2
    <2>2. PICK k : Additive(k, f, T) /\ SumFunctionOnSet(f, T) = k[T]
        BY <2>1, SumIsAdditive
    <2>3. T \in SUBSET (T \cap S)
        OBVIOUS
    <2>4. k[T] = h[T]
        BY <1>1, <2>1, <2>2, <2>3, AdditiveAgree
    <2>. QED
        BY <2>2, <2>4
<1>7. h[S] = h[P] + h[S \ P]
    BY <1>2, <1>5
<1>8. S \ P \in SUBSET S
    OBVIOUS
<1>. QED
    BY <1>1, <1>6, <1>7, <1>8

LEMMA SumOfZeros ==
    ASSUME NEW S, IsFiniteSet(S), NEW f, \A x \in S : f[x] = 0
    PROVE  SumFunctionOnSet(f, S) = 0
<1>1. PICK h : Additive(h, f, S) /\ SumFunctionOnSet(f, S) = h[S]
    BY SumIsAdditive
<1>. DEFINE k == [T \in SUBSET S |-> 0]
<1>2. Additive(k, f, S)
    BY DEF Additive
<1>3. k[S] = 0 /\ S \in SUBSET (S \cap S)
    OBVIOUS
<1>. HIDE DEF k
<1>4. h[S] = k[S]
    BY <1>1, <1>2, <1>3, AdditiveAgree
<1>. QED
    BY <1>1, <1>3, <1>4

\* Sums of terms of one sign have it.
LEMMA SumStaysIn ==
    ASSUME NEW A \in SUBSET Int, 0 \in A, \A a, b \in A : a + b \in A,
           NEW S, IsFiniteSet(S), NEW f, \A x \in S : f[x] \in A
    PROVE  SumFunctionOnSet(f, S) \in A
<1>1. PICK h : Additive(h, f, S) /\ SumFunctionOnSet(f, S) = h[S]
    BY SumIsAdditive
<1>. DEFINE Good == {n \in Nat : \A T \in SUBSET S : Cardinality(T) = n => h[T] \in A}
<1>2. \A T \in SUBSET S : IsFiniteSet(T) /\ Cardinality(T) \in Nat
    BY FS_Subset, FS_CardinalityType
<1>3. 0 \in Good
    BY <1>1, <1>2, FS_EmptySet DEF Additive
<1>4. ASSUME NEW n \in Nat, n \in Good
      PROVE  n + 1 \in Good
    <2>1. ASSUME NEW T \in SUBSET S, Cardinality(T) = n + 1
          PROVE  h[T] \in A
        <3>1. T # {}
            BY <2>1, FS_EmptySet
        <3>2. PICK x \in T : TRUE
            BY <3>1
        <3>3. T \ {x} \in SUBSET S /\ Cardinality(T \ {x}) = n
            BY <1>2, <2>1, OneFewer
        <3>4. h[T \ {x}] \in A /\ f[x] \in A /\ h[T] = f[x] + h[T \ {x}]
            BY <1>1, <1>4, <3>3 DEF Additive
        <3>. QED
            BY <3>4
    <2>. QED
        BY <2>1
<1>5. \A n \in Nat : n \in Good
    <2>. HIDE DEF Good
    <2>. QED
        BY <1>3, <1>4, InductionOverNat
<1>. QED
    BY <1>1, <1>2, <1>5

\* One term changed.
LEMMA SumChanged ==
    ASSUME NEW S, IsFiniteSet(S), NEW x \in S, NEW f, NEW g, \A y \in S : f[y] \in Int,
           \A y \in S \ {x} : g[y] = f[y], g[x] \in Int
    PROVE  SumFunctionOnSet(g, S) = SumFunctionOnSet(f, S) - f[x] + g[x]
<1>. DEFINE R == S \ {x}
<1>1. IsFiniteSet(R) /\ x \notin R /\ R \union {x} = S /\ f[x] \in Int
    BY FS_RemoveElement
<1>2. (\A y \in R : f[y] \in Int) /\ (\A y \in R : g[y] = f[y])
    OBVIOUS
<1>. HIDE DEF R
<1>3. SumFunctionOnSet(f, R \union {x}) = SumFunctionOnSet(f, R) + f[x]
    BY <1>1, <1>2, SumOverMore
<1>4. SumFunctionOnSet(g, R \union {x}) = SumFunctionOnSet(f, R) + g[x]
    BY <1>1, <1>2, SumOverMore
<1>5. SumFunctionOnSet(f, R) \in Int
    BY <1>1, <1>2, SumOverType
<1>6. \A s \in Int, u \in Int, v \in Int : s + v = (s + u) - u + v
    OBVIOUS
<1>7. /\ SumFunctionOnSet(f, S) = SumFunctionOnSet(f, R) + f[x]
      /\ SumFunctionOnSet(g, S) = SumFunctionOnSet(f, R) + g[x]
    BY <1>1, <1>3, <1>4, Zenon
<1>. QED
    BY <1>1, <1>5, <1>6, <1>7

\* Whatever satisfies the equation of the sum has it.
LEMMA SumTaken ==
    ASSUME NEW S, IsFiniteSet(S), NEW f, \A x \in S : f[x] \in Int
    PROVE  /\ \E h : Takes(h, f, S)
           /\ \A h : Takes(h, f, S) => h[S] = SumFunctionOnSet(f, S)
<1>1. PICK k : Additive(k, f, S) /\ SumFunctionOnSet(f, S) = k[S]
    BY SumIsAdditive
<1>2. Takes(k, f, S)
    <2>1. k = [T \in SUBSET S |-> k[T]] /\ k[{}] = 0
        BY <1>1 DEF Additive
    <2>2. ASSUME NEW T \in SUBSET S, T # {}
          PROVE  k[T] = f[OneOf(T)] + k[T \ {OneOf(T)}]
        <3>1. OneOf(T) \in T
            BY <2>2, Zenon DEF OneOf
        <3>. QED
            BY <1>1, <3>1 DEF Additive
    <2>. QED
        BY <2>1, <2>2 DEF Takes
<1>. QED
    BY <1>1, <1>2, TakesIsAdditive
\* Sums are added term by term.
LEMMA SumsAdd ==
    ASSUME NEW S, IsFiniteSet(S), NEW f, NEW g, NEW e, \A x \in S : f[x] \in Int /\ g[x] \in Int,
           \A x \in S : e[x] = f[x] + g[x]
    PROVE  SumFunctionOnSet(e, S) = SumFunctionOnSet(f, S) + SumFunctionOnSet(g, S)
<1>1. PICK h : Additive(h, f, S) /\ SumFunctionOnSet(f, S) = h[S]
    BY SumIsAdditive
<1>2. PICK k : Additive(k, g, S) /\ SumFunctionOnSet(g, S) = k[S]
    BY SumIsAdditive
<1>3. PICK m : Additive(m, e, S) /\ SumFunctionOnSet(e, S) = m[S]
    BY SumIsAdditive
<1>. DEFINE both == [T \in SUBSET S |-> h[T] + k[T]]
<1>4. Additive(both, e, S)
    <2>1. \A T \in SUBSET S : h[T] \in Int /\ k[T] \in Int
        BY <1>1, <1>2 DEF Additive
    <2>2. both \in [SUBSET S -> Int] /\ both[{}] = 0
        BY <1>1, <1>2, <2>1 DEF Additive
    <2>3. ASSUME NEW T \in SUBSET S, NEW x \in T
          PROVE  both[T] = e[x] + both[T \ {x}]
        <3>1. T \ {x} \in SUBSET S /\ x \in S
            OBVIOUS
        <3>2. h[T] = f[x] + h[T \ {x}] /\ k[T] = g[x] + k[T \ {x}]
            BY <1>1, <1>2 DEF Additive
        <3>3. /\ h[T \ {x}] \in Int /\ k[T \ {x}] \in Int /\ f[x] \in Int /\ g[x] \in Int
              /\ e[x] = f[x] + g[x]
            BY <2>1, <3>1
        <3>4. both[T] = h[T] + k[T] /\ both[T \ {x}] = h[T \ {x}] + k[T \ {x}]
            BY <3>1
        <3>5. \A a, b, c, d \in Int : (a + c) + (b + d) = (a + b) + (c + d)
            OBVIOUS
        <3>. HIDE DEF both
        <3>6. both[T] = (f[x] + h[T \ {x}]) + (g[x] + k[T \ {x}])
            BY <3>2, <3>4
        <3>. QED
            BY <3>3, <3>4, <3>5, <3>6
    <2>. HIDE DEF both
    <2>. QED
        BY <2>2, <2>3 DEF Additive
<1>5. S \in SUBSET (S \cap S) /\ both[S] = h[S] + k[S]
    OBVIOUS
<1>. HIDE DEF both
<1>6. m[S] = both[S]
    BY <1>3, <1>4, <1>5, AdditiveAgree
<1>. QED
    BY <1>1, <1>2, <1>3, <1>5, <1>6
=============================================================================
