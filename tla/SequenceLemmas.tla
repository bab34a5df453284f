--------------------------- MODULE SequenceLemmas --------------------------
(***************************************************************************)
(* Facts about numbers, recursion, folds and sorted sequences that the     *)
(* proofs about the pipeline's operators share.                            *)
(*                                                                         *)
(* Induction is over a set of numbers, not over a predicate: it follows    *)
(* from the well-foundedness of the strict subsets of a finite set, which  *)
(* the library proves.                                                     *)
(***************************************************************************)
EXTENDS Ordered, SequencesExt, FiniteSetTheorems, TLAPS

\* A set of naturals that is not empty has a least element.
LEMMA LeastNatural ==
  ASSUME NEW T \in SUBSET Nat, T # {}
  PROVE  \E m \in T : \A k \in T : m <= k
<1> DEFINE Below == {0..n : n \in T}
<1>1. Below \subseteq FiniteSubsetsOf(Nat) /\ Below # {}
  <2>1. \A n \in T : 0..n \in SUBSET Nat /\ IsFiniteSet(0..n)
    BY FS_Interval
  <2> QED BY <2>1 DEF FiniteSubsetsOf
<1>2. PICK x \in Below : \A y \in Below : ~ (<<y, x>> \in StrictSubsetOrdering(Nat))
  BY <1>1, WFMin, FS_StrictSubsetOrderingWellFounded
<1>3. PICK m \in T : x = 0..m
  BY <1>2
<1>4. ASSUME NEW k \in T, ~ (m <= k) PROVE FALSE
  <2>1. 0..k \in Below /\ <<0..k, 0..m>> \notin StrictSubsetOrdering(Nat)
    BY <1>2, <1>3
  <2>2. 0..k \subseteq 0..m /\ m \in 0..m /\ m \notin 0..k
    BY <1>4
  <2> QED BY <2>1, <2>2, <1>1 DEF StrictSubsetOrdering
<1> QED BY <1>4

\* Induction up to n, the property being membership in T.
LEMMA Induction ==
  ASSUME NEW n \in Nat, NEW T, 0 \in T, \A k \in 0..(n - 1) : k \in T => k + 1 \in T
  PROVE  0..n \subseteq T
<1> SUFFICES ASSUME (0..n) \ T # {} PROVE FALSE
  OBVIOUS
<1> DEFINE Rest == (0..n) \ T
<1>1. Rest \in SUBSET Nat /\ Rest # {}
  OBVIOUS
<1>2. PICK m \in Rest : \A k \in Rest : m <= k
  <2> HIDE DEF Rest
  <2> QED BY <1>1, LeastNatural
<1>3. m # 0 /\ m - 1 \in 0..(n - 1) /\ m - 1 \in 0..n
  BY <1>2
<1>4. m - 1 \in T
  BY <1>2, <1>3
<1>5. (m - 1) + 1 = m
  BY <1>2
<1> QED BY <1>2, <1>3, <1>4, <1>5

\* A set of integers that is not empty and bounded has a largest element, and
\* a finite set of integers is bounded.
LEMMA LargestBounded ==
  ASSUME NEW T \in SUBSET Int, T # {}, NEW b \in Int, \A k \in T : k <= b
  PROVE  \E m \in T : \A k \in T : k <= m
<1> DEFINE N == {b - k : k \in T}
<1>1. N \in SUBSET Nat /\ N # {}
  <2>1. \A k \in T : b - k \in Nat
    OBVIOUS
  <2> QED BY <2>1
<1>2. PICK d \in N : \A e \in N : d <= e
  <2> HIDE DEF N
  <2> QED BY <1>1, LeastNatural
<1>3. PICK m \in T : d = b - m
  BY <1>2
<1>4. \A k \in T : b - m <= b - k
  BY <1>2, <1>3
<1> QED BY <1>4

\* Max and Min of a finite set of integers that is not empty.
LEMMA MaxOfBounded ==
  ASSUME NEW T \in SUBSET Int, T # {}, NEW b \in Int, \A k \in T : k <= b
  PROVE  Max(T) \in T /\ \A k \in T : k <= Max(T)
<1>1. PICK m \in T : \A k \in T : m >= k
  BY LargestBounded
<1>2. Max(T) \in T /\ \A k \in T : Max(T) >= k
  BY <1>1 DEF Max
<1> QED BY <1>2

LEMMA MinOfBounded ==
  ASSUME NEW T \in SUBSET Int, T # {}, NEW b \in Int, \A k \in T : b <= k
  PROVE  Min(T) \in T /\ \A k \in T : Min(T) <= k
<1> DEFINE N == {k - b : k \in T}
<1>1. N \in SUBSET Nat /\ N # {}
  <2>1. \A k \in T : k - b \in Nat
    OBVIOUS
  <2> QED BY <2>1
<1>2. PICK d \in N : \A e \in N : d <= e
  <2> HIDE DEF N
  <2> QED BY <1>1, LeastNatural
<1>3. PICK m \in T : d = m - b
  BY <1>2
<1>4. \A k \in T : m - b <= k - b
  BY <1>2, <1>3
<1>5. \A k \in T : m <= k
  BY <1>4
<1>6. Min(T) \in T /\ \A k \in T : Min(T) <= k
  BY <1>5 DEF Min
<1> QED BY <1>6

\* A recursion over D with values in A: each d takes its value from Step and the
\* value of Next[d], which is of a lower rank, or is one where it ends.
IsRecursion(D, A, n, Rank, Ends, Base, Next, Step) ==
  /\ n \in Nat /\ Rank \in [D -> 0..n] /\ Ends \subseteq D
  /\ Base \in [D -> A] /\ Next \in [D -> D] /\ Step \in [D \X A -> A]
  /\ \A d \in D \ Ends : Rank[Next[d]] < Rank[d]
Solves(it, D, A, Ends, Base, Next, Step) ==
  /\ it \in [D -> A]
  /\ \A d \in D : it[d] = IF d \in Ends THEN Base[d] ELSE Step[<<d, it[Next[d]]>>]

\* Such a recursion has a solution.
LEMMA Recursion ==
  ASSUME NEW D, NEW A, NEW n, NEW Rank, NEW Ends, NEW Base, NEW Next, NEW Step,
         IsRecursion(D, A, n, Rank, Ends, Base, Next, Step)
  PROVE  \E it : Solves(it, D, A, Ends, Base, Next, Step)
<1> USE DEF IsRecursion
<1> DEFINE Low(k) == {d \in D : Rank[d] <= k}
           Value(it, d) == IF d \in Ends THEN Base[d] ELSE Step[<<d, it[Next[d]]>>]
           Upto(it, k) == it \in [D -> A] /\ \A d \in Low(k) : it[d] = Value(it, d)
           Solved == {k \in Nat : \E it : Upto(it, k)}
<1>1. \A d \in D : Rank[d] \in Nat /\ Rank[d] <= n /\ Next[d] \in D /\ Base[d] \in A
  OBVIOUS
<1>2. 0 \in Solved
  <2>1. \A d \in Low(0) : d \in Ends
    <3> SUFFICES ASSUME NEW d \in Low(0), d \notin Ends PROVE FALSE
      OBVIOUS
    <3>1. Rank[Next[d]] < Rank[d] /\ Rank[d] <= 0 /\ Rank[Next[d]] \in Nat /\ Rank[d] \in Nat
      BY <1>1
    <3> QED BY <3>1
  <2>2. Upto(Base, 0)
    BY <2>1
  <2> QED BY <2>2
<1>3. ASSUME NEW k \in 0..(n - 1), k \in Solved PROVE k + 1 \in Solved
  <2>1. PICK g : Upto(g, k)
    BY <1>3
  <2> DEFINE h == [d \in D |-> Value(g, d)]
  <2>2. h \in [D -> A]
    <3>1. \A d \in D : g[Next[d]] \in A
      BY <1>1, <2>1
    <3>2. \A d \in D : Value(g, d) \in A
      BY <1>1, <3>1
    <3> QED BY <3>2
  <2>3. \A d \in Low(k) : h[d] = g[d]
    BY <2>1
  <2>4. \A d \in Low(k + 1) \ Ends : Next[d] \in Low(k)
    <3> SUFFICES ASSUME NEW d \in D, d \notin Ends, Rank[d] <= k + 1 PROVE Rank[Next[d]] <= k
      BY <1>1
    <3>1. Rank[Next[d]] < Rank[d] /\ Rank[Next[d]] \in Nat /\ Rank[d] \in Nat
      BY <1>1
    <3> QED BY <3>1
  <2>5. ASSUME NEW d \in Low(k + 1) PROVE h[d] = Value(h, d)
    <3>1. CASE d \in Ends
      BY <3>1
    <3>2. CASE d \notin Ends
      <4>1. h[Next[d]] = g[Next[d]]
        BY <2>3, <2>4, <3>2
      <4> QED BY <3>2, <4>1
    <3> QED BY <3>1, <3>2
  <2> HIDE DEF h
  <2>6. Upto(h, k + 1)
    BY <2>2, <2>5
  <2> HIDE DEF Upto
  <2>7. k + 1 \in Nat
    OBVIOUS
  <2> QED BY <2>6, <2>7
<1>4. n \in Solved
  <2> HIDE DEF Solved
  <2>1. 0..n \subseteq Solved
    BY <1>2, <1>3, Induction
  <2> QED BY <2>1
<1>5. PICK it : Upto(it, n)
  BY <1>4
<1>6. Low(n) = D
  BY <1>1
<1> QED BY <1>5, <1>6 DEF Solves

\* The sets of positions a left fold of a sequence goes through.
LEMMA PrefixSets ==
  ASSUME NEW n \in Nat
  PROVE  /\ IsFiniteSet(1..n) /\ Cardinality(1..n) = n /\ 1..0 = {}
         /\ \A k \in 1..n : /\ Max(1..k) = k /\ (1..k) \ {k} = 1..(k - 1)
                            /\ 1..k # {} /\ 1..k \in SUBSET (1..n) /\ k - 1 \in 0..n
         /\ \A T \in SUBSET (1..n) : T # {} => Max(T) \in T
<1>1. IsFiniteSet(1..n) /\ Cardinality(1..n) = n
  BY FS_Interval
<1>2. ASSUME NEW k \in 1..n
      PROVE  /\ Max(1..k) = k /\ (1..k) \ {k} = 1..(k - 1)
             /\ 1..k # {} /\ 1..k \in SUBSET (1..n) /\ k - 1 \in 0..n
  <2>1. 1..k \in SUBSET Int /\ k \in 1..k /\ (\A j \in 1..k : j <= k)
    OBVIOUS
  <2>2. Max(1..k) \in 1..k /\ k <= Max(1..k)
    BY <2>1, MaxOfBounded
  <2> QED BY <2>2
<1>3. ASSUME NEW T \in SUBSET (1..n), T # {} PROVE Max(T) \in T
  <2>1. T \in SUBSET Int /\ \A k \in T : k <= n
    OBVIOUS
  <2> QED BY <1>3, <2>1, MaxOfBounded
<1> QED BY <1>1, <1>2, <1>3

\* A left fold over n positions, whose Step takes a position and a value of A,
\* and the iteration over sets of positions by which FoldLeft is defined.
IsFold(n, A, base, Step) == n \in Nat /\ base \in A /\ Step \in [(1..n) \X A -> A]
Iterates(it, n, A, base, Step) ==
  /\ it \in [SUBSET (1..n) -> A]
  /\ \A T \in SUBSET (1..n) :
       it[T] = IF T = {} THEN base ELSE Step[<<Max(T), it[T \ {Max(T)}]>>]

\* Such an iteration exists.
LEMMA FoldIteration ==
  ASSUME NEW n, NEW A, NEW base, NEW Step, IsFold(n, A, base, Step)
  PROVE  \E it : Iterates(it, n, A, base, Step)
<1> USE DEF IsFold
<1> DEFINE D == SUBSET (1..n)
           Rank == [T \in D |-> Cardinality(T)]
           Next == [T \in D |-> IF T = {} THEN T ELSE T \ {Max(T)}]
           SetStep == [p \in D \X A |-> IF p[1] = {} THEN base ELSE Step[<<Max(p[1]), p[2]>>]]
           Base == [T \in D |-> base]
           Ends == {{}}
<1>1. ASSUME NEW T \in D PROVE IsFiniteSet(T) /\ Cardinality(T) \in 0..n
  <2> DEFINE S == 1..n
  <2>1. IsFiniteSet(S) /\ Cardinality(S) = n /\ T \in SUBSET S
    BY PrefixSets
  <2> HIDE DEF S
  <2>2. IsFiniteSet(T) /\ Cardinality(T) <= n
    BY <2>1, FS_Subset
  <2>3. Cardinality(T) \in Nat
    BY <2>2, FS_CardinalityType
  <2> QED BY <2>2, <2>3
<1>2. Rank \in [D -> 0..n]
  BY <1>1
<1>3. Next \in [D -> D] /\ Base \in [D -> A] /\ Ends \in SUBSET D
  BY PrefixSets
<1>4. \A T \in D \ Ends : Rank[Next[T]] < Rank[T]
  <2> SUFFICES ASSUME NEW T \in D, T # {} PROVE Rank[Next[T]] < Rank[T]
    OBVIOUS
  <2>1. Max(T) \in T /\ T \ {Max(T)} \in D
    BY PrefixSets
  <2>2. Cardinality(T \ {Max(T)}) = Cardinality(T) - 1
    BY <1>1, <2>1, FS_RemoveElement
  <2>3. Rank[Next[T]] = Cardinality(T) - 1 /\ Rank[T] = Cardinality(T)
    BY <2>1, <2>2
  <2>4. Cardinality(T) \in Int
    BY <1>1
  <2> HIDE DEF Rank, Next
  <2> QED BY <2>3, <2>4
<1>5. SetStep \in [D \X A -> A]
  <2>1. ASSUME NEW T \in D, NEW a \in A, T # {} PROVE Step[<<Max(T), a>>] \in A
    <3>1. Max(T) \in 1..n
      BY PrefixSets, <2>1
    <3> QED BY <3>1
  <2> QED BY <2>1
<1> HIDE DEF D, Rank, Next, Base, SetStep, Ends
<1>6. PICK it : Solves(it, D, A, Ends, Base, Next, SetStep)
  <2>1. IsRecursion(D, A, n, Rank, Ends, Base, Next, SetStep)
    BY <1>2, <1>3, <1>4, <1>5 DEF IsRecursion
  <2> QED BY <2>1, Recursion
<1> USE <1>6 DEF Ends, Solves
<1>7. ASSUME NEW T \in D
      PROVE  it[T] = IF T = {} THEN base ELSE Step[<<Max(T), it[T \ {Max(T)}]>>]
  <2>1. CASE T = {}
    BY <1>6, <2>1 DEF Base
  <2>2. CASE T # {}
    <3>1. Next[T] = T \ {Max(T)} /\ Next[T] \in D
      BY <1>3, <2>2 DEF Next
    <3>2. it[Next[T]] \in A
      BY <3>1
    <3>3. it[T] = SetStep[<<T, it[Next[T]]>>]
      BY <1>6, <2>2
    <3> QED BY <2>2, <3>1, <3>2, <3>3 DEF SetStep
  <2> QED BY <2>1, <2>2
<1> QED BY <1>7 DEF D, Iterates

\* The items of a concatenation.
LEMMA ConcatSets ==
  ASSUME NEW A, NEW s \in Seq(A), NEW t \in Seq(A)
  PROVE  ToSet(s \o t) = ToSet(s) \cup ToSet(t)
<1>1. Len(s \o t) = Len(s) + Len(t) /\ DOMAIN (s \o t) = 1..(Len(s) + Len(t))
      /\ DOMAIN s = 1..Len(s) /\ DOMAIN t = 1..Len(t) /\ Len(s) \in Nat /\ Len(t) \in Nat
  OBVIOUS
<1>2. ASSUME NEW i \in DOMAIN (s \o t) PROVE (s \o t)[i] \in ToSet(s) \cup ToSet(t)
  <2>1. CASE i <= Len(s)
    BY <1>1, <2>1 DEF ToSet
  <2>2. CASE i > Len(s)
    <3>1. (s \o t)[i] = t[i - Len(s)] /\ i - Len(s) \in DOMAIN t
      BY <1>1, <2>2
    <3> QED BY <3>1 DEF ToSet
  <2> QED BY <1>1, <2>1, <2>2
<1>3. ASSUME NEW i \in DOMAIN s PROVE s[i] \in ToSet(s \o t)
  BY <1>1 DEF ToSet
<1>4. ASSUME NEW i \in DOMAIN t PROVE t[i] \in ToSet(s \o t)
  <2>1. (s \o t)[i + Len(s)] = t[i] /\ i + Len(s) \in DOMAIN (s \o t)
    BY <1>1
  <2> QED BY <2>1 DEF ToSet
<1> QED BY <1>2, <1>3, <1>4 DEF ToSet

LEMMA AppendSet ==
  ASSUME NEW A, NEW s \in Seq(A), NEW x \in A
  PROVE  ToSet(Append(s, x)) = ToSet(s) \cup {x}
<1>1. /\ Len(s) \in Nat /\ DOMAIN s = 1..Len(s) /\ DOMAIN Append(s, x) = 1..(Len(s) + 1)
      /\ Append(s, x)[Len(s) + 1] = x /\ \A i \in 1..Len(s) : Append(s, x)[i] = s[i]
  OBVIOUS
<1>2. 1..(Len(s) + 1) = (1..Len(s)) \cup {Len(s) + 1}
  BY <1>1
<1> QED BY <1>1, <1>2 DEF ToSet

\* A strict total order on S, and what it means that f lists S in that order.
StrictOrder(S, R) ==
  /\ \A x \in S : <<x, x>> \notin R
  /\ \A x, y, z \in S : <<x, y>> \in R /\ <<y, z>> \in R => <<x, z>> \in R
  /\ \A x, y \in S : x # y => <<x, y>> \in R \/ <<y, x>> \in R
Lists(f, S, R) ==
  /\ Cardinality(S) \in Nat /\ f \in [1..Cardinality(S) -> S]
  /\ \A i, j \in 1..Cardinality(S) : <<f[i], f[j]>> \in R <=> i < j
  /\ \A x \in S : \E k \in 1..Cardinality(S) : f[k] = x

\* SortedBy lists the elements of a finite set in the order it is given.
LEMMA SortedByLists ==
  ASSUME NEW S, IsFiniteSet(S), NEW R, StrictOrder(S, R)
  PROVE  Lists(SortedBy(S, R), S, R)
<1> DEFINE n == Cardinality(S)
           Below(x) == {y \in S : <<y, x>> \in R}
           r == [x \in S |-> Cardinality(Below(x))]
           f == SortedBy(S, R)
           Places == 0..(n - 1)
<1>1. n \in Nat
  BY FS_CardinalityType
<1>2. ASSUME NEW x \in S PROVE IsFiniteSet(Below(x)) /\ r[x] \in Places /\ r[x] \in Int
  <2>1. IsFiniteSet(Below(x)) /\ Cardinality(Below(x)) <= n
        /\ (n = Cardinality(Below(x)) => S = Below(x))
    <3>1. Below(x) \in SUBSET S
      OBVIOUS
    <3> HIDE DEF Below
    <3> QED BY <3>1, FS_Subset
  <2>2. x \notin Below(x)
    BY DEF StrictOrder
  <2>3. Cardinality(Below(x)) \in Nat
    BY <2>1, FS_CardinalityType
  <2> QED BY <1>1, <2>1, <2>2, <2>3
<1>3. ASSUME NEW x \in S, NEW y \in S, <<x, y>> \in R PROVE r[x] < r[y]
  <2>1. Below(x) \in SUBSET Below(y) /\ x \in Below(y) /\ x \notin Below(x)
    BY <1>3 DEF StrictOrder
  <2>2. Cardinality(Below(x)) <= Cardinality(Below(y)) /\ (Cardinality(Below(y)) = Cardinality(Below(x)) => Below(y) = Below(x))
    <3>1. IsFiniteSet(Below(y))
      BY <1>2
    <3> HIDE DEF Below
    <3> QED BY <2>1, <3>1, FS_Subset
  <2>3. Cardinality(Below(x)) # Cardinality(Below(y))
    BY <2>1, <2>2
  <2> HIDE DEF Below
  <2>4. r[x] = Cardinality(Below(x)) /\ r[y] = Cardinality(Below(y))
    OBVIOUS
  <2> HIDE DEF r
  <2>5. r[x] \in Int /\ r[y] \in Int
    BY <1>2
  <2> QED BY <2>2, <2>3, <2>4, <2>5
<1>4. ASSUME NEW x \in S, NEW y \in S, r[x] = r[y] PROVE x = y
  <2> HIDE DEF r
  <2>1. r[x] \in Int /\ r[y] \in Int
    BY <1>1, <1>2
  <2>2. ~ (<<x, y>> \in R) /\ ~ (<<y, x>> \in R)
    BY <1>3, <1>4, <2>1
  <2> QED BY <2>2 DEF StrictOrder
<1> HIDE DEF r, Places, n
<1>5. r \in [S -> Places]
  BY <1>2 DEF r
<1>6. r \in Surjection(S, Places)
  <2>1. r \in Injection(S, Places)
    BY <1>4, <1>5 DEF Injection, IsInjective
  <2>2. IsFiniteSet(Places) /\ Cardinality(Places) = n
    BY <1>1, FS_Interval DEF Places
  <2>3. Cardinality(S) = Cardinality(Places)
    BY <2>2 DEF n
  <2> QED BY <2>1, <2>2, <2>3, FS_Injection
<1>7. ASSUME NEW k \in 1..n PROVE f[k] \in S /\ r[f[k]] = k - 1
  <2>1. k - 1 \in Places
    BY <1>1 DEF Places
  <2>2. PICK x \in S : r[x] = k - 1
    BY <1>6, <2>1 DEF Surjection
  <2>3. f[k] = CHOOSE y \in S : r[y] = k - 1
    BY DEF SortedBy, r, n
  <2> QED BY <2>2, <2>3
<1>8. f \in [1..n -> S]
  <2> DEFINE c(k) == CHOOSE x \in S : Cardinality(Below(x)) = k - 1
  <2>1. f = [k \in 1..n |-> c(k)]
    BY DEF SortedBy, n
  <2>2. \A k \in 1..n : c(k) \in S
    <3> HIDE DEF c
    <3> QED BY <1>7, <2>1
  <2> HIDE DEF c
  <2> QED BY <2>1, <2>2
<1>9. ASSUME NEW i \in 1..n, NEW j \in 1..n PROVE <<f[i], f[j]>> \in R <=> i < j
  <2>1. f[i] \in S /\ f[j] \in S /\ r[f[i]] = i - 1 /\ r[f[j]] = j - 1 /\ i \in Int /\ j \in Int
    BY <1>1, <1>7
  <2>2. <<f[i], f[j]>> \in R => i < j
    BY <1>3, <2>1
  <2>3. <<f[j], f[i]>> \in R => j < i
    BY <1>3, <2>1
  <2>4. f[i] = f[j] => i = j
    BY <2>1
  <2>5. f[i] # f[j] => <<f[i], f[j]>> \in R \/ <<f[j], f[i]>> \in R
    BY <2>1 DEF StrictOrder
  <2> HIDE DEF f
  <2> QED BY <2>1, <2>2, <2>3, <2>4, <2>5
<1>10. ASSUME NEW x \in S PROVE \E k \in 1..n : f[k] = x
  <2>1. r[x] \in Places /\ r[x] + 1 \in 1..n
    BY <1>1, <1>5 DEF Places
  <2>2. f[r[x] + 1] \in S /\ r[f[r[x] + 1]] = r[x]
    BY <1>7, <2>1, <1>1, <1>5 DEF Places
  <2>3. f[r[x] + 1] = x
    BY <1>4, <2>2
  <2> QED BY <2>1, <2>3
<1> HIDE DEF f
<1> QED
  <2>1. Lists(f, S, R)
    BY <1>1, <1>8, <1>9, <1>10 DEF Lists, n
  <2> QED BY <2>1 DEF f

\* Ascending lists a finite set of integers, the least first.
LEMMA AscendingLists ==
  ASSUME NEW S \in SUBSET Int, IsFiniteSet(S)
  PROVE  /\ Cardinality(S) \in Nat /\ Ascending(S) \in [1..Cardinality(S) -> S]
         /\ \A i, j \in 1..Cardinality(S) : Ascending(S)[i] < Ascending(S)[j] <=> i < j
         /\ \A x \in S : \E k \in 1..Cardinality(S) : Ascending(S)[k] = x
<1> DEFINE R == {p \in S \X S : p[1] < p[2]}
<1>1. StrictOrder(S, R)
  <2>1. \A x, y \in S : <<x, y>> \in R <=> x < y
    OBVIOUS
  <2>2. S \subseteq Int
    OBVIOUS
  <2> HIDE DEF R
  <2> QED BY <2>1, <2>2 DEF StrictOrder
<1>2. Lists(Ascending(S), S, R)
  BY <1>1, SortedByLists DEF Ascending
<1>3. \A i, j \in 1..Cardinality(S) : <<Ascending(S)[i], Ascending(S)[j]>> \in R <=> Ascending(S)[i] < Ascending(S)[j]
  BY <1>2 DEF Lists
<1> QED BY <1>2, <1>3 DEF Lists

\* A selection keeps the items at the positions given, in their order.
LEMMA SelectedItems ==
  ASSUME NEW A, NEW seq \in Seq(A), NEW S \in SUBSET DOMAIN seq
  PROVE  /\ Selected(seq, S) \in Seq(A) /\ Len(Selected(seq, S)) = Cardinality(S)
         /\ Cardinality(S) \in Nat /\ IsFiniteSet(S)
         /\ ToSet(Selected(seq, S)) = {seq[i] : i \in S}
         /\ DOMAIN Ascending(S) = 1..Cardinality(S)
         /\ \A k \in 1..Cardinality(S) : Ascending(S)[k] \in S /\ Selected(seq, S)[k] = seq[Ascending(S)[k]]
<1>1. DOMAIN seq = 1..Len(seq) /\ Len(seq) \in Nat /\ S \in SUBSET Int
  OBVIOUS
<1>2. IsFiniteSet(S)
  <2>1. IsFiniteSet(DOMAIN seq)
    BY <1>1, FS_Interval
  <2> QED BY <2>1, FS_Subset
<1>3. /\ Cardinality(S) \in Nat /\ Ascending(S) \in [1..Cardinality(S) -> S]
      /\ \A x \in S : \E k \in 1..Cardinality(S) : Ascending(S)[k] = x
  BY <1>1, <1>2, AscendingLists
<1>4. Selected(seq, S) = [k \in 1..Cardinality(S) |-> seq[Ascending(S)[k]]]
  BY <1>3 DEF Selected
<1>5. \A k \in 1..Cardinality(S) : Ascending(S)[k] \in S /\ seq[Ascending(S)[k]] \in A
  BY <1>1, <1>3
<1>6. Selected(seq, S) \in Seq(A) /\ Len(Selected(seq, S)) = Cardinality(S)
  BY <1>3, <1>4, <1>5
<1>7. ToSet(Selected(seq, S)) = {seq[i] : i \in S}
  <2>1. ToSet(Selected(seq, S)) = {Selected(seq, S)[k] : k \in 1..Cardinality(S)}
    BY <1>4 DEF ToSet
  <2>2. ASSUME NEW k \in 1..Cardinality(S) PROVE \E i \in S : Selected(seq, S)[k] = seq[i]
    BY <1>4, <1>5
  <2>3. ASSUME NEW i \in S PROVE \E k \in 1..Cardinality(S) : Selected(seq, S)[k] = seq[i]
    BY <1>3, <1>4
  <2> QED BY <2>1, <2>2, <2>3
<1> QED BY <1>2, <1>3, <1>4, <1>5, <1>6, <1>7

\* The items of a concatenation, in their places.
LEMMA ConcatParts ==
  ASSUME NEW A, NEW s \in Seq(A), NEW t \in Seq(A)
  PROVE  /\ s \o t \in Seq(A) /\ Len(s \o t) = Len(s) + Len(t) /\ Len(s) \in Nat /\ Len(t) \in Nat
         /\ \A p \in 1..Len(s) : p \in 1..Len(s \o t) /\ (s \o t)[p] = s[p]
         /\ \A k \in 1..Len(t) : Len(s) + k \in 1..Len(s \o t) /\ (s \o t)[Len(s) + k] = t[k]
OBVIOUS

\* FlattenSeq as the sequence of what is flattened so far.
Flattens(s, A, fl) ==
  /\ fl \in [1..Len(s) -> Seq(A)]
  /\ \A i \in 1..Len(s) : fl[i] = IF i = 1 THEN s[i] ELSE fl[i - 1] \o s[i]
  /\ FlattenSeq(s) = fl[Len(s)]

LEMMA FlattenRuns ==
  ASSUME NEW A, NEW s \in Seq(Seq(A)), Len(s) > 0
  PROVE  \E fl : Flattens(s, A, fl)
<1> DEFINE n == Len(s)
           D == 1..n
           B == Seq(A)
           Rank == [i \in D |-> i]
           Ends == {1}
           Base == [i \in D |-> s[i]]
           Next == [i \in D |-> IF i = 1 THEN 1 ELSE i - 1]
           Step == [p \in D \X B |-> p[2] \o s[p[1]]]
           Turn(it) == [i \in D |-> IF i = 1 THEN s[i] ELSE it[i - 1] \o s[i]]
           flatten[i \in D] == IF i = 1 THEN s[i] ELSE flatten[i - 1] \o s[i]
<1>1. n \in Nat /\ n > 0 /\ D = 1..n /\ \A i \in D : s[i] \in B
  OBVIOUS
<1>2. FlattenSeq(s) = flatten[n]
  BY <1>1 DEF FlattenSeq
<1>3. IsRecursion(D, B, n, Rank, Ends, Base, Next, Step)
  <2>1. Step \in [D \X B -> B]
    <3>1. \A p \in D \X B : p[2] \o s[p[1]] \in B
      BY <1>1
    <3> HIDE DEF D, B
    <3> QED BY <3>1
  <2>2. Base \in [D -> B] /\ Next \in [D -> D] /\ Rank \in [D -> 0..n] /\ Ends \subseteq D
    <3> HIDE DEF B
    <3> QED BY <1>1
  <2>3. \A d \in D \ Ends : Rank[Next[d]] < Rank[d]
    BY <1>1
  <2> HIDE DEF D, B, Rank, Ends, Base, Next, Step, n
  <2> QED BY <1>1, <2>1, <2>2, <2>3 DEF IsRecursion
<1>4. \E it : it \in [D -> B] /\ it = Turn(it)
  <2> HIDE DEF D, B, Rank, Ends, Base, Next, Step, n
  <2>1. PICK it : Solves(it, D, B, Ends, Base, Next, Step)
    BY <1>3, Recursion
  <2>2. it \in [D -> B] /\ \A d \in D : it[d] = IF d \in Ends THEN Base[d] ELSE Step[<<d, it[Next[d]]>>]
    BY <2>1 DEF Solves
  <2>3. ASSUME NEW d \in D PROVE it[d] = IF d = 1 THEN s[d] ELSE it[d - 1] \o s[d]
    <3>1. CASE d = 1
      BY <2>2, <3>1 DEF Ends, Base
    <3>2. CASE d # 1
      <4>1. Next[d] = d - 1 /\ Next[d] \in D
        BY <1>1, <3>2 DEF Next
      <4>2. it[d] = Step[<<d, it[d - 1]>>] /\ it[d - 1] \in B
        BY <2>2, <3>2, <4>1 DEF Ends
      <4> QED BY <3>2, <4>2 DEF Step
    <3> QED BY <3>1, <3>2
  <2>4. it = [d \in D |-> it[d]]
    BY <2>2
  <2>5. it = Turn(it)
    BY <2>3, <2>4
  <2> QED BY <2>2, <2>5
<1>5. flatten = Turn(flatten)
  <2> HIDE DEF D, B, n
  <2> QED BY <1>4
<1> HIDE DEF flatten
<1>6. ASSUME NEW i \in D PROVE flatten[i] = IF i = 1 THEN s[i] ELSE flatten[i - 1] \o s[i]
  BY <1>5
<1>7. flatten \in [D -> B]
  <2> DEFINE T == {k \in Nat : k \in D => flatten[k] \in B}
  <2>1. 0 \in T
    OBVIOUS
  <2>2. ASSUME NEW k \in 0..(n - 1), k \in T PROVE k + 1 \in T
    <3>1. k + 1 \in D /\ k + 1 \in Nat
      BY <1>1
    <3>2. CASE k = 0
      <4>1. flatten[1] = s[1]
        BY <1>6, <3>1, <3>2
      <4> QED BY <1>1, <3>1, <3>2, <4>1
    <3>3. CASE k # 0
      <4>1. k \in D /\ (k + 1) - 1 = k /\ k + 1 # 1
        BY <1>1, <3>3
      <4>2. flatten[k + 1] = flatten[k] \o s[k + 1]
        BY <1>6, <3>1, <4>1
      <4>3. flatten[k] \in B /\ s[k + 1] \in B
        BY <1>1, <2>2, <3>1, <4>1
      <4>4. flatten[k] \o s[k + 1] \in B
        BY <4>3
      <4> HIDE DEF D, B
      <4> QED BY <3>1, <4>2, <4>4
    <3> QED BY <3>2, <3>3
  <2> HIDE DEF T
  <2>3. 0..n \subseteq T
    BY <1>1, <2>1, <2>2, Induction
  <2>4. ASSUME NEW i \in D PROVE flatten[i] \in B
    <3>1. i \in 0..n
      BY <1>1
    <3>2. i \in T
      BY <2>3, <3>1
    <3> HIDE DEF D, B
    <3> QED BY <3>2 DEF T
  <2>5. flatten = [i \in D |-> flatten[i]]
    BY <1>5
  <2> HIDE DEF D, B
  <2> QED BY <2>4, <2>5
<1>8. Flattens(s, A, flatten)
  BY <1>2, <1>6, <1>7 DEF Flattens
<1> QED BY <1>8

\* Where the parts of a flattened sequence lie: part i behind at[i - 1].
LaidOut(s, flat, at) ==
  /\ at \in [0..Len(s) -> Nat] /\ at[0] = 0 /\ at[Len(s)] = Len(flat)
  /\ \A i \in 1..Len(s) : /\ at[i] = at[i - 1] + Len(s[i])
                          /\ \A k \in 1..Len(s[i]) : flat[at[i - 1] + k] = s[i][k]

LEMMA FlattenLayout ==
  ASSUME NEW A, NEW s \in Seq(Seq(A))
  PROVE  FlattenSeq(s) \in Seq(A) /\ \E at : LaidOut(s, FlattenSeq(s), at)
<1> DEFINE n == Len(s)
           flat == FlattenSeq(s)
<1>1. n \in Nat /\ \A i \in 1..n : s[i] \in Seq(A) /\ Len(s[i]) \in Nat
  OBVIOUS
<1>2. CASE n = 0
  <2>1. s = <<>> /\ flat = <<>>
    BY <1>2 DEF FlattenSeq
  <2> DEFINE at == [i \in {0} |-> 0]
  <2>2. 0..Len(s) = {0} /\ 1..Len(s) = {} /\ Len(flat) = 0
    BY <1>2, <2>1
  <2>3. LaidOut(s, flat, at)
    <3> HIDE DEF flat
    <3> QED BY <1>2, <2>2 DEF LaidOut
  <2> QED BY <2>1, <2>3
<1>3. CASE n > 0
  <2>1. PICK fl : Flattens(s, A, fl)
    BY <1>3, FlattenRuns
  <2> DEFINE at == [i \in 0..n |-> IF i = 0 THEN 0 ELSE Len(fl[i])]
  <2>2. /\ \A i \in 1..n : fl[i] \in Seq(A) /\ Len(fl[i]) \in Nat
        /\ fl[1] = s[1] /\ flat = fl[n]
        /\ \A i \in 2..n : fl[i] = fl[i - 1] \o s[i]
    <3>1. /\ fl \in [1..n -> Seq(A)] /\ flat = fl[n]
          /\ \A i \in 1..n : fl[i] = IF i = 1 THEN s[i] ELSE fl[i - 1] \o s[i]
      BY <2>1 DEF Flattens
    <3>2. 1 \in 1..n /\ \A i \in 2..n : i \in 1..n /\ i # 1
      BY <1>1, <1>3
    <3>3. \A i \in 1..n : fl[i] \in Seq(A) /\ Len(fl[i]) \in Nat
      BY <3>1
    <3> HIDE DEF flat, n
    <3> QED BY <3>1, <3>2, <3>3
  <2>3. at \in [0..n -> Nat] /\ at[0] = 0 /\ at[n] = Len(flat) /\ n \in 0..n
    <3> HIDE DEF flat
    <3> QED BY <1>1, <1>3, <2>2
  <2>4. ASSUME NEW i \in 1..n
        PROVE  /\ at[i] = at[i - 1] + Len(s[i]) /\ at[i - 1] \in Nat
               /\ \A k \in 1..Len(s[i]) : fl[i][at[i - 1] + k] = s[i][k]
    <3>1. CASE i = 1
      <4>1. at[i - 1] = 0 /\ at[i] = Len(s[i]) /\ fl[i] = s[i]
        BY <1>1, <1>3, <2>2, <3>1
      <4> HIDE DEF at
      <4> QED BY <1>1, <4>1
    <3>2. CASE i # 1
      <4>1. i \in 2..n /\ i - 1 \in 1..n
        BY <1>1, <3>2
      <4>2. at[i - 1] = Len(fl[i - 1]) /\ at[i] = Len(fl[i])
        BY <1>1, <4>1
      <4>3. fl[i - 1] \in Seq(A) /\ s[i] \in Seq(A) /\ fl[i] = fl[i - 1] \o s[i]
        BY <1>1, <2>2, <4>1
      <4> HIDE DEF at
      <4> DEFINE u == fl[i - 1]
                 v == s[i]
      <4>4. /\ Len(u \o v) = Len(u) + Len(v) /\ Len(u) \in Nat
            /\ \A k \in 1..Len(v) : (u \o v)[Len(u) + k] = v[k]
        <5>1. u \in Seq(A) /\ v \in Seq(A)
          BY <4>3
        <5> HIDE DEF u, v
        <5> QED BY <5>1, ConcatParts
      <4>5. fl[i] = u \o v /\ at[i - 1] = Len(u) /\ at[i] = Len(u \o v)
        BY <4>2, <4>3
      <4> QED BY <4>4, <4>5
    <3> QED BY <3>1, <3>2
  <2>5. ASSUME NEW i \in 1..n, NEW p \in 1..at[i] PROVE flat[p] = fl[i][p]
    <3> DEFINE T == {k \in Nat : i + k \in 1..n => p \in 1..Len(fl[i + k]) /\ fl[i + k][p] = fl[i][p]}
    <3>1. 0 \in T
      BY <1>1, <2>2
    <3>2. ASSUME NEW k \in 0..((n - i) - 1), k \in T PROVE k + 1 \in T
      <4>1. i + k \in 1..n /\ i + (k + 1) \in 2..n /\ (i + (k + 1)) - 1 = i + k /\ k + 1 \in Nat
        BY <1>1
      <4>2. fl[i + (k + 1)] = fl[i + k] \o s[i + (k + 1)]
        BY <2>2, <4>1
      <4>3. p \in 1..Len(fl[i + k]) /\ fl[i + k][p] = fl[i][p]
        BY <3>2, <4>1
      <4>4. fl[i + k] \in Seq(A) /\ s[i + (k + 1)] \in Seq(A)
        BY <1>1, <2>2, <4>1
      <4> DEFINE u == fl[i + k]
                 v == s[i + (k + 1)]
      <4>a. \A q \in 1..Len(u) : q \in 1..Len(u \o v) /\ (u \o v)[q] = u[q]
        <5>1. u \in Seq(A) /\ v \in Seq(A)
          BY <4>4
        <5> HIDE DEF u, v
        <5> QED BY <5>1, ConcatParts
      <4>5. p \in 1..Len(fl[i + (k + 1)]) /\ fl[i + (k + 1)][p] = fl[i][p]
        BY <4>2, <4>3, <4>a
      <4> QED BY <4>1, <4>5
    <3> HIDE DEF T
    <3>3. n - i \in Nat /\ i + (n - i) = n
      <4> HIDE DEF n
      <4> QED BY <1>1
    <3>4. 0..(n - i) \subseteq T
      BY <3>1, <3>2, <3>3, Induction
    <3>5. n - i \in T
      <4> HIDE DEF n
      <4> QED BY <3>3, <3>4
    <3> QED BY <1>1, <1>3, <2>2, <3>3, <3>5 DEF T
  <2> HIDE DEF at, flat
  <2>6. ASSUME NEW i \in 1..n, NEW k \in 1..Len(s[i]) PROVE flat[at[i - 1] + k] = s[i][k]
    <3>1. at[i - 1] \in Nat /\ at[i] = at[i - 1] + Len(s[i]) /\ Len(s[i]) \in Nat
      BY <1>1, <2>4
    <3>2. at[i - 1] + k \in 1..at[i]
      BY <3>1
    <3> QED BY <2>4, <2>5, <3>2
  <2>7. LaidOut(s, flat, at)
    BY <2>3, <2>4, <2>6 DEF LaidOut
  <2>8. flat \in Seq(A)
    BY <1>1, <1>3, <2>2
  <2> QED BY <2>7, <2>8 DEF flat
<1> QED BY <1>1, <1>2, <1>3

\* Each item of a flattened sequence is one of a part.
Located(s, flat, at) ==
  /\ \A p \in 1..Len(flat) : \E i \in 1..Len(s) : \E k \in 1..Len(s[i]) :
       p = at[i - 1] + k /\ flat[p] = s[i][k]
  /\ \A i, j \in 0..Len(s) : i <= j => at[i] <= at[j]

LEMMA FlattenItems ==
  ASSUME NEW A, NEW s \in Seq(Seq(A)), NEW flat \in Seq(A), NEW at, LaidOut(s, flat, at)
  PROVE  Located(s, flat, at)
<1> DEFINE n == Len(s)
<1>1. /\ at \in [0..n -> Nat] /\ at[0] = 0 /\ at[n] = Len(flat)
      /\ \A i \in 1..n : at[i] = at[i - 1] + Len(s[i]) /\ i - 1 \in 0..n
      /\ \A i \in 1..n : \A k \in 1..Len(s[i]) : flat[at[i - 1] + k] = s[i][k]
  BY DEF LaidOut
<1>a. n \in Nat /\ Len(flat) \in Nat /\ \A i \in 1..n : Len(s[i]) \in Nat
  OBVIOUS
<1> HIDE DEF n
<1>2. ASSUME NEW p \in 1..Len(flat)
      PROVE  \E i \in 1..n : \E k \in 1..Len(s[i]) : p = at[i - 1] + k /\ flat[p] = s[i][k]
  <2> DEFINE T == {i \in 0..n : p <= at[i]}
  <2>1. n \in T /\ T \in SUBSET Nat /\ T # {}
    <3>1. n \in 0..n /\ p <= at[n]
      BY <1>1, <1>a
    <3> QED BY <3>1
  <2>2. PICK i \in T : \A j \in T : i <= j
    <3> HIDE DEF T
    <3> QED BY <2>1, LeastNatural
  <2>3. i \in 1..n /\ i - 1 \in 0..n
    BY <1>1
  <2>4. ~ (p <= at[i - 1])
    BY <2>2, <2>3
  <2>5. at[i] \in Nat /\ at[i - 1] \in Nat /\ p <= at[i] /\ at[i] = at[i - 1] + Len(s[i])
    BY <1>1, <2>3
  <2> HIDE DEF T
  <2>6. p - at[i - 1] \in 1..Len(s[i]) /\ p = at[i - 1] + (p - at[i - 1])
    BY <1>a, <2>3, <2>4, <2>5
  <2> QED BY <1>1, <2>3, <2>6
<1>3. ASSUME NEW i \in 0..n, NEW j \in 0..n, i <= j PROVE at[i] <= at[j]
  <2> DEFINE T == {k \in Nat : i + k \in 0..n => at[i] <= at[i + k]}
  <2>1. 0 \in T
    BY <1>1
  <2>2. ASSUME NEW k \in 0..((n - i) - 1), k \in T PROVE k + 1 \in T
    <3>1. i + k \in 0..n /\ i + (k + 1) \in 1..n /\ (i + (k + 1)) - 1 = i + k /\ k + 1 \in Nat
      BY <1>a
    <3>2. at[i + (k + 1)] = at[i + k] + Len(s[i + (k + 1)]) /\ Len(s[i + (k + 1)]) \in Nat
      BY <1>1, <1>a, <3>1
    <3>3. at[i] \in Nat /\ at[i + k] \in Nat /\ at[i] <= at[i + k]
      BY <1>1, <2>2, <3>1
    <3> QED BY <3>1, <3>2, <3>3
  <2> HIDE DEF T
  <2>3. n - i \in Nat
    BY <1>a
  <2>4. 0..(n - i) \subseteq T
    BY <2>1, <2>2, <2>3, Induction
  <2>5. j - i \in T /\ i + (j - i) = j
    BY <1>3, <1>a, <2>4
  <2> QED BY <2>5 DEF T
<1> QED BY <1>2, <1>3 DEF Located, n

\* A sequence of items of S is one of the items of a larger set.
LEMMA WiderSequence ==
  ASSUME NEW T, NEW S \in SUBSET T, NEW s \in Seq(S)
  PROVE  s \in Seq(T) /\ DOMAIN s = 1..Len(s) /\ Len(s) \in Nat
<1>1. DOMAIN s = 1..Len(s) /\ Len(s) \in Nat /\ s = [k \in 1..Len(s) |-> s[k]]
  OBVIOUS
<1>2. \A k \in 1..Len(s) : s[k] \in T
  OBVIOUS
<1> QED BY <1>1, <1>2
-----------------------------------------------------------------------------
(* Folds of sets                                                           *)

\* A fold of a function's values by an operation that does not mind the order.
IsCombination(S, A, base, Op, f) ==
  /\ IsFiniteSet(S) /\ base \in A /\ Op \in [A \X A -> A] /\ f \in [S -> A]
  /\ \A a, b, c \in A : Op[<<a, Op[<<b, c>>]>>] = Op[<<b, Op[<<a, c>>]>>]
Chosen(T) == CHOOSE x \in T : TRUE
FoldsOver(it, S, A, base, Op, f) ==
  /\ it \in [SUBSET S -> A]
  /\ \A T \in SUBSET S : it[T] = IF T = {} THEN base ELSE Op[<<f[Chosen(T)], it[T \ {Chosen(T)}]>>]
Combines(it, S, A, base, Op, f) ==
  /\ it \in [SUBSET S -> A] /\ it[{}] = base
  /\ \A T \in SUBSET S : \A x \in T : it[T] = Op[<<f[x], it[T \ {x}]>>]

LEMMA SubsetSizes ==
  ASSUME NEW S, IsFiniteSet(S)
  PROVE  /\ Cardinality(S) \in Nat
         /\ \A T \in SUBSET S : /\ IsFiniteSet(T) /\ Cardinality(T) \in 0..Cardinality(S)
                                /\ Cardinality(T) = 0 <=> T = {}
                                /\ \A x \in T : /\ T \ {x} \in SUBSET S
                                                /\ Cardinality(T \ {x}) = Cardinality(T) - 1
         /\ \A T \in SUBSET S : T # {} => Chosen(T) \in T
<1>1. Cardinality(S) \in Nat
  BY FS_CardinalityType
<1>2. ASSUME NEW T \in SUBSET S
      PROVE  /\ IsFiniteSet(T) /\ Cardinality(T) \in 0..Cardinality(S)
             /\ Cardinality(T) = 0 <=> T = {}
             /\ \A x \in T : T \ {x} \in SUBSET S /\ Cardinality(T \ {x}) = Cardinality(T) - 1
  <2>1. IsFiniteSet(T) /\ Cardinality(T) <= Cardinality(S)
    BY FS_Subset
  <2>2. Cardinality(T) \in Nat /\ (Cardinality(T) = 0 <=> T = {})
    BY <2>1, FS_CardinalityType, FS_EmptySet
  <2>3. \A x \in T : Cardinality(T \ {x}) = Cardinality(T) - 1
    BY <2>1, FS_RemoveElement
  <2> QED BY <1>1, <2>1, <2>2, <2>3
<1>3. ASSUME NEW T \in SUBSET S, T # {} PROVE Chosen(T) \in T
  BY <1>3 DEF Chosen
<1> QED BY <1>1, <1>2, <1>3

LEMMA FoldsExist ==
  ASSUME NEW S, NEW A, NEW base, NEW Op, NEW f, IsCombination(S, A, base, Op, f)
  PROVE  \E it : FoldsOver(it, S, A, base, Op, f)
<1> DEFINE n == Cardinality(S)
           D == SUBSET S
           Rank == [T \in D |-> Cardinality(T)]
           Next == [T \in D |-> IF T = {} THEN T ELSE T \ {Chosen(T)}]
           Step == [p \in D \X A |-> IF p[1] = {} THEN base ELSE Op[<<f[Chosen(p[1])], p[2]>>]]
           Base == [T \in D |-> base]
           Ends == {{}}
<1>1. IsFiniteSet(S) /\ base \in A /\ Op \in [A \X A -> A] /\ f \in [S -> A]
  BY DEF IsCombination
<1>2. /\ n \in Nat
      /\ \A T \in D : /\ Cardinality(T) \in 0..n
                      /\ \A x \in T : T \ {x} \in D /\ Cardinality(T \ {x}) = Cardinality(T) - 1
      /\ \A T \in D : T # {} => Chosen(T) \in T
  BY <1>1, SubsetSizes
<1>3. Rank \in [D -> 0..n] /\ Next \in [D -> D] /\ Base \in [D -> A] /\ Ends \subseteq D
  BY <1>1, <1>2
<1>4. \A T \in D \ Ends : Rank[Next[T]] < Rank[T]
  <2> SUFFICES ASSUME NEW T \in D, T # {} PROVE Rank[Next[T]] < Rank[T]
    OBVIOUS
  <2>1. Next[T] = T \ {Chosen(T)} /\ Next[T] \in D /\ Cardinality(T \ {Chosen(T)}) = Cardinality(T) - 1
        /\ Cardinality(T) \in Nat
    BY <1>2
  <2>2. Rank[Next[T]] = Cardinality(T) - 1 /\ Rank[T] = Cardinality(T)
    BY <2>1
  <2> HIDE DEF Rank, Next
  <2> QED BY <2>1, <2>2
<1>5. Step \in [D \X A -> A]
  <2>1. ASSUME NEW T \in D, NEW a \in A, T # {} PROVE Op[<<f[Chosen(T)], a>>] \in A
    <3>1. f[Chosen(T)] \in A
      BY <1>1, <1>2, <2>1
    <3> QED BY <1>1, <3>1
  <2> QED BY <1>1, <2>1
<1> HIDE DEF D, Rank, Next, Base, Step, Ends, n
<1>6. PICK it : Solves(it, D, A, Ends, Base, Next, Step)
  <2>1. IsRecursion(D, A, n, Rank, Ends, Base, Next, Step)
    BY <1>2, <1>3, <1>4, <1>5 DEF IsRecursion
  <2> QED BY <2>1, Recursion
<1>7. it \in [D -> A] /\ \A d \in D : it[d] = IF d \in Ends THEN Base[d] ELSE Step[<<d, it[Next[d]]>>]
  BY <1>6 DEF Solves
<1>8. ASSUME NEW T \in D
      PROVE  it[T] = IF T = {} THEN base ELSE Op[<<f[Chosen(T)], it[T \ {Chosen(T)}]>>]
  <2>1. CASE T = {}
    BY <1>7, <2>1 DEF Base, Ends
  <2>2. CASE T # {}
    <3>1. Next[T] = T \ {Chosen(T)} /\ Next[T] \in D
      BY <1>3, <2>2 DEF Next
    <3>2. it[Next[T]] \in A
      BY <1>7, <3>1
    <3>3. it[T] = Step[<<T, it[Next[T]]>>]
      BY <1>7, <2>2 DEF Ends
    <3> QED BY <2>2, <3>1, <3>2, <3>3 DEF Step
  <2> QED BY <2>1, <2>2
<1> QED BY <1>7, <1>8 DEF D, FoldsOver

\* Whichever element is taken first.
LEMMA FoldsCombine ==
  ASSUME NEW S, NEW A, NEW base, NEW Op, NEW f, IsCombination(S, A, base, Op, f),
         NEW it, FoldsOver(it, S, A, base, Op, f)
  PROVE  Combines(it, S, A, base, Op, f)
<1> DEFINE n == Cardinality(S)
           D == SUBSET S
           K == {k \in Nat : \A T \in D : Cardinality(T) = k => \A x \in T : it[T] = Op[<<f[x], it[T \ {x}]>>]}
<1>1. /\ IsFiniteSet(S) /\ base \in A /\ Op \in [A \X A -> A] /\ f \in [S -> A]
      /\ \A a, b, c \in A : Op[<<a, Op[<<b, c>>]>>] = Op[<<b, Op[<<a, c>>]>>]
  BY DEF IsCombination
<1>2. /\ n \in Nat
      /\ \A T \in D : /\ Cardinality(T) \in 0..n /\ (Cardinality(T) = 0 <=> T = {})
                      /\ \A x \in T : T \ {x} \in D /\ Cardinality(T \ {x}) = Cardinality(T) - 1
      /\ \A T \in D : T # {} => Chosen(T) \in T
  BY <1>1, SubsetSizes
<1>3. it \in [D -> A] /\ \A T \in D : it[T] = IF T = {} THEN base ELSE Op[<<f[Chosen(T)], it[T \ {Chosen(T)}]>>]
  BY DEF FoldsOver
<1> HIDE DEF n, D
<1>4. 0 \in K
  <2> SUFFICES ASSUME NEW T \in D, Cardinality(T) = 0, NEW x \in T PROVE FALSE
    OBVIOUS
  <2> QED BY <1>2
<1>5. ASSUME NEW k \in 0..(n - 1), k \in K PROVE k + 1 \in K
  <2> SUFFICES ASSUME NEW T \in D, Cardinality(T) = k + 1, NEW x \in T
               PROVE  it[T] = Op[<<f[x], it[T \ {x}]>>]
    OBVIOUS
  <2> DEFINE y == Chosen(T)
  <2>1. y \in T
    BY <1>2
  <2>2. it[T] = Op[<<f[y], it[T \ {y}]>>]
    BY <1>3
  <2> HIDE DEF y
  <2>3. CASE x = y
    BY <2>2, <2>3
  <2>4. CASE x # y
    <3> DEFINE U == T \ {x}
               V == T \ {y}
               W == (T \ {y}) \ {x}
    <3>1. U \in D /\ V \in D /\ Cardinality(U) = k /\ Cardinality(V) = k
      <4>1. (k + 1) - 1 = k
        OBVIOUS
      <4> QED BY <1>2, <2>1, <4>1
    <3>2. x \in V /\ y \in U /\ U \ {y} = W /\ V \ {x} = W
      BY <2>1, <2>4
    <3>3. W \in D
      BY <1>2, <3>1, <3>2
    <3> HIDE DEF U, V, W
    <3>4. it[V] = Op[<<f[x], it[W]>>] /\ it[U] = Op[<<f[y], it[W]>>]
      BY <1>5, <3>1, <3>2
    <3>5. f[x] \in A /\ f[y] \in A /\ it[W] \in A
      BY <1>1, <1>3, <2>1, <3>3 DEF D
    <3>6. it[T] = Op[<<f[x], it[U]>>]
      BY <1>1, <2>2, <3>4, <3>5 DEF V
    <3> QED BY <3>6 DEF U
  <2> QED BY <2>3, <2>4
<1> HIDE DEF K
<1>6. 0..n \subseteq K
  BY <1>2, <1>4, <1>5, Induction
<1>7. ASSUME NEW T \in D, NEW x \in T PROVE it[T] = Op[<<f[x], it[T \ {x}]>>]
  <2>1. Cardinality(T) \in K
    BY <1>2, <1>6
  <2> QED BY <2>1 DEF K
<1>8. it[{}] = base
  BY <1>3 DEF D
<1> QED BY <1>3, <1>7, <1>8 DEF D, Combines

FoldsWithin(h, S, A, base, Op, f) ==
  /\ h[{}] = base
  /\ \A T \in SUBSET S : T # {} /\ h[T \ {Chosen(T)}] \in A => h[T] = Op[<<f[Chosen(T)], h[T \ {Chosen(T)}]>>]

\* What iterates like a fold, wherever its values are of A, is that fold.
LEMMA FoldsAgree ==
  ASSUME NEW S, NEW A, NEW base, NEW Op, NEW f, IsCombination(S, A, base, Op, f),
         NEW g, FoldsOver(g, S, A, base, Op, f),
         NEW h, FoldsWithin(h, S, A, base, Op, f)
  PROVE  \A T \in SUBSET S : h[T] = g[T]
<1> DEFINE n == Cardinality(S)
           D == SUBSET S
           K == {k \in Nat : \A T \in D : Cardinality(T) = k => h[T] = g[T]}
<1> USE DEF FoldsWithin
<1>1. IsFiniteSet(S) /\ base \in A
  BY DEF IsCombination
<1>2. /\ n \in Nat
      /\ \A T \in D : /\ Cardinality(T) \in 0..n /\ (Cardinality(T) = 0 <=> T = {})
                      /\ \A x \in T : T \ {x} \in D /\ Cardinality(T \ {x}) = Cardinality(T) - 1
      /\ \A T \in D : T # {} => Chosen(T) \in T
  BY <1>1, SubsetSizes
<1>3. g \in [D -> A] /\ \A T \in D : g[T] = IF T = {} THEN base ELSE Op[<<f[Chosen(T)], g[T \ {Chosen(T)}]>>]
  BY DEF FoldsOver
<1> HIDE DEF n
<1>4. 0 \in K
  <2> SUFFICES ASSUME NEW T \in D, Cardinality(T) = 0 PROVE h[T] = g[T]
    OBVIOUS
  <2> QED BY <1>2, <1>3
<1>5. ASSUME NEW k \in 0..(n - 1), k \in K PROVE k + 1 \in K
  <2> SUFFICES ASSUME NEW T \in D, Cardinality(T) = k + 1 PROVE h[T] = g[T]
    OBVIOUS
  <2>1. (k + 1) - 1 = k /\ k + 1 # 0
    OBVIOUS
  <2>2. T # {}
    BY <1>2, <2>1
  <2> DEFINE U == T \ {Chosen(T)}
  <2>3. U \in D /\ Cardinality(U) = k
    BY <1>2, <2>1, <2>2
  <2>4. h[U] = g[U] /\ g[U] \in A
    BY <1>3, <1>5, <2>3
  <2> QED BY <1>3, <2>2, <2>4
<1> HIDE DEF K
<1>6. 0..n \subseteq K
  BY <1>2, <1>4, <1>5, Induction
<1>7. ASSUME NEW T \in D PROVE h[T] = g[T]
  <2>1. Cardinality(T) \in K
    BY <1>2, <1>6
  <2> QED BY <2>1 DEF K
<1> QED BY <1>7

\* The sums of a function over the sets of its arguments.
Sums(it, S, f) ==
  /\ IsFiniteSet(S) /\ f \in [S -> Int]
  /\ it \in [SUBSET S -> Int] /\ it[{}] = 0
  /\ \A T \in SUBSET S : \A x \in T : it[T] = f[x] + it[T \ {x}]

LEMMA SumsExist ==
  ASSUME NEW S, IsFiniteSet(S), NEW f \in [S -> Int]
  PROVE  \E it : Sums(it, S, f) /\ SumFunction(f) = it[S]
<1> DEFINE Plus2 == [p \in Int \X Int |-> p[1] + p[2]]
           Turn(it) == [T \in SUBSET S |-> IF T = {} THEN 0 ELSE f[Chosen(T)] + it[T \ {Chosen(T)}]]
           iter == CHOOSE it : it = Turn(it)
<1>1. SumFunction(f) = iter[S]
  BY DEF SumFunction, SumFunctionOnSet, FoldFunctionOnSet, MapThenFoldSet, Chosen
<1> HIDE DEF iter
<1>2. IsCombination(S, Int, 0, Plus2, f)
  BY DEF IsCombination
<1>3. PICK g : FoldsOver(g, S, Int, 0, Plus2, f)
  BY <1>2, FoldsExist
<1>4. /\ g \in [SUBSET S -> Int]
      /\ \A T \in SUBSET S : g[T] = IF T = {} THEN 0 ELSE Plus2[<<f[Chosen(T)], g[T \ {Chosen(T)}]>>]
  BY <1>3 DEF FoldsOver
<1>5. ASSUME NEW T \in SUBSET S, T # {} PROVE f[Chosen(T)] \in Int
  BY <1>5, SubsetSizes
<1>6. g = Turn(g)
  <2>1. \A T \in SUBSET S : g[T] = Turn(g)[T]
    BY <1>4, <1>5
  <2>2. g = [T \in SUBSET S |-> g[T]]
    BY <1>4
  <2> QED BY <2>1, <2>2
<1>7. iter = Turn(iter)
  <2> HIDE DEF Turn
  <2> QED BY <1>6 DEF iter
<1>8. iter[{}] = 0
  BY <1>7
<1>9. ASSUME NEW T \in SUBSET S, T # {}, iter[T \ {Chosen(T)}] \in Int
      PROVE  iter[T] = Plus2[<<f[Chosen(T)], iter[T \ {Chosen(T)}]>>]
  <2>1. iter[T] = f[Chosen(T)] + iter[T \ {Chosen(T)}]
    BY <1>7, <1>9
  <2> QED BY <1>5, <1>9, <2>1
<1> HIDE DEF Turn, Plus2
<1>10. \A T \in SUBSET S : iter[T] = g[T]
  <2>1. FoldsWithin(iter, S, Int, 0, Plus2, f)
    BY <1>8, <1>9 DEF FoldsWithin
  <2> QED BY <1>2, <1>3, <2>1, FoldsAgree
<1>11. Combines(g, S, Int, 0, Plus2, f)
  BY <1>2, <1>3, FoldsCombine
<1>12. Sums(g, S, f)
  <2>1. ASSUME NEW T \in SUBSET S, NEW x \in T PROVE g[T] = f[x] + g[T \ {x}]
    <3>1. g[T] = Plus2[<<f[x], g[T \ {x}]>>]
      BY <1>11 DEF Combines
    <3>2. f[x] \in Int /\ g[T \ {x}] \in Int
      BY <1>4
    <3> QED BY <3>1, <3>2 DEF Plus2
  <2> QED BY <1>4, <2>1 DEF Sums
<1> QED BY <1>1, <1>10, <1>12

\* A set of subsets of a finite set that holds the empty one, and each one that
\* is an element larger, holds them all.
LEMMA SetInduction ==
  ASSUME NEW S, IsFiniteSet(S), NEW K, {} \in K,
         \A T \in SUBSET S : \A x \in S \ T : T \in K => T \cup {x} \in K
  PROVE  SUBSET S \subseteq K
<1> DEFINE n == Cardinality(S)
           N == {k \in Nat : \A T \in SUBSET S : Cardinality(T) = k => T \in K}
<1>1. /\ n \in Nat
      /\ \A T \in SUBSET S : /\ Cardinality(T) \in 0..n /\ (Cardinality(T) = 0 <=> T = {})
                             /\ \A x \in T : T \ {x} \in SUBSET S /\ Cardinality(T \ {x}) = Cardinality(T) - 1
  BY SubsetSizes
<1> HIDE DEF n
<1>2. 0 \in N
  BY <1>1
<1>3. ASSUME NEW k \in 0..(n - 1), k \in N PROVE k + 1 \in N
  <2> SUFFICES ASSUME NEW T \in SUBSET S, Cardinality(T) = k + 1 PROVE T \in K
    OBVIOUS
  <2>1. k + 1 # 0 /\ (k + 1) - 1 = k
    OBVIOUS
  <2>2. PICK x \in T : TRUE
    BY <1>1, <2>1
  <2> DEFINE U == T \ {x}
  <2>3. U \in SUBSET S /\ Cardinality(U) = k /\ x \in S \ U /\ U \cup {x} = T
    BY <1>1, <2>1, <2>2
  <2>4. U \in K
    BY <1>3, <2>3
  <2> HIDE DEF U
  <2> QED BY <2>3, <2>4
<1> HIDE DEF N
<1>4. 0..n \subseteq N
  BY <1>1, <1>2, <1>3, Induction
<1>5. ASSUME NEW T \in SUBSET S PROVE T \in K
  <2>1. Cardinality(T) \in N
    BY <1>1, <1>4
  <2> QED BY <2>1 DEF N
<1> QED BY <1>5

\* A sum takes in one more argument.
LEMMA SumTakes ==
  ASSUME NEW S, NEW f, NEW it, Sums(it, S, f)
  PROVE  /\ IsFiniteSet(S) /\ \A x \in S : f[x] \in Int
         /\ \A T \in SUBSET S : it[T] \in Int
         /\ \A T \in SUBSET S : \A x \in S \ T : it[T \cup {x}] = f[x] + it[T]
<1>0. f \in [S -> Int]
  BY DEF Sums
<1>1. ASSUME NEW T \in SUBSET S, NEW x \in S \ T PROVE it[T \cup {x}] = f[x] + it[T]
  <2>1. T \cup {x} \in SUBSET S /\ x \in T \cup {x} /\ (T \cup {x}) \ {x} = T
    OBVIOUS
  <2> QED BY <2>1 DEF Sums
<1> QED BY <1>0, <1>1 DEF Sums

\* Sums of the same terms, whatever the arguments are called.
SameTerms(S, f, R, g, b) ==
  /\ b \in [S -> R]
  /\ \A x, y \in S : b[x] = b[y] => x = y
  /\ \A x \in S : g[b[x]] = f[x]

LEMMA SumsAgree ==
  ASSUME NEW S, NEW f, NEW it, Sums(it, S, f),
         NEW R, NEW g, NEW jt, Sums(jt, R, g),
         NEW b, SameTerms(S, f, R, g, b)
  PROVE  \A T \in SUBSET S : it[T] = jt[{b[x] : x \in T}]
<1>t. ASSUME NEW V \in SUBSET R, NEW z \in R \ V PROVE jt[V \cup {z}] = g[z] + jt[V]
  <2>1. V \cup {z} \in SUBSET R /\ z \in V \cup {z} /\ (V \cup {z}) \ {z} = V
    OBVIOUS
  <2>2. \A T \in SUBSET R : \A x \in T : jt[T] = g[x] + jt[T \ {x}]
    BY DEF Sums
  <2> QED BY <2>1, <2>2
<1>0. /\ b \in [S -> R] /\ IsFiniteSet(S)
      /\ \A x, y \in S : b[x] = b[y] => x = y
      /\ \A x \in S : g[b[x]] = f[x]
  BY SumTakes DEF SameTerms
<1> DEFINE Image(T) == {b[x] : x \in T}
           K == {T \in SUBSET S : it[T] = jt[Image(T)]}
<1>1. {} \in K
  BY DEF Sums
<1>2. ASSUME NEW T \in SUBSET S, NEW x \in S \ T, T \in K PROVE T \cup {x} \in K
  <2>1. Image(T \cup {x}) = Image(T) \cup {b[x]} /\ Image(T) \in SUBSET R /\ b[x] \in R \ Image(T)
    BY <1>0
  <2>2. it[T \cup {x}] = f[x] + it[T]
    BY SumTakes
  <2>3. jt[Image(T) \cup {b[x]}] = g[b[x]] + jt[Image(T)]
    <3> DEFINE I == Image(T)
               y == b[x]
    <3>1. I \in SUBSET R /\ y \in R \ I
      BY <2>1
    <3> HIDE DEF I, y
    <3>2. jt[I \cup {y}] = g[y] + jt[I]
      BY <1>t, <3>1
    <3> QED BY <3>2 DEF I, y
  <2> HIDE DEF Image
  <2>4. it[T] = jt[Image(T)]
    BY <1>2
  <2>5. it[T \cup {x}] = jt[Image(T \cup {x})]
    BY <1>0, <2>1, <2>2, <2>3, <2>4
  <2> QED BY <2>5
<1> HIDE DEF K
<1>3. SUBSET S \subseteq K
  BY <1>0, <1>1, <1>2, SetInduction
<1> QED BY <1>3 DEF K

\* A sum over two sets without a common argument.
Parts(S, T, U) == T \cup U = S /\ T \cap U = {}

LEMMA SumsDisjoint ==
  ASSUME NEW S, NEW f, NEW it, Sums(it, S, f),
         NEW R \in SUBSET S, NEW T, NEW U, Parts(R, T, U)
  PROVE  it[R] = it[T] + it[U]
<1>p. T \in SUBSET S /\ U \in SUBSET S /\ T \cap U = {} /\ R = T \cup U
  BY DEF Parts
<1>0. IsFiniteSet(S)
  BY SumTakes
<1> DEFINE K == {V \in SUBSET S : V \cap T = {} => it[T \cup V] = it[T] + it[V]}
<1>1. {} \in K
  <2>1. it[T] \in Int /\ it[{}] = 0 /\ T \cup {} = T
    BY <1>p DEF Sums
  <2> QED BY <2>1
<1>2. ASSUME NEW V \in SUBSET S, NEW x \in S \ V, V \in K PROVE V \cup {x} \in K
  <2> SUFFICES ASSUME (V \cup {x}) \cap T = {}
               PROVE  it[T \cup (V \cup {x})] = it[T] + it[V \cup {x}]
    OBVIOUS
  <2> DEFINE W == T \cup V
  <2>1. W \in SUBSET S /\ x \in S \ W /\ T \cup (V \cup {x}) = W \cup {x}
    BY <1>p
  <2>2. it[W] = it[T] + it[V]
    BY <1>2
  <2> HIDE DEF W
  <2>3. it[W \cup {x}] = f[x] + it[W] /\ it[V \cup {x}] = f[x] + it[V]
    BY <2>1, SumTakes
  <2>4. it[T] \in Int /\ it[V] \in Int /\ f[x] \in Int
    BY <1>p, SumTakes
  <2> DEFINE Y == V \cup {x}
  <2>5. it[Y] = f[x] + it[V] /\ T \cup Y = W \cup {x}
    BY <2>1, <2>3
  <2> HIDE DEF Y
  <2>6. it[W \cup {x}] = it[T] + it[Y]
    BY <2>2, <2>3, <2>4, <2>5
  <2>7. it[T \cup Y] = it[T] + it[Y]
    BY <2>5, <2>6
  <2> QED BY <2>7 DEF Y
<1> HIDE DEF K
<1>3. SUBSET S \subseteq K
  BY <1>0, <1>1, <1>2, SetInduction
<1> QED BY <1>p, <1>3 DEF K

\* A sum of sums over the classes of the arguments.
Classes(S, it, G, c, h) ==
  c \in [S -> G] /\ \A k \in G : h[k] = it[{x \in S : c[x] = k}]
LEMMA SumsOfClasses ==
  ASSUME NEW S, NEW f, NEW it, Sums(it, S, f),
         NEW G, NEW c, NEW h, Classes(S, it, G, c, h), NEW jt, Sums(jt, G, h)
  PROVE  jt[G] = it[S]
<1>c. c \in [S -> G] /\ \A k \in G : h[k] = it[{x \in S : c[x] = k}]
  BY DEF Classes
<1> DEFINE Within(U) == {x \in S : c[x] \in U}
           K == {U \in SUBSET G : jt[U] = it[Within(U)]}
<1>0. IsFiniteSet(G)
  BY SumTakes
<1>1. {} \in K
  BY DEF Sums
<1>2. ASSUME NEW U \in SUBSET G, NEW k \in G \ U, U \in K PROVE U \cup {k} \in K
  <2> DEFINE A == {x \in S : c[x] = k}
             B == Within(U)
             C == Within(U \cup {k})
  <2>1. Parts(C, A, B) /\ C \in SUBSET S
    BY DEF Parts
  <2>2. h[k] = it[A] /\ jt[U] = it[B]
    BY <1>c, <1>2
  <2> HIDE DEF A, B, C
  <2>3. it[C] = it[A] + it[B]
    BY <2>1, SumsDisjoint
  <2>4. jt[U \cup {k}] = h[k] + jt[U]
    <3>1. U \cup {k} \in SUBSET G /\ k \in U \cup {k} /\ (U \cup {k}) \ {k} = U
      OBVIOUS
    <3> QED BY <3>1 DEF Sums
  <2>5. jt[U \cup {k}] = it[C]
    BY <2>2, <2>3, <2>4
  <2> QED BY <2>5 DEF C
<1> HIDE DEF K
<1>3. SUBSET G \subseteq K
  BY <1>0, <1>1, <1>2, SetInduction
<1>4. jt[G] = it[Within(G)] /\ Within(G) = S
  BY <1>c, <1>3 DEF K
<1> QED BY <1>4

\* A sum of naturals.
LEMMA SumsOfNaturals ==
  ASSUME NEW S, NEW f, NEW it, Sums(it, S, f), f \in [S -> Nat]
  PROVE  \A T \in SUBSET S : it[T] \in Nat
<1>0. IsFiniteSet(S)
  BY SumTakes
<1> DEFINE K == {T \in SUBSET S : it[T] \in Nat}
<1>1. {} \in K
  BY DEF Sums
<1>2. ASSUME NEW T \in SUBSET S, NEW x \in S \ T, T \in K PROVE T \cup {x} \in K
  <2>1. it[T \cup {x}] = f[x] + it[T]
    BY SumTakes
  <2> QED BY <1>2, <2>1
<1> HIDE DEF K
<1>3. SUBSET S \subseteq K
  BY <1>0, <1>1, <1>2, SetInduction
<1> QED BY <1>3 DEF K

\* How many arguments there are is the sum of ones.
LEMMA SumsOfOnes ==
  ASSUME NEW S, IsFiniteSet(S)
  PROVE  Sums([T \in SUBSET S |-> Cardinality(T)], S, [x \in S |-> 1])
<1>1. /\ Cardinality(S) \in Nat
      /\ \A T \in SUBSET S : /\ Cardinality(T) \in 0..Cardinality(S) /\ (Cardinality(T) = 0 <=> T = {})
                             /\ \A x \in T : T \ {x} \in SUBSET S /\ Cardinality(T \ {x}) = Cardinality(T) - 1
  BY SubsetSizes
<1>2. \A T \in SUBSET S : Cardinality(T) \in Int
  BY <1>1
<1>3. ASSUME NEW T \in SUBSET S, NEW x \in T PROVE Cardinality(T) = 1 + Cardinality(T \ {x})
  <2>1. Cardinality(T \ {x}) = Cardinality(T) - 1 /\ Cardinality(T) \in Int
    BY <1>1, <1>2
  <2> QED BY <2>1
<1>4. \A T \in SUBSET S : \A x \in T : T \ {x} \in SUBSET S /\ x \in S
  OBVIOUS
<1>5. {} \in SUBSET S /\ Cardinality({}) = 0
  BY <1>1
<1> QED BY <1>2, <1>3, <1>4, <1>5 DEF Sums

\* A set is listed in ascending order in one way only.
IsAscending(f, n, S) ==
  /\ f \in [1..n -> S] /\ \A i, j \in 1..n : f[i] < f[j] <=> i < j
  /\ \A x \in S : \E k \in 1..n : f[k] = x

LEMMA AscendingUnique ==
  ASSUME NEW n \in Nat, NEW S \in SUBSET Int,
         NEW f, IsAscending(f, n, S), NEW g, IsAscending(g, n, S)
  PROVE  \A k \in 1..n : f[k] = g[k]
<1> DEFINE K == {k \in Nat : k \in 0..n => \A i \in 1..k : f[i] = g[i]}
<1>0. ASSUME NEW h, IsAscending(h, n, S)
      PROVE  /\ \A i \in 1..n : h[i] \in S /\ h[i] \in Int
             /\ \A i, j \in 1..n : h[i] < h[j] <=> i < j
             /\ \A x \in S : \E k \in 1..n : h[k] = x
  BY <1>0 DEF IsAscending
<1>1. 0 \in K
  OBVIOUS
<1>2. ASSUME NEW k \in 0..(n - 1), k \in K PROVE k + 1 \in K
  <2>1. /\ k + 1 \in 1..n /\ k + 1 \in Nat
        /\ \A i \in 1..k : i \in 1..n /\ f[i] = g[i]
        /\ \A i \in 1..n : i \in 1..k \/ i >= k + 1
        /\ \A i \in 1..(k + 1) : i \in 1..k \/ i = k + 1
    BY <1>2
  <2>2. ASSUME NEW p, IsAscending(p, n, S), NEW q, IsAscending(q, n, S), \A i \in 1..k : p[i] = q[i]
        PROVE  q[k + 1] <= p[k + 1]
    <3>1. p[k + 1] \in S
      BY <1>0, <2>1, <2>2
    <3>2. PICK j \in 1..n : q[j] = p[k + 1]
      BY <1>0, <2>2, <3>1
    <3>3. j \notin 1..k
      <4> SUFFICES ASSUME j \in 1..k PROVE FALSE
        OBVIOUS
      <4>1. p[j] = p[k + 1] /\ j < k + 1
        BY <2>2, <3>2
      <4>2. p[j] < p[k + 1] /\ p[j] \in Int
        BY <1>0, <2>1, <2>2, <4>1
      <4> QED BY <4>1, <4>2
    <3>4. j >= k + 1
      BY <2>1, <3>3
    <3>5. ~ q[j] < q[k + 1] /\ q[j] \in Int /\ q[k + 1] \in Int
      BY <1>0, <2>1, <2>2, <3>4
    <3> QED BY <3>2, <3>5
  <2>3. f[k + 1] <= g[k + 1] /\ g[k + 1] <= f[k + 1] /\ f[k + 1] \in Int /\ g[k + 1] \in Int
    BY <1>0, <2>1, <2>2
  <2>4. f[k + 1] = g[k + 1]
    BY <2>3
  <2> QED BY <2>1, <2>4
<1> HIDE DEF K
<1>3. 0..n \subseteq K
  BY <1>1, <1>2, Induction
<1>4. n \in K
  BY <1>3
<1> QED BY <1>4 DEF K

\* A number above the others is listed after them.
LEMMA AscendingAppends ==
  ASSUME NEW S \in SUBSET Int, IsFiniteSet(S), NEW m \in Int, \A x \in S : x < m
  PROVE  /\ Cardinality(S) \in Nat /\ Cardinality(S \cup {m}) = Cardinality(S) + 1
         /\ Ascending(S) \in [1..Cardinality(S) -> S]
         /\ Ascending(S \cup {m}) \in [1..(Cardinality(S) + 1) -> S \cup {m}]
         /\ Ascending(S \cup {m})[Cardinality(S) + 1] = m
         /\ \A k \in 1..Cardinality(S) : Ascending(S \cup {m})[k] = Ascending(S)[k]
<1> DEFINE T == S \cup {m}
           c == Cardinality(S)
           a == Ascending(S)
           b == Ascending(T)
           f == [k \in 1..(c + 1) |-> IF k = c + 1 THEN m ELSE a[k]]
<1>1. IsFiniteSet(T) /\ Cardinality(T) = c + 1 /\ T \in SUBSET Int /\ c \in Nat
  <2>1. m \notin S
    OBVIOUS
  <2> QED BY <2>1, FS_AddElement, FS_CardinalityType
<1>2. /\ a \in [1..c -> S] /\ (\A i, j \in 1..c : a[i] < a[j] <=> i < j)
      /\ \A x \in S : \E k \in 1..c : a[k] = x
  BY AscendingLists
<1>3. IsAscending(b, c + 1, T)
  <2> HIDE DEF T, c
  <2>1. /\ b \in [1..Cardinality(T) -> T] /\ (\A i, j \in 1..Cardinality(T) : b[i] < b[j] <=> i < j)
        /\ \A x \in T : \E k \in 1..Cardinality(T) : b[k] = x
    BY <1>1, AscendingLists
  <2> HIDE DEF b
  <2> QED BY <1>1, <2>1 DEF IsAscending
<1> HIDE DEF a, b, c
<1>4. \A k \in 1..(c + 1) : k \in 1..c \/ k = c + 1
  BY <1>1
<1>5. (\A k \in 1..c : f[k] = a[k] /\ a[k] \in S /\ a[k] < m) /\ f[c + 1] = m /\ c + 1 \in 1..(c + 1)
      /\ \A k \in 1..c : k \in 1..(c + 1) /\ k < c + 1
  <2>1. ASSUME NEW k \in 1..c PROVE f[k] = a[k] /\ a[k] \in S /\ a[k] < m /\ k \in 1..(c + 1) /\ k < c + 1
    <3>1. k \in 1..(c + 1) /\ k < c + 1 /\ k # c + 1 /\ a[k] \in S
      BY <1>1, <1>2
    <3>2. f[k] = a[k]
      BY <3>1
    <3> QED BY <3>1, <3>2
  <2>2. c + 1 \in 1..(c + 1)
    BY <1>1
  <2>3. f[c + 1] = m
    BY <2>2
  <2> HIDE DEF f
  <2> QED BY <2>1, <2>2, <2>3
<1>6. f \in [1..(c + 1) -> T]
  BY <1>4, <1>5
<1> HIDE DEF f
<1>7. ASSUME NEW i \in 1..(c + 1), NEW j \in 1..(c + 1) PROVE f[i] < f[j] <=> i < j
  <2>1. CASE i \in 1..c /\ j \in 1..c
    BY <1>2, <1>5, <2>1
  <2>2. CASE i \in 1..c /\ j = c + 1
    BY <1>5, <2>2
  <2>3. CASE i = c + 1 /\ j \in 1..c
    <3>1. f[j] < f[i] /\ j < i /\ f[j] \in Int /\ f[i] \in Int
      BY <1>5, <2>3
    <3> QED BY <1>1, <2>3, <3>1
  <2>4. CASE i = c + 1 /\ j = c + 1
    BY <1>1, <1>5, <2>4
  <2> QED BY <1>4, <2>1, <2>2, <2>3, <2>4
<1>8. \A x \in T : \E k \in 1..(c + 1) : f[k] = x
  BY <1>2, <1>5
<1>9. IsAscending(f, c + 1, T)
  BY <1>6, <1>7, <1>8 DEF IsAscending
<1>10. \A k \in 1..(c + 1) : b[k] = f[k]
  BY <1>1, <1>3, <1>9, AscendingUnique
<1>11. b \in [1..(c + 1) -> T] /\ b[c + 1] = m /\ \A k \in 1..c : b[k] = a[k]
  <2>1. b \in [1..(c + 1) -> T]
    BY <1>3 DEF IsAscending
  <2> QED BY <1>5, <1>10, <2>1
<1> QED BY <1>1, <1>2, <1>11 DEF a, b, c

\* The items of a list that are in K, and how one more is met.
Kept(seq, K) == Selected(seq, {k \in DOMAIN seq : seq[k] \in K})
LEMMA KeptAppends ==
  ASSUME NEW A, NEW seq \in Seq(A), NEW x \in A, NEW K
  PROVE  /\ Kept(<<>>, K) = <<>> /\ Kept(seq, K) \in Seq(A)
         /\ Kept(Append(seq, x), K) = IF x \in K THEN Append(Kept(seq, K), x) ELSE Kept(seq, K)
<1> DEFINE n == Len(seq)
           S == {k \in 1..n : seq[k] \in K}
           new == Append(seq, x)
           c == Cardinality(S)
           a == Ascending(S)
<1>1. /\ n \in Nat /\ DOMAIN seq = 1..n /\ DOMAIN new = 1..(n + 1) /\ new[n + 1] = x
      /\ \A k \in 1..n : new[k] = seq[k] /\ seq[k] \in A
  OBVIOUS
<1>2. 1..(n + 1) = (1..n) \cup {n + 1} /\ n + 1 \in Int /\ \A k \in S : k < n + 1
  BY <1>1
<1>3. IsFiniteSet(S) /\ S \in SUBSET Int /\ S \in SUBSET (1..n)
  <2>1. IsFiniteSet(1..n) /\ S \in SUBSET (1..n)
    BY <1>1, FS_Interval
  <2> QED BY <2>1, FS_Subset
<1>4. Kept(seq, K) = [k \in DOMAIN a |-> seq[a[k]]]
  BY <1>1 DEF Kept, Selected
<1>5. {k \in DOMAIN new : new[k] \in K} = IF x \in K THEN S \cup {n + 1} ELSE S
  <2> HIDE DEF new, n
  <2> QED BY <1>1, <1>2
<1> HIDE DEF n, S, new
<1>6. /\ c \in Nat /\ Cardinality(S \cup {n + 1}) = c + 1
      /\ a \in [1..c -> S]
      /\ Ascending(S \cup {n + 1}) \in [1..(c + 1) -> S \cup {n + 1}]
      /\ Ascending(S \cup {n + 1})[c + 1] = n + 1
      /\ \A k \in 1..c : Ascending(S \cup {n + 1})[k] = a[k]
  BY <1>2, <1>3, AscendingAppends
<1> DEFINE b == Ascending(S \cup {n + 1})
           old == Kept(seq, K)
<1> HIDE DEF a, b, c
<1>7. old = [k \in 1..c |-> seq[a[k]]] /\ \A k \in 1..c : a[k] \in 1..n /\ seq[a[k]] \in A
  BY <1>1, <1>3, <1>4, <1>6
<1>8. old \in Seq(A) /\ Len(old) = c
  BY <1>6, <1>7
<1>9. Kept(<<>>, K) = <<>>
  <2> DEFINE Z == {k \in DOMAIN <<>> : <<>>[k] \in K}
  <2>1. Z = {} /\ Kept(<<>>, K) = Selected(<<>>, Z)
    BY DEF Kept
  <2>2. Cardinality({}) = 0 /\ IsFiniteSet({})
    BY FS_EmptySet
  <2>3. Ascending({}) \in [1..0 -> {}]
    BY <2>2, AscendingLists
  <2>4. DOMAIN Ascending({}) = {}
    BY <2>3
  <2>5. Selected(<<>>, {}) = [k \in {} |-> <<>>[Ascending({})[k]]]
    BY <2>4 DEF Selected
  <2>6. Selected(<<>>, {}) = <<>>
    BY <2>5
  <2> QED BY <2>1, <2>6
<1>10. CASE x \notin K
  <2>1. Kept(new, K) = [k \in DOMAIN a |-> new[a[k]]]
    BY <1>5, <1>10 DEF Kept, Selected, a
  <2>2. Kept(new, K) = old
    BY <1>1, <1>6, <1>7, <2>1
  <2> QED BY <1>8, <1>9, <1>10, <2>2 DEF new
<1>11. CASE x \in K
  <2>1. Kept(new, K) = [k \in DOMAIN b |-> new[b[k]]]
    BY <1>5, <1>11 DEF Kept, Selected, b
  <2>2. DOMAIN b = 1..(c + 1) /\ b[c + 1] = n + 1 /\ \A k \in 1..c : b[k] = a[k]
    BY <1>6 DEF b
  <2>3. Kept(new, K) = [k \in 1..(c + 1) |-> IF k = c + 1 THEN x ELSE old[k]]
    <3>1. \A k \in 1..(c + 1) : k \in 1..c \/ k = c + 1
      BY <1>6
    <3>2. \A k \in 1..(c + 1) : new[b[k]] = IF k = c + 1 THEN x ELSE old[k]
      <4> SUFFICES ASSUME NEW k \in 1..(c + 1) PROVE new[b[k]] = IF k = c + 1 THEN x ELSE old[k]
        OBVIOUS
      <4>1. CASE k = c + 1
        BY <1>1, <2>2, <4>1
      <4>2. CASE k \in 1..c
        <5>1. k # c + 1 /\ old[k] = seq[a[k]] /\ b[k] = a[k] /\ new[a[k]] = seq[a[k]]
          BY <1>1, <1>6, <1>7, <2>2, <4>2
        <5> QED BY <5>1
      <4> QED BY <3>1, <4>1, <4>2
    <3> HIDE DEF old
    <3> QED BY <2>1, <2>2, <3>2
  <2>4. Append(old, x) = [k \in 1..(c + 1) |-> IF k = c + 1 THEN x ELSE old[k]]
    <3> HIDE DEF old
    <3>1. Append(old, x) \in Seq(A) /\ Len(Append(old, x)) = c + 1 /\ Append(old, x)[c + 1] = x
          /\ \A k \in 1..c : Append(old, x)[k] = old[k]
      BY <1>6, <1>8
    <3>2. Append(old, x) = [k \in 1..(c + 1) |-> Append(old, x)[k]]
      <4> DEFINE longer == Append(old, x)
      <4>1. longer \in Seq(A) /\ Len(longer) = c + 1
        BY <3>1
      <4> HIDE DEF longer
      <4>2. longer = [k \in 1..(c + 1) |-> longer[k]]
        BY <4>1
      <4> QED BY <4>2 DEF longer
    <3>3. \A k \in 1..(c + 1) : Append(old, x)[k] = IF k = c + 1 THEN x ELSE old[k]
      BY <1>6, <3>1
    <3> QED BY <3>2, <3>3
  <2> QED BY <1>8, <1>9, <1>11, <2>3, <2>4 DEF new
<1> QED BY <1>10, <1>11

\* The products of a function over the sets of its arguments.
Positive == Nat \ {0}
Products(it, S, f) ==
  /\ IsFiniteSet(S) /\ f \in [S -> Positive]
  /\ it \in [SUBSET S -> Positive] /\ it[{}] = 1
  /\ \A T \in SUBSET S : \A x \in T : it[T] = f[x] * it[T \ {x}]
Times == [p \in Positive \X Positive |-> p[1] * p[2]]

LEMMA TimesCombines ==
  ASSUME NEW S, IsFiniteSet(S), NEW f \in [S -> Positive]
  PROVE  /\ IsCombination(S, Positive, 1, Times, f)
         /\ \A a, b \in Positive : Times[<<a, b>>] = a * b /\ a * b \in Positive /\ a * b = b * a
<1>1. ASSUME NEW a \in Positive, NEW b \in Positive
      PROVE  Times[<<a, b>>] = a * b /\ a * b \in Positive /\ a * b = b * a
  <2>1. a \in Nat /\ b \in Nat /\ a > 0 /\ b > 0
    BY DEF Positive
  <2>2. a * b \in Nat /\ a * b > 0 /\ a * b = b * a
    BY <2>1
  <2>3. Times[<<a, b>>] = a * b
    BY DEF Times
  <2> QED BY <2>2, <2>3 DEF Positive
<1>2. Times \in [Positive \X Positive -> Positive]
  <2>1. \A p \in Positive \X Positive : p[1] * p[2] \in Positive
    <3>1. ASSUME NEW a \in Positive, NEW b \in Positive PROVE a * b \in Positive
      BY <1>1
    <3> HIDE DEF Positive
    <3> QED BY <3>1
  <2> HIDE DEF Positive
  <2> QED BY <2>1 DEF Times
<1>3. ASSUME NEW a \in Positive, NEW b \in Positive, NEW c \in Positive
      PROVE  Times[<<a, Times[<<b, c>>]>>] = Times[<<b, Times[<<a, c>>]>>]
  <2>1. Times[<<b, c>>] = b * c /\ b * c \in Positive /\ Times[<<a, c>>] = a * c /\ a * c \in Positive
    BY <1>1
  <2>2. Times[<<a, b * c>>] = a * (b * c) /\ Times[<<b, a * c>>] = b * (a * c)
    BY <1>1, <2>1
  <2>3. a * (b * c) = b * (a * c)
    BY DEF Positive
  <2> QED BY <2>1, <2>2, <2>3
<1>4. 1 \in Positive
  BY DEF Positive
<1> QED BY <1>1, <1>2, <1>3, <1>4 DEF IsCombination

\* What turns like a product, wherever its values are positive, is that product.
ProductTurns(h, S, f) ==
  /\ h[{}] = 1
  /\ \A T \in SUBSET S : T # {} /\ h[T \ {Chosen(T)}] \in Positive =>
       h[T] = f[Chosen(T)] * h[T \ {Chosen(T)}]

LEMMA ProductsExist ==
  ASSUME NEW S, IsFiniteSet(S), NEW f \in [S -> Positive]
  PROVE  \E it : /\ Products(it, S, f)
                 /\ \A T \in SUBSET S : T # {} => it[T] = f[Chosen(T)] * it[T \ {Chosen(T)}]
                 /\ \A h : ProductTurns(h, S, f) => h[S] = it[S]
<1>1. IsCombination(S, Positive, 1, Times, f)
      /\ \A a, b \in Positive : Times[<<a, b>>] = a * b
  BY TimesCombines
<1>2. PICK g : FoldsOver(g, S, Positive, 1, Times, f)
  BY <1>1, FoldsExist
<1>3. Combines(g, S, Positive, 1, Times, f)
  BY <1>1, <1>2, FoldsCombine
<1>4. Products(g, S, f)
  <2>1. ASSUME NEW T \in SUBSET S, NEW x \in T PROVE g[T] = f[x] * g[T \ {x}]
    <3>1. g[T] = Times[<<f[x], g[T \ {x}]>>] /\ f[x] \in Positive /\ g[T \ {x}] \in Positive
      BY <1>3 DEF Combines
    <3> QED BY <1>1, <3>1
  <2> QED BY <1>3, <2>1 DEF Products, Combines
<1>5. \A T \in SUBSET S : T # {} => Chosen(T) \in T
  BY SubsetSizes
<1>6. \A T \in SUBSET S : T # {} => g[T] = f[Chosen(T)] * g[T \ {Chosen(T)}]
  BY <1>4, <1>5 DEF Products
<1>7. ASSUME NEW h, ProductTurns(h, S, f) PROVE h[S] = g[S]
  <2>1. ASSUME NEW T \in SUBSET S, T # {}, h[T \ {Chosen(T)}] \in Positive
        PROVE  h[T] = Times[<<f[Chosen(T)], h[T \ {Chosen(T)}]>>]
    <3>1. f[Chosen(T)] \in Positive
      BY <1>5, <2>1
    <3>2. h[T] = f[Chosen(T)] * h[T \ {Chosen(T)}]
      BY <1>7, <2>1 DEF ProductTurns
    <3> QED BY <1>1, <2>1, <3>1, <3>2
  <2>2. h[{}] = 1
    BY <1>7 DEF ProductTurns
  <2>3. FoldsWithin(h, S, Positive, 1, Times, f)
    BY <2>1, <2>2 DEF FoldsWithin
  <2>4. \A T \in SUBSET S : h[T] = g[T]
    BY <1>1, <1>2, <2>3, FoldsAgree
  <2> QED BY <2>4
<1> QED BY <1>4, <1>6, <1>7

\* A product over fewer arguments.
LEMMA ProductsWithin ==
  ASSUME NEW S, NEW f, NEW it, Products(it, S, f), NEW R \in SUBSET S, NEW g \in [R -> Positive],
         \A x \in R : g[x] = f[x], NEW jt, Products(jt, R, g)
  PROVE  \A T \in SUBSET R : jt[T] = it[T]
<1> DEFINE K == {T \in SUBSET R : jt[T] = it[T]}
<1>1. IsFiniteSet(R)
  BY DEF Products
<1>2. {} \in K
  BY DEF Products
<1>3. ASSUME NEW T \in SUBSET R, NEW x \in R \ T, T \in K PROVE T \cup {x} \in K
  <2> DEFINE U == T \cup {x}
  <2>1. U \in SUBSET R /\ U \in SUBSET S /\ x \in U /\ U \ {x} = T
    OBVIOUS
  <2>2. jt[U] = g[x] * jt[T] /\ it[U] = f[x] * it[T] /\ g[x] = f[x]
    BY <2>1 DEF Products
  <2>3. jt[T] = it[T]
    BY <1>3
  <2> QED BY <2>1, <2>2, <2>3
<1> HIDE DEF K
<1>4. SUBSET R \subseteq K
  BY <1>1, <1>2, <1>3, SetInduction
<1> QED BY <1>4 DEF K

\* ProductSet multiplies the numbers of a set.
LEMMA ProductOfSet ==
  ASSUME NEW S \in SUBSET Positive, IsFiniteSet(S)
  PROVE  \E it : Products(it, S, [x \in S |-> x]) /\ ProductSet(S) = it[S]
<1> DEFINE f == [x \in S |-> x]
           Turn(it) == [T \in SUBSET S |-> IF T = {} THEN 1 ELSE Chosen(T) * it[T \ {Chosen(T)}]]
           iter == CHOOSE it : it = Turn(it)
<1>1. ProductSet(S) = iter[S]
  BY DEF ProductSet, FoldSet, MapThenFoldSet, Chosen
<1> HIDE DEF iter
<1>2. f \in [S -> Positive]
  OBVIOUS
<1>3. \A T \in SUBSET S : T # {} => f[Chosen(T)] = Chosen(T)
  BY SubsetSizes
<1> HIDE DEF f
<1>4. PICK g : /\ Products(g, S, f)
               /\ \A T \in SUBSET S : T # {} => g[T] = f[Chosen(T)] * g[T \ {Chosen(T)}]
               /\ \A h : ProductTurns(h, S, f) => h[S] = g[S]
  BY <1>2, ProductsExist
<1>5. g = Turn(g)
  <2>1. g = [T \in SUBSET S |-> g[T]] /\ g[{}] = 1
    BY <1>4 DEF Products
  <2>2. \A T \in SUBSET S : g[T] = IF T = {} THEN 1 ELSE Chosen(T) * g[T \ {Chosen(T)}]
    BY <1>3, <1>4, <2>1
  <2> QED BY <2>1, <2>2
<1>6. iter = Turn(iter)
  <2> HIDE DEF Turn
  <2> QED BY <1>5 DEF iter
<1>7. ProductTurns(iter, S, f)
  <2>1. iter[{}] = 1
    BY <1>6
  <2>2. \A T \in SUBSET S : T # {} => iter[T] = f[Chosen(T)] * iter[T \ {Chosen(T)}]
    BY <1>3, <1>6
  <2> QED BY <2>1, <2>2 DEF ProductTurns
<1> QED BY <1>1, <1>4, <1>7 DEF f
=============================================================================
