-------------------------- MODULE AlgorithmProofs --------------------------
(***************************************************************************)
(* What the pipeline's operators promise, for every input there is, and so *)
(* for the inputs the bench reaches.                                       *)
(***************************************************************************)
EXTENDS MCAlgorithms, SequenceLemmas

-----------------------------------------------------------------------------
(* Small numbers and small sets                                            *)

LEMMA MaxOfTwo ==
  ASSUME NEW a \in Int, NEW b \in Int
  PROVE  Max({a, b}) = IF a >= b THEN a ELSE b
<1> DEFINE T == {a, b}
           m == IF a >= b THEN a ELSE b
<1>1. T \in SUBSET Int /\ T # {} /\ m \in Int /\ m \in T /\ \A k \in T : k <= m
  OBVIOUS
<1>2. Max(T) \in T /\ \A k \in T : k <= Max(T)
  <2> HIDE DEF T, m
  <2> QED BY <1>1, MaxOfBounded
<1>3. Max(T) \in Int /\ m <= Max(T) /\ Max(T) <= m
  BY <1>1, <1>2
<1> QED BY <1>1, <1>3

LEMMA MinOfTwo ==
  ASSUME NEW a \in Int, NEW b \in Int
  PROVE  Min({a, b}) = IF a <= b THEN a ELSE b
<1> DEFINE T == {a, b}
           m == IF a <= b THEN a ELSE b
<1>1. T \in SUBSET Int /\ T # {} /\ m \in Int /\ m \in T /\ \A k \in T : m <= k
  OBVIOUS
<1>2. Min(T) \in T /\ \A k \in T : Min(T) <= k
  <2> HIDE DEF T, m
  <2> QED BY <1>1, MinOfBounded
<1>3. Min(T) \in Int /\ m <= Min(T) /\ Min(T) <= m
  BY <1>1, <1>2
<1> QED BY <1>1, <1>3

-----------------------------------------------------------------------------
(* Explanations (change_report.py)                                         *)

\* explain_changes: whatever indices a reply names, each change gets an
\* explanation that names it, or the report fails.
THEOREM ExplanationsNameTheirChange ==
  ASSUME NEW changes \in Nat, NEW indices \in Seq(Int)
  PROVE  EveryChangeExplained(changes, indices)
<1> DEFINE named(k) == {p \in DOMAIN indices : indices[p] = k - 1}
           result == ExplainChanges(changes, indices)
<1> SUFFICES ASSUME HasResult(result), changes > 0
             PROVE  /\ Len(result[2]) = changes
                    /\ \A k \in 1..changes : indices[result[2][k]] = k - 1
                    /\ \A p \in DOMAIN indices : indices[p] \in 0..(changes - 1)
  <2>1. CASE changes = 0
    BY <2>1 DEF EveryChangeExplained, ExplainChanges, Result
  <2>2. CASE changes > 0
    BY <2>2 DEF EveryChangeExplained
  <2> QED BY <2>1, <2>2
<1>1. ToSet(indices) = 0..(changes - 1)
  BY DEF ExplainChanges, HasResult
<1>2. result = Result([k \in 1..changes |-> Max(named(k))])
  BY <1>1 DEF ExplainChanges
<1>3. result[2] = [k \in 1..changes |-> Max(named(k))]
  BY <1>2 DEF Result
<1>4. ASSUME NEW k \in 1..changes PROVE Max(named(k)) \in named(k)
  <2>1. k - 1 \in ToSet(indices)
    BY <1>1
  <2>2. named(k) \in SUBSET Int /\ named(k) # {} /\ Len(indices) \in Int /\ \A p \in named(k) : p <= Len(indices)
    BY <2>1 DEF ToSet
  <2> HIDE DEF named
  <2> QED BY <2>2, MaxOfBounded
<1>5. \A p \in DOMAIN indices : indices[p] \in 0..(changes - 1)
  BY <1>1 DEF ToSet
<1>6. \A k \in 1..changes : indices[result[2][k]] = k - 1
  BY <1>3, <1>4
<1>7. Len(result[2]) = changes
  BY <1>3
<1> QED BY <1>5, <1>6, <1>7

-----------------------------------------------------------------------------
(* Citations (extraction.py)                                               *)

\* Items as a reply may hold them, and the outcome of a call.
IsItems(A) == \A i \in A : i.list \in {"obligation", "defined_term"} /\ i.span \in Int \X Int
Outcomes(A) == {Raised} \cup {Result(items) : items \in Seq(A)}

\* A slice is as long as its span says, and not empty, exactly where the gate
\* lets the span pass.
LEMMA SliceIsSpan ==
  ASSUME NEW B, NEW text \in Seq(B), NEW span \in Int \X Int
  PROVE  IsGrounded(span, Len(text)) <=>
           /\ span[1] >= 0 /\ span[1] # span[2]
           /\ Len(PythonSlice(text, span)) = span[2] - span[1]
<1> DEFINE L == Len(text)
           p == PythonOffset(span[1], L)
           q == PythonOffset(span[2], L)
<1>1. L \in Nat /\ span[1] \in Int /\ span[2] \in Int
  OBVIOUS
<1>2. p = (IF span[1] < 0 THEN (IF 0 >= L + span[1] THEN 0 ELSE L + span[1])
           ELSE IF span[1] <= L THEN span[1] ELSE L)
  <2> HIDE DEF L
  <2> QED BY <1>1, MaxOfTwo, MinOfTwo DEF PythonOffset
<1>3. q = (IF span[2] < 0 THEN (IF 0 >= L + span[2] THEN 0 ELSE L + span[2])
           ELSE IF span[2] <= L THEN span[2] ELSE L)
  <2> HIDE DEF L
  <2> QED BY <1>1, MaxOfTwo, MinOfTwo DEF PythonOffset
<1>4. p \in 0..L /\ q \in 0..L
  BY <1>1, <1>2, <1>3
<1>5. Len(PythonSlice(text, span)) = IF p + 1 <= q THEN q - p ELSE 0
  <2>1. PythonSlice(text, span) = SubSeq(text, p + 1, q)
    BY DEF PythonSlice
  <2> HIDE DEF p, q
  <2> QED BY <1>4, <2>1
<1> HIDE DEF p, q, L
<1> QED BY <1>1, <1>2, <1>3, <1>5 DEF IsGrounded, L

\* _split_cited, first half: the two lists hold the items of the reply.
LEMMA ListsHoldItems ==
  ASSUME NEW A, IsItems(A), NEW items \in Seq(A)
  PROVE  InLists(items) \in Seq(A) /\ ToSet(InLists(items)) = ToSet(items)
<1> DEFINE O == {k \in DOMAIN items : items[k].list = "obligation"}
           D == {k \in DOMAIN items : items[k].list = "defined_term"}
           os == Selected(items, O)
           ds == Selected(items, D)
<1>1. O \in SUBSET DOMAIN items /\ D \in SUBSET DOMAIN items
  OBVIOUS
<1>2. os \in Seq(A) /\ ToSet(os) = {items[k] : k \in O}
  <2> HIDE DEF O
  <2> QED BY <1>1, SelectedItems
<1>3. ds \in Seq(A) /\ ToSet(ds) = {items[k] : k \in D}
  <2> HIDE DEF D
  <2> QED BY <1>1, SelectedItems
<1>4. InLists(items) = os \o ds
  BY DEF InLists
<1>5. \A k \in DOMAIN items : k \in O \/ k \in D
  BY DEF IsItems
<1> HIDE DEF os, ds
<1>6. ToSet(os \o ds) = ToSet(os) \cup ToSet(ds)
  BY <1>2, <1>3, ConcatSets
<1>7. ToSet(items) = {items[k] : k \in O} \cup {items[k] : k \in D}
  BY <1>5 DEF ToSet
<1> QED BY <1>2, <1>3, <1>4, <1>6, <1>7

\* _split_cited: what is kept is what is grounded.
LEMMA SplitKeepsGrounded ==
  ASSUME NEW A, IsItems(A), NEW items \in Seq(A), NEW length \in Nat
  PROVE  /\ SplitCited(items, length) \in Seq(A)
         /\ ToSet(SplitCited(items, length)) = {i \in ToSet(items) : IsGrounded(i.span, length)}
<1> DEFINE listed == InLists(items)
           G == {k \in DOMAIN listed : IsGrounded(listed[k].span, length)}
<1>1. listed \in Seq(A) /\ ToSet(listed) = ToSet(items)
  BY ListsHoldItems
<1>2. SplitCited(items, length) = Selected(listed, G)
  BY DEF SplitCited
<1>3. G \in SUBSET DOMAIN listed
  OBVIOUS
<1>4. Selected(listed, G) \in Seq(A) /\ ToSet(Selected(listed, G)) = {listed[k] : k \in G}
  <2> HIDE DEF G, listed
  <2> QED BY <1>1, <1>3, SelectedItems
<1>5. {listed[k] : k \in G} = {i \in ToSet(listed) : IsGrounded(i.span, length)}
  <2> HIDE DEF listed
  <2> QED BY DEF ToSet
<1> QED BY <1>1, <1>2, <1>4, <1>5

\* extract_obligations: its two attempts without the recursion.
LEMMA ExtractionByAttempts ==
  ASSUME NEW calls, NEW length
  PROVE  LET Listed(a)    == InLists(calls[a][2])
             Grounded(a) == SplitCited(Listed(a), length)
             last        == IF calls[2] = Raised THEN Raised
                            ELSE IF Grounded(2) = Listed(2) THEN Result(Listed(2))
                            ELSE IF Grounded(2) = <<>> THEN Raised ELSE Result(Grounded(2))
         IN  ExtractObligations(calls, length) =
               IF calls[1] = Raised THEN Raised
               ELSE IF Grounded(1) = Listed(1) THEN Result(Listed(1)) ELSE last
<1> DEFINE Listed(a)    == InLists(calls[a][2])
           Grounded(a) == SplitCited(Listed(a), length)
           last        == IF calls[2] = Raised THEN Raised
                          ELSE IF Grounded(2) = Listed(2) THEN Result(Listed(2))
                          ELSE IF Grounded(2) = <<>> THEN Raised ELSE Result(Grounded(2))
           first       == IF calls[1] = Raised THEN Raised
                          ELSE IF Grounded(1) = Listed(1) THEN Result(Listed(1)) ELSE last
           Turn(it) ==
             [a \in 1..Attempts |->
                IF calls[a] = Raised THEN Raised
                ELSE LET items    == InLists(calls[a][2])
                         grounded == SplitCited(items, length)
                     IN CASE grounded = items -> Result(items)
                          [] grounded # items /\ a < Attempts -> it[a + 1]
                          [] grounded # items /\ a = Attempts ->
                               IF grounded = <<>> THEN Raised ELSE Result(grounded)]
           attempt[a \in 1..Attempts] ==
             IF calls[a] = Raised THEN Raised
             ELSE LET items    == InLists(calls[a][2])
                      grounded == SplitCited(items, length)
                  IN CASE grounded = items -> Result(items)
                       [] grounded # items /\ a < Attempts -> attempt[a + 1]
                       [] grounded # items /\ a = Attempts ->
                            IF grounded = <<>> THEN Raised ELSE Result(grounded)
           known   == [a \in 1..Attempts |-> IF a = 1 THEN first ELSE last]
<1>1. ExtractObligations(calls, length) = attempt[1]
  BY DEF ExtractObligations
<1>2. \A it : Turn(it)[2] = last
  BY DEF Attempts
<1>3. \A it : it[2] = last => Turn(it)[1] = first
  BY DEF Attempts
<1>4. known = Turn(known)
  <2>1. known[1] = first /\ known[2] = last
    BY DEF Attempts
  <2>2. Turn(known)[1] = first /\ Turn(known)[2] = last
    <3> HIDE DEF Turn, known
    <3> QED BY <1>2, <1>3, <2>1
  <2>3. DOMAIN known = 1..2 /\ DOMAIN Turn(known) = 1..2
    BY DEF Attempts
  <2>4. known = [a \in 1..2 |-> known[a]] /\ Turn(known) = [a \in 1..2 |-> Turn(known)[a]]
    BY DEF Attempts
  <2> HIDE DEF known, Turn
  <2> QED BY <2>1, <2>2, <2>4
<1>5. attempt = Turn(attempt)
  <2>1. \E it : it = Turn(it)
    <3> HIDE DEF Turn, known
    <3> QED BY <1>4
  <2> QED BY <2>1
<1> HIDE DEF Turn
<1>6. attempt[2] = last /\ attempt[1] = first
  <2> HIDE DEF attempt, last, first
  <2>1. attempt[2] = last
    BY <1>2, <1>5
  <2> QED BY <1>3, <1>5, <2>1
<1>7. ExtractObligations(calls, length) = first
  <2> HIDE DEF attempt, first
  <2> QED BY <1>1, <1>6
<1> QED BY <1>7

\* extraction.py: what an extraction returns is one attempt's answer, all of it
\* that cites the text and nothing that does not.
THEOREM ExtractionsCiteTheText ==
  ASSUME NEW A, IsItems(A), NEW B, NEW text \in Seq(B),
         NEW calls, \A a \in 1..Attempts : calls[a] \in Outcomes(A)
  PROVE  ExtractionGrounded(calls, text)
<1> DEFINE length == Len(text)
           Listed(a)    == InLists(calls[a][2])
           Grounded(a) == SplitCited(Listed(a), length)
           result == ExtractObligations(calls, length)
           Cites(i) == /\ i.span[1] >= 0 /\ i.span[1] # i.span[2]
                       /\ Len(PythonSlice(text, i.span)) = i.span[2] - i.span[1]
           Citing(a) == {i \in ToSet(calls[a][2]) : Cites(i)}
           Answered(a) == /\ HasResult(calls[a]) /\ ToSet(result[2]) = Citing(a)
                          /\ result[2] = <<>> => ToSet(calls[a][2]) = {}
<1>1. \A i \in A : IsGrounded(i.span, length) <=> Cites(i)
  BY SliceIsSpan DEF IsItems
<1>2. ASSUME NEW a \in 1..Attempts, HasResult(calls[a])
      PROVE  /\ calls[a][2] \in Seq(A) /\ Listed(a) \in Seq(A) /\ Grounded(a) \in Seq(A)
             /\ ToSet(Listed(a)) = ToSet(calls[a][2])
             /\ ToSet(Grounded(a)) = {i \in ToSet(calls[a][2]) : IsGrounded(i.span, length)}
  <2>1. calls[a][2] \in Seq(A)
    BY <1>2 DEF Outcomes, HasResult, Result
  <2>2. length \in Nat
    OBVIOUS
  <2>3. Listed(a) \in Seq(A) /\ ToSet(Listed(a)) = ToSet(calls[a][2])
    BY <2>1, ListsHoldItems
  <2> HIDE DEF length, Listed
  <2>4. /\ Grounded(a) \in Seq(A)
        /\ ToSet(Grounded(a)) = {i \in ToSet(Listed(a)) : IsGrounded(i.span, length)}
    BY <2>2, <2>3, SplitKeepsGrounded
  <2> QED BY <2>1, <2>3, <2>4
<1>3. ASSUME NEW a \in 1..Attempts, HasResult(calls[a]),
             \/ Grounded(a) = Listed(a) /\ result = Result(Listed(a))
             \/ Grounded(a) # <<>> /\ result = Result(Grounded(a))
      PROVE  Answered(a)
  <2>1. result[2] = Grounded(a)
    BY <1>3 DEF Result
  <2>2. Grounded(a) = <<>> => ToSet(calls[a][2]) = {}
    <3>1. Grounded(a) = <<>> => Listed(a) = <<>>
      BY <1>3
    <3>2. Listed(a) = <<>> => ToSet(Listed(a)) = {}
      BY DEF ToSet
    <3> QED BY <1>2, <1>3, <3>1, <3>2
  <2>3. ToSet(calls[a][2]) \subseteq A
    BY <1>2, <1>3 DEF ToSet
  <2>4. {i \in ToSet(calls[a][2]) : IsGrounded(i.span, length)} = {i \in ToSet(calls[a][2]) : Cites(i)}
    <3> HIDE DEF Cites
    <3> QED BY <1>1, <2>3
  <2> QED BY <1>2, <1>3, <2>1, <2>2, <2>4
<1>4. ASSUME HasResult(result) PROVE \E a \in 1..Attempts : Answered(a)
  <2> HIDE DEF Answered, Listed, Grounded, result
  <2>1. \/ HasResult(calls[1]) /\ Grounded(1) = Listed(1) /\ result = Result(Listed(1))
        \/ HasResult(calls[2]) /\ Grounded(2) = Listed(2) /\ result = Result(Listed(2))
        \/ HasResult(calls[2]) /\ Grounded(2) # <<>> /\ result = Result(Grounded(2))
    BY <1>4, ExtractionByAttempts DEF HasResult, Listed, Grounded, result
  <2> QED BY <1>3, <2>1 DEF Attempts
<1>5. ASSUME NEW a, Answered(a) PROVE \A i \in ToSet(result[2]) : Cites(i)
  <2> HIDE DEF result, Citing, Cites
  <2>1. ToSet(result[2]) = Citing(a)
    BY <1>5
  <2> QED BY <2>1 DEF Citing
<1>6. HasResult(result) => (\A i \in ToSet(result[2]) : Cites(i)) /\ \E a \in 1..Attempts : Answered(a)
  <2> HIDE DEF result, Cites, Answered
  <2> QED BY <1>4, <1>5
<1>7. HasResult(result) =>
        /\ \A i \in ToSet(result[2]) : Cites(i)
        /\ \E a \in 1..Attempts : HasResult(calls[a]) /\
             LET items == ToSet(calls[a][2])
             IN /\ ToSet(result[2]) = {i \in items : Cites(i)}
                /\ result[2] = <<>> => items = {}
  <2> HIDE DEF result, Cites
  <2> QED BY <1>6
<1> QED BY ONLY <1>7 DEF ExtractionGrounded

-----------------------------------------------------------------------------
(* Changes between versions (diffing.py)                                   *)

Section(K)     == [key : K, span : (Nat \X Nat)]
\* Sections of a version: one behind the other.
IsSections(s, K) ==
  /\ s \in Seq(Section(K))
  /\ \A i, j \in DOMAIN s : i < j => s[i].span[1] < s[j].span[1]

\* Occurrences of a key count up, and leave no number out.
LEMMA OccurrencesCount ==
  ASSUME NEW K, NEW s, IsSections(s, K), NEW i \in DOMAIN s
  PROVE  /\ Occurrence(s, i) \in 1..i
         /\ \A j \in DOMAIN s : s[j].key = s[i].key /\ j < i => Occurrence(s, j) < Occurrence(s, i)
         /\ \A m \in 1..Occurrence(s, i) : \E j \in 1..i :
              s[j].key = s[i].key /\ Occurrence(s, j) = m
<1> DEFINE Same(j) == {l \in 1..j : s[l].key = s[j].key}
           Q == Same(i)
<1>1. DOMAIN s = 1..Len(s) /\ Len(s) \in Nat /\ i \in Nat
  BY DEF IsSections
<1>2. ASSUME NEW j \in DOMAIN s
      PROVE  /\ Occurrence(s, j) = Cardinality(Same(j)) /\ IsFiniteSet(Same(j))
             /\ Cardinality(Same(j)) \in 1..j /\ j \in Same(j)
             /\ Occurrence(s, j) \in Nat
  <2>1. j \in Nat /\ j >= 1 /\ j \in Same(j) /\ Same(j) \in SUBSET (1..j)
    BY <1>1
  <2>2. IsFiniteSet(1..j) /\ Cardinality(1..j) = j
    BY <2>1, FS_Interval
  <2>3. IsFiniteSet(Same(j)) /\ Cardinality(Same(j)) <= j
    <3> DEFINE I == 1..j
    <3>1. IsFiniteSet(I) /\ Cardinality(I) = j /\ Same(j) \in SUBSET I
      BY <2>1, <2>2
    <3> HIDE DEF I, Same
    <3> QED BY <3>1, FS_Subset
  <2>4. Cardinality(Same(j)) \in Nat /\ Cardinality(Same(j)) # 0
    <3> HIDE DEF Same
    <3> QED BY <2>1, <2>3, FS_CardinalityType, FS_EmptySet
  <2>5. Occurrence(s, j) = Cardinality(Same(j))
    BY DEF Occurrence
  <2> HIDE DEF Same
  <2> QED BY <2>1, <2>3, <2>4, <2>5
<1>3. ASSUME NEW j \in DOMAIN s, NEW k \in DOMAIN s, s[j].key = s[k].key, j < k
      PROVE  Occurrence(s, j) < Occurrence(s, k)
  <2>1. Same(j) \in SUBSET Same(k) /\ k \in Same(k) /\ k \notin Same(j)
    BY <1>1, <1>3
  <2>2. Cardinality(Same(j)) <= Cardinality(Same(k)) /\ (Cardinality(Same(k)) = Cardinality(Same(j)) => Same(k) = Same(j))
    <3> HIDE DEF Same
    <3> QED BY <1>2, <2>1, FS_Subset
  <2> HIDE DEF Same
  <2>3. Cardinality(Same(j)) # Cardinality(Same(k))
    BY <2>1, <2>2
  <2>4. Cardinality(Same(j)) \in Int /\ Cardinality(Same(k)) \in Int
    BY <1>1, <1>2
  <2> QED BY <1>2, <2>2, <2>3, <2>4
<1>4. ASSUME NEW m \in 1..Occurrence(s, i)
      PROVE  \E j \in 1..i : s[j].key = s[i].key /\ Occurrence(s, j) = m
  <2> DEFINE c == Cardinality(Q)
             occ == [j \in Q |-> Occurrence(s, j)]
             C == 1..c
  <2>1. IsFiniteSet(Q) /\ c \in Nat /\ c = Occurrence(s, i)
    <3> HIDE DEF Same
    <3> QED BY <1>2
  <2>2. IsFiniteSet(C) /\ Cardinality(C) = c
    BY <2>1, FS_Interval
  <2>3. Q \subseteq DOMAIN s /\ \A j \in Q : j \in 1..i /\ s[j].key = s[i].key
    BY <1>1
  <2>4. ASSUME NEW j \in Q PROVE occ[j] \in C
    <3>1. Same(j) \in SUBSET Same(i) /\ j \in DOMAIN s
      BY <1>1, <2>3
    <3>2. Cardinality(Same(j)) <= Cardinality(Same(i))
      <4> HIDE DEF Same
      <4> QED BY <1>2, <3>1, FS_Subset
    <3>3. Cardinality(Same(j)) \in 1..j /\ j \in Nat /\ occ[j] = Cardinality(Same(j))
      <4> HIDE DEF Same
      <4> QED BY <1>2, <3>1, <1>1
    <3> HIDE DEF Same, occ
    <3> QED BY <2>1, <3>2, <3>3
  <2>5. ASSUME NEW j \in Q, NEW k \in Q, occ[j] = occ[k] PROVE j = k
    <3>1. j \in DOMAIN s /\ k \in DOMAIN s /\ s[j].key = s[k].key
      BY <2>3
    <3>2. Occurrence(s, j) = Occurrence(s, k)
      BY <2>5
    <3>3. Occurrence(s, j) \in Int /\ Occurrence(s, k) \in Int
      <4> HIDE DEF Same
      <4> QED BY <1>2, <3>1
    <3> HIDE DEF Same, occ
    <3> QED BY <1>1, <1>3, <3>1, <3>2, <3>3
  <2>6. occ \in Injection(Q, C)
    <3> HIDE DEF C, Q
    <3>1. occ \in [Q -> C]
      BY <2>4
    <3> HIDE DEF occ
    <3> QED BY <3>1, <2>5 DEF Injection, IsInjective
  <2>7. occ \in Surjection(Q, C)
    <3> HIDE DEF C, Q, occ
    <3> QED BY <2>1, <2>2, <2>6, FS_Injection DEF c
  <2>8. m \in C
    BY <2>1
  <2>9. PICK j \in Q : occ[j] = m
    <3> HIDE DEF C, Q, occ
    <3> QED BY <2>7, <2>8 DEF Surjection
  <2> QED BY <2>3, <2>9
<1> HIDE DEF Same, Q
<1> QED BY <1>2, <1>3, <1>4

\* Counterparts are mutual, there is one at most, and where the other version
\* has a later occurrence it has this one too.
LEMMA CounterpartsPair ==
  ASSUME NEW K, NEW s, NEW t, IsSections(s, K), IsSections(t, K), NEW i \in DOMAIN s
  PROVE  /\ \A j \in DOMAIN t : j \in Counterparts(s, i, t) <=> i \in Counterparts(t, j, s)
         /\ \A j, k \in Counterparts(s, i, t) : j = k
         /\ \A j \in DOMAIN t : t[j].key = s[i].key /\ Occurrence(t, j) >= Occurrence(s, i) =>
              \E k \in Counterparts(s, i, t) : k <= j
<1>1. /\ DOMAIN s = 1..Len(s) /\ Len(s) \in Nat /\ DOMAIN t = 1..Len(t) /\ Len(t) \in Nat
  BY DEF IsSections
<1>2. ASSUME NEW j \in DOMAIN t PROVE j \in Counterparts(s, i, t) <=> i \in Counterparts(t, j, s)
  BY DEF Counterparts
<1>3. ASSUME NEW j \in Counterparts(s, i, t), NEW k \in Counterparts(s, i, t) PROVE j = k
  <2>1. j \in DOMAIN t /\ k \in DOMAIN t /\ t[j].key = t[k].key /\ Occurrence(t, j) = Occurrence(t, k)
    BY DEF Counterparts
  <2>2. Occurrence(t, j) \in Int /\ Occurrence(t, k) \in Int
    BY <1>1, <2>1, OccurrencesCount
  <2>3. ~ (j < k) /\ ~ (k < j)
    BY <2>1, <2>2, OccurrencesCount
  <2> QED BY <1>1, <2>1, <2>3
<1>4. ASSUME NEW j \in DOMAIN t, t[j].key = s[i].key, Occurrence(t, j) >= Occurrence(s, i)
      PROVE  \E k \in Counterparts(s, i, t) : k <= j
  <2>1. Occurrence(s, i) \in 1..i /\ Occurrence(t, j) \in 1..j
    BY OccurrencesCount
  <2>2. Occurrence(s, i) \in 1..Occurrence(t, j)
    BY <1>1, <1>4, <2>1
  <2>3. PICK k \in 1..j : t[k].key = t[j].key /\ Occurrence(t, k) = Occurrence(s, i)
    BY <2>2, OccurrencesCount
  <2>4. k \in DOMAIN t /\ k <= j
    BY <1>1, <2>3
  <2> QED BY <1>4, <2>3, <2>4 DEF Counterparts
<1> QED BY <1>2, <1>3, <1>4

\* The amended sections that the first k base sections are aligned with.
Aligned(b, a, k) == {j \in DOMAIN a : \E i \in 1..k : j \in Counterparts(b, i, a)}

\* detect_changes: with those consumed, the next section's match is its
\* counterpart.
LEMMA MatchIsCounterpart ==
  ASSUME NEW K, NEW b, NEW a, IsSections(b, K), IsSections(a, K), NEW k \in DOMAIN b
  PROVE  /\ Match(b[k], a, Aligned(b, a, k - 1)) = Counterparts(b, k, a)
         /\ Aligned(b, a, k) = Aligned(b, a, k - 1) \cup Counterparts(b, k, a)
<1> DEFINE open == {j \in DOMAIN a \ Aligned(b, a, k - 1) : a[j].key = b[k].key}
<1>1. /\ DOMAIN b = 1..Len(b) /\ Len(b) \in Nat /\ DOMAIN a = 1..Len(a) /\ Len(a) \in Nat
  BY DEF IsSections
<1>2. ASSUME NEW j \in DOMAIN a, a[j].key = b[k].key
      PROVE  j \in open <=> Occurrence(a, j) >= Occurrence(b, k)
  <2>1. Occurrence(a, j) \in Nat /\ Occurrence(b, k) \in Nat
    BY <1>1, OccurrencesCount
  <2>2. ASSUME Occurrence(a, j) < Occurrence(b, k) PROVE j \in Aligned(b, a, k - 1)
    <3>1. PICK i \in 1..k : b[i].key = b[k].key /\ Occurrence(b, i) = Occurrence(a, j)
      <4>1. Occurrence(a, j) \in 1..Occurrence(b, k)
        BY <1>1, <2>1, <2>2, OccurrencesCount
      <4> QED BY <4>1, OccurrencesCount
    <3>2. i # k /\ i \in 1..(k - 1)
      BY <1>1, <2>1, <2>2, <3>1
    <3>3. j \in Counterparts(b, i, a)
      BY <1>2, <3>1 DEF Counterparts
    <3> QED BY <3>2, <3>3 DEF Aligned
  <2>3. ASSUME j \in Aligned(b, a, k - 1) PROVE Occurrence(a, j) < Occurrence(b, k)
    <3>1. PICK i \in 1..(k - 1) : j \in Counterparts(b, i, a)
      BY <2>3 DEF Aligned
    <3>2. i \in DOMAIN b /\ i < k /\ b[i].key = b[k].key /\ Occurrence(a, j) = Occurrence(b, i)
      BY <1>1, <1>2, <3>1 DEF Counterparts
    <3> QED BY <3>2, OccurrencesCount
  <2> QED BY <1>2, <2>1, <2>2, <2>3
<1>3. Match(b[k], a, Aligned(b, a, k - 1)) = {i \in open : \A j \in open : i <= j}
  BY DEF Match
<1>4. open \subseteq DOMAIN a /\ \A j \in open : a[j].key = b[k].key
  OBVIOUS
<1> HIDE DEF open
<1>5. ASSUME NEW i \in Counterparts(b, k, a) PROVE i \in open /\ \A j \in open : i <= j
  <2>1. i \in DOMAIN a /\ a[i].key = b[k].key /\ Occurrence(a, i) = Occurrence(b, k)
    BY DEF Counterparts
  <2>2. Occurrence(b, k) \in Nat
    BY <1>1, OccurrencesCount
  <2>3. i \in open
    BY <1>2, <2>1, <2>2
  <2>4. ASSUME NEW j \in open PROVE i <= j
    <3>1. \E m \in Counterparts(b, k, a) : m <= j
      BY <1>2, <1>4, CounterpartsPair
    <3> QED BY <3>1, CounterpartsPair
  <2> QED BY <2>3, <2>4
<1>6. ASSUME NEW i \in open, \A j \in open : i <= j PROVE i \in Counterparts(b, k, a)
  <2>1. PICK m \in Counterparts(b, k, a) : m <= i
    BY <1>2, <1>4, CounterpartsPair
  <2>2. m \in open /\ i <= m /\ m \in DOMAIN a
    BY <1>5, <1>6, <2>1, <1>4
  <2>3. i = m
    BY <1>1, <1>4, <2>1, <2>2
  <2> QED BY <2>3
<1>7. Match(b[k], a, Aligned(b, a, k - 1)) = Counterparts(b, k, a)
  BY <1>3, <1>5, <1>6
<1>8. Aligned(b, a, k) = Aligned(b, a, k - 1) \cup Counterparts(b, k, a)
  <2>1. k \in Nat /\ k >= 1 /\ 1..k = (1..(k - 1)) \cup {k}
    BY <1>1
  <2>2. Counterparts(b, k, a) \subseteq DOMAIN a
    BY DEF Counterparts
  <2> QED BY <2>1, <2>2 DEF Aligned
<1> QED BY <1>7, <1>8

\* What the loop of detect_changes keeps: changes, and the sections consumed.
Span       == (Nat \X Nat) \cup {NoSpan}
Changed(K) == [kind : {"removed", "modified"}, clause : K, base : Span, amended : Span]
Findings(K, a) == [changes : Seq(Changed(K)), consumed : SUBSET (DOMAIN a)]
NothingFound   == [changes |-> <<>>, consumed |-> {}]
\* The loop itself.
AlignAll(base, amended) ==
  FoldLeft(LAMBDA found, section : Align(base, amended, found, section),
           [changes |-> <<>>, consumed |-> {}], Sections(base))
\* What it has found after each base section.
AlignmentRun(base, amended, f) ==
  /\ f[0] = NothingFound /\ f[Len(Sections(base))] = AlignAll(base, amended)
  /\ \A k \in 1..Len(Sections(base)) : f[k] = Align(base, amended, f[k - 1], Sections(base)[k])

\* detect_changes: a turn of the loop finds changes, whatever it found before.
LEMMA AlignFinds ==
  ASSUME NEW K, NEW base, NEW amended, IsSections(Sections(amended), K),
         NEW section \in Section(K), NEW found \in Findings(K, Sections(amended))
  PROVE  Align(base, amended, found, section) \in Findings(K, Sections(amended))
<1> DEFINE others == Sections(amended)
           match  == Match(section, others, found.consumed)
           other  == others[CHOOSE i \in match : TRUE]
<1>1. match \subseteq DOMAIN others
  BY DEF Match
<1>2. found.changes \in Seq(Changed(K)) /\ found.consumed \subseteq DOMAIN others
  BY DEF Findings
<1>3. section.key \in K /\ section.span \in Span
  BY DEF Section, Span
<1> HIDE DEF others, match
<1>4. CASE match = {}
  <2> DEFINE c == Change("removed", section.key, section.span, NoSpan)
  <2>1. c \in Changed(K)
    BY <1>3 DEF Changed, Change, Span
  <2>2. Append(found.changes, c) \in Seq(Changed(K))
    <3> HIDE DEF c
    <3> QED BY <1>2, <2>1
  <2>3. Align(base, amended, found, section) = [found EXCEPT !.changes = Append(@, c)]
    BY <1>4 DEF Align, match, others
  <2> HIDE DEF c
  <2> QED BY <2>2, <2>3 DEF Findings
<1>5. CASE match # {}
  <2> DEFINE c == Change("modified", section.key, section.span, other.span)
             changes == IF Wording(base, section) = Wording(amended, other)
                        THEN found.changes ELSE Append(found.changes, c)
  <2>1. (CHOOSE i \in match : TRUE) \in DOMAIN others
    BY <1>1, <1>5
  <2>2. other \in Section(K)
    BY <2>1 DEF IsSections, others
  <2>3. c \in Changed(K)
    BY <1>3, <2>2 DEF Changed, Change, Span, Section
  <2>4. changes \in Seq(Changed(K))
    <3> HIDE DEF c
    <3> QED BY <1>2, <2>3
  <2>5. Align(base, amended, found, section)
          = [consumed |-> found.consumed \cup match, changes |-> changes]
    BY <1>5 DEF Align, match, others
  <2> HIDE DEF changes
  <2> QED BY <1>1, <1>2, <2>4, <2>5 DEF Findings, others
<1> QED BY <1>4, <1>5

\* detect_changes: the loop as the sequence of what it has found after each
\* base section.
LEMMA AlignmentRuns ==
  ASSUME NEW K, NEW base, NEW amended, IsSections(Sections(base), K), IsSections(Sections(amended), K)
  PROVE  \E f : AlignmentRun(base, amended, f)
<1> DEFINE b == Sections(base)
           n == Len(b)
           A == Findings(K, Sections(amended))
           Turn(it) == [T \in SUBSET DOMAIN b |->
                          IF T = {} THEN NothingFound
                          ELSE Align(base, amended, it[T \ {Max(T)}], b[Max(T)])]
           iter == CHOOSE it : it = Turn(it)
           Step == [p \in (1..n) \X A |-> Align(base, amended, p[2], b[p[1]])]
           aligned == AlignAll(base, amended)
           f == [k \in 0..n |-> iter[1..k]]
<1>1. n \in Nat /\ DOMAIN b = 1..n /\ \A i \in 1..n : b[i] \in Section(K)
  <2> HIDE DEF b
  <2> QED BY DEF IsSections, b
<1>2. aligned = iter[DOMAIN b]
  <2> HIDE DEF b
  <2> QED BY DEF AlignAll, FoldLeft, MapThenFoldSet, NothingFound, b
<1> HIDE DEF b, n, iter, aligned
<1>3. NothingFound \in A
  BY DEF NothingFound, Findings
<1>4. Step \in [(1..n) \X A -> A]
  <2>1. ASSUME NEW i \in 1..n, NEW found \in A PROVE Align(base, amended, found, b[i]) \in A
    BY <1>1, AlignFinds
  <2> HIDE DEF A
  <2> QED BY <2>1
<1> HIDE DEF A
<1>5. \E it : it = Turn(it)
  <2>0. PICK it : Iterates(it, n, A, NothingFound, Step)
    <3>1. IsFold(n, A, NothingFound, Step)
      BY <1>1, <1>3, <1>4 DEF IsFold
    <3> QED BY <3>1, FoldIteration
  <2>1. /\ it \in [SUBSET (1..n) -> A]
        /\ \A T \in SUBSET (1..n) :
             it[T] = IF T = {} THEN NothingFound ELSE Step[<<Max(T), it[T \ {Max(T)}]>>]
    BY <2>0 DEF Iterates
  <2>2. ASSUME NEW T \in SUBSET (1..n), T # {}
        PROVE  Step[<<Max(T), it[T \ {Max(T)}]>>] = Align(base, amended, it[T \ {Max(T)}], b[Max(T)])
    <3>1. Max(T) \in 1..n
      BY <1>1, <2>2, PrefixSets
    <3>2. it[T \ {Max(T)}] \in A
      BY <2>1
    <3> QED BY <3>1, <3>2
  <2>3. \A T \in SUBSET (1..n) : it[T] = Turn(it)[T]
    <3> HIDE DEF Step
    <3> QED BY <1>1, <2>1, <2>2
  <2>4. it = [T \in SUBSET (1..n) |-> it[T]]
    BY <2>1
  <2>5. Turn(it) = [T \in SUBSET (1..n) |-> Turn(it)[T]]
    BY <1>1
  <2> HIDE DEF Turn
  <2>6. it = Turn(it)
    BY <2>3, <2>4, <2>5
  <2> QED BY <2>6
<1>6. iter = Turn(iter)
  <2> HIDE DEF Turn
  <2> QED BY <1>5 DEF iter
<1>7. f[0] = NothingFound
  <2>1. iter[{}] = NothingFound
    BY <1>6
  <2> QED BY <1>1, <2>1, PrefixSets
<1>8. ASSUME NEW k \in 1..n PROVE f[k] = Align(base, amended, f[k - 1], b[k])
  <2>1. Max(1..k) = k /\ (1..k) \ {k} = 1..(k - 1)
    BY <1>1, PrefixSets
  <2>a. 1..k # {} /\ 1..k \in SUBSET (1..n)
    BY <1>1, PrefixSets
  <2>2. iter[1..k] = Align(base, amended, iter[1..(k - 1)], b[k])
    BY <1>1, <1>6, <2>1, <2>a
  <2>3. f[k] = iter[1..k] /\ f[k - 1] = iter[1..(k - 1)]
    BY <1>1
  <2> QED BY <2>2, <2>3
<1>9. f[n] = aligned
  BY <1>1, <1>2
<1> HIDE DEF f
<1> QED BY <1>7, <1>8, <1>9 DEF AlignmentRun, aligned, b, n

\* What a base section contributes, by its counterpart alone.
ChangesOf(base, amended, i) ==
  LET b == Sections(base)
      a == Sections(amended)
  IN IF Counterparts(b, i, a) = {}
     THEN {Change("removed", b[i].key, b[i].span, NoSpan)}
     ELSE {Change("modified", b[i].key, b[i].span, a[j].span) :
             j \in {j \in Counterparts(b, i, a) : Wording(base, b[i]) # Wording(amended, a[j])}}

\* The loop after k base sections: consumed are the counterparts, found are the
\* changes of those sections, in their order.
AlignmentInv(base, amended, K, k, found) ==
  LET b == Sections(base)
      a == Sections(amended)
  IN /\ found \in Findings(K, a) /\ found.consumed = Aligned(b, a, k)
     /\ ToSet(found.changes) = UNION {ChangesOf(base, amended, i) : i \in 1..k}
     /\ \A x, y \in DOMAIN found.changes :
          x < y => found.changes[x].base[1] < found.changes[y].base[1]

LEMMA ChangesOfSection ==
  ASSUME NEW K, NEW base, NEW amended, NEW i,
         NEW c \in ChangesOf(base, amended, i)
  PROVE  c.base = Sections(base)[i].span /\ c.kind \in {"removed", "modified"}
BY DEF ChangesOf, Change

\* detect_changes: a turn of the loop.
LEMMA AlignTurn ==
  ASSUME NEW K, NEW base, NEW amended, IsSections(Sections(base), K), IsSections(Sections(amended), K),
         NEW k \in DOMAIN Sections(base), NEW found, AlignmentInv(base, amended, K, k - 1, found)
  PROVE  AlignmentInv(base, amended, K, k, Align(base, amended, found, Sections(base)[k]))
<1> DEFINE b == Sections(base)
           a == Sections(amended)
           next == Align(base, amended, found, b[k])
           match == Counterparts(b, k, a)
<1>1. /\ found \in Findings(K, a) /\ found.changes \in Seq(Changed(K))
      /\ found.consumed = Aligned(b, a, k - 1)
      /\ ToSet(found.changes) = UNION {ChangesOf(base, amended, i) : i \in 1..(k - 1)}
      /\ \A x, y \in DOMAIN found.changes :
           x < y => found.changes[x].base[1] < found.changes[y].base[1]
  BY DEF AlignmentInv, Findings
<1>2. /\ DOMAIN b = 1..Len(b) /\ Len(b) \in Nat /\ DOMAIN a = 1..Len(a) /\ Len(a) \in Nat
      /\ b[k] \in Section(K) /\ k \in Nat /\ 1..k = (1..(k - 1)) \cup {k}
  <2>1. DOMAIN b = 1..Len(b) /\ Len(b) \in Nat /\ DOMAIN a = 1..Len(a) /\ Len(a) \in Nat /\ b[k] \in Section(K)
    BY DEF IsSections
  <2> HIDE DEF b
  <2> QED BY <2>1 DEF b
<1>3. Match(b[k], a, found.consumed) = match /\ Aligned(b, a, k) = found.consumed \cup match
  BY <1>1, MatchIsCounterpart
<1>4. next.consumed = Aligned(b, a, k)
      /\ \/ ChangesOf(base, amended, k) = {} /\ next.changes = found.changes
         \/ \E c \in Changed(K) : /\ ChangesOf(base, amended, k) = {c}
                                  /\ next.changes = Append(found.changes, c)
  <2>1. CASE match = {}
    <3> DEFINE c == Change("removed", b[k].key, b[k].span, NoSpan)
    <3>1. next = [found EXCEPT !.changes = Append(@, c)]
      BY <1>3, <2>1 DEF Align
    <3>2. next.consumed = found.consumed /\ next.changes = Append(found.changes, c)
      <4> HIDE DEF c, next
      <4> QED BY <1>1, <3>1 DEF Findings
    <3>3. ChangesOf(base, amended, k) = {c}
      BY <2>1 DEF ChangesOf
    <3>4. c \in Changed(K)
      BY <1>2 DEF Changed, Change, Span, Section
    <3>5. found.consumed = Aligned(b, a, k)
      BY <1>3, <2>1
    <3> QED BY <3>2, <3>3, <3>4, <3>5
  <2>2. CASE match # {}
    <3> DEFINE j == CHOOSE i \in match : TRUE
               c == Change("modified", b[k].key, b[k].span, a[j].span)
    <3>1. j \in match /\ match = {j} /\ j \in DOMAIN a
      <4>1. j \in match /\ \A i \in match : i = j
        BY <2>2, CounterpartsPair
      <4> QED BY <4>1 DEF Counterparts
    <3>2. next = [consumed |-> found.consumed \cup match,
                  changes  |-> IF Wording(base, b[k]) = Wording(amended, a[j])
                               THEN found.changes ELSE Append(found.changes, c)]
      BY <1>3, <2>2 DEF Align
    <3>3. next.consumed = Aligned(b, a, k)
      BY <1>3, <3>2
    <3>4. ChangesOf(base, amended, k)
            = IF Wording(base, b[k]) = Wording(amended, a[j]) THEN {} ELSE {c}
      <4> HIDE DEF match, j
      <4>1. ChangesOf(base, amended, k)
              = {Change("modified", b[k].key, b[k].span, a[i].span) :
                   i \in {i \in match : Wording(base, b[k]) # Wording(amended, a[i])}}
        BY <2>2 DEF ChangesOf, match
      <4> QED BY <3>1, <4>1
    <3>5. c \in Changed(K)
      <4>1. a[j] \in Section(K)
        BY <3>1 DEF IsSections
      <4> HIDE DEF j
      <4> QED BY <1>2, <4>1 DEF Changed, Change, Span, Section
    <3> HIDE DEF c, j
    <3> QED BY <3>2, <3>3, <3>4, <3>5
  <2> QED BY <2>1, <2>2
<1>a. next \in Findings(K, a)
  BY <1>1, <1>2, AlignFinds
<1> HIDE DEF next, match
<1>5. UNION {ChangesOf(base, amended, i) : i \in 1..k}
        = (UNION {ChangesOf(base, amended, i) : i \in 1..(k - 1)}) \cup ChangesOf(base, amended, k)
  BY <1>2
<1>6. ASSUME ChangesOf(base, amended, k) = {}, next.changes = found.changes
      PROVE  AlignmentInv(base, amended, K, k, next)
  BY <1>1, <1>4, <1>5, <1>6, <1>a DEF AlignmentInv
<1>7. ASSUME NEW c \in Changed(K), ChangesOf(base, amended, k) = {c},
             next.changes = Append(found.changes, c)
      PROVE  AlignmentInv(base, amended, K, k, next)
  <2>1. next.changes \in Seq(Changed(K)) /\ Len(next.changes) = Len(found.changes) + 1
        /\ next.changes[Len(found.changes) + 1] = c
        /\ \A x \in 1..Len(found.changes) : next.changes[x] = found.changes[x]
    BY <1>1, <1>7
  <2>2. ToSet(next.changes) = ToSet(found.changes) \cup {c}
    BY <1>1, <1>7, AppendSet
  <2>3. c.base = b[k].span
    <3>1. c \in ChangesOf(base, amended, k)
      BY <1>7
    <3> QED BY <3>1, ChangesOfSection
  <2>4. ASSUME NEW x \in 1..Len(found.changes) PROVE found.changes[x].base[1] < b[k].span[1]
    <3>1. found.changes[x] \in ToSet(found.changes)
      BY <1>1 DEF ToSet
    <3>2. PICK i \in 1..(k - 1) : found.changes[x] \in ChangesOf(base, amended, i)
      BY <1>1, <3>1
    <3>3. found.changes[x].base = b[i].span
      BY <3>2, ChangesOfSection
    <3>4. i \in DOMAIN b /\ i < k
      BY <1>2
    <3>5. b[i].span[1] < b[k].span[1]
      BY <3>4 DEF IsSections
    <3> QED BY <3>3, <3>5
  <2>5. ASSUME NEW x \in DOMAIN next.changes, NEW y \in DOMAIN next.changes, x < y
        PROVE  next.changes[x].base[1] < next.changes[y].base[1]
    <3>1. x \in 1..Len(found.changes) /\ Len(found.changes) \in Nat /\ DOMAIN found.changes = 1..Len(found.changes)
      BY <1>1, <2>1, <2>5
    <3>2. CASE y \in 1..Len(found.changes)
      BY <1>1, <2>1, <2>5, <3>1, <3>2
    <3>3. CASE y = Len(found.changes) + 1
      BY <2>1, <2>3, <2>4, <3>1, <3>3
    <3> QED BY <2>1, <3>1, <3>2, <3>3
  <2>6. ToSet(next.changes) = UNION {ChangesOf(base, amended, i) : i \in 1..k}
    BY <1>1, <1>5, <1>7, <2>2
  <2> QED BY <1>4, <1>a, <2>5, <2>6 DEF AlignmentInv
<1> QED BY <1>4, <1>6, <1>7 DEF next

\* _sections: each section begins where a paragraph has its key, and only one
\* that begins a version can have none.
KeysOf(version) == {ClauseKey(version[i].line) : i \in DOMAIN version}

LEMMA SectionsInOrder ==
  ASSUME NEW Q, NEW version \in Seq(Q), NEW K, KeysOf(version) \subseteq K
  PROVE  /\ IsSections(Sections(version), K)
         /\ \A k \in DOMAIN Sections(version) :
              LET s == Sections(version)[k]
              IN  /\ s.span[1] \in DOMAIN version /\ s.span[2] \in DOMAIN version
                  /\ s.key = ClauseKey(version[s.span[1]].line)
                  /\ s.key = NoKey => k = 1 /\ s.span[1] = 1
<1> DEFINE V == DOMAIN version
           I == {i \in V : i = 1 \/ ClauseKey(version[i].line) # NoKey}
           starts == Ascending(I)
           n == Cardinality(I)
           S == Sections(version)
           last(k) == IF k < n THEN starts[k + 1] - 1 ELSE Len(version)
<1>1. V = 1..Len(version) /\ Len(version) \in Nat /\ I \in SUBSET V
  OBVIOUS
<1>2. IsFiniteSet(I) /\ I \in SUBSET Int
  <2>1. IsFiniteSet(V)
    BY <1>1, FS_Interval
  <2>2. V \subseteq Int
    BY <1>1
  <2> HIDE DEF I, V
  <2> QED BY <1>1, <2>1, <2>2, FS_Subset
<1>3. /\ n \in Nat /\ starts \in [1..n -> I]
      /\ \A i, j \in 1..n : starts[i] < starts[j] <=> i < j
      /\ \A x \in I : \E k \in 1..n : starts[k] = x
  <2> HIDE DEF I
  <2> QED BY <1>2, AscendingLists
<1>4. S = [k \in 1..n |-> [key  |-> ClauseKey(version[starts[k]].line), span |-> <<starts[k], last(k)>>]]
  <2>1. DOMAIN starts = 1..n /\ Len(starts) = n
    <3> HIDE DEF starts, n, I
    <3> QED BY <1>3
  <2>2. S = [k \in DOMAIN starts |->
               [key  |-> ClauseKey(version[starts[k]].line),
                span |-> <<starts[k], IF k < Len(starts) THEN starts[k + 1] - 1 ELSE Len(version)>>]]
    BY DEF Sections
  <2> HIDE DEF starts, n, I
  <2> QED BY <2>1, <2>2
<1> HIDE DEF starts, n, S
<1>5. ASSUME NEW k \in 1..n PROVE starts[k] \in V /\ starts[k] \in I /\ last(k) \in V
  <2>1. starts[k] \in V /\ starts[k] \in I
    BY <1>1, <1>3
  <2>2. CASE k < n
    <3>1. k + 1 \in 1..n /\ starts[k] < starts[k + 1] /\ starts[k + 1] \in V
      BY <1>1, <1>3, <2>2
    <3> QED BY <1>1, <2>1, <2>2, <3>1
  <2>3. CASE ~ (k < n)
    BY <1>1, <2>1, <2>3
  <2> QED BY <2>1, <2>2, <2>3
<1>6. ASSUME NEW k \in 1..n
      PROVE  /\ S[k].span = <<starts[k], last(k)>> /\ S[k].span[1] = starts[k] /\ S[k].span[2] = last(k)
             /\ S[k].key = ClauseKey(version[starts[k]].line)
             /\ S[k] \in Section(K)
  <2>1. S[k] = [key  |-> ClauseKey(version[starts[k]].line), span |-> <<starts[k], last(k)>>]
    BY <1>4
  <2>2. ClauseKey(version[starts[k]].line) \in K
    BY <1>5 DEF KeysOf
  <2>3. starts[k] \in Nat /\ last(k) \in Nat
    BY <1>1, <1>5
  <2> HIDE DEF last
  <2> QED BY <2>1, <2>2, <2>3 DEF Section
<1>7. S \in Seq(Section(K)) /\ DOMAIN S = 1..n
  BY <1>3, <1>4, <1>6
<1>8. IsSections(S, K)
  <2> HIDE DEF last, I, V
  <2> QED BY <1>3, <1>6, <1>7 DEF IsSections
<1>9. ASSUME NEW k \in 1..n, S[k].key = NoKey PROVE k = 1 /\ starts[k] = 1
  <2>1. starts[k] = 1
    BY <1>5, <1>6, <1>9
  <2>2. k = 1
    <3>1. 1 \in 1..n /\ starts[1] \in V /\ (starts[1] < starts[k] <=> 1 < k)
      BY <1>3, <1>5
    <3> QED BY <1>1, <1>3, <2>1, <3>1
  <2> QED BY <2>1, <2>2
<1>10. ASSUME NEW k \in DOMAIN S
       PROVE  /\ S[k].span[1] \in DOMAIN version /\ S[k].span[2] \in DOMAIN version
              /\ S[k].key = ClauseKey(version[S[k].span[1]].line)
              /\ S[k].key = NoKey => k = 1 /\ S[k].span[1] = 1
  BY <1>5, <1>6, <1>7, <1>9
<1> QED BY <1>8, <1>10 DEF S

\* detect_changes: what the loop has found behind the last base section.
LEMMA AlignmentComplete ==
  ASSUME NEW K, NEW base, NEW amended, IsSections(Sections(base), K), IsSections(Sections(amended), K)
  PROVE  AlignmentInv(base, amended, K, Len(Sections(base)), AlignAll(base, amended))
<1> DEFINE b == Sections(base)
           a == Sections(amended)
           n == Len(b)
           aligned == AlignAll(base, amended)
<1>0. PICK f : AlignmentRun(base, amended, f)
  BY AlignmentRuns
<1>1. /\ f[0] = NothingFound /\ f[n] = aligned
      /\ \A k \in 1..n : f[k] = Align(base, amended, f[k - 1], b[k])
  BY <1>0 DEF AlignmentRun
<1> HIDE DEF aligned
<1> DEFINE T == {k \in Nat : AlignmentInv(base, amended, K, k, f[k])}
<1>2. n \in Nat /\ DOMAIN b = 1..n
  <2> HIDE DEF b
  <2> QED BY DEF IsSections, b
<1>3. 0 \in T
  <2>1. NothingFound \in Findings(K, a) /\ NothingFound.changes = <<>> /\ NothingFound.consumed = {}
    BY DEF NothingFound, Findings
  <2>2. Aligned(b, a, 0) = {}
    BY DEF Aligned
  <2>3. ToSet(NothingFound.changes) = {} /\ DOMAIN NothingFound.changes = {}
    BY <2>1 DEF ToSet
  <2>4. UNION {ChangesOf(base, amended, i) : i \in 1..0} = {}
    OBVIOUS
  <2>5. AlignmentInv(base, amended, K, 0, NothingFound)
    BY <2>1, <2>2, <2>3, <2>4 DEF AlignmentInv
  <2> QED BY <1>1, <2>5
<1>4. ASSUME NEW k \in 0..(n - 1), k \in T PROVE k + 1 \in T
  <2>1. k + 1 \in 1..n /\ (k + 1) - 1 = k /\ k + 1 \in Nat
    BY <1>2
  <2>2. f[k + 1] = Align(base, amended, f[k], b[k + 1])
    BY <1>1, <2>1
  <2>3. AlignmentInv(base, amended, K, (k + 1) - 1, f[k])
    BY <1>4, <2>1
  <2>4. AlignmentInv(base, amended, K, k + 1, f[k + 1])
    <3> HIDE DEF T
    <3> QED BY <1>2, <2>1, <2>2, <2>3, AlignTurn
  <2> QED BY <2>1, <2>4
<1> HIDE DEF T
<1>5. 0..n \subseteq T
  BY <1>2, <1>3, <1>4, Induction
<1>6. AlignmentInv(base, amended, K, n, f[n])
  BY <1>2, <1>5 DEF T
<1> QED BY <1>1, <1>6 DEF aligned

\* diffing.py: the changes are those of the clauses by occurrence of their
\* number, each once, removals and modifications in the order of the base and
\* additions behind them in the order of the amended version.
THEOREM AlignmentByOccurrence ==
  ASSUME NEW Q, NEW base \in Seq(Q), NEW amended \in Seq(Q)
  PROVE  AlignmentIsByOccurrence(base, amended)
<1> DEFINE K == KeysOf(base) \cup KeysOf(amended)
           b == Sections(base)
           a == Sections(amended)
           n == Len(b)
           aligned == AlignAll(base, amended)
           New == DOMAIN a \ aligned.consumed
           added == Ascending(New)
           m == Cardinality(New)
           x == aligned.changes
           y == [k \in DOMAIN added |-> Change("added", a[added[k]].key, NoSpan, a[added[k]].span)]
           changes == DetectChanges(base, amended)
<1>1. IsSections(b, K) /\ IsSections(a, K)
  <2>1. KeysOf(base) \subseteq K /\ KeysOf(amended) \subseteq K
    OBVIOUS
  <2> HIDE DEF K
  <2> QED BY <2>1, SectionsInOrder
<1> HIDE DEF K
<1>2. changes = x \o y
  BY DEF DetectChanges, AlignAll
<1>3. AlignmentInv(base, amended, K, n, aligned)
  BY <1>1, AlignmentComplete
<1> HIDE DEF aligned, changes
<1>4. /\ aligned.consumed = Aligned(b, a, n) /\ x \in Seq(Changed(K))
      /\ ToSet(x) = UNION {ChangesOf(base, amended, i) : i \in 1..n}
      /\ \A i, j \in DOMAIN x : i < j => x[i].base[1] < x[j].base[1]
  BY <1>3 DEF AlignmentInv, Findings
<1>5. /\ DOMAIN b = 1..n /\ n \in Nat /\ DOMAIN a = 1..Len(a) /\ Len(a) \in Nat
      /\ \A i \in DOMAIN b : b[i] \in Section(K)
      /\ \A j \in DOMAIN a : a[j] \in Section(K)
      /\ \A i, j \in DOMAIN a : i < j => a[i].span[1] < a[j].span[1]
  <2> HIDE DEF a, b
  <2> QED BY <1>1 DEF IsSections, n
<1>6. New = {j \in DOMAIN a : Counterparts(a, j, b) = {}}
  <2>1. \A j \in DOMAIN a : j \in Aligned(b, a, n) <=> \E i \in DOMAIN b : j \in Counterparts(b, i, a)
    BY <1>5 DEF Aligned
  <2>2. \A j \in DOMAIN a, i \in DOMAIN b : j \in Counterparts(b, i, a) <=> i \in Counterparts(a, j, b)
    BY <1>1, CounterpartsPair
  <2>3. \A j \in DOMAIN a : Counterparts(a, j, b) \subseteq DOMAIN b
    BY DEF Counterparts
  <2>4. \A j \in DOMAIN a : j \in Aligned(b, a, n) <=> Counterparts(a, j, b) # {}
    BY <2>1, <2>2, <2>3
  <2> HIDE DEF a, b, n
  <2> QED BY <1>4, <2>4
<1> HIDE DEF b, a, n
<1>7. /\ m \in Nat /\ added \in [1..m -> New] /\ New \subseteq DOMAIN a
      /\ \A i, j \in 1..m : added[i] < added[j] <=> i < j
      /\ \A j \in New : \E k \in 1..m : added[k] = j
  <2>1. New \in SUBSET Int /\ New \in SUBSET DOMAIN a /\ IsFiniteSet(DOMAIN a)
    BY <1>5, FS_Interval
  <2> HIDE DEF New
  <2>2. IsFiniteSet(New)
    BY <2>1, FS_Subset
  <2> QED BY <2>1, <2>2, AscendingLists
<1> DEFINE New1(j) == Change("added", a[j].key, NoSpan, a[j].span)
           C == Changed(K) \cup {New1(j) : j \in New}
<1> HIDE DEF New, added, m
<1>8. y \in Seq(C) /\ x \in Seq(C) /\ DOMAIN y = 1..m /\ Len(y) = m
      /\ \A k \in 1..m : y[k] = New1(added[k])
  <2> HIDE DEF New1
  <2>1. y = [k \in 1..m |-> New1(added[k])]
    BY <1>7 DEF New1
  <2>2. \A k \in 1..m : New1(added[k]) \in C
    BY <1>7
  <2>3. x \in Seq(C)
    <3>1. Changed(K) \subseteq C
      OBVIOUS
    <3> HIDE DEF C, x
    <3> QED BY <1>4, <3>1
  <2> HIDE DEF C, y, x
  <2> QED BY <1>7, <2>1, <2>2, <2>3
<1> HIDE DEF x, y, C
<1>9. ToSet(changes) = ToSet(x) \cup {New1(j) : j \in New}
  <2>1. ToSet(y) = {New1(j) : j \in New}
    <3> HIDE DEF New1
    <3>1. ToSet(y) = {y[k] : k \in 1..m}
      BY <1>8 DEF ToSet
    <3>2. ASSUME NEW k \in 1..m PROVE y[k] \in {New1(j) : j \in New}
      BY <1>7, <1>8
    <3>3. ASSUME NEW j \in New PROVE \E k \in 1..m : y[k] = New1(j)
      <4>1. PICK k \in 1..m : added[k] = j
        BY <1>7
      <4> QED BY <1>8, <4>1
    <3> QED BY <3>1, <3>2, <3>3
  <2> QED BY <1>2, <1>8, <2>1, ConcatSets
<1>10. ToSet(x) \cup {New1(j) : j \in New} = ChangesByOccurrence(base, amended)
  <2> DEFINE Removed == {Change("removed", b[i].key, b[i].span, NoSpan) :
                           i \in {i \in DOMAIN b : Counterparts(b, i, a) = {}}}
             Pairs == {p \in (DOMAIN b) \X (DOMAIN a) :
                         /\ p[2] \in Counterparts(b, p[1], a)
                         /\ Wording(base, b[p[1]]) # Wording(amended, a[p[2]])}
             Modified == {Change("modified", b[p[1]].key, b[p[1]].span, a[p[2]].span) : p \in Pairs}
  <2>1. ChangesByOccurrence(base, amended) = Removed \cup {New1(j) : j \in New} \cup Modified
    <3> HIDE DEF New1
    <3>1. {New1(j) : j \in New} = {New1(j) : j \in {j \in DOMAIN a : Counterparts(a, j, b) = {}}}
      BY <1>6
    <3> QED BY <3>1 DEF ChangesByOccurrence, a, b, New1
  <2>2. ASSUME NEW i \in DOMAIN b PROVE ChangesOf(base, amended, i) \subseteq Removed \cup Modified
    <3>1. CASE Counterparts(b, i, a) = {}
      BY <3>1 DEF ChangesOf, a, b
    <3>2. CASE Counterparts(b, i, a) # {}
      <4>1. ASSUME NEW j \in Counterparts(b, i, a), Wording(base, b[i]) # Wording(amended, a[j])
            PROVE  Change("modified", b[i].key, b[i].span, a[j].span) \in Modified
        <5>1. <<i, j>> \in Pairs
          BY <4>1 DEF Counterparts
        <5> HIDE DEF Pairs
        <5> QED BY <5>1
      <4>2. ChangesOf(base, amended, i) =
              {Change("modified", b[i].key, b[i].span, a[j].span) :
                 j \in {j \in Counterparts(b, i, a) : Wording(base, b[i]) # Wording(amended, a[j])}}
        BY <3>2 DEF ChangesOf, a, b
      <4> HIDE DEF Modified
      <4> QED BY <4>1, <4>2
    <3> QED BY <3>1, <3>2
  <2>3. Removed \subseteq UNION {ChangesOf(base, amended, i) : i \in 1..n}
    <3>1. \A i \in DOMAIN b : Counterparts(b, i, a) = {} =>
            ChangesOf(base, amended, i) = {Change("removed", b[i].key, b[i].span, NoSpan)}
      BY DEF ChangesOf, a, b
    <3> QED BY <1>5, <3>1
  <2>4. Modified \subseteq UNION {ChangesOf(base, amended, i) : i \in 1..n}
    <3>1. ASSUME NEW p \in Pairs
          PROVE  Change("modified", b[p[1]].key, b[p[1]].span, a[p[2]].span) \in ChangesOf(base, amended, p[1])
      <4>1. Counterparts(b, p[1], a) # {}
        OBVIOUS
      <4> QED BY <4>1 DEF ChangesOf, a, b
    <3>2. \A p \in Pairs : p[1] \in 1..n
      BY <1>5
    <3> HIDE DEF Pairs
    <3> QED BY <3>1, <3>2
  <2> HIDE DEF Removed, Modified, New1
  <2> QED BY <1>4, <1>5, <2>1, <2>2, <2>3, <2>4
<1>11. /\ DOMAIN changes = 1..(Len(x) + m) /\ Len(x) \in Nat /\ DOMAIN x = 1..Len(x)
       /\ \A i \in 1..Len(x) : changes[i] = x[i]
       /\ \A i \in 1..(Len(x) + m) : i > Len(x) =>
            i - Len(x) \in 1..m /\ changes[i] = New1(added[i - Len(x)])
  <2>1. DOMAIN x = 1..Len(x) /\ Len(x) \in Nat
    BY <1>8
  <2>2. /\ DOMAIN changes = 1..(Len(x) + m)
        /\ \A i \in 1..Len(x) : changes[i] = x[i]
        /\ \A i \in 1..(Len(x) + m) : i > Len(x) => changes[i] = y[i - Len(x)]
    BY <1>2, <1>7, <1>8
  <2>3. \A i \in 1..(Len(x) + m) : i > Len(x) => i - Len(x) \in 1..m
    BY <1>7, <2>1
  <2> HIDE DEF New1
  <2> QED BY <1>8, <2>1, <2>2, <2>3
<1>12. \A i \in 1..Len(x) : x[i].kind # "added"
  <2>1. ASSUME NEW i \in 1..Len(x) PROVE x[i].kind # "added"
    <3>1. x[i] \in ToSet(x)
      BY <1>11 DEF ToSet
    <3>2. PICK k \in 1..n : x[i] \in ChangesOf(base, amended, k)
      BY <1>4, <3>1
    <3> QED BY <3>2, ChangesOfSection
  <2> QED BY <2>1
<1>13. \A k \in 1..m : /\ New1(added[k]).kind = "added"
                       /\ New1(added[k]).amended[1] = a[added[k]].span[1]
  BY DEF Change
<1> DEFINE rank(c) == IF c.kind = "added" THEN <<2, c.amended[1]>> ELSE <<1, c.base[1]>>
<1>14. ASSUME NEW i \in DOMAIN changes, NEW j \in DOMAIN changes, i < j
       PROVE  LET p == rank(changes[i])
                  q == rank(changes[j])
              IN  p[1] < q[1] \/ (p[1] = q[1] /\ p[2] < q[2])
  <2> HIDE DEF New1
  <2>1. i \in Int /\ j \in Int /\ Len(x) \in Int
    BY <1>7, <1>11
  <2>2. CASE j <= Len(x)
    <3>1. i \in DOMAIN x /\ j \in DOMAIN x
      BY <1>7, <1>11, <1>14, <2>1, <2>2
    <3>2. x[i].base[1] < x[j].base[1]
      BY <1>4, <1>14, <3>1
    <3>3. rank(changes[i]) = <<1, x[i].base[1]>> /\ rank(changes[j]) = <<1, x[j].base[1]>>
      BY <1>11, <1>12, <3>1
    <3> QED BY <3>2, <3>3
  <2>3. CASE i <= Len(x) /\ j > Len(x)
    <3>1. rank(changes[i]) = <<1, x[i].base[1]>>
      BY <1>11, <1>12, <2>1, <2>3
    <3>2. changes[j].kind = "added"
      BY <1>11, <1>13, <2>3
    <3> QED BY <3>1, <3>2
  <2>4. CASE i > Len(x)
    <3> DEFINE k == i - Len(x)
               l == j - Len(x)
    <3>1. k \in 1..m /\ l \in 1..m /\ k < l /\ changes[i] = New1(added[k]) /\ changes[j] = New1(added[l])
      BY <1>11, <1>14, <2>1, <2>4
    <3>2. added[k] \in DOMAIN a /\ added[l] \in DOMAIN a /\ added[k] < added[l]
      BY <1>7, <3>1
    <3>3. a[added[k]].span[1] < a[added[l]].span[1]
      BY <1>5, <3>2
    <3> QED BY <1>13, <3>1, <3>3
  <2> QED BY <2>1, <2>2, <2>3, <2>4, <1>14
<1> HIDE DEF rank, New1
<1>15. ToSet(changes) = ChangesByOccurrence(base, amended)
  BY <1>9, <1>10
<1> QED BY <1>14, <1>15 DEF AlignmentIsByOccurrence, changes, rank

\* A change read backwards is a change of the versions read backwards.
LEMMA ChangeReverses ==
  ASSUME NEW K, NEW base, NEW amended, IsSections(Sections(base), K), IsSections(Sections(amended), K),
         NEW c \in ChangesByOccurrence(base, amended)
  PROVE  Reversed(c) \in ChangesByOccurrence(amended, base) /\ Reversed(Reversed(c)) = c
<1> DEFINE b == Sections(base)
           a == Sections(amended)
<1>1. CASE \E i \in DOMAIN b : Counterparts(b, i, a) = {} /\ c = Change("removed", b[i].key, b[i].span, NoSpan)
  <2>1. PICK i \in DOMAIN b : Counterparts(b, i, a) = {} /\ c = Change("removed", b[i].key, b[i].span, NoSpan)
    BY <1>1
  <2>2. Reversed(c) = Change("added", b[i].key, NoSpan, b[i].span) /\ Reversed(Reversed(c)) = c
    BY <2>1 DEF Reversed, Change
  <2> QED BY <2>1, <2>2 DEF ChangesByOccurrence
<1>2. CASE \E j \in DOMAIN a : Counterparts(a, j, b) = {} /\ c = Change("added", a[j].key, NoSpan, a[j].span)
  <2>1. PICK j \in DOMAIN a : Counterparts(a, j, b) = {} /\ c = Change("added", a[j].key, NoSpan, a[j].span)
    BY <1>2
  <2>2. Reversed(c) = Change("removed", a[j].key, a[j].span, NoSpan) /\ Reversed(Reversed(c)) = c
    BY <2>1 DEF Reversed, Change
  <2> QED BY <2>1, <2>2 DEF ChangesByOccurrence
<1>3. CASE \E i \in DOMAIN b, j \in DOMAIN a :
             /\ j \in Counterparts(b, i, a) /\ Wording(base, b[i]) # Wording(amended, a[j])
             /\ c = Change("modified", b[i].key, b[i].span, a[j].span)
  <2>1. PICK i \in DOMAIN b, j \in DOMAIN a :
             /\ j \in Counterparts(b, i, a) /\ Wording(base, b[i]) # Wording(amended, a[j])
             /\ c = Change("modified", b[i].key, b[i].span, a[j].span)
    BY <1>3
  <2>2. i \in Counterparts(a, j, b) /\ a[j].key = b[i].key
    BY <2>1, CounterpartsPair DEF Counterparts
  <2>3. Reversed(c) = Change("modified", a[j].key, a[j].span, b[i].span) /\ Reversed(Reversed(c)) = c
    BY <2>1, <2>2 DEF Reversed, Change
  <2> DEFINE p == <<j, i>>
  <2>4. p \in (DOMAIN a) \X (DOMAIN b) /\ p[1] = j /\ p[2] = i
    OBVIOUS
  <2> HIDE DEF p
  <2> QED BY <2>1, <2>2, <2>3, <2>4 DEF ChangesByOccurrence
<1> QED BY <1>1, <1>2, <1>3 DEF ChangesByOccurrence

\* diffing.py: read backwards, additions are removals and the rest is the same.
THEOREM DiffsMirror ==
  ASSUME NEW Q, NEW base \in Seq(Q), NEW amended \in Seq(Q)
  PROVE  DiffMirrors(base, amended)
<1> DEFINE K == KeysOf(base) \cup KeysOf(amended)
           There == ChangesByOccurrence(base, amended)
           Back  == ChangesByOccurrence(amended, base)
<1>1. IsSections(Sections(base), K) /\ IsSections(Sections(amended), K)
  <2>1. KeysOf(base) \subseteq K /\ KeysOf(amended) \subseteq K
    OBVIOUS
  <2> HIDE DEF K
  <2> QED BY <2>1, SectionsInOrder
<1>2. ToSet(DetectChanges(base, amended)) = There /\ ToSet(DetectChanges(amended, base)) = Back
  BY AlignmentByOccurrence DEF AlignmentIsByOccurrence
<1> HIDE DEF K
<1>3. \A c \in There : Reversed(c) \in Back
  BY <1>1, ChangeReverses
<1>4. \A d \in Back : Reversed(d) \in There /\ Reversed(Reversed(d)) = d
  BY <1>1, ChangeReverses
<1> HIDE DEF There, Back
<1>5. {Reversed(c) : c \in There} = Back
  BY <1>3, <1>4
<1> QED BY <1>2, <1>5 DEF DiffMirrors

\* diffing.py: only the preamble has no number, and no number is both removed
\* and added, however it is written.
THEOREM NumbersAreKept ==
  ASSUME NEW Q, NEW base \in Seq(Q), NEW amended \in Seq(Q)
  PROVE  ClausesKeepTheirNumber(base, amended)
<1> DEFINE K == KeysOf(base) \cup KeysOf(amended)
           b == Sections(base)
           a == Sections(amended)
           changes == ToSet(DetectChanges(base, amended))
           Opens(version, s) == /\ s.span[1] \in DOMAIN version /\ s.span[2] \in DOMAIN version
                                /\ s.key = ClauseKey(version[s.span[1]].line)
                                /\ s.key = NoKey => s.span[1] = 1
<1>1. /\ IsSections(b, K) /\ IsSections(a, K)
      /\ \A i \in DOMAIN b : Opens(base, b[i])
      /\ \A j \in DOMAIN a : Opens(amended, a[j])
  <2>1. KeysOf(base) \subseteq K /\ KeysOf(amended) \subseteq K
    OBVIOUS
  <2> HIDE DEF K
  <2> QED BY <2>1, SectionsInOrder
<1>2. changes = ChangesByOccurrence(base, amended)
  BY AlignmentByOccurrence DEF AlignmentIsByOccurrence
<1> HIDE DEF K, changes
<1>3. ASSUME NEW c \in changes
      PROVE  \/ c.kind = "removed" /\ \E i \in DOMAIN b : 
                  Counterparts(b, i, a) = {} /\ c.base = b[i].span /\ c.clause = b[i].key
             \/ c.kind = "added" /\ c.base = NoSpan /\ \E j \in DOMAIN a : 
                  Counterparts(a, j, b) = {} /\ c.amended = a[j].span /\ c.clause = a[j].key
             \/ c.kind = "modified" /\ \E i \in DOMAIN b : c.base = b[i].span /\ c.clause = b[i].key
  BY <1>2 DEF ChangesByOccurrence, Change
<1>4. \A i \in DOMAIN b : b[i] \in Section(K)
  BY <1>1 DEF IsSections
<1> HIDE DEF a, b
<1>5. ASSUME NEW c \in changes, c.clause = NoKey
      PROVE  c.base \in {NoSpan} \cup {<<1, n>> : n \in DOMAIN base}
  <2>1. CASE c.base = NoSpan
    BY <2>1
  <2>2. ASSUME NEW i \in DOMAIN b, c.base = b[i].span, c.clause = b[i].key
        PROVE  c.base \in {<<1, n>> : n \in DOMAIN base}
    <3>1. b[i].span = <<b[i].span[1], b[i].span[2]>>
      BY <1>4 DEF Section
    <3>2. b[i].span[1] = 1 /\ b[i].span[2] \in DOMAIN base
      BY <1>1, <1>5, <2>2
    <3> QED BY <2>2, <3>1, <3>2
  <2> QED BY <1>3, <2>1, <2>2
<1>6. ASSUME NEW c \in changes, NEW d \in changes, c.kind = "removed", d.kind = "added",
             SameNumber(base[c.base[1]].line, amended[d.amended[1]].line)
      PROVE  FALSE
  <2>1. PICK i \in DOMAIN b : Counterparts(b, i, a) = {} /\ c.base = b[i].span
    BY <1>3, <1>6
  <2>2. PICK j \in DOMAIN a : Counterparts(a, j, b) = {} /\ d.amended = a[j].span
    BY <1>3, <1>6
  <2>3. b[i].key = a[j].key
    BY <1>1, <1>6, <2>1, <2>2 DEF SameNumber, ClauseKey
  <2>4. Occurrence(b, i) \in Nat /\ Occurrence(a, j) \in Nat
    <3>1. Occurrence(b, i) \in 1..i /\ Occurrence(a, j) \in 1..j
      BY <1>1, OccurrencesCount
    <3> QED BY <3>1
  <2>5. ~ (Occurrence(a, j) >= Occurrence(b, i))
    BY <1>1, <2>1, <2>3, CounterpartsPair
  <2>6. ~ (Occurrence(b, i) >= Occurrence(a, j))
    BY <1>1, <2>2, <2>3, CounterpartsPair
  <2> QED BY <2>4, <2>5, <2>6
<1> QED BY <1>5, <1>6 DEF ClausesKeepTheirNumber, changes

-----------------------------------------------------------------------------
(* Vectors of texts (client.py, document_chunks.py)                        *)

\* As many ascending numbers as there are below m are those numbers.
LEMMA AscendingFills ==
  ASSUME NEW m \in Nat, NEW f, \A k \in 1..m : f[k] \in 0..(m - 1),
         \A i, j \in 1..m : i < j => f[i] < f[j]
  PROVE  \A k \in 1..m : f[k] = k - 1
<1> DEFINE Low  == {k \in Nat : k \in 1..m => f[k] >= k - 1}
           High == {k \in Nat : m - k \in 1..m => f[m - k] <= m - k - 1}
<1>1. 0 \in Low /\ 0 \in High
  OBVIOUS
<1>2. ASSUME NEW k \in 0..(m - 1), k \in Low PROVE k + 1 \in Low
  <2>1. k + 1 \in 1..m /\ k + 1 \in Nat /\ f[k + 1] \in 0..(m - 1)
    OBVIOUS
  <2>2. CASE k = 0
    BY <2>1, <2>2
  <2>3. CASE k # 0
    <3>1. k \in 1..m /\ f[k] \in 0..(m - 1) /\ f[k] < f[k + 1] /\ f[k] >= k - 1
      BY <1>2, <2>1, <2>3
    <3> QED BY <2>1, <3>1
  <2> QED BY <2>2, <2>3
<1>3. ASSUME NEW k \in 0..(m - 1), k \in High PROVE k + 1 \in High
  <2>1. SUFFICES ASSUME m - (k + 1) \in 1..m PROVE f[m - (k + 1)] <= m - (k + 1) - 1
    OBVIOUS
  <2>2. m - k \in 1..m /\ m - (k + 1) < m - k
    BY <2>1
  <2>3. f[m - (k + 1)] < f[m - k] /\ f[m - k] <= m - k - 1 /\ f[m - k] \in 0..(m - 1) /\ f[m - (k + 1)] \in 0..(m - 1)
    BY <1>3, <2>1, <2>2
  <2> QED BY <2>3
<1> HIDE DEF Low, High
<1>4. 0..m \subseteq Low /\ 0..m \subseteq High
  BY <1>1, <1>2, <1>3, Induction
<1> SUFFICES ASSUME NEW k \in 1..m PROVE f[k] = k - 1
  OBVIOUS
<1>5. f[k] >= k - 1
  <2>1. k \in Low
    BY <1>4
  <2> QED BY <2>1 DEF Low
<1>6. f[k] <= k - 1
  <2>1. m - k \in High /\ m - (m - k) = k
    BY <1>4
  <2> QED BY <2>1 DEF High
<1>7. f[k] \in Int
  OBVIOUS
<1> QED BY <1>5, <1>6, <1>7

\* embed: the vectors of an answer without repetition, in their order; an answer
\* that names all of m texts gives each its own.
LEMMA EmbedOrders ==
  ASSUME NEW m \in Nat, NEW data \in Seq(0..(m - 1)), IsInjective(data)
  PROVE  /\ Embed(data) \in Seq(0..(m - 1)) /\ Len(Embed(data)) = Len(data) /\ Len(data) <= m
         /\ Len(data) = m => \A k \in 1..m : Embed(data)[k] = k - 1
<1> DEFINE D == DOMAIN data
           R == {p \in D \X D : \/ data[p[1]] < data[p[2]]
                                \/ data[p[1]] = data[p[2]] /\ p[1] < p[2]}
           order == SortedBy(D, R)
           n == Len(data)
<1>1. D = 1..n /\ n \in Nat /\ \A i \in D : data[i] \in 0..(m - 1)
  OBVIOUS
<1>2. IsFiniteSet(D) /\ Cardinality(D) = n
  <2> HIDE DEF D, n
  <2> QED BY <1>1, FS_Interval
<1>3. StrictOrder(D, R)
  <2>1. ASSUME NEW x \in D, NEW y \in D PROVE <<x, y>> \in R <=> (data[x] < data[y] \/ (data[x] = data[y] /\ x < y))
    OBVIOUS
  <2>2. \A x \in D : data[x] \in Int /\ x \in Int
    BY <1>1
  <2> HIDE DEF R, D
  <2>3. \A x \in D : <<x, x>> \notin R
    BY <2>1, <2>2
  <2>4. ASSUME NEW x \in D, NEW y \in D, NEW z \in D, <<x, y>> \in R, <<y, z>> \in R PROVE <<x, z>> \in R
    <3>1. (data[x] < data[y] \/ (data[x] = data[y] /\ x < y)) /\ (data[y] < data[z] \/ (data[y] = data[z] /\ y < z))
      BY <2>1, <2>4
    <3>2. data[x] < data[z] \/ (data[x] = data[z] /\ x < z)
      BY <2>2, <3>1
    <3> QED BY <2>1, <3>2
  <2>5. \A x, y \in D : x # y => <<x, y>> \in R \/ <<y, x>> \in R
    BY <2>1, <2>2
  <2> QED BY <2>3, <2>4, <2>5 DEF StrictOrder
<1>4. Embed(data) = [k \in DOMAIN order |-> data[order[k]]]
  BY DEF Embed
<1>5. /\ order \in [1..n -> D]
      /\ \A i, j \in 1..n : <<order[i], order[j]>> \in R <=> i < j
  <2>1. Lists(order, D, R)
    <3> HIDE DEF D, R
    <3> QED BY <1>2, <1>3, SortedByLists
  <2> HIDE DEF D, R, order, n
  <2> QED BY <1>2, <2>1 DEF Lists
<1> DEFINE e == Embed(data)
<1>6. /\ e \in Seq(0..(m - 1)) /\ Len(e) = n
      /\ \A k \in 1..n : e[k] = data[order[k]]
  <2>1. e = [k \in 1..n |-> data[order[k]]]
    BY <1>4, <1>5
  <2>2. \A k \in 1..n : data[order[k]] \in 0..(m - 1)
    BY <1>1, <1>5
  <2> HIDE DEF e, order, n
  <2> QED BY <1>1, <2>1, <2>2
<1> HIDE DEF e, order
<1>7. ASSUME NEW i \in 1..n, NEW j \in 1..n, i < j PROVE e[i] < e[j]
  <2>1. order[i] \in D /\ order[j] \in D /\ <<order[i], order[j]>> \in R
    BY <1>5, <1>7
  <2>2. \/ data[order[i]] < data[order[j]]
        \/ data[order[i]] = data[order[j]] /\ order[i] < order[j]
    BY <2>1
  <2>3. data[order[i]] = data[order[j]] => order[i] = order[j]
    BY <2>1 DEF IsInjective
  <2>4. order[i] \in Int
    BY <1>1, <2>1
  <2> HIDE DEF D, R
  <2> QED BY <1>6, <2>2, <2>3, <2>4
<1>8. n <= m
  <2> DEFINE C == 0..(m - 1)
  <2>1. IsFiniteSet(C) /\ Cardinality(C) = m
    BY FS_Interval
  <2>2. data \in Injection(D, C)
    <3>1. data \in [D -> C]
      BY <1>1
    <3> HIDE DEF D, C
    <3> QED BY <3>1 DEF Injection
  <2>3. n <= m
    <3> HIDE DEF D, C, n
    <3> QED BY <1>2, <2>1, <2>2, FS_Injection
  <2> QED BY <2>3
<1>9. ASSUME n = m PROVE \A k \in 1..m : e[k] = k - 1
  <2>1. (\A k \in 1..m : e[k] \in 0..(m - 1)) /\ (\A i, j \in 1..m : i < j => e[i] < e[j])
    <3> HIDE DEF n
    <3> QED BY <1>6, <1>7, <1>9
  <2> QED BY <2>1, AscendingFills
<1> QED BY <1>6, <1>8, <1>9 DEF e

\* _embed_chunk_texts: how many texts a batch has, and answers to all of them.
BatchSize(texts, b) == Min({EmbedBatch, texts - (b - 1) * EmbedBatch})
IsAnswer(data, size) == data \in Seq(0..(size - 1)) /\ IsInjective(data)
AnswersBatches(texts, answers) ==
  /\ Len(answers) = (texts + EmbedBatch - 1) \div EmbedBatch
  /\ \A b \in DOMAIN answers : IsAnswer(answers[b], BatchSize(texts, b))

\* A batch reaches from where the one before it ends, and the last to the end.
LEMMA BatchesCover ==
  ASSUME NEW texts \in Nat, NEW n, n = (texts + EmbedBatch - 1) \div EmbedBatch
  PROVE  /\ n \in Nat
         /\ \A b \in 1..n : /\ (b - 1) * EmbedBatch < texts /\ (b - 1) * EmbedBatch \in Nat
                            /\ BatchSize(texts, b) \in Nat /\ BatchSize(texts, b) <= EmbedBatch
                            /\ b < n => BatchSize(texts, b) = EmbedBatch
                            /\ b = n => (b - 1) * EmbedBatch + BatchSize(texts, b) = texts
         /\ n = 0 => texts = 0
<1> DEFINE E == EmbedBatch
<1>1. E \in Nat /\ E > 0
  BY LlmClientAssumption
<1>2. n \in Nat /\ n * E <= texts + E - 1 /\ texts + E - 1 < n * E + E
  <2>1. texts + E - 1 \in Nat
    BY <1>1
  <2> DEFINE u == texts + E - 1
  <2>2. \A v \in Nat, d \in Nat : d > 0 => (v \div d) \in Nat /\ (v \div d) * d <= v /\ v < (v \div d) * d + d
    OBVIOUS
  <2> HIDE DEF E
  <2> QED BY <1>1, <2>1, <2>2 DEF E
<1>3. ASSUME NEW b \in 1..n
      PROVE  (b - 1) * E \in Nat /\ (b - 1) * E <= (n - 1) * E /\ b * E = (b - 1) * E + E /\ n * E = (n - 1) * E + E
             /\ (b < n => b * E <= (n - 1) * E)
  <2>1. \A x, y, d \in Nat : x <= y => x * d <= y * d /\ x * d \in Nat
    OBVIOUS
  <2>2. b - 1 \in Nat /\ n - 1 \in Nat /\ b - 1 <= n - 1 /\ b \in Nat /\ (b < n => b <= n - 1)
    BY <1>2
  <2>3. b * E = (b - 1) * E + E /\ n * E = (n - 1) * E + E
    BY <1>1, <2>2
  <2> HIDE DEF E
  <2> QED BY <1>1, <2>1, <2>2, <2>3
<1>4. ASSUME NEW b \in 1..n
      PROVE  /\ (b - 1) * E < texts /\ BatchSize(texts, b) \in Nat /\ BatchSize(texts, b) <= E
             /\ b < n => BatchSize(texts, b) = E
             /\ b = n => (b - 1) * E + BatchSize(texts, b) = texts
  <2> DEFINE x == (b - 1) * E
  <2>1. x \in Nat /\ x < texts /\ (b < n => x + E < texts) /\ (b = n => texts <= x + E)
    <3>1. n * E \in Int /\ (n - 1) * E \in Int /\ b * E \in Int
      BY <1>1, <1>2
    <3> HIDE DEF E
    <3> QED BY <1>1, <1>2, <1>3, <3>1
  <2>2. BatchSize(texts, b) = Min({E, texts - x})
    BY DEF BatchSize
  <2> HIDE DEF E, x
  <2>3. BatchSize(texts, b) = IF E <= texts - x THEN E ELSE texts - x
    BY <1>1, <2>1, <2>2, MinOfTwo
  <2> QED BY <1>1, <2>1, <2>3 DEF x
<1>5. n = 0 => texts = 0
  BY <1>1, <1>2
<1> QED BY <1>2, <1>3, <1>4, <1>5

\* document_chunks.py, client.py: whatever order the vectors come in and
\* however many are missing, what is stored for a text is its own vector.
THEOREM VectorsStayAligned ==
  ASSUME NEW texts \in Nat, NEW answers \in Seq(Seq(Nat)), AnswersBatches(texts, answers)
  PROVE  VectorsBelongToTexts(texts, answers)
<1> DEFINE E == EmbedBatch
           n == Len(answers)
           size(b) == BatchSize(texts, b)
           s == [b \in DOMAIN answers |->
                   LET vectors == Embed(answers[b])
                   IN [k \in DOMAIN vectors |-> (b - 1) * E + vectors[k] + 1]]
           flat == FlattenSeq(s)
<1>1. /\ E \in Nat /\ n \in Nat /\ DOMAIN answers = 1..n
      /\ \A b \in 1..n : /\ (b - 1) * E < texts /\ (b - 1) * E \in Nat
                         /\ size(b) \in Nat /\ size(b) <= E
                         /\ b < n => size(b) = E
                         /\ b = n => (b - 1) * E + size(b) = texts
      /\ n = 0 => texts = 0
  <2>1. n = (texts + E - 1) \div E
    BY DEF AnswersBatches
  <2>2. n \in Nat /\ DOMAIN answers = 1..n
    OBVIOUS
  <2> HIDE DEF n
  <2> QED BY <2>1, <2>2, BatchesCover, LlmClientAssumption
<1>2. ASSUME NEW b \in 1..n
      PROVE  /\ s[b] \in Seq(Nat) /\ Len(s[b]) \in Nat /\ Len(s[b]) <= size(b)
             /\ Len(s[b]) = size(b) => \A k \in 1..Len(s[b]) : s[b][k] = (b - 1) * E + k
  <2> DEFINE v == Embed(answers[b])
             m == size(b)
  <2>1. v \in Seq(0..(m - 1)) /\ Len(v) = Len(answers[b]) /\ Len(answers[b]) <= m
        /\ (Len(answers[b]) = m => \A k \in 1..m : v[k] = k - 1)
    <3>1. m \in Nat /\ IsAnswer(answers[b], m)
      BY <1>1 DEF AnswersBatches
    <3> HIDE DEF m
    <3> QED BY <3>1, EmbedOrders DEF IsAnswer
  <2>2. s[b] = [k \in DOMAIN v |-> (b - 1) * E + v[k] + 1]
    BY <1>1
  <2>3. (b - 1) * E \in Nat /\ m \in Nat
    BY <1>1
  <2> DEFINE x == (b - 1) * E
  <2> HIDE DEF v, m, s, x
  <2>4. DOMAIN v = 1..Len(v) /\ Len(v) \in Nat /\ \A k \in DOMAIN v : v[k] \in Nat
    BY <2>1, <2>3
  <2>5. s[b] = [k \in 1..Len(v) |-> x + v[k] + 1] /\ x \in Nat
    BY <2>2, <2>3, <2>4 DEF x
  <2>6. s[b] \in Seq(Nat) /\ Len(s[b]) = Len(v) /\ \A k \in 1..Len(v) : s[b][k] = x + v[k] + 1
    <3> DEFINE l == Len(v)
               w == s[b]
    <3>1. l \in Nat /\ w = [k \in 1..l |-> x + v[k] + 1] /\ \A k \in 1..l : x + v[k] + 1 \in Nat
      <4>a. \A k \in 1..l : v[k] \in Nat
        BY <2>4
      <4>1. \A k \in 1..l : x + v[k] + 1 \in Nat
        <5>1. x \in Nat
          BY <2>5
        <5> HIDE DEF l
        <5> QED BY <4>a, <5>1
      <4>2. l \in Nat
        BY <2>4
      <4> QED BY <2>5, <4>1, <4>2
    <3> HIDE DEF l, w
    <3>2. w \in Seq(Nat) /\ Len(w) = l /\ \A k \in 1..l : w[k] = x + v[k] + 1
      BY <3>1
    <3> QED BY <3>2 DEF l, w
  <2> HIDE DEF E
  <2> QED BY <2>1, <2>3, <2>4, <2>5, <2>6 DEF x, m
<1>3. s \in Seq(Seq(Nat)) /\ Len(s) = n
  <2>1. s = [b \in 1..n |-> s[b]]
    BY <1>1
  <2> DEFINE B == Seq(Nat)
  <2>2. n \in Nat /\ \A b \in 1..n : s[b] \in B
    BY <1>1, <1>2
  <2> HIDE DEF s, n, B
  <2>3. s \in Seq(B) /\ Len(s) = n
    BY <2>1, <2>2
  <2> QED BY <2>3 DEF B
<1>4. flat = EmbedChunkTexts(answers)
  BY DEF EmbedChunkTexts
<1> HIDE DEF s, flat, n, size, E
<1>5. flat \in Seq(Nat) /\ \E at : LaidOut(s, flat, at)
  BY <1>3, FlattenLayout DEF flat
<1>6. PICK at : LaidOut(s, flat, at)
  BY <1>5
<1>7. /\ at \in [0..n -> Nat] /\ at[0] = 0 /\ at[n] = Len(flat)
      /\ \A b \in 1..n : at[b] = at[b - 1] + Len(s[b])
  BY <1>3, <1>6 DEF LaidOut
<1> DEFINE upto(b) == IF b < n THEN b * E ELSE texts
<1>8. ASSUME NEW b \in 1..n PROVE upto(b) = upto(b - 1) + size(b) /\ upto(b - 1) = (b - 1) * E
  <2>1. b \in Int /\ b - 1 \in Nat /\ b - 1 < n /\ n \in Nat /\ E \in Nat
    BY <1>1
  <2>2. upto(b - 1) = (b - 1) * E
    BY <2>1
  <2>3. b * E = (b - 1) * E + E
    BY <2>1
  <2>4. CASE b < n
    BY <1>1, <2>1, <2>2, <2>3, <2>4
  <2>5. CASE b = n
    BY <1>1, <2>1, <2>2, <2>5
  <2> QED BY <2>1, <2>4, <2>5
<1>9. \A b \in 0..n : upto(b) \in Nat
  <2> SUFFICES ASSUME NEW b \in 0..n PROVE upto(b) \in Nat
    OBVIOUS
  <2>1. b \in Nat /\ E \in Nat
    BY <1>1
  <2> QED BY <2>1
<1>10. upto(0) = 0 /\ upto(n) = texts
  BY <1>1
<1> HIDE DEF upto
<1>11. ASSUME NEW b \in 0..n PROVE at[b] <= upto(b)
  <2> DEFINE T == {k \in Nat : k \in 0..n => at[k] <= upto(k)}
  <2>1. 0 \in T
    BY <1>7, <1>10
  <2>2. ASSUME NEW k \in 0..(n - 1), k \in T PROVE k + 1 \in T
    <3>1. k + 1 \in 1..n /\ (k + 1) - 1 = k /\ k \in 0..n
      BY <1>1
    <3>2. at[k + 1] = at[k] + Len(s[k + 1]) /\ upto(k + 1) = upto(k) + size(k + 1)
      BY <1>7, <1>8, <3>1
    <3>3. at[k] \in Nat /\ upto(k) \in Nat /\ Len(s[k + 1]) \in Nat /\ size(k + 1) \in Nat /\ Len(s[k + 1]) <= size(k + 1) /\ at[k] <= upto(k)
      BY <1>1, <1>2, <1>7, <1>9, <2>2, <3>1
    <3> QED BY <3>1, <3>2, <3>3
  <2> HIDE DEF T
  <2>3. 0..n \subseteq T
    BY <1>1, <2>1, <2>2, Induction
  <2> QED BY <2>3 DEF T
<1>12. SUFFICES ASSUME Len(flat) = texts PROVE flat = [k \in 1..texts |-> k]
  BY <1>4 DEF VectorsBelongToTexts, ReplaceWithEmbeddings, HasResult, Result, Raised
<1>13. ASSUME NEW b \in 0..n PROVE at[b] = upto(b)
  <2> DEFINE T == {k \in Nat : n - k \in 0..n => at[n - k] = upto(n - k)}
  <2>1. 0 \in T
    BY <1>1, <1>7, <1>10, <1>12
  <2>2. ASSUME NEW k \in 0..(n - 1), k \in T PROVE k + 1 \in T
    <3>1. n - k \in 1..n /\ n - k - 1 \in 0..n /\ n - (k + 1) = (n - k) - 1 /\ n - k \in 0..n
      BY <1>1
    <3>2. at[n - k] = at[(n - k) - 1] + Len(s[n - k]) /\ upto(n - k) = upto((n - k) - 1) + size(n - k)
      BY <1>7, <1>8, <3>1
    <3>3. /\ at[n - k - 1] \in Nat /\ upto(n - k - 1) \in Nat /\ Len(s[n - k]) \in Nat /\ size(n - k) \in Nat
          /\ Len(s[n - k]) <= size(n - k) /\ at[n - k] = upto(n - k) /\ at[n - k - 1] <= upto(n - k - 1)
      BY <1>1, <1>2, <1>7, <1>9, <1>11, <2>2, <3>1
    <3> DEFINE p == n - k - 1
               i == n - k
    <3>4. (n - k) - 1 = p /\ n - (k + 1) = p /\ n - k - 1 = p
      BY <3>1, <1>1
    <3> HIDE DEF p, i
    <3>5. /\ at[i] = at[p] + Len(s[i]) /\ upto(i) = upto(p) + size(i)
          /\ at[p] \in Nat /\ upto(p) \in Nat /\ Len(s[i]) \in Nat /\ size(i) \in Nat
          /\ Len(s[i]) <= size(i) /\ at[i] = upto(i) /\ at[p] <= upto(p)
      BY <3>2, <3>3, <3>4 DEF i
    <3>6. at[p] = upto(p)
      BY <3>5
    <3> QED BY <3>4, <3>6
  <2> HIDE DEF T
  <2>3. 0..n \subseteq T
    BY <1>1, <2>1, <2>2, Induction
  <2>4. n - b \in T /\ n - (n - b) = b
    BY <1>1, <2>3
  <2> QED BY <2>4 DEF T
<1>14. ASSUME NEW p \in 1..texts PROVE flat[p] = p
  <2>1. PICK b \in 1..n : \E k \in 1..Len(s[b]) : p = at[b - 1] + k /\ flat[p] = s[b][k]
    <3>1. Located(s, flat, at)
      BY <1>3, <1>5, <1>6, FlattenItems
    <3> QED BY <1>3, <1>12, <3>1 DEF Located
  <2>2. b - 1 \in 0..n /\ b \in 0..n
    BY <1>1
  <2>a. PICK k \in 1..Len(s[b]) : p = at[b - 1] + k /\ flat[p] = s[b][k]
    BY <2>1
  <2>3. at[b - 1] = (b - 1) * E /\ at[b] = at[b - 1] + Len(s[b]) /\ at[b] = at[b - 1] + size(b)
    BY <1>7, <1>8, <1>13, <2>2
  <2>4. Len(s[b]) = size(b)
    <3>1. at[b - 1] \in Nat /\ Len(s[b]) \in Nat /\ size(b) \in Nat
      BY <1>1, <1>2, <1>7, <2>2
    <3> QED BY <2>3, <3>1
  <2> QED BY <1>2, <2>a, <2>3, <2>4
<1>15. DOMAIN flat = 1..texts
  BY <1>5, <1>12
<1> QED BY <1>5, <1>14, <1>15

-----------------------------------------------------------------------------
(* Candidates and impacts (impact.py)                                      *)

LEMMA TakeFacts ==
  ASSUME NEW A, NEW s \in Seq(A), NEW n \in Nat
  PROVE  /\ Take(s, n) \in Seq(A) /\ Len(Take(s, n)) = Min({n, Len(s)})
         /\ Min({n, Len(s)}) = (IF n <= Len(s) THEN n ELSE Len(s))
         /\ \A k \in 1..Len(Take(s, n)) : k \in 1..Len(s) /\ Take(s, n)[k] = s[k]
<1> DEFINE m == Min({n, Len(s)})
<1>1. Len(s) \in Nat /\ m = IF n <= Len(s) THEN n ELSE Len(s)
  BY MinOfTwo
<1>2. Take(s, n) = SubSeq(s, 1, m)
  BY DEF Take
<1>3. m \in 0..Len(s)
  BY <1>1
<1> HIDE DEF m
<1>4. Take(s, n) \in Seq(A) /\ Len(Take(s, n)) = m /\ \A k \in 1..m : Take(s, n)[k] = s[k]
  BY <1>1, <1>2, <1>3
<1>5. \A k \in 1..m : k \in 1..Len(s)
  BY <1>1, <1>3
<1> QED BY <1>1, <1>4, <1>5 DEF m

\* Spans, and the replies of the model about candidates.
IsSpans(s)   == s \in Seq(Int \X Int)
IsReply(r)   == r \in Seq([index : Int, confidence : Int])

\* The chunks an obligation's citation overlaps.
HitsOf(obligations, chunks, o) == {c \in DOMAIN chunks : Overlaps(obligations[o], chunks[c])}

\* By the rank of the first chunk, then in the order of the document.
Before(obligations, chunks, o, p) ==
  LET m == Min(HitsOf(obligations, chunks, o))
      n == Min(HitsOf(obligations, chunks, p))
  IN m < n \/ (m = n /\ o < p)

\* select_candidates after c chunks: the obligations that overlap one of them,
\* once each and in that order.
PickedInv(obligations, chunks, c, picked) ==
  /\ picked \in Seq(DOMAIN obligations)
  /\ ToSet(picked) = {o \in DOMAIN obligations : \E d \in 1..c : d \in HitsOf(obligations, chunks, o)}
  /\ \A i, j \in DOMAIN picked : i < j => Before(obligations, chunks, picked[i], picked[j])

LEMMA FirstHit ==
  ASSUME NEW obligations, NEW chunks, IsSpans(chunks), NEW o,
         HitsOf(obligations, chunks, o) # {}
  PROVE  /\ Min(HitsOf(obligations, chunks, o)) \in HitsOf(obligations, chunks, o)
         /\ Min(HitsOf(obligations, chunks, o)) \in 1..Len(chunks)
         /\ \A c \in HitsOf(obligations, chunks, o) : Min(HitsOf(obligations, chunks, o)) <= c
<1> DEFINE H == HitsOf(obligations, chunks, o)
<1>1. H \in SUBSET Int /\ H # {} /\ \A c \in H : 1 <= c
  BY DEF HitsOf, IsSpans
<1>2. H \subseteq 1..Len(chunks)
  BY DEF HitsOf, IsSpans
<1> HIDE DEF H
<1>3. Min(H) \in H /\ \A c \in H : Min(H) <= c
  BY <1>1, MinOfBounded
<1> QED BY <1>2, <1>3 DEF H

\* A turn of the loop of select_candidates.
LEMMA PickTurn ==
  ASSUME NEW obligations, NEW chunks, IsSpans(obligations), IsSpans(chunks),
         NEW c \in 1..Len(chunks), NEW picked, PickedInv(obligations, chunks, c - 1, picked)
  PROVE  PickedInv(obligations, chunks, c, PickFrom(obligations, picked, chunks[c]))
<1> DEFINE D == DOMAIN obligations
           hits(o) == HitsOf(obligations, chunks, o)
           hit == {i \in D \ ToSet(picked) : Overlaps(obligations[i], chunks[c])}
           m == Cardinality(hit)
           added == Ascending(hit)
           next == PickFrom(obligations, picked, chunks[c])
<1>1. /\ picked \in Seq(D)
      /\ ToSet(picked) = {o \in D : \E d \in 1..(c - 1) : d \in hits(o)}
      /\ \A i, j \in DOMAIN picked : i < j => Before(obligations, chunks, picked[i], picked[j])
  BY DEF PickedInv
<1>2. /\ D = 1..Len(obligations) /\ Len(obligations) \in Nat /\ D \subseteq Int
      /\ Len(chunks) \in Nat /\ DOMAIN chunks = 1..Len(chunks) /\ c \in Nat
  BY DEF IsSpans
<1>3. next = picked \o added
  BY DEF PickFrom
<1>4. hit \subseteq D /\ \A o \in D : o \in hit <=> o \notin ToSet(picked) /\ c \in hits(o)
  BY <1>2 DEF HitsOf
<1>5. ASSUME NEW o \in hit PROVE hits(o) # {} /\ Min(hits(o)) = c
  <2>1. c \in hits(o) /\ \A d \in 1..(c - 1) : d \notin hits(o)
    BY <1>1, <1>4
  <2>2. Min(hits(o)) \in hits(o) /\ Min(hits(o)) \in 1..Len(chunks) /\ Min(hits(o)) <= c
    <3> HIDE DEF hit
    <3> QED BY <2>1, FirstHit
  <2>3. Min(hits(o)) \notin 1..(c - 1)
    BY <2>1, <2>2
  <2> HIDE DEF hits, hit
  <2> QED BY <1>2, <2>1, <2>2, <2>3
<1>6. ASSUME NEW o \in ToSet(picked) PROVE Min(hits(o)) \in 1..(c - 1)
  <2>1. PICK d \in 1..(c - 1) : d \in hits(o)
    BY <1>1
  <2>2. Min(hits(o)) \in 1..Len(chunks) /\ Min(hits(o)) <= d
    BY <2>1, FirstHit
  <2> HIDE DEF hits
  <2> QED BY <1>2, <2>2
<1> HIDE DEF hit, next, added, m
<1>7. /\ m \in Nat /\ added \in [1..m -> hit]
      /\ \A i, j \in 1..m : added[i] < added[j] <=> i < j
      /\ \A x \in hit : \E k \in 1..m : added[k] = x
  <2>1. hit \in SUBSET Int
    BY <1>2, <1>4
  <2>2. IsFiniteSet(hit)
    <3>1. IsFiniteSet(D)
      <4> HIDE DEF D
      <4> QED BY <1>2, FS_Interval
    <3> HIDE DEF D
    <3> QED BY <1>4, <3>1, FS_Subset
  <2> QED BY <2>1, <2>2, AscendingLists DEF added, m
<1> HIDE DEF D
<1>8. added \in Seq(D) /\ Len(added) = m /\ ToSet(added) = hit /\ DOMAIN added = 1..m
  <2>1. added \in [1..m -> D]
    BY <1>4, <1>7
  <2>2. DOMAIN added = 1..m
    BY <1>7
  <2>3. ToSet(added) = hit
    BY <1>7, <2>2 DEF ToSet
  <2> QED BY <1>7, <2>1, <2>2, <2>3
<1>9. ToSet(next) = {o \in D : \E d \in 1..c : d \in hits(o)}
  <2>1. ToSet(next) = ToSet(picked) \cup hit
    BY <1>1, <1>3, <1>8, ConcatSets
  <2>2. 1..c = (1..(c - 1)) \cup {c}
    BY <1>2
  <2> HIDE DEF hits
  <2> QED BY <1>1, <1>4, <2>1, <2>2
<1> DEFINE l == Len(picked)
<1>10. /\ next \in Seq(D) /\ Len(next) = l + m /\ l \in Nat /\ DOMAIN next = 1..(l + m)
       /\ \A i \in 1..l : next[i] = picked[i]
       /\ \A k \in 1..m : next[l + k] = added[k]
  <2>1. /\ picked \o added \in Seq(D) /\ Len(picked \o added) = l + m /\ l \in Nat
        /\ \A i \in 1..l : (picked \o added)[i] = picked[i]
        /\ \A k \in 1..m : (picked \o added)[l + k] = added[k]
    <3>1. picked \in Seq(D) /\ added \in Seq(D)
      BY <1>1, <1>8
    <3>2. /\ picked \o added \in Seq(D) /\ Len(picked \o added) = Len(picked) + Len(added) /\ Len(picked) \in Nat
          /\ \A i \in 1..Len(picked) : (picked \o added)[i] = picked[i]
          /\ \A k \in 1..Len(added) : (picked \o added)[Len(picked) + k] = added[k]
      BY <3>1, ConcatParts
    <3> QED BY <1>8, <3>2
  <2>2. next \in Seq(D) => DOMAIN next = 1..Len(next)
    OBVIOUS
  <2> QED BY <1>3, <2>1, <2>2
<1>11. ASSUME NEW i \in DOMAIN next, NEW j \in DOMAIN next, i < j
       PROVE  Before(obligations, chunks, next[i], next[j])
  <2>0. i \in Nat /\ j \in Nat /\ l \in Nat /\ m \in Nat /\ i >= 1 /\ j <= l + m
    BY <1>7, <1>10
  <2>1. CASE j <= l
    <3>1. i \in 1..l /\ j \in 1..l
      BY <1>11, <2>0, <2>1
    <3>2. i \in DOMAIN picked /\ j \in DOMAIN picked
      BY <1>1, <3>1
    <3> QED BY <1>1, <1>10, <1>11, <3>1, <3>2
  <2>2. CASE i <= l /\ j > l
    <3>1. i \in 1..l /\ j - l \in 1..m /\ l + (j - l) = j
      BY <2>0, <2>2
    <3>2. next[i] \in ToSet(picked)
      <4>1. i \in DOMAIN picked /\ next[i] = picked[i]
        BY <1>1, <1>10, <3>1
      <4> QED BY <4>1 DEF ToSet
    <3>3. next[j] = added[j - l] /\ next[j] \in hit
      <4>1. next[l + (j - l)] = added[j - l]
        BY <1>10, <3>1
      <4> QED BY <1>7, <3>1, <4>1
    <3>4. Min(hits(next[j])) = c
      BY <1>5, <3>3
    <3>5. Min(hits(next[i])) \in 1..(c - 1)
      BY <1>6, <3>2
    <3>6. Min(hits(next[i])) < Min(hits(next[j]))
      BY <1>2, <3>4, <3>5
    <3> QED BY <3>6 DEF Before
  <2>3. CASE i > l
    <3>1. i - l \in 1..m /\ j - l \in 1..m /\ i - l < j - l /\ l + (i - l) = i /\ l + (j - l) = j
      BY <1>11, <2>0, <2>3
    <3>2. next[i] = added[i - l] /\ next[j] = added[j - l]
      <4>1. next[l + (i - l)] = added[i - l] /\ next[l + (j - l)] = added[j - l]
        BY <1>10, <3>1
      <4> QED BY <3>1, <4>1
    <3>3. next[i] \in hit /\ next[j] \in hit /\ next[i] < next[j]
      BY <1>7, <3>1, <3>2
    <3>4. Min(hits(next[i])) = Min(hits(next[j]))
      BY <1>5, <3>3
    <3> QED BY <3>3, <3>4 DEF Before
  <2> QED BY <2>0, <2>1, <2>2, <2>3
<1> QED BY <1>9, <1>10, <1>11 DEF PickedInv, next, D

\* The loop of select_candidates, without its limit.
PickAll(obligations, chunks) ==
  FoldLeft(LAMBDA picked, chunk : PickFrom(obligations, picked, chunk), <<>>, chunks)
\* What it has picked after each chunk.
PickRun(obligations, chunks, f) ==
  /\ f[0] = <<>> /\ f[Len(chunks)] = PickAll(obligations, chunks)
  /\ \A c \in 1..Len(chunks) : f[c] = PickFrom(obligations, f[c - 1], chunks[c])

LEMMA PickFinds ==
  ASSUME NEW obligations, IsSpans(obligations), NEW picked \in Seq(DOMAIN obligations), NEW chunk
  PROVE  PickFrom(obligations, picked, chunk) \in Seq(DOMAIN obligations)
<1> DEFINE D == DOMAIN obligations
           hit == {i \in D \ ToSet(picked) : Overlaps(obligations[i], chunk)}
           m == Cardinality(hit)
           added == Ascending(hit)
<1>1. D = 1..Len(obligations) /\ Len(obligations) \in Nat /\ D \subseteq Int
  BY DEF IsSpans
<1>2. hit \subseteq D
  OBVIOUS
<1>3. PickFrom(obligations, picked, chunk) = picked \o added
  BY DEF PickFrom
<1>4. IsFiniteSet(D)
  <2> HIDE DEF D
  <2> QED BY <1>1, FS_Interval
<1> HIDE DEF hit, D
<1>5. IsFiniteSet(hit) /\ hit \in SUBSET Int
  BY <1>1, <1>2, <1>4, FS_Subset
<1>6. m \in Nat /\ added \in [1..m -> hit]
  BY <1>5, AscendingLists
<1> HIDE DEF m, added
<1>7. added \in Seq(D)
  BY <1>2, <1>6
<1> QED BY <1>3, <1>7 DEF D

LEMMA PickRuns ==
  ASSUME NEW obligations, NEW chunks, IsSpans(obligations), IsSpans(chunks)
  PROVE  \E f : PickRun(obligations, chunks, f)
<1> DEFINE n == Len(chunks)
           A == Seq(DOMAIN obligations)
           Turn(it) == [T \in SUBSET DOMAIN chunks |->
                          IF T = {} THEN <<>>
                          ELSE PickFrom(obligations, it[T \ {Max(T)}], chunks[Max(T)])]
           iter == CHOOSE it : it = Turn(it)
           Step == [p \in (1..n) \X A |-> PickFrom(obligations, p[2], chunks[p[1]])]
           all == PickAll(obligations, chunks)
           f == [k \in 0..n |-> iter[1..k]]
<1>1. n \in Nat /\ DOMAIN chunks = 1..n
  BY DEF IsSpans
<1>2. all = iter[DOMAIN chunks]
  BY DEF PickAll, FoldLeft, MapThenFoldSet
<1> HIDE DEF n, iter, all
<1>3. <<>> \in A
  OBVIOUS
<1>4. Step \in [(1..n) \X A -> A]
  <2>1. ASSUME NEW i \in 1..n, NEW found \in A PROVE PickFrom(obligations, found, chunks[i]) \in A
    BY PickFinds
  <2> HIDE DEF A
  <2> QED BY <2>1
<1> HIDE DEF A
<1>5. \E it : it = Turn(it)
  <2>0. PICK it : Iterates(it, n, A, <<>>, Step)
    <3>1. IsFold(n, A, <<>>, Step)
      BY <1>1, <1>3, <1>4 DEF IsFold
    <3> QED BY <3>1, FoldIteration
  <2>1. /\ it \in [SUBSET (1..n) -> A]
        /\ \A T \in SUBSET (1..n) :
             it[T] = IF T = {} THEN <<>> ELSE Step[<<Max(T), it[T \ {Max(T)}]>>]
    BY <2>0 DEF Iterates
  <2>2. ASSUME NEW T \in SUBSET (1..n), T # {}
        PROVE  Step[<<Max(T), it[T \ {Max(T)}]>>] = PickFrom(obligations, it[T \ {Max(T)}], chunks[Max(T)])
    <3>1. Max(T) \in 1..n
      BY <1>1, <2>2, PrefixSets
    <3>2. it[T \ {Max(T)}] \in A
      BY <2>1
    <3> QED BY <3>1, <3>2
  <2>3. \A T \in SUBSET (1..n) : it[T] = Turn(it)[T]
    <3> HIDE DEF Step
    <3> QED BY <1>1, <2>1, <2>2
  <2>4. it = [T \in SUBSET (1..n) |-> it[T]]
    BY <2>1
  <2>5. Turn(it) = [T \in SUBSET (1..n) |-> Turn(it)[T]]
    BY <1>1
  <2> HIDE DEF Turn
  <2>6. it = Turn(it)
    BY <2>3, <2>4, <2>5
  <2> QED BY <2>6
<1>6. iter = Turn(iter)
  <2> HIDE DEF Turn
  <2> QED BY <1>5 DEF iter
<1>7. f[0] = <<>>
  <2>1. iter[{}] = <<>>
    BY <1>6
  <2> QED BY <1>1, <2>1, PrefixSets
<1>8. ASSUME NEW k \in 1..n PROVE f[k] = PickFrom(obligations, f[k - 1], chunks[k])
  <2>1. Max(1..k) = k /\ (1..k) \ {k} = 1..(k - 1)
    BY <1>1, PrefixSets
  <2>a. 1..k # {} /\ 1..k \in SUBSET (1..n)
    BY <1>1, PrefixSets
  <2>2. iter[1..k] = PickFrom(obligations, iter[1..(k - 1)], chunks[k])
    BY <1>1, <1>6, <2>1, <2>a
  <2>3. f[k] = iter[1..k] /\ f[k - 1] = iter[1..(k - 1)]
    BY <1>1
  <2> QED BY <2>2, <2>3
<1>9. f[n] = all
  BY <1>1, <1>2
<1> HIDE DEF f
<1> QED BY <1>7, <1>8, <1>9 DEF PickRun, all, n

\* select_candidates: what the loop picks of all chunks.
LEMMA PickedAll ==
  ASSUME NEW obligations, NEW chunks, IsSpans(obligations), IsSpans(chunks)
  PROVE  PickedInv(obligations, chunks, Len(chunks), PickAll(obligations, chunks))
<1> DEFINE n == Len(chunks)
<1>0. PICK f : PickRun(obligations, chunks, f)
  BY PickRuns
<1>1. /\ f[0] = <<>> /\ f[n] = PickAll(obligations, chunks)
      /\ \A c \in 1..n : f[c] = PickFrom(obligations, f[c - 1], chunks[c])
  BY <1>0 DEF PickRun
<1> DEFINE T == {k \in Nat : PickedInv(obligations, chunks, k, f[k])}
<1>2. n \in Nat
  BY DEF IsSpans
<1>3. 0 \in T
  <2>1. PickedInv(obligations, chunks, 0, <<>>)
    BY DEF PickedInv, ToSet
  <2> QED BY <1>1, <2>1
<1>4. ASSUME NEW k \in 0..(n - 1), k \in T PROVE k + 1 \in T
  <2>1. k + 1 \in 1..n /\ (k + 1) - 1 = k /\ k + 1 \in Nat
    BY <1>2
  <2>2. f[k + 1] = PickFrom(obligations, f[k], chunks[k + 1])
    BY <1>1, <2>1
  <2>3. PickedInv(obligations, chunks, (k + 1) - 1, f[k])
    BY <1>4, <2>1
  <2>4. PickedInv(obligations, chunks, k + 1, f[k + 1])
    <3> HIDE DEF T
    <3> QED BY <2>1, <2>2, <2>3, PickTurn
  <2> QED BY <2>1, <2>4
<1> HIDE DEF T
<1>5. 0..n \subseteq T
  BY <1>2, <1>3, <1>4, Induction
<1>6. PickedInv(obligations, chunks, n, f[n])
  BY <1>2, <1>5 DEF T
<1> QED BY <1>1, <1>6

\* A list without repetition is as long as the set of its items.
LEMMA CountedByList ==
  ASSUME NEW A, NEW s \in Seq(A), \A i, j \in DOMAIN s : i < j => s[i] # s[j]
  PROVE  IsFiniteSet(ToSet(s)) /\ Cardinality(ToSet(s)) = Len(s)
<1> DEFINE n == Len(s)
           D == 1..n
           S == ToSet(s)
<1>1. n \in Nat /\ DOMAIN s = D /\ s \in [D -> A]
  OBVIOUS
<1>2. S = {s[i] : i \in D}
  BY <1>1 DEF ToSet
<1>3. IsFiniteSet(D) /\ Cardinality(D) = n
  BY <1>1, FS_Interval
<1>4. \A i, j \in D : s[i] = s[j] => i = j
  <2>1. \A i, j \in D : i < j \/ j < i \/ i = j
    BY <1>1
  <2> QED BY <1>1, <2>1
<1> HIDE DEF n, D, S
<1>5. s \in [D -> S]
  BY <1>1, <1>2
<1>6. s \in Bijection(D, S)
  <2>1. s \in Injection(D, S)
    BY <1>4, <1>5 DEF Injection, IsInjective
  <2>2. s \in Surjection(D, S)
    BY <1>2, <1>5 DEF Surjection
  <2> QED BY <2>1, <2>2 DEF Bijection
<1>7. ExistsBijection(D, S)
  BY <1>6 DEF ExistsBijection
<1> QED BY <1>3, <1>7, FS_Bijection DEF n, S

\* select_candidates: the relevant obligations in their order, cut at the limit.
LEMMA CandidatesInOrder ==
  ASSUME NEW obligations, NEW chunks, IsSpans(obligations), IsSpans(chunks)
  PROVE  LET picked == SelectCandidates(obligations, chunks)
             relevant == {o \in DOMAIN obligations : HitsOf(obligations, chunks, o) # {}}
         IN /\ picked \in Seq(DOMAIN obligations)
            /\ Len(picked) = Min({CandidateLimit, Cardinality(relevant)})
            /\ ToSet(picked) \subseteq relevant
            /\ \A k \in DOMAIN picked, o \in relevant :
                 Before(obligations, chunks, o, picked[k]) => \E j \in 1..(k - 1) : picked[j] = o
            /\ \A i, j \in DOMAIN picked : i < j => picked[i] # picked[j]
<1> DEFINE picked == SelectCandidates(obligations, chunks)
           relevant == {o \in DOMAIN obligations : HitsOf(obligations, chunks, o) # {}}
           all == PickAll(obligations, chunks)
           D == DOMAIN obligations
           m(o) == Min(HitsOf(obligations, chunks, o))
           before(o, p) == Before(obligations, chunks, o, p)
           n == Len(all)
<1>1. picked = Take(all, CandidateLimit) /\ CandidateLimit \in Nat
  BY RetrievalAssumption DEF SelectCandidates, PickAll
<1>2. /\ all \in Seq(D)
      /\ ToSet(all) = {o \in D : \E d \in 1..Len(chunks) : d \in HitsOf(obligations, chunks, o)}
      /\ \A i, j \in DOMAIN all : i < j => before(all[i], all[j])
  <2>1. PickedInv(obligations, chunks, Len(chunks), all)
    BY PickedAll
  <2> QED BY <2>1 DEF PickedInv
<1> HIDE DEF all, picked
<1>3. ToSet(all) = relevant
  <2>1. \A o \in D : HitsOf(obligations, chunks, o) \subseteq 1..Len(chunks)
    BY DEF HitsOf, IsSpans
  <2> QED BY <1>2, <2>1
<1>4. D \subseteq Int /\ \A o \in relevant : o \in Int /\ m(o) \in Int
  <2>1. D \subseteq Int
    BY DEF IsSpans
  <2>2. \A o \in relevant : m(o) \in 1..Len(chunks)
    BY FirstHit
  <2>3. relevant \subseteq D
    OBVIOUS
  <2> HIDE DEF D, relevant, m
  <2> QED BY <2>1, <2>2, <2>3
<1>5. n \in Nat /\ DOMAIN all = 1..n /\ \A i \in 1..n : all[i] \in relevant
  <2>1. n \in Nat /\ DOMAIN all = 1..n
    BY <1>2
  <2> HIDE DEF relevant, n
  <2> QED BY <1>3, <2>1 DEF ToSet
<1> HIDE DEF relevant, n
<1>6. ASSUME NEW o \in relevant, NEW p \in relevant, before(o, p)
      PROVE  o # p /\ ~ before(p, o)
  <2>1. m(o) < m(p) \/ (m(o) = m(p) /\ o < p)
    BY <1>6 DEF Before
  <2>2. before(p, o) => m(p) < m(o) \/ (m(p) = m(o) /\ p < o)
    BY DEF Before
  <2> HIDE DEF m, before
  <2> QED BY <1>4, <2>1, <2>2
<1>7. \A i, j \in 1..n : i < j => before(all[i], all[j]) /\ all[i] # all[j]
  <2> HIDE DEF before
  <2> QED BY <1>2, <1>5, <1>6
<1>8. n = Cardinality(relevant)
  <2>1. IsFiniteSet(ToSet(all)) /\ Cardinality(ToSet(all)) = Len(all)
    BY <1>2, <1>5, <1>7, CountedByList
  <2> QED BY <1>3, <2>1 DEF n
<1>9. /\ picked \in Seq(D) /\ Len(picked) = Min({CandidateLimit, n})
      /\ \A k \in 1..Len(picked) : k \in 1..n /\ picked[k] = all[k]
      /\ \A k \in 1..Len(picked) : \A j \in 1..(k - 1) : j \in 1..Len(picked)
  <2>1. /\ Take(all, CandidateLimit) \in Seq(D)
        /\ Len(Take(all, CandidateLimit)) = Min({CandidateLimit, Len(all)})
        /\ \A k \in 1..Len(Take(all, CandidateLimit)) :
             k \in 1..Len(all) /\ Take(all, CandidateLimit)[k] = all[k]
    <3> HIDE DEF D
    <3> QED BY <1>1, <1>2, TakeFacts
  <2>2. /\ picked \in Seq(D) /\ Len(picked) = Min({CandidateLimit, n})
        /\ \A k \in 1..Len(picked) : k \in 1..n /\ picked[k] = all[k]
    <3> HIDE DEF D
    <3> QED BY <1>1, <2>1 DEF n
  <2>3. Len(picked) \in Nat
    BY <2>2
  <2> DEFINE z == Len(picked)
  <2>4. \A k \in 1..z : \A j \in 1..(k - 1) : j \in 1..z
    <3> HIDE DEF z
    <3> QED BY <2>3 DEF z
  <2> HIDE DEF D
  <2> QED BY <2>2, <2>4
<1>10. DOMAIN picked = 1..Len(picked)
  BY <1>9
<1>11. ToSet(picked) \subseteq relevant
  BY <1>5, <1>9, <1>10 DEF ToSet
<1>12. ASSUME NEW k \in 1..Len(picked), NEW o \in relevant, before(o, picked[k])
       PROVE  \E j \in 1..(k - 1) : picked[j] = o
  <2>1. PICK j \in 1..n : all[j] = o
    <3>1. o \in ToSet(all)
      BY <1>3
    <3> QED BY <1>5, <3>1 DEF ToSet
  <2>2. k \in 1..n /\ picked[k] = all[k]
    BY <1>9
  <2>3. ~ (k < j) /\ j # k
    <3> HIDE DEF before
    <3> QED BY <1>5, <1>6, <1>7, <1>12, <2>1, <2>2
  <2>4. j \in 1..(k - 1)
    BY <1>5, <2>1, <2>2, <2>3
  <2> QED BY <1>9, <2>1, <2>4
<1>13. \A i, j \in 1..Len(picked) : i < j => picked[i] # picked[j]
  BY <1>7, <1>9
<1> HIDE DEF before, D
<1> QED BY <1>8, <1>9, <1>10, <1>11, <1>12, <1>13 DEF before, relevant, picked, D

\* _clamp_confidence: into the unit interval.
LEMMA ClampedConfidence ==
  ASSUME NEW t \in Int
  PROVE  Clamp(t) \in 0..10
<1>1. Max({0, t}) \in Nat
  BY MaxOfTwo
<1> QED BY <1>1, MinOfTwo DEF Clamp

LEMMA ReplyParts ==
  ASSUME NEW reply, IsReply(reply)
  PROVE  /\ DOMAIN reply = 1..Len(reply) /\ Len(reply) \in Nat
         /\ \A i \in DOMAIN reply : reply[i].index \in Int /\ reply[i].confidence \in Int
<1> DEFINE R == [index : Int, confidence : Int]
<1>1. DOMAIN reply = 1..Len(reply) /\ Len(reply) \in Nat /\ \A i \in DOMAIN reply : reply[i] \in R
  <2>1. reply \in Seq(R)
    BY DEF IsReply
  <2> HIDE DEF R
  <2> QED BY <2>1
<1> QED BY <1>1

\* map_change_impacts: each candidate at most once, and only candidates.
LEMMA ImpactsAreCandidates ==
  ASSUME NEW D, NEW picked \in Seq(D), NEW reply, IsReply(reply),
         \A i, j \in DOMAIN picked : i < j => picked[i] # picked[j],
         HasResult(MapImpacts(picked, reply))
  PROVE  LET impacts == MapImpacts(picked, reply)[2]
         IN /\ IsInjective([k \in DOMAIN impacts |-> impacts[k].obligation])
            /\ \A i \in ToSet(impacts) : i.obligation \in ToSet(picked) /\ i.confidence \in 0..10
<1>1. CASE picked = <<>>
  <2>1. MapImpacts(picked, reply)[2] = <<>>
    BY <1>1 DEF MapImpacts, Result
  <2> QED BY <2>1 DEF IsInjective, ToSet
<1>2. CASE picked # <<>>
  <2> DEFINE first == {i \in DOMAIN reply : \A j \in 1..(i - 1) : reply[j].index # reply[i].index}
             order == Ascending(first)
             m == Cardinality(first)
             impact(k) == [obligation |-> picked[reply[order[k]].index + 1],
                           confidence |-> Clamp(reply[order[k]].confidence)]
             impacts == MapImpacts(picked, reply)[2]
  <2>1. \A r \in ToSet(reply) : 0 <= r.index /\ r.index < Len(picked)
    BY <1>2 DEF MapImpacts, HasResult
  <2>2. impacts = [k \in DOMAIN order |-> impact(k)]
    BY <1>2, <2>1 DEF MapImpacts, Result
  <2>3. /\ DOMAIN reply = 1..Len(reply) /\ Len(reply) \in Nat
        /\ \A i \in DOMAIN reply : reply[i].index \in Int /\ reply[i].confidence \in Int
    <3> HIDE DEF first, order, m, impact, impacts
    <3> QED BY ReplyParts
  <2> HIDE DEF impacts
  <2>4. /\ m \in Nat /\ order \in [1..m -> first] /\ \A i, j \in 1..m : order[i] < order[j] <=> i < j
    <3>1. first \subseteq DOMAIN reply
      OBVIOUS
    <3>2. IsFiniteSet(DOMAIN reply) /\ DOMAIN reply \subseteq Int
      BY <2>3, FS_Interval
    <3> HIDE DEF first
    <3>3. IsFiniteSet(first) /\ first \in SUBSET Int
      BY <3>1, <3>2, FS_Subset
    <3> QED BY <3>3, AscendingLists
  <2>5. \A i, j \in first : i < j => reply[i].index # reply[j].index
    BY <2>3
  <2>6. \A i \in first : i \in DOMAIN reply /\ i \in Int
    BY <2>3
  <2>7. \A i \in first : reply[i].index + 1 \in DOMAIN picked /\ reply[i].index \in Int
    <3>1. \A i \in first : reply[i] \in ToSet(reply)
      BY <2>6 DEF ToSet
    <3> HIDE DEF first
    <3>2. \A i \in first : 0 <= reply[i].index /\ reply[i].index < Len(picked) /\ reply[i].index \in Int
      BY <2>1, <2>3, <2>6, <3>1
    <3> QED BY <3>2
  <2> HIDE DEF first, order, m
  <2>8. DOMAIN impacts = 1..m /\ \A k \in 1..m : impacts[k] = impact(k)
    BY <2>2, <2>4
  <2>9. \A i, j \in DOMAIN picked : picked[i] = picked[j] => i = j
    <3>1. \A i, j \in DOMAIN picked : i < j \/ j < i \/ i = j
      OBVIOUS
    <3> QED BY <3>1
  <2>10. ASSUME NEW i \in 1..m, NEW j \in 1..m, impacts[i].obligation = impacts[j].obligation
         PROVE  i = j
    <3>1. order[i] \in first /\ order[j] \in first
      BY <2>4
    <3>2. picked[reply[order[i]].index + 1] = picked[reply[order[j]].index + 1]
      BY <2>8, <2>10
    <3>3. reply[order[i]].index + 1 = reply[order[j]].index + 1
      BY <2>7, <2>9, <3>1, <3>2
    <3>4. reply[order[i]].index = reply[order[j]].index
      <4> DEFINE u == reply[order[i]].index
                 v == reply[order[j]].index
      <4>1. u \in Int /\ v \in Int /\ u + 1 = v + 1
        BY <2>7, <3>1, <3>3
      <4> HIDE DEF u, v
      <4>2. u = v
        BY <4>1
      <4> QED BY <4>2 DEF u, v
    <3>5. ~ (order[i] < order[j]) /\ ~ (order[j] < order[i])
      BY <2>5, <3>1, <3>4
    <3>6. ~ (i < j) /\ ~ (j < i)
      BY <2>4, <3>5
    <3> QED BY <2>4, <3>6
  <2>11. IsInjective([k \in DOMAIN impacts |-> impacts[k].obligation])
    BY <2>8, <2>10 DEF IsInjective
  <2>12. ASSUME NEW k \in 1..m
         PROVE  impacts[k].obligation \in ToSet(picked) /\ impacts[k].confidence \in 0..10
    <3>1. order[k] \in first
      BY <2>4
    <3>2. impacts[k].obligation = picked[reply[order[k]].index + 1]
      BY <2>8
    <3>3. impacts[k].confidence = Clamp(reply[order[k]].confidence)
      BY <2>8
    <3>4. reply[order[k]].confidence \in Int
      BY <2>3, <2>6, <3>1
    <3>5. Clamp(reply[order[k]].confidence) \in 0..10
      BY <3>4, ClampedConfidence
    <3> QED BY <2>7, <3>1, <3>2, <3>3, <3>5 DEF ToSet
  <2>13. \A i \in ToSet(impacts) : i.obligation \in ToSet(picked) /\ i.confidence \in 0..10
    BY <2>8, <2>12 DEF ToSet
  <2> QED BY <2>11, <2>13 DEF impacts
<1> QED BY <1>1, <1>2

\* impact.py: candidates are the obligations whose citations the retrieved
\* chunks overlap, the limit cuts the last of them, and impacts are candidates,
\* each named once.
THEOREM ImpactsAreGrounded ==
  ASSUME NEW obligations, NEW chunks, NEW reply,
         IsSpans(obligations), IsSpans(chunks), IsReply(reply)
  PROVE  ImpactsGrounded(obligations, chunks, reply)
<1> DEFINE picked == SelectCandidates(obligations, chunks)
           hits(o) == {c \in DOMAIN chunks : Overlaps(obligations[o], chunks[c])}
           relevant == {o \in DOMAIN obligations : hits(o) # {}}
           before(o, p) == \/ Min(hits(o)) < Min(hits(p))
                           \/ Min(hits(o)) = Min(hits(p)) /\ o < p
<1>1. \A o : hits(o) = HitsOf(obligations, chunks, o)
  BY DEF HitsOf
<1>2. relevant = {o \in DOMAIN obligations : HitsOf(obligations, chunks, o) # {}}
  BY DEF HitsOf
<1>3. \A o, p : before(o, p) <=> Before(obligations, chunks, o, p)
  BY DEF HitsOf, Before
<1>4. /\ picked \in Seq(DOMAIN obligations)
      /\ Len(picked) = Min({CandidateLimit, Cardinality(relevant)})
      /\ ToSet(picked) \subseteq relevant
      /\ \A k \in DOMAIN picked, o \in relevant :
           before(o, picked[k]) => \E j \in 1..(k - 1) : picked[j] = o
      /\ \A i, j \in DOMAIN picked : i < j => picked[i] # picked[j]
  <2> DEFINE known == {o \in DOMAIN obligations : HitsOf(obligations, chunks, o) # {}}
  <2>1. /\ picked \in Seq(DOMAIN obligations)
        /\ Len(picked) = Min({CandidateLimit, Cardinality(known)})
        /\ ToSet(picked) \subseteq known
        /\ \A k \in DOMAIN picked, o \in known :
             Before(obligations, chunks, o, picked[k]) => \E j \in 1..(k - 1) : picked[j] = o
        /\ \A i, j \in DOMAIN picked : i < j => picked[i] # picked[j]
    <3> HIDE DEF hits, relevant, before
    <3> QED BY CandidatesInOrder
  <2>2. known = relevant
    BY <1>2
  <2> HIDE DEF picked, relevant, before, known
  <2> QED BY <1>3, <2>1, <2>2
<1> HIDE DEF picked
<1>5. HasResult(MapImpacts(picked, reply)) =>
        LET impacts == MapImpacts(picked, reply)[2]
        IN /\ IsInjective([k \in DOMAIN impacts |-> impacts[k].obligation])
           /\ \A i \in ToSet(impacts) : i.obligation \in ToSet(picked) /\ i.confidence \in 0..10
  BY <1>4, ImpactsAreCandidates
<1> HIDE DEF relevant, before
<1> QED BY <1>4, <1>5 DEF ImpactsGrounded, picked, relevant, before

-----------------------------------------------------------------------------
(* Canonical text (parsing.py)                                             *)

\* What a parser finds, in characters of C, and what is built of it.
HasBreak(C) == "n" \in C
Kinds     == {"heading", "paragraph"}
Entry(C)  == [kind : Kinds, text : Seq(C), page : Nat]
Block     == [kind : Kinds, start : Nat, end : Nat, page : Nat]
PageSpan  == [page : Nat, start : Nat, end : Nat]
Doc(C)    == [text : Seq(C), blocks : Seq(Block), pages : Seq(PageSpan)]
StartOf(doc) == IF doc.blocks = <<>> THEN 0 ELSE Len(doc.text) + 2

\* What a turn of _build leaves as it was, and what it adds.
Appended(doc, entry, next) ==
  LET n == Len(doc.blocks)
      start == StartOf(doc)
  IN /\ Len(next.blocks) = n + 1 /\ \A i \in 1..n : next.blocks[i] = doc.blocks[i]
     /\ next.blocks[n + 1] = [kind |-> entry.kind, start |-> start,
                              end |-> start + Len(entry.text), page |-> entry.page]
     /\ Len(next.text) = start + Len(entry.text)
     /\ \A i \in 1..Len(doc.text) : next.text[i] = doc.text[i]
     /\ \A j \in 1..Len(entry.text) : next.text[start + j] = entry.text[j]
     /\ doc.blocks # <<>> => next.text[start - 1] = "n" /\ next.text[start] = "n"

LEMMA ClosedPages ==
  ASSUME NEW pages \in Seq(PageSpan), NEW end \in Nat
  PROVE  /\ ClosePage(pages, end) \in Seq(PageSpan) /\ Len(ClosePage(pages, end)) = Len(pages)
         /\ \A i \in 1..Len(pages) :
              /\ ClosePage(pages, end)[i].page = pages[i].page
              /\ ClosePage(pages, end)[i].start = pages[i].start
              /\ ClosePage(pages, end)[i].end = IF i = Len(pages) THEN end ELSE pages[i].end
<1> DEFINE n == Len(pages)
           last == [pages[n] EXCEPT !.end = end]
           closed == [i \in 1..n |-> IF i = n THEN last ELSE pages[i]]
<1>1. n \in Nat /\ DOMAIN pages = 1..n /\ pages = [i \in 1..n |-> pages[i]] /\ \A i \in 1..n : pages[i] \in PageSpan
  <2> HIDE DEF last, closed
  <2> QED OBVIOUS
<1>2. CASE pages = <<>>
  BY <1>2 DEF ClosePage
<1>3. CASE pages # <<>>
  <2>1. n \in 1..n
    BY <1>1, <1>3
  <2>2. pages[n] \in PageSpan
    BY <1>1, <2>1
  <2>3. last \in PageSpan /\ last.page = pages[n].page /\ last.start = pages[n].start /\ last.end = end
    BY <2>2 DEF PageSpan
  <2>4. ClosePage(pages, end) = [pages EXCEPT ![n] = last]
    BY <1>3 DEF ClosePage
  <2> HIDE DEF last
  <2>5. ClosePage(pages, end) = closed
    BY <1>1, <2>1, <2>4
  <2>6. closed \in [1..n -> PageSpan]
    BY <1>1, <2>3
  <2>7. closed \in Seq(PageSpan) /\ Len(closed) = n
    <3> HIDE DEF closed
    <3> QED BY <1>1, <2>6
  <2>8. ASSUME NEW i \in 1..n
        PROVE  /\ closed[i].page = pages[i].page /\ closed[i].start = pages[i].start
               /\ closed[i].end = IF i = n THEN end ELSE pages[i].end
    <3>1. CASE i = n
      BY <2>3, <3>1
    <3>2. CASE i # n
      BY <3>2
    <3> QED BY <3>1, <3>2
  <2> HIDE DEF closed
  <2> QED BY <2>5, <2>7, <2>8
<1> QED BY <1>2, <1>3

\* A text between two others, an empty line apart.
IsSeparated(C, text, t, e) ==
  /\ text \in Seq(C) /\ Len(text) = Len(t) + 2 + Len(e) /\ Len(t) \in Nat
  /\ \A i \in 1..Len(t) : text[i] = t[i]
  /\ text[Len(t) + 1] = "n" /\ text[Len(t) + 2] = "n"
  /\ \A j \in 1..Len(e) : text[Len(t) + 2 + j] = e[j]

LEMMA SeparatedTexts ==
  ASSUME NEW C, HasBreak(C), NEW t \in Seq(C), NEW e \in Seq(C)
  PROVE  IsSeparated(C, t \o Separator \o e, t, e)
<1> DEFINE l == Len(t)
           u == t \o Separator
           text == u \o e
<1>a. Separator \in Seq(C)
  BY DEF Separator, HasBreak
<1>1. Len(Separator) = 2 /\ Separator[1] = "n" /\ Separator[2] = "n"
  BY DEF Separator
<1>2. /\ u \in Seq(C) /\ Len(u) = l + Len(Separator) /\ l \in Nat
      /\ \A i \in 1..l : i \in 1..Len(u) /\ u[i] = t[i]
      /\ \A k \in 1..Len(Separator) : u[l + k] = Separator[k]
  BY <1>a, ConcatParts
<1>3. Len(u) = l + 2 /\ u[l + 1] = "n" /\ u[l + 2] = "n"
  <2> HIDE DEF u, l
  <2>1. u[l + 1] = Separator[1] /\ u[l + 2] = Separator[2]
    BY <1>1, <1>2
  <2> QED BY <1>1, <1>2, <2>1
<1> HIDE DEF u, l
<1>b. u \in Seq(C)
  BY <1>2
<1>4. /\ text \in Seq(C) /\ Len(text) = Len(u) + Len(e)
      /\ \A i \in 1..Len(u) : text[i] = u[i]
      /\ \A j \in 1..Len(e) : text[Len(u) + j] = e[j]
  BY <1>b, ConcatParts
<1> HIDE DEF text
<1>5. l + 1 \in 1..Len(u) /\ l + 2 \in 1..Len(u)
  BY <1>2, <1>3
<1>6. text[l + 1] = "n" /\ text[l + 2] = "n"
  BY <1>3, <1>4, <1>5
<1>7. \A i \in 1..l : text[i] = t[i]
  BY <1>2, <1>4
<1>8. IsSeparated(C, text, t, e)
  BY <1>2, <1>3, <1>4, <1>6, <1>7 DEF l, IsSeparated
<1> QED BY <1>8 DEF text, u

\* _build: a turn of its loop.
LEMMA Append1Facts ==
  ASSUME NEW C, HasBreak(C), NEW doc \in Doc(C), NEW entry \in Entry(C),
         doc.blocks = <<>> => doc.text = <<>>
  PROVE  Append1(doc, entry) \in Doc(C) /\ Appended(doc, entry, Append1(doc, entry))
<1> DEFINE n == Len(doc.blocks)
           l == Len(doc.text)
           m == Len(entry.text)
           start == StartOf(doc)
           end == start + m
           block == [kind |-> entry.kind, start |-> start, end |-> end, page |-> entry.page]
           text == IF doc.blocks = <<>> THEN entry.text ELSE doc.text \o Separator \o entry.text
           blocks == Append(doc.blocks, block)
           opens == entry.page # NoPage /\ (doc.pages = <<>> \/ Last(doc.pages).page # entry.page)
           page == [page |-> entry.page, start |-> start, end |-> start]
           pages == IF opens THEN Append(ClosePage(doc.pages, start), page) ELSE doc.pages
<1>1. /\ doc.text \in Seq(C) /\ doc.blocks \in Seq(Block) /\ doc.pages \in Seq(PageSpan)
      /\ entry.text \in Seq(C) /\ entry.page \in Nat /\ entry.kind \in Kinds
  BY DEF Doc, Entry
<1>2. Append1(doc, entry) = [text |-> text, blocks |-> blocks, pages |-> pages]
  BY DEF Append1, StartOf
<1>3. n \in Nat /\ l \in Nat /\ m \in Nat /\ start \in Nat /\ end \in Nat
  <2>1. n \in Nat /\ l \in Nat /\ m \in Nat
    BY <1>1
  <2>2. start = 0 \/ start = l + 2
    BY DEF StartOf
  <2> HIDE DEF start, l, m
  <2>3. start \in Nat
    BY <2>1, <2>2
  <2> QED BY <2>1, <2>3
<1>4. block \in Block /\ page \in PageSpan
  <2> HIDE DEF start, end
  <2> QED BY <1>1, <1>3 DEF Block, PageSpan
<1>5. blocks \in Seq(Block) /\ Len(blocks) = n + 1 /\ blocks[n + 1] = block
      /\ \A i \in 1..n : blocks[i] = doc.blocks[i]
  <2> HIDE DEF block
  <2> QED BY <1>1, <1>4
<1>6. pages \in Seq(PageSpan)
  <2>1. ClosePage(doc.pages, start) \in Seq(PageSpan)
    BY <1>1, <1>3, ClosedPages
  <2> HIDE DEF page, opens
  <2> QED BY <1>1, <1>4, <2>1
<1>7. /\ text \in Seq(C) /\ Len(text) = end
      /\ \A i \in 1..l : text[i] = doc.text[i]
      /\ \A j \in 1..m : text[start + j] = entry.text[j]
      /\ doc.blocks # <<>> => text[start - 1] = "n" /\ text[start] = "n"
  <2>1. CASE doc.blocks = <<>>
    BY <1>1, <1>3, <2>1 DEF StartOf
  <2>2. CASE doc.blocks # <<>>
    <3>1. text = doc.text \o Separator \o entry.text /\ start = l + 2
      BY <2>2 DEF StartOf
    <3> HIDE DEF text, start
    <3>2. /\ text \in Seq(C) /\ Len(text) = l + 2 + m
          /\ \A i \in 1..l : text[i] = doc.text[i]
          /\ text[l + 1] = "n" /\ text[l + 2] = "n"
          /\ \A j \in 1..m : text[l + 2 + j] = entry.text[j]
      <4> DEFINE t == doc.text
                 e == entry.text
      <4>1. t \in Seq(C) /\ e \in Seq(C)
        BY <1>1
      <4>2. text = t \o Separator \o e
        BY <3>1
      <4> HIDE DEF t, e
      <4>3. /\ text \in Seq(C) /\ Len(text) = Len(t) + 2 + Len(e)
            /\ \A i \in 1..Len(t) : text[i] = t[i]
            /\ text[Len(t) + 1] = "n" /\ text[Len(t) + 2] = "n"
            /\ \A j \in 1..Len(e) : text[Len(t) + 2 + j] = e[j]
        <5>1. IsSeparated(C, t \o Separator \o e, t, e)
          BY <4>1, SeparatedTexts
        <5>2. IsSeparated(C, text, t, e)
          BY <4>2, <5>1
        <5> QED BY <5>2 DEF IsSeparated
      <4> QED BY <4>3 DEF t, e
    <3> HIDE DEF l, m
    <3>3. start - 1 = l + 1
      BY <1>3, <3>1
    <3> QED BY <2>2, <3>1, <3>2, <3>3
  <2> QED BY <2>1, <2>2
<1> HIDE DEF text, blocks, pages, start, end, block
<1>8. Append1(doc, entry) \in Doc(C)
  BY <1>2, <1>5, <1>6, <1>7 DEF Doc
<1>9. Append1(doc, entry).text = text /\ Append1(doc, entry).blocks = blocks
  BY <1>2
<1>10. Appended(doc, entry, Append1(doc, entry))
  <2> HIDE DEF n, l
  <2> QED BY <1>5, <1>7, <1>9 DEF Appended, n, l, start, end, block
<1> QED BY <1>8, <1>10

\* What _build has built after each entry.
BuildAll(entries) == FoldLeft(Append1, Empty, entries)
BuildRun(entries, C, f) ==
  /\ f[0] = Empty /\ f[Len(entries)] = BuildAll(entries)
  /\ \A k \in 0..Len(entries) : f[k] \in Doc(C)
  /\ \A k \in 1..Len(entries) : Appended(f[k - 1], entries[k], f[k])
                                /\ f[k] = Append1(f[k - 1], entries[k])

LEMMA BuildRuns ==
  ASSUME NEW C, HasBreak(C), NEW entries \in Seq(Entry(C))
  PROVE  \E f : BuildRun(entries, C, f)
<1> DEFINE n == Len(entries)
           A == {doc \in Doc(C) : doc.blocks = <<>> => doc.text = <<>>}
           Turn(it) == [T \in SUBSET DOMAIN entries |->
                          IF T = {} THEN Empty
                          ELSE Append1(it[T \ {Max(T)}], entries[Max(T)])]
           iter == CHOOSE it : it = Turn(it)
           Step == [p \in (1..n) \X A |-> Append1(p[2], entries[p[1]])]
           all == BuildAll(entries)
           f == [k \in 0..n |-> iter[1..k]]
<1>1. n \in Nat /\ DOMAIN entries = 1..n /\ \A k \in 1..n : entries[k] \in Entry(C)
  OBVIOUS
<1>2. all = iter[DOMAIN entries]
  BY DEF BuildAll, FoldLeft, MapThenFoldSet
<1> HIDE DEF n, iter, all
<1>3. Empty \in A
  BY DEF Empty, Doc
<1>a. ASSUME NEW doc \in A, NEW entry \in Entry(C)
      PROVE  Append1(doc, entry) \in A /\ Appended(doc, entry, Append1(doc, entry))
  <2> DEFINE next == Append1(doc, entry)
  <2>1. next \in Doc(C) /\ Appended(doc, entry, next)
    BY Append1Facts
  <2> HIDE DEF next
  <2>2. Len(next.blocks) = Len(doc.blocks) + 1 /\ Len(doc.blocks) \in Nat
    BY <2>1 DEF Appended, Doc
  <2>3. next.blocks # <<>>
    BY <2>2
  <2> QED BY <2>1, <2>3 DEF next
<1>4. Step \in [(1..n) \X A -> A]
  <2>1. ASSUME NEW i \in 1..n, NEW found \in A PROVE Append1(found, entries[i]) \in A
    BY <1>1, <1>a
  <2> HIDE DEF A
  <2> QED BY <2>1
<1> HIDE DEF A
<1>5. \E it : it \in [SUBSET (1..n) -> A] /\ it = Turn(it)
  <2>0. PICK it : Iterates(it, n, A, Empty, Step)
    <3>1. IsFold(n, A, Empty, Step)
      BY <1>1, <1>3, <1>4 DEF IsFold
    <3> QED BY <3>1, FoldIteration
  <2>1. /\ it \in [SUBSET (1..n) -> A]
        /\ \A T \in SUBSET (1..n) :
             it[T] = IF T = {} THEN Empty ELSE Step[<<Max(T), it[T \ {Max(T)}]>>]
    BY <2>0 DEF Iterates
  <2>2. ASSUME NEW T \in SUBSET (1..n), T # {}
        PROVE  Step[<<Max(T), it[T \ {Max(T)}]>>] = Append1(it[T \ {Max(T)}], entries[Max(T)])
    <3>1. Max(T) \in 1..n
      BY <1>1, <2>2, PrefixSets
    <3>2. it[T \ {Max(T)}] \in A
      BY <2>1
    <3> QED BY <3>1, <3>2
  <2>3. \A T \in SUBSET (1..n) : it[T] = Turn(it)[T]
    <3> HIDE DEF Step
    <3> QED BY <1>1, <2>1, <2>2
  <2>4. it = [T \in SUBSET (1..n) |-> it[T]]
    BY <2>1
  <2>5. Turn(it) = [T \in SUBSET (1..n) |-> Turn(it)[T]]
    BY <1>1
  <2> HIDE DEF Turn
  <2>6. it = Turn(it)
    BY <2>3, <2>4, <2>5
  <2> QED BY <2>1, <2>6
<1>6. iter = Turn(iter)
  <2> HIDE DEF Turn
  <2> QED BY <1>5 DEF iter
<1>7. f[0] = Empty
  <2>1. iter[{}] = Empty
    BY <1>6
  <2> QED BY <1>1, <2>1, PrefixSets
<1>8. ASSUME NEW k \in 1..n PROVE f[k] = Append1(f[k - 1], entries[k])
  <2>1. Max(1..k) = k /\ (1..k) \ {k} = 1..(k - 1)
    BY <1>1, PrefixSets
  <2>a. 1..k # {} /\ 1..k \in SUBSET (1..n)
    BY <1>1, PrefixSets
  <2>2. iter[1..k] = Append1(iter[1..(k - 1)], entries[k])
    BY <1>1, <1>6, <2>1, <2>a
  <2>3. f[k] = iter[1..k] /\ f[k - 1] = iter[1..(k - 1)]
    BY <1>1
  <2> QED BY <2>2, <2>3
<1>9. f[n] = all
  BY <1>1, <1>2
<1> HIDE DEF f
<1>10. \A k \in 0..n : f[k] \in A
  <2> DEFINE T == {k \in Nat : f[k] \in A}
  <2>1. 0 \in T
    BY <1>3, <1>7
  <2>2. ASSUME NEW k \in 0..(n - 1), k \in T PROVE k + 1 \in T
    <3>1. k + 1 \in 1..n /\ (k + 1) - 1 = k /\ k + 1 \in Nat
      BY <1>1
    <3>2. f[k + 1] = Append1(f[k], entries[k + 1]) /\ entries[k + 1] \in Entry(C)
      BY <1>1, <1>8, <3>1
    <3>3. f[k] \in A
      BY <2>2
    <3> QED BY <1>a, <3>1, <3>2, <3>3
  <2> HIDE DEF T
  <2>3. 0..n \subseteq T
    BY <1>1, <2>1, <2>2, Induction
  <2> QED BY <2>3 DEF T
<1>11. \A k \in 0..n : f[k] \in Doc(C)
  BY <1>10 DEF A
<1>12. ASSUME NEW k \in 1..n PROVE Appended(f[k - 1], entries[k], f[k])
  <2>1. k - 1 \in 0..n /\ entries[k] \in Entry(C)
    BY <1>1
  <2> QED BY <1>8, <1>10, <1>a, <2>1
<1> QED BY <1>7, <1>8, <1>9, <1>11, <1>12 DEF BuildRun, all, n

\* After k entries: their blocks in order, a separator between two, and the
\* text of each at its offsets.
TextInv(entries, k, doc) ==
  /\ Len(doc.blocks) = k /\ (k = 0 => doc.text = <<>>)
  /\ k > 0 => doc.blocks[1].start = 0 /\ doc.blocks[k].end = Len(doc.text)
  /\ \A i \in 1..k :
       /\ doc.blocks[i].kind = entries[i].kind /\ doc.blocks[i].page = entries[i].page
       /\ doc.blocks[i].end = doc.blocks[i].start + Len(entries[i].text)
       /\ doc.blocks[i].end <= Len(doc.text)
       /\ \A j \in 1..Len(entries[i].text) : doc.text[doc.blocks[i].start + j] = entries[i].text[j]
  /\ \A i \in 1..(k - 1) :
       /\ doc.blocks[i + 1].start = doc.blocks[i].end + 2
       /\ doc.text[doc.blocks[i].end + 1] = "n" /\ doc.text[doc.blocks[i].end + 2] = "n"

LEMMA TextTurn ==
  ASSUME NEW C, NEW entries \in Seq(Entry(C)), NEW k \in 1..Len(entries),
         NEW doc \in Doc(C), NEW next \in Doc(C), Appended(doc, entries[k], next),
         TextInv(entries, k - 1, doc)
  PROVE  TextInv(entries, k, next)
<1> DEFINE b == doc.blocks
           c == next.blocks
           t == doc.text
           u == next.text
           l == Len(t)
           m(i) == Len(entries[i].text)
           start == StartOf(doc)
<1>1. k \in Nat /\ l \in Nat /\ k - 1 \in Nat /\ Len(u) \in Nat
      /\ \A i \in 1..Len(entries) : m(i) \in Nat
  <2>1. \A i \in 1..Len(entries) : m(i) \in Nat
    <3>1. \A i \in 1..Len(entries) : entries[i] \in Entry(C)
      OBVIOUS
    <3> HIDE DEF b, c, t, u, l, start
    <3> QED BY <3>1 DEF Entry
  <2> HIDE DEF m
  <2> QED BY <2>1 DEF Doc
<1>2. /\ Len(c) = Len(b) + 1 /\ \A i \in 1..Len(b) : c[i] = b[i]
      /\ c[Len(b) + 1] = [kind |-> entries[k].kind, start |-> start,
                         end |-> start + m(k), page |-> entries[k].page]
      /\ Len(u) = start + m(k)
      /\ \A i \in 1..l : u[i] = t[i]
      /\ \A j \in 1..m(k) : u[start + j] = entries[k].text[j]
      /\ b # <<>> => u[start - 1] = "n" /\ u[start] = "n"
  BY DEF Appended
<1>3. /\ Len(b) = k - 1 /\ (k - 1 = 0 => t = <<>>)
      /\ k - 1 > 0 => b[1].start = 0 /\ b[k - 1].end = l
  BY DEF TextInv
<1>4. /\ \A i \in 1..(k - 1) :
            /\ b[i].kind = entries[i].kind /\ b[i].page = entries[i].page
            /\ b[i].end = b[i].start + m(i) /\ b[i].end <= l
            /\ \A j \in 1..m(i) : t[b[i].start + j] = entries[i].text[j]
      /\ \A i \in 1..((k - 1) - 1) :
            /\ b[i + 1].start = b[i].end + 2
            /\ t[b[i].end + 1] = "n" /\ t[b[i].end + 2] = "n"
  BY DEF TextInv
<1>5. \A i \in 1..(k - 1) : b[i].start \in Nat /\ b[i].end \in Nat
  <2>1. b \in Seq(Block)
    BY DEF Doc
  <2>2. \A i \in 1..(k - 1) : b[i] \in Block
    <3> HIDE DEF b
    <3> QED BY <1>1, <1>3, <2>1
  <2> HIDE DEF b
  <2> QED BY <2>2 DEF Block
<1>6. (k = 1 => start = 0) /\ (k # 1 => start = l + 2) /\ (b = <<>> <=> k = 1)
  <2>1. b \in Seq(Block)
    BY DEF Doc
  <2>2. b = <<>> <=> k = 1
    <3> HIDE DEF b
    <3> QED BY <1>1, <1>3, <2>1
  <2> QED BY <2>2 DEF StartOf
<1> HIDE DEF b, c, t, u, l, m, start
<1>7. /\ c[k].kind = entries[k].kind /\ c[k].start = start /\ c[k].end = Len(u)
      /\ c[k].page = entries[k].page /\ Len(c) = k /\ \A i \in 1..(k - 1) : c[i] = b[i]
  <2>1. Len(b) + 1 = k
    BY <1>1, <1>3
  <2> QED BY <1>2, <1>3, <2>1
<1>8. start \in Nat /\ l <= start /\ start <= Len(u) /\ m(k) \in Nat
  <2>1. k = 1 => l = 0
    BY <1>3 DEF l
  <2> QED BY <1>1, <1>2, <1>6, <2>1
<1>9. c[1].start = 0
  <2>1. CASE k = 1
    BY <1>6, <1>7, <2>1
  <2>2. CASE k # 1
    <3>1. 1 \in 1..(k - 1) /\ k - 1 > 0
      BY <1>1, <2>2
    <3> QED BY <1>3, <1>7, <3>1
  <2> QED BY <2>1, <2>2
<1>10. ASSUME NEW i \in 1..k
       PROVE  /\ c[i].kind = entries[i].kind /\ c[i].page = entries[i].page
              /\ c[i].end = c[i].start + m(i) /\ c[i].end <= Len(u)
              /\ \A j \in 1..m(i) : u[c[i].start + j] = entries[i].text[j]
  <2>1. CASE i = k
    BY <1>2, <1>7, <1>8, <1>1, <2>1
  <2>2. CASE i # k
    <3>1. i \in 1..(k - 1) /\ c[i] = b[i] /\ m(i) \in Nat
      BY <1>1, <1>7, <2>2
    <3>2. b[i].end = b[i].start + m(i) /\ b[i].end <= l /\ b[i].start \in Nat /\ b[i].end \in Nat
      BY <1>4, <1>5, <3>1
    <3>3. \A j \in 1..m(i) : b[i].start + j \in 1..l
      <4> DEFINE x == b[i].start
                 y == b[i].end
      <4> HIDE DEF x, y
      <4>1. y = x + m(i) /\ y <= l /\ x \in Nat /\ y \in Nat
        BY <3>2 DEF x, y
      <4>2. \A j \in 1..m(i) : x + j \in 1..l
        BY <1>1, <3>1, <4>1
      <4> QED BY <4>2 DEF x
    <3>4. \A j \in 1..m(i) : u[b[i].start + j] = entries[i].text[j]
      <4>1. \A j \in 1..m(i) : t[b[i].start + j] = entries[i].text[j]
        BY <1>4, <3>1
      <4>2. \A j \in 1..l : u[j] = t[j]
        BY <1>2
      <4> QED BY <3>3, <4>1, <4>2
    <3>5. b[i].end <= Len(u)
      <4> DEFINE y == b[i].end
      <4> HIDE DEF y
      <4>1. y \in Nat /\ y <= l
        BY <3>2 DEF y
      <4>2. y <= Len(u)
        BY <1>1, <1>8, <4>1
      <4> QED BY <4>2 DEF y
    <3> QED BY <1>4, <3>1, <3>4, <3>5
  <2> QED BY <2>1, <2>2
<1>11. ASSUME NEW i \in 1..(k - 1)
       PROVE  /\ c[i + 1].start = c[i].end + 2
              /\ u[c[i].end + 1] = "n" /\ u[c[i].end + 2] = "n"
  <2>1. CASE i = k - 1
    <3>1. i + 1 = k /\ k # 1 /\ k - 1 > 0 /\ c[i] = b[i]
      BY <1>1, <1>7, <2>1
    <3>2. c[i].end = l /\ c[k].start = l + 2 /\ start = l + 2
      BY <1>3, <1>6, <1>7, <2>1, <3>1
    <3>3. u[start - 1] = "n" /\ u[start] = "n" /\ start - 1 = l + 1
      BY <1>1, <1>2, <1>6, <3>1, <3>2
    <3> QED BY <3>1, <3>2, <3>3
  <2>2. CASE i # k - 1
    <3>1. i \in 1..((k - 1) - 1) /\ i + 1 \in 1..(k - 1)
      BY <1>1, <2>2
    <3>2. c[i] = b[i] /\ c[i + 1] = b[i + 1]
      BY <1>7, <3>1
    <3>a. b[i + 1].start \in Nat /\ b[i].end \in Nat
      BY <1>5, <3>1
    <3>b. /\ b[i + 1].start = b[i].end + 2 /\ t[b[i].end + 1] = "n" /\ t[b[i].end + 2] = "n"
      BY <1>4, <3>1
    <3>c. b[i + 1].end = b[i + 1].start + m(i + 1) /\ b[i + 1].end <= l
      BY <1>4, <3>1
    <3>d. m(i + 1) \in Nat
      <4>1. i + 1 \in 1..Len(entries)
        BY <1>1, <3>1
      <4> QED BY <1>1, <4>1
    <3>3. /\ b[i + 1].start = b[i].end + 2 /\ b[i + 1].start \in Nat /\ b[i].end \in Nat
          /\ t[b[i].end + 1] = "n" /\ t[b[i].end + 2] = "n"
          /\ b[i + 1].end = b[i + 1].start + m(i + 1) /\ b[i + 1].end <= l /\ m(i + 1) \in Nat
      BY <3>a, <3>b, <3>c, <3>d
    <3>4. b[i].end + 1 \in 1..l /\ b[i].end + 2 \in 1..l
      <4> DEFINE x == b[i].end
                 y == b[i + 1].start
                 z == b[i + 1].end
                 w == m(i + 1)
      <4>1. y = x + 2 /\ y \in Nat /\ x \in Nat /\ z = y + w /\ z <= l /\ w \in Nat
        BY <3>3
      <4> HIDE DEF x, y, z, w
      <4>2. x + 1 \in 1..l /\ x + 2 \in 1..l
        BY <1>1, <4>1
      <4> QED BY <4>2 DEF x
    <3> QED BY <1>2, <3>2, <3>3, <3>4
  <2> QED BY <2>1, <2>2
<1>12. k # 0
  BY <1>1
<1> QED BY <1>7, <1>9, <1>10, <1>11, <1>12 DEF TextInv, c, u, m

LEMMA TextBuilt ==
  ASSUME NEW C, NEW entries \in Seq(Entry(C)), NEW f, BuildRun(entries, C, f)
  PROVE  \A k \in 0..Len(entries) : TextInv(entries, k, f[k])
<1> DEFINE n == Len(entries)
           T == {k \in Nat : TextInv(entries, k, f[k])}
<1>1. /\ n \in Nat /\ f[0] = Empty /\ \A k \in 0..n : f[k] \in Doc(C)
      /\ \A k \in 1..n : Appended(f[k - 1], entries[k], f[k])
  BY DEF BuildRun
<1>2. 0 \in T
  <2>1. TextInv(entries, 0, Empty)
    BY DEF TextInv, Empty
  <2> QED BY <1>1, <2>1
<1>3. ASSUME NEW k \in 0..(n - 1), k \in T PROVE k + 1 \in T
  <2>1. k + 1 \in 1..n /\ (k + 1) - 1 = k /\ k + 1 \in Nat /\ k \in 0..n /\ k + 1 \in 0..n
    BY <1>1
  <2>2. Appended(f[(k + 1) - 1], entries[k + 1], f[k + 1]) /\ f[(k + 1) - 1] \in Doc(C) /\ f[k + 1] \in Doc(C)
    BY <1>1, <2>1
  <2>3. TextInv(entries, (k + 1) - 1, f[(k + 1) - 1])
    BY <1>3, <2>1
  <2>4. TextInv(entries, k + 1, f[k + 1])
    <3> HIDE DEF T
    <3> QED BY <2>1, <2>2, <2>3, TextTurn
  <2> QED BY <2>1, <2>4
<1> HIDE DEF T
<1>4. 0..n \subseteq T
  BY <1>1, <1>2, <1>3, Induction
<1> QED BY <1>4 DEF T

\* Entries of a document with pages: they count up, from one.
IsPaged(entries) ==
  /\ \A i \in DOMAIN entries : entries[i].page # NoPage
  /\ \A i, j \in DOMAIN entries : i <= j => entries[i].page <= entries[j].page

\* After k entries of such a document: pages in order and without a gap, the
\* last of them open, and every block on its own.
PagesInv(entries, k, doc) ==
  LET m == Len(doc.pages)
  IN IF k = 0 THEN m = 0
     ELSE /\ m > 0 /\ doc.pages[1].start = 0 /\ doc.pages[m].page = entries[k].page
          /\ doc.pages[m].start <= Len(doc.text)
          /\ \A i \in 1..(m - 1) : doc.pages[i].page < doc.pages[i + 1].page
                                   /\ doc.pages[i].end = doc.pages[i + 1].start
          /\ \A i \in 1..k : \E j \in 1..m :
               /\ doc.pages[j].page = entries[i].page /\ doc.pages[j].start <= doc.blocks[i].start
               /\ j < m => doc.blocks[i].end <= doc.pages[j].end

\* _build: a block that opens a page ends the one before it where it starts.
LEMMA PageOpens ==
  ASSUME NEW C, NEW doc \in Doc(C), NEW entry \in Entry(C), entry.page # NoPage
  PROVE  LET m == Len(doc.pages)
             opens == m = 0 \/ doc.pages[m].page # entry.page
             pages == Append1(doc, entry).pages
         IN IF opens
            THEN /\ Len(pages) = m + 1
                 /\ pages[m + 1] = [page |-> entry.page, start |-> StartOf(doc), end |-> StartOf(doc)]
                 /\ \A i \in 1..m : /\ pages[i].page = doc.pages[i].page
                                    /\ pages[i].start = doc.pages[i].start
                                    /\ pages[i].end = IF i = m THEN StartOf(doc) ELSE doc.pages[i].end
            ELSE pages = doc.pages
<1> DEFINE p == doc.pages
           m == Len(p)
           s == StartOf(doc)
           closed == ClosePage(p, s)
           pages == Append1(doc, entry).pages
           page == [page |-> entry.page, start |-> s, end |-> s]
<1>1. p \in Seq(PageSpan) /\ Len(doc.text) \in Nat
  BY DEF Doc
<1>2. m \in Nat /\ (p = <<>> <=> m = 0) /\ Last(p) = p[m]
  <2> HIDE DEF p
  <2> QED BY <1>1 DEF Last
<1>3. s \in Nat
  BY <1>1 DEF StartOf
<1>4. pages = IF p = <<>> \/ Last(p).page # entry.page THEN Append(closed, page) ELSE p
  BY DEF Append1, StartOf
<1> HIDE DEF p, s, pages, page
<1>5. CASE m = 0 \/ p[m].page # entry.page
  <2>1. closed \in Seq(PageSpan) /\ Len(closed) = m
        /\ \A i \in 1..m : /\ closed[i].page = p[i].page /\ closed[i].start = p[i].start
                           /\ closed[i].end = IF i = m THEN s ELSE p[i].end
    BY <1>1, <1>3, ClosedPages
  <2>2. pages = Append(closed, page)
    BY <1>2, <1>4, <1>5
  <2>3. page \in PageSpan
    <3>1. entry.page \in Nat
      BY DEF Entry
    <3> QED BY <1>3, <3>1 DEF PageSpan, page
  <2> HIDE DEF closed
  <2>4. Len(pages) = m + 1 /\ pages[m + 1] = page /\ \A i \in 1..m : pages[i] = closed[i]
    <3> HIDE DEF m
    <3> QED BY <2>1, <2>2, <2>3
  <2>5. \A i \in 1..m : /\ pages[i].page = p[i].page /\ pages[i].start = p[i].start
                        /\ pages[i].end = IF i = m THEN s ELSE p[i].end
    BY <2>1, <2>4
  <2> QED BY <1>5, <2>4, <2>5 DEF p, s, pages, page
<1>6. CASE ~ (m = 0 \/ p[m].page # entry.page)
  <2>1. pages = p
    BY <1>2, <1>4, <1>6
  <2> QED BY <1>6, <2>1 DEF p, pages
<1> QED BY <1>5, <1>6

LEMMA PagesTurn ==
  ASSUME NEW C, NEW entries \in Seq(Entry(C)), IsPaged(entries), NEW k \in 1..Len(entries),
         NEW doc \in Doc(C), NEW next \in Doc(C), next = Append1(doc, entries[k]),
         Appended(doc, entries[k], next),
         TextInv(entries, k - 1, doc), TextInv(entries, k, next), PagesInv(entries, k - 1, doc)
  PROVE  PagesInv(entries, k, next)
<1> DEFINE p == doc.pages
           q == next.pages
           m == Len(p)
           s == StartOf(doc)
           l == Len(doc.text)
           b == next.blocks
           page == entries[k].page
           opens == m = 0 \/ p[m].page # page
<1>1. k \in Nat /\ m \in Nat /\ l \in Nat /\ Len(next.text) \in Nat /\ k - 1 \in Nat /\ entries[k] \in Entry(C)
  BY DEF Doc
<1>2. IF opens
      THEN /\ Len(q) = m + 1 /\ q[m + 1] = [page |-> page, start |-> s, end |-> s]
           /\ \A i \in 1..m : /\ q[i].page = p[i].page /\ q[i].start = p[i].start
                              /\ q[i].end = IF i = m THEN s ELSE p[i].end
      ELSE q = p
  <2>1. page # NoPage
    BY DEF IsPaged
  <2> QED BY <1>1, <2>1, PageOpens
<1>3. /\ Len(next.text) = s + Len(entries[k].text) /\ b[k].start = s /\ Len(entries[k].text) \in Nat
      /\ \A i \in 1..(k - 1) : b[i] = doc.blocks[i]
  <2>1. Len(doc.blocks) = k - 1
    BY DEF TextInv
  <2>2. (k - 1) + 1 = k
    BY <1>1
  <2>3. Len(entries[k].text) \in Nat
    BY <1>1 DEF Entry
  <2> QED BY <2>1, <2>2, <2>3 DEF Appended
<1>4. (k = 1 => s = 0) /\ l <= s /\ s \in Nat
  <2>1. (k = 1 => l = 0) /\ Len(doc.blocks) = k - 1
    BY <1>1 DEF TextInv
  <2>2. k = 1 => doc.blocks = <<>>
    <3>1. doc.blocks \in Seq(Block)
      BY DEF Doc
    <3> QED BY <2>1, <3>1
  <2>3. (doc.blocks = <<>> => s = 0) /\ (doc.blocks # <<>> => s = l + 2)
    BY DEF StartOf
  <2>4. doc.blocks = <<>> => k = 1
    BY <1>1, <2>1
  <2> HIDE DEF s, l
  <2> QED BY <1>1, <2>1, <2>2, <2>3, <2>4
<1>5. /\ \A i \in 1..(k - 1) : b[i].end <= l /\ b[i].end \in Nat /\ entries[i].page <= page
      /\ page \in Nat
  <2>1. doc.blocks \in Seq(Block)
    BY DEF Doc
  <2>2. Len(doc.blocks) = k - 1 /\ \A i \in 1..(k - 1) : doc.blocks[i].end <= l
    BY DEF TextInv
  <2>3. \A i \in 1..(k - 1) : doc.blocks[i] \in Block
    <3> DEFINE c == doc.blocks
    <3> HIDE DEF c
    <3>1. \A i \in 1..(k - 1) : c[i] \in Block
      BY <1>1, <2>1, <2>2 DEF c
    <3> QED BY <3>1 DEF c
  <2>4. \A i \in 1..(k - 1) : doc.blocks[i].end \in Nat
    BY <2>3 DEF Block
  <2>5. \A i \in 1..(k - 1) : i \in DOMAIN entries /\ k \in DOMAIN entries /\ i <= k
    BY <1>1
  <2>6. \A i \in 1..(k - 1) : entries[i].page <= page
    BY <2>5 DEF IsPaged
  <2>7. page \in Nat
    BY <1>1 DEF Entry
  <2> QED BY <1>3, <2>2, <2>4, <2>6, <2>7
<1>6. IF k = 1 THEN m = 0
      ELSE /\ m > 0 /\ p[1].start = 0 /\ p[m].page = entries[k - 1].page /\ p[m].start <= l
           /\ \A i \in 1..(m - 1) : p[i].page < p[i + 1].page /\ p[i].end = p[i + 1].start
           /\ \A i \in 1..(k - 1) : \E j \in 1..m :
                /\ p[j].page = entries[i].page /\ p[j].start <= b[i].start
                /\ j < m => b[i].end <= p[j].end
  <2>1. k - 1 = 0 <=> k = 1
    BY <1>1
  <2> QED BY <1>3, <2>1 DEF PagesInv
<1>7. \A i \in 1..m : p[i].page \in Nat /\ p[i].start \in Nat /\ p[i].end \in Nat
  <2>1. p \in Seq(PageSpan)
    BY DEF Doc
  <2>2. \A i \in 1..m : p[i] \in PageSpan
    <3> HIDE DEF p
    <3> QED BY <2>1
  <2> HIDE DEF p, m
  <2> QED BY <2>2 DEF PageSpan
<1> SUFFICES /\ Len(q) > 0 /\ q[1].start = 0 /\ q[Len(q)].page = page
             /\ q[Len(q)].start <= Len(next.text)
             /\ \A i \in 1..(Len(q) - 1) : q[i].page < q[i + 1].page /\ q[i].end = q[i + 1].start
             /\ \A i \in 1..k : \E j \in 1..Len(q) :
                  /\ q[j].page = entries[i].page /\ q[j].start <= b[i].start
                  /\ j < Len(q) => b[i].end <= q[j].end
  BY <1>1 DEF PagesInv
<1> DEFINE v == Len(next.text)
<1>8. v \in Nat /\ s <= v /\ l <= v
  <2> DEFINE w == Len(entries[k].text)
  <2>1. v = s + w /\ w \in Nat
    BY <1>3
  <2> HIDE DEF v, w, s, l
  <2> QED BY <1>1, <1>4, <2>1
<1> HIDE DEF p, q, m, s, l, b, v
<1>9. CASE opens
  <2>1. /\ Len(q) = m + 1 /\ q[m + 1].page = page /\ q[m + 1].start = s
        /\ \A i \in 1..m : /\ q[i].page = p[i].page /\ q[i].start = p[i].start
                           /\ q[i].end = IF i = m THEN s ELSE p[i].end
    BY <1>2, <1>9
  <2> HIDE DEF page, opens
  <2>2. q[1].start = 0
    <3>1. CASE k = 1
      BY <1>4, <1>6, <2>1, <3>1
    <3>2. CASE k # 1
      <4>1. 1 \in 1..m
        BY <1>1, <1>6, <3>2
      <4> QED BY <1>6, <2>1, <3>2, <4>1
    <3> QED BY <3>1, <3>2
  <2>3. ASSUME NEW i \in 1..m PROVE q[i].page < q[i + 1].page /\ q[i].end = q[i + 1].start
    <3>0. k # 1 /\ k - 1 \in 1..(k - 1)
      BY <1>1, <1>6
    <3>1. CASE i = m
      <4>1. q[i].page = p[m].page /\ q[i].end = s /\ m \in 1..m
        BY <2>1, <3>1
      <4>2. p[m].page <= page /\ p[m].page # page /\ p[m].page \in Nat
        <5>1. p[m].page = entries[k - 1].page
          BY <1>6, <3>0
        <5>2. entries[k - 1].page <= page
          BY <1>5, <3>0
        <5>3. p[m].page # page
          BY <1>9, <4>1 DEF opens
        <5> QED BY <1>7, <4>1, <5>1, <5>2, <5>3
      <4>3. p[m].page < page
        BY <1>5, <4>2
      <4> QED BY <2>1, <3>1, <4>1, <4>3
    <3>2. CASE i # m
      <4>1. i \in 1..(m - 1) /\ i + 1 \in 1..m
        BY <1>1, <3>2
      <4>2. q[i].page = p[i].page /\ q[i].end = p[i].end /\ q[i + 1].page = p[i + 1].page /\ q[i + 1].start = p[i + 1].start
        BY <2>1, <3>2, <4>1
      <4>3. p[i].page < p[i + 1].page /\ p[i].end = p[i + 1].start
        BY <1>6, <3>0, <4>1
      <4> QED BY <4>2, <4>3
    <3> QED BY <3>1, <3>2
  <2>4. ASSUME NEW i \in 1..k
        PROVE  \E j \in 1..(m + 1) : /\ q[j].page = entries[i].page /\ q[j].start <= b[i].start
                                     /\ j < m + 1 => b[i].end <= q[j].end
    <3>1. CASE i = k
      <4>1. m + 1 \in 1..(m + 1) /\ ~ (m + 1 < m + 1)
        BY <1>1
      <4>2. q[m + 1].page = entries[i].page /\ q[m + 1].start <= b[i].start
        BY <1>3, <1>4, <2>1, <3>1 DEF page
      <4> QED BY <4>1, <4>2
    <3>2. CASE i # k
      <4>0. i \in 1..(k - 1) /\ k # 1
        BY <1>1, <3>2
      <4>1. PICK j \in 1..m : /\ p[j].page = entries[i].page /\ p[j].start <= b[i].start
                              /\ j < m => b[i].end <= p[j].end
        BY <1>6, <4>0
      <4>2. q[j].page = p[j].page /\ q[j].start = p[j].start /\ q[j].end = IF j = m THEN s ELSE p[j].end
        BY <2>1
      <4>3. b[i].end <= q[j].end
        <5>1. CASE j = m
          <6> DEFINE x == b[i].end
          <6>1. x \in Nat /\ x <= l
            BY <1>5, <4>0
          <6> HIDE DEF x
          <6>2. x <= s
            BY <1>1, <1>4, <6>1
          <6> QED BY <4>2, <5>1, <6>2 DEF x
        <5>2. CASE j # m
          BY <1>1, <4>1, <4>2, <5>2
        <5> QED BY <5>1, <5>2
      <4>4. j \in 1..(m + 1)
        BY <1>1
      <4> QED BY <4>1, <4>2, <4>3, <4>4
    <3> QED BY <3>1, <3>2
  <2>5. (m + 1) - 1 = m /\ m + 1 > 0
    BY <1>1
  <2> QED BY <1>8, <2>1, <2>2, <2>3, <2>4, <2>5 DEF v
<1>10. CASE ~ opens
  <2>1. q = p /\ m > 0 /\ p[m].page = page /\ k # 1 /\ m \in 1..m
    <3>1. q = p
      BY <1>2, <1>10
    <3>2. m # 0 /\ p[m].page = page
      BY <1>10
    <3> QED BY <1>1, <1>6, <3>1, <3>2
  <2>2. p[m].start <= s /\ p[m].start <= v /\ p[m].start \in Nat
    <3> DEFINE x == p[m].start
    <3>1. x \in Nat /\ x <= l
      BY <1>6, <1>7, <2>1
    <3> HIDE DEF x
    <3>2. x <= s /\ x <= v
      BY <1>1, <1>4, <1>8, <3>1
    <3> QED BY <3>1, <3>2 DEF x
  <2>3. ASSUME NEW i \in 1..k
        PROVE  \E j \in 1..m : /\ p[j].page = entries[i].page /\ p[j].start <= b[i].start
                               /\ j < m => b[i].end <= p[j].end
    <3>1. CASE i = k
      BY <1>1, <1>3, <2>1, <2>2, <3>1
    <3>2. CASE i # k
      <4>1. i \in 1..(k - 1)
        BY <1>1, <3>2
      <4> QED BY <1>6, <2>1, <4>1
    <3> QED BY <3>1, <3>2
  <2> QED BY <1>6, <2>1, <2>2, <2>3 DEF m, v
<1> QED BY <1>9, <1>10

LEMMA PagesBuilt ==
  ASSUME NEW C, NEW entries \in Seq(Entry(C)), IsPaged(entries), NEW f, BuildRun(entries, C, f)
  PROVE  PagesInv(entries, Len(entries), f[Len(entries)])
<1> DEFINE n == Len(entries)
           T == {k \in Nat : PagesInv(entries, k, f[k])}
<1>1. /\ n \in Nat /\ f[0] = Empty /\ \A k \in 0..n : f[k] \in Doc(C)
      /\ \A k \in 1..n : Appended(f[k - 1], entries[k], f[k]) /\ f[k] = Append1(f[k - 1], entries[k])
  BY DEF BuildRun
<1>a. \A k \in 0..n : TextInv(entries, k, f[k])
  BY TextBuilt
<1>2. 0 \in T
  <2>1. PagesInv(entries, 0, Empty)
    BY DEF PagesInv, Empty
  <2> QED BY <1>1, <2>1
<1>3. ASSUME NEW k \in 0..(n - 1), k \in T PROVE k + 1 \in T
  <2>1. k + 1 \in 1..n /\ (k + 1) - 1 = k /\ k + 1 \in Nat /\ k \in 0..n /\ k + 1 \in 0..n
    BY <1>1
  <2> DEFINE j == k + 1
             doc == f[j - 1]
             next == f[j]
  <2>2. Appended(doc, entries[j], next) /\ doc \in Doc(C) /\ next \in Doc(C) /\ next = Append1(doc, entries[j])
    BY <1>1, <2>1
  <2>3. PagesInv(entries, j - 1, doc) /\ TextInv(entries, j - 1, doc) /\ TextInv(entries, j, next)
    BY <1>3, <1>a, <2>1
  <2>4. j \in 1..Len(entries)
    BY <2>1
  <2>5. PagesInv(entries, j, next)
    <3> HIDE DEF T, doc, next, j
    <3> QED BY <2>2, <2>3, <2>4, PagesTurn
  <2> QED BY <2>1, <2>5
<1> HIDE DEF T
<1>4. 0..n \subseteq T
  BY <1>1, <1>2, <1>3, Induction
<1> QED BY <1>1, <1>4 DEF T

\* _build: what it returns is what its loop built, with the last page ended.
LEMMA BuildFacts ==
  ASSUME NEW C, HasBreak(C), NEW entries \in Seq(Entry(C))
  PROVE  LET doc == Build(entries)
         IN /\ doc \in Doc(C) /\ TextInv(entries, Len(entries), doc)
            /\ IsPaged(entries) /\ entries # <<>> =>
                 /\ PagesInv(entries, Len(entries), doc)
                 /\ doc.pages[Len(doc.pages)].end = Len(doc.text)
<1> DEFINE n == Len(entries)
           all == BuildAll(entries)
           doc == Build(entries)
           closed == ClosePage(all.pages, Len(all.text))
<1>1. PICK f : BuildRun(entries, C, f)
  BY BuildRuns
<1>2. n \in Nat /\ f[n] = all /\ all \in Doc(C) /\ TextInv(entries, n, all)
  <2>1. n \in Nat /\ n \in 0..n
    OBVIOUS
  <2>2. f[n] = all /\ f[n] \in Doc(C)
    BY <1>1, <2>1 DEF BuildRun
  <2>3. TextInv(entries, n, f[n])
    BY <1>1, <2>1, TextBuilt
  <2> QED BY <2>1, <2>2, <2>3
<1>3. doc = [all EXCEPT !.pages = closed]
  BY DEF Build, BuildAll
<1> HIDE DEF all, doc
<1>4. /\ all.text \in Seq(C) /\ all.blocks \in Seq(Block) /\ all.pages \in Seq(PageSpan)
      /\ Len(all.text) \in Nat
  BY <1>2 DEF Doc
<1>5. doc.text = all.text /\ doc.blocks = all.blocks /\ doc.pages = closed
  BY <1>2, <1>3 DEF Doc
<1>6. /\ closed \in Seq(PageSpan) /\ Len(closed) = Len(all.pages)
      /\ \A i \in 1..Len(all.pages) :
              /\ closed[i].page = all.pages[i].page /\ closed[i].start = all.pages[i].start
              /\ closed[i].end = IF i = Len(all.pages) THEN Len(all.text) ELSE all.pages[i].end
  BY <1>4, ClosedPages
<1> HIDE DEF closed
<1>7. doc \in Doc(C)
  <2>1. doc = [text |-> all.text, blocks |-> all.blocks, pages |-> closed]
    BY <1>2, <1>3 DEF Doc
  <2> QED BY <1>4, <1>6, <2>1 DEF Doc
<1>8. TextInv(entries, n, doc)
  BY <1>2, <1>5 DEF TextInv
<1>9. ASSUME IsPaged(entries), entries # <<>>
      PROVE  PagesInv(entries, n, doc) /\ doc.pages[Len(doc.pages)].end = Len(doc.text)
  <2> DEFINE p == all.pages
             m == Len(p)
  <2>1. n # 0
    BY <1>9
  <2>2. PagesInv(entries, n, all)
    BY <1>1, <1>2, <1>9, PagesBuilt
  <2>3. /\ m > 0 /\ p[1].start = 0 /\ p[m].page = entries[n].page /\ p[m].start <= Len(all.text)
        /\ \A i \in 1..(m - 1) : p[i].page < p[i + 1].page /\ p[i].end = p[i + 1].start
        /\ \A i \in 1..n : \E j \in 1..m :
             /\ p[j].page = entries[i].page /\ p[j].start <= all.blocks[i].start
             /\ j < m => all.blocks[i].end <= p[j].end
    BY <2>1, <2>2 DEF PagesInv
  <2>4. m \in Nat /\ 1 \in 1..m /\ m \in 1..m
    BY <1>4, <2>3
  <2> HIDE DEF m
  <2>a. Len(closed) = m /\ \A i \in 1..m :
             /\ closed[i].page = p[i].page /\ closed[i].start = p[i].start
             /\ closed[i].end = IF i = m THEN Len(all.text) ELSE p[i].end
    BY <1>6 DEF m
  <2>5. ASSUME NEW i \in 1..(m - 1)
        PROVE  closed[i].page < closed[i + 1].page /\ closed[i].end = closed[i + 1].start
    <3>1. i \in 1..m /\ i + 1 \in 1..m /\ i # m
      BY <2>4
    <3> QED BY <2>3, <2>a, <3>1
  <2>6. ASSUME NEW i \in 1..n
        PROVE  \E j \in 1..m : /\ closed[j].page = entries[i].page
                               /\ closed[j].start <= all.blocks[i].start
                               /\ j < m => all.blocks[i].end <= closed[j].end
    <3>1. PICK j \in 1..m : /\ p[j].page = entries[i].page /\ p[j].start <= all.blocks[i].start
                            /\ j < m => all.blocks[i].end <= p[j].end
      BY <2>3
    <3>2. j < m => j # m
      BY <2>4
    <3> QED BY <2>a, <3>1, <3>2
  <2> HIDE DEF p
  <2> QED BY <1>5, <2>1, <2>3, <2>4, <2>a, <2>5, <2>6 DEF PagesInv
<1> QED BY <1>7, <1>8, <1>9 DEF doc

\* parsing.py: the pages share the text without a gap, and each block is on its own.
THEOREM PagesShareTheText ==
  ASSUME NEW C, HasBreak(C), NEW entries \in Seq(Entry(C)), Parsed(entries)
  PROVE  PagesPartitionText(entries)
<1> DEFINE doc == Build(entries)
           map == doc.pages
           n == Len(entries)
           m == Len(map)
<1> SUFFICES ASSUME entries # <<>>, entries[1].page # NoPage
             PROVE  /\ map[1].start = 0 /\ Last(map).end = Len(doc.text)
                    /\ \A i \in 1..(m - 1) : map[i].page < map[i + 1].page /\ map[i].end = map[i + 1].start
                    /\ \A b \in ToSet(doc.blocks) : \E p \in ToSet(map) :
                         p.page = b.page /\ p.start <= b.start /\ b.end <= p.end
  BY DEF PagesPartitionText
<1>1. IsPaged(entries)
  <2>1. 1 \in DOMAIN entries
    OBVIOUS
  <2> QED BY <2>1 DEF IsPaged, Parsed
<1>2. /\ doc \in Doc(C) /\ TextInv(entries, n, doc) /\ PagesInv(entries, n, doc)
      /\ map[m].end = Len(doc.text)
  BY <1>1, BuildFacts
<1> HIDE DEF doc
<1>3. map \in Seq(PageSpan) /\ doc.blocks \in Seq(Block) /\ n \in Nat /\ n # 0
  BY <1>2 DEF Doc
<1>4. Last(map) = map[m] /\ DOMAIN map = 1..m /\ m \in Nat
  BY <1>3 DEF Last
<1>5. /\ m > 0 /\ map[1].start = 0
      /\ \A i \in 1..(m - 1) : map[i].page < map[i + 1].page /\ map[i].end = map[i + 1].start
      /\ \A i \in 1..n : \E j \in 1..m :
           /\ map[j].page = entries[i].page /\ map[j].start <= doc.blocks[i].start
           /\ j < m => doc.blocks[i].end <= map[j].end
  BY <1>2, <1>3 DEF PagesInv
<1>6. /\ Len(doc.blocks) = n
      /\ \A i \in 1..n : doc.blocks[i].page = entries[i].page /\ doc.blocks[i].end <= Len(doc.text)
  BY <1>2 DEF TextInv
<1> HIDE DEF m, map
<1>7. ASSUME NEW b \in ToSet(doc.blocks)
      PROVE  \E p \in ToSet(map) : p.page = b.page /\ p.start <= b.start /\ b.end <= p.end
  <2>1. PICK i \in 1..n : b = doc.blocks[i]
    <3>1. DOMAIN doc.blocks = 1..n
      BY <1>3, <1>6
    <3> QED BY <3>1 DEF ToSet
  <2>2. PICK j \in 1..m : /\ map[j].page = b.page /\ map[j].start <= b.start
                          /\ j < m => b.end <= map[j].end
    BY <1>5, <1>6, <2>1
  <2>3. b.end <= map[j].end
    <3>1. CASE j = m
      BY <1>2, <1>6, <2>1, <3>1 DEF m, map
    <3>2. CASE j # m
      BY <1>4, <2>2, <3>2
    <3> QED BY <3>1, <3>2
  <2>4. map[j] \in ToSet(map)
    BY <1>4 DEF ToSet
  <2> QED BY <2>2, <2>3, <2>4
<1> QED BY <1>2, <1>4, <1>5, <1>7 DEF m, map

-----------------------------------------------------------------------------
(* Paragraphs of the canonical text (diffing.py)                           *)

BreakAt(text, i) == text[i + 1] = "n" /\ text[i + 2] = "n"

\* A text that consists of the entries' and the separators between them.
IsLaid(entries, text, blocks) ==
  LET n == Len(entries)
  IN /\ Len(blocks) = n /\ (n = 0 => Len(text) = 0)
     /\ n > 0 => blocks[1].start = 0 /\ blocks[n].end = Len(text)
     /\ \A i \in 1..n : /\ blocks[i].start \in Nat /\ blocks[i].end \in Nat
                        /\ blocks[i].start < blocks[i].end /\ blocks[i].end <= Len(text)
                        /\ blocks[i].end = blocks[i].start + Len(entries[i].text)
     /\ \A i \in 1..n : \A j \in 1..Len(entries[i].text) :
          text[blocks[i].start + j] = entries[i].text[j]
     /\ \A i \in 1..(n - 1) : blocks[i + 1].start = blocks[i].end + 2 /\ BreakAt(text, blocks[i].end)
     /\ \A i, j \in 1..n : i < j => blocks[i].end + 2 <= blocks[j].start

LEMMA BuiltIsLaid ==
  ASSUME NEW C, NEW entries \in Seq(Entry(C)), \A i \in DOMAIN entries : IsEntry(entries[i]),
         NEW doc \in Doc(C), TextInv(entries, Len(entries), doc)
  PROVE  IsLaid(entries, doc.text, doc.blocks)
<1> DEFINE n == Len(entries)
           b == doc.blocks
           t == doc.text
           m(i) == Len(entries[i].text)
<1>1. n \in Nat /\ DOMAIN entries = 1..n /\ \A i \in 1..n : m(i) \in Nat /\ m(i) > 0
  <2>1. n \in Nat /\ DOMAIN entries = 1..n /\ \A i \in 1..n : entries[i] \in Entry(C)
    OBVIOUS
  <2>2. \A i \in 1..n : m(i) \in Nat
    <3> HIDE DEF n
    <3> QED BY <2>1 DEF Entry
  <2>3. \A i \in 1..n : m(i) > 0
    <3> HIDE DEF n
    <3> QED BY <2>1 DEF IsEntry
  <2> QED BY <2>1, <2>2, <2>3
<1>2. /\ Len(b) = n /\ (n = 0 => Len(t) = 0)
      /\ n > 0 => b[1].start = 0 /\ b[n].end = Len(t)
      /\ \A i \in 1..n : b[i].end = b[i].start + m(i) /\ b[i].end <= Len(t)
      /\ \A i \in 1..n : \A j \in 1..m(i) : t[b[i].start + j] = entries[i].text[j]
      /\ \A i \in 1..(n - 1) : b[i + 1].start = b[i].end + 2 /\ BreakAt(t, b[i].end)
  BY DEF TextInv, BreakAt
<1>3. \A i \in 1..n : b[i].start \in Nat /\ b[i].end \in Nat
  <2>1. b \in Seq(Block)
    BY DEF Doc
  <2>2. \A i \in 1..n : b[i] \in Block
    <3> HIDE DEF b, n
    <3> QED BY <1>2, <2>1
  <2> HIDE DEF b, n
  <2> QED BY <2>2 DEF Block
<1> HIDE DEF n, b, t, m
<1>4. ASSUME NEW i \in 1..n PROVE b[i].start < b[i].end
  <2> DEFINE x == b[i].start
             y == b[i].end
             z == m(i)
  <2>1. x \in Nat /\ y \in Nat /\ z \in Nat /\ z > 0 /\ y = x + z
    BY <1>1, <1>2, <1>3
  <2> HIDE DEF x, y, z
  <2>2. x < y
    BY <2>1
  <2> QED BY <2>2 DEF x, y
<1>5. ASSUME NEW i \in 1..n, NEW j \in 1..n, i < j PROVE b[i].end + 2 <= b[j].start
  <2> DEFINE T == {k \in Nat : i + 1 + k \in 1..n => b[i].end + 2 <= b[i + 1 + k].start}
  <2>1. 0 \in T
    <3>1. i + 1 + 0 \in 1..n => i \in 1..(n - 1) /\ i + 1 + 0 = i + 1
      BY <1>1
    <3>2. i \in 1..(n - 1) => b[i].end + 2 <= b[i + 1].start
      <4> DEFINE x == b[i].end
      <4>1. x \in Nat
        BY <1>3
      <4> HIDE DEF x
      <4>2. x + 2 <= x + 2
        BY <4>1
      <4> QED BY <1>2, <4>2 DEF x
    <3> QED BY <3>1, <3>2
  <2>2. ASSUME NEW k \in 0..((n - i - 1) - 1), k \in T PROVE k + 1 \in T
    <3> DEFINE h == i + 1 + k
    <3>1. h \in 1..(n - 1) /\ h \in 1..n /\ h + 1 \in 1..n /\ i + 1 + (k + 1) = h + 1 /\ k + 1 \in Nat
      BY <1>1
    <3> DEFINE x == b[i].end
               y == b[h].start
               z == b[h].end
               w == b[h + 1].start
    <3>2. x \in Nat /\ y \in Nat /\ z \in Nat /\ w = z + 2 /\ y < z
      BY <1>2, <1>3, <1>4, <3>1
    <3>3. x + 2 <= y
      BY <2>2, <3>1
    <3> HIDE DEF x, y, z, w, T
    <3>4. x + 2 <= w
      BY <3>2, <3>3
    <3> QED BY <3>1, <3>4 DEF x, w, T
  <2> HIDE DEF T
  <2>3. n - i - 1 \in Nat /\ j - i - 1 \in 0..(n - i - 1) /\ i + 1 + (j - i - 1) = j
    BY <1>1, <1>5
  <2>4. 0..(n - i - 1) \subseteq T
    BY <2>1, <2>2, <2>3, Induction
  <2>5. j - i - 1 \in T
    BY <2>3, <2>4
  <2> QED BY <2>3, <2>5 DEF T
<1> QED BY <1>1, <1>2, <1>3, <1>4, <1>5 DEF IsLaid, n, b, t, m

\* text.find: the first separator from a position on.
LEMMA SeparatorFirst ==
  ASSUME NEW C, NEW text \in Seq(C), NEW pos \in Nat, pos <= Len(text)
  PROVE  LET e == SeparatorFrom(text, pos)
         IN /\ e \in pos..Len(text) /\ (e < Len(text) => e + 2 <= Len(text) /\ BreakAt(text, e))
            /\ \A i \in pos..(e - 1) : i + 2 <= Len(text) => ~ BreakAt(text, i)
<1> DEFINE L == Len(text)
           found == {i \in pos..(L - 2) : Slice(text, i, i + 2) = Separator}
           e == SeparatorFrom(text, pos)
<1>1. L \in Nat
  OBVIOUS
<1>2. ASSUME NEW i \in pos..(L - 2) PROVE Slice(text, i, i + 2) = Separator <=> BreakAt(text, i)
  <2> DEFINE s == SubSeq(text, i + 1, i + 2)
  <2>1. i \in Nat /\ i + 1 \in 1..L /\ i + 2 \in 1..L /\ i + 2 - (i + 1) + 1 = 2
    BY <1>1
  <2>2. s \in Seq(C) /\ Len(s) = 2 /\ s[1] = text[i + 1] /\ s[2] = text[i + 2]
    <3>1. s \in Seq(C) /\ Len(s) = 2
      BY <2>1
    <3>2. s[1] = text[i + 1 + 1 - 1] /\ s[2] = text[i + 1 + 2 - 1]
      BY <2>1
    <3>3. i + 1 + 1 - 1 = i + 1 /\ i + 1 + 2 - 1 = i + 2
      BY <2>1
    <3> QED BY <3>1, <3>2, <3>3
  <2>3. Slice(text, i, i + 2) = s
    BY DEF Slice
  <2> HIDE DEF s
  <2>4. s = <<s[1], s[2]>>
    BY <2>2
  <2>5. s = <<"n", "n">> <=> s[1] = "n" /\ s[2] = "n"
    BY <2>4
  <2> QED BY <2>2, <2>3, <2>5 DEF Separator, BreakAt
<1>3. CASE found = {}
  <2>1. e = L
    BY <1>3 DEF SeparatorFrom
  <2>2. \A i \in pos..(L - 2) : ~ BreakAt(text, i)
    BY <1>2, <1>3
  <2> HIDE DEF e, found
  <2>3. \A i \in pos..(e - 1) : i + 2 <= L => i \in pos..(L - 2)
    BY <1>1, <2>1
  <2> QED BY <1>1, <2>1, <2>2, <2>3 DEF e
<1>4. CASE found # {}
  <2>1. e = CHOOSE i \in found : \A j \in found : i <= j
    BY <1>4 DEF SeparatorFrom
  <2>2. \A i : i \in found <=> i \in pos..(L - 2) /\ BreakAt(text, i)
    BY <1>2
  <2> HIDE DEF e, found
  <2>3. found \in SUBSET Nat
    BY <1>1, <2>2
  <2>4. e \in found /\ \A j \in found : e <= j
    <3>1. \E i \in found : \A j \in found : i <= j
      BY <1>4, <2>3, LeastNatural
    <3> QED BY <2>1, <3>1
  <2>5. e \in pos..(L - 2) /\ BreakAt(text, e)
    BY <2>2, <2>4
  <2>6. ASSUME NEW i \in pos..(e - 1), i + 2 <= L PROVE ~ BreakAt(text, i)
    <3>1. i \in pos..(L - 2) /\ i < e /\ i \in Int
      BY <1>1, <2>5, <2>6
    <3>2. i \notin found
      BY <2>4, <2>5, <3>1
    <3> QED BY <2>2, <3>1, <3>2
  <2>7. e \in pos..L /\ e + 2 <= L
    BY <1>1, <2>5
  <2> QED BY <2>5, <2>6, <2>7 DEF e
<1> QED BY <1>3, <1>4

\* _paragraphs: from inside a block the next separator is inside of it too, or
\* it is the one behind the block, or there is none and the block is the last.
LEMMA SeparatorInBlock ==
  ASSUME NEW C, NEW entries \in Seq(Entry(C)), \A i \in DOMAIN entries : IsEntry(entries[i]),
         NEW text \in Seq(C), NEW blocks, IsLaid(entries, text, blocks),
         NEW i \in 1..Len(entries), NEW pos \in Nat,
         blocks[i].start <= pos, pos < blocks[i].end
  PROVE  LET e == SeparatorFrom(text, pos)
         IN /\ e \in pos..Len(text)
            /\ e = blocks[i].end \/ (e + 2 < blocks[i].end /\ HasEmptyLine(entries[i]))
<1> DEFINE n == Len(entries)
           L == Len(text)
           x == blocks[i].start
           y == blocks[i].end
           w == entries[i].text
           m == Len(w)
           e == SeparatorFrom(text, pos)
<1>1. n \in Nat /\ L \in Nat
  OBVIOUS
<1>2. /\ x \in Nat /\ y \in Nat /\ y <= L /\ y = x + m
      /\ \A j \in 1..m : text[x + j] = w[j]
  BY DEF IsLaid
<1>3. IF i = n THEN y = L ELSE y + 2 <= L /\ BreakAt(text, y)
  <2>1. CASE i = n
    <3>1. n > 0
      BY <1>1
    <3> QED BY <2>1, <3>1 DEF IsLaid
  <2>2. CASE i # n
    <3>1. i \in 1..(n - 1) /\ i + 1 \in 1..n
      BY <1>1, <2>2
    <3> DEFINE z == blocks[i + 1].start
               v == blocks[i + 1].end
    <3>2. z = y + 2 /\ BreakAt(text, y) /\ z < v /\ v <= L /\ z \in Nat /\ v \in Nat
      BY <3>1 DEF IsLaid
    <3> HIDE DEF z, v, y, L
    <3>3. y + 2 <= L
      BY <1>1, <1>2, <3>2
    <3> QED BY <2>2, <3>2, <3>3
  <2> QED BY <2>1, <2>2
<1>4. w[1] \notin Space /\ w[m] \notin Space /\ m \in Nat /\ m > 0
  <2>1. entries[i] \in Entry(C) /\ i \in DOMAIN entries
    OBVIOUS
  <2>2. w \in Seq(C)
    BY <2>1 DEF Entry
  <2>3. m \in Nat
    <3> HIDE DEF w
    <3> QED BY <2>2
  <2> QED BY <2>1, <2>3 DEF IsEntry
<1>5. pos <= L
  <2> HIDE DEF x, y, L
  <2>1. x <= pos /\ pos < y
    BY DEF x, y
  <2> QED BY <1>1, <1>2, <2>1
<1>6. /\ e \in pos..L /\ (e < L => e + 2 <= L /\ BreakAt(text, e))
      /\ \A k \in pos..(e - 1) : k + 2 <= L => ~ BreakAt(text, k)
  BY <1>5, SeparatorFirst
<1>7. x <= pos /\ pos < y
  OBVIOUS
<1>8. BreakAt(text, e) /\ x <= e /\ e + 1 <= y => e + 2 < y /\ HasEmptyLine(entries[i])
  <2> SUFFICES ASSUME BreakAt(text, e), x <= e, e + 1 <= y PROVE e + 2 < y /\ HasEmptyLine(entries[i])
    OBVIOUS
  <2> DEFINE k == e + 1 - x
  <2> HIDE DEF e, x, y, L, m, w
  <2>1. e \in Nat
    BY <1>1, <1>6
  <2>2. k \in 1..m /\ x + k = e + 1 /\ (k # m => k + 1 \in 1..m /\ x + (k + 1) = e + 2) /\ k \in Nat
    BY <1>2, <1>4, <2>1
  <2>3. text[e + 1] = "n" /\ text[e + 2] = "n"
    BY DEF BreakAt
  <2>4. w[k] = "n"
    <3>1. text[x + k] = w[k]
      BY <1>2, <2>2
    <3> QED BY <2>2, <2>3, <3>1
  <2>5. k # m
    BY <1>4, <2>4 DEF Space
  <2>6. w[k + 1] = "n"
    <3>1. text[x + (k + 1)] = w[k + 1]
      BY <1>2, <2>2, <2>5
    <3> QED BY <2>2, <2>3, <2>5, <3>1
  <2>7. k + 1 # m
    BY <1>4, <2>6 DEF Space
  <2>8. k \in 1..(m - 1) /\ e + 2 < y
    BY <1>2, <1>4, <2>1, <2>2, <2>5, <2>7
  <2>9. HasEmptyLine(entries[i])
    BY <2>4, <2>6, <2>8 DEF HasEmptyLine, w, m
  <2> QED BY <2>8, <2>9
<1> HIDE DEF e, x, y, L, m, w
<1>9. e <= y
  <2>1. CASE i = n
    BY <1>1, <1>3, <1>6, <2>1
  <2>2. CASE i # n
    <3>1. y + 2 <= L /\ BreakAt(text, y)
      BY <1>3, <2>2
    <3>2. y \notin pos..(e - 1)
      BY <1>6, <3>1
    <3> QED BY <1>1, <1>2, <1>6, <1>7, <3>2
  <2> QED BY <2>1, <2>2
<1>10. CASE e = y
  BY <1>6, <1>10 DEF e, y, L
<1>11. CASE e # y
  <2>1. e < L /\ x <= e /\ e + 1 <= y
    BY <1>1, <1>2, <1>6, <1>7, <1>9, <1>11
  <2> QED BY <1>6, <1>8, <2>1 DEF e, y, L
<1> QED BY <1>10, <1>11

\* _paragraphs: the spans from each position on.
Window == Nat \X Nat
IsBlank(text, from, to) == \A i \in from..(to - 1) : At(text, i) \in Space
ParagraphRun(text, from) ==
  /\ from[0] = Paragraphs(text)
  /\ \A pos \in 0..(Len(text) + 2) :
       /\ from[pos] \in Seq(Window)
       /\ from[pos] = IF pos >= Len(text) THEN <<>>
                      ELSE LET e == SeparatorFrom(text, pos)
                           IN IF IsBlank(text, pos, e) THEN from[e + 2]
                              ELSE <<<<pos, e>>>> \o from[e + 2]

LEMMA ParagraphsRun ==
  ASSUME NEW C, NEW text \in Seq(C)
  PROVE  \E from : ParagraphRun(text, from)
<1> DEFINE L == Len(text)
           D == 0..(L + 2)
           A == Seq(Window)
           e(pos) == SeparatorFrom(text, pos)
           Ends == {pos \in D : pos >= L}
           Left == [pos \in D |-> L + 2 - pos]
           Base == [pos \in D |-> <<>>]
           Rest == [pos \in D |-> IF pos >= L THEN pos ELSE e(pos) + 2]
           Step == [p \in D \X A |-> IF p[1] >= L \/ IsBlank(text, p[1], e(p[1])) THEN p[2]
                                     ELSE <<<<p[1], e(p[1])>>>> \o p[2]]
           Turn(it) == [pos \in D |->
             IF pos >= Len(text) THEN <<>>
             ELSE LET end  == SeparatorFrom(text, pos)
                      rest == it[end + 2]
                  IN IF \E i \in pos..(end - 1) : At(text, i) \notin Space
                     THEN <<<<pos, end>>>> \o rest ELSE rest]
           from == CHOOSE it : it = Turn(it)
<1>1. L \in Nat /\ 0 \in D
  OBVIOUS
<1>2. ASSUME NEW pos \in D, ~ (pos >= L)
      PROVE  e(pos) \in pos..L /\ e(pos) + 2 \in D /\ <<pos, e(pos)>> \in Window /\ pos \in Nat
  <2>1. pos \in Nat /\ pos <= L
    BY <1>1, <1>2
  <2>2. e(pos) \in pos..L
    BY <2>1, SeparatorFirst
  <2> HIDE DEF e
  <2> QED BY <1>1, <2>1, <2>2 DEF Window
<1>3. Paragraphs(text) = from[0]
  BY DEF Paragraphs
<1> HIDE DEF L, from, e
<1>4. IsRecursion(D, A, L + 2, Left, Ends, Base, Rest, Step)
  <2>1. Left \in [D -> 0..(L + 2)] /\ Ends \subseteq D /\ L + 2 \in Nat
    BY <1>1
  <2>2. Base \in [D -> A]
    BY <1>1
  <2>3. Rest \in [D -> D]
    BY <1>2
  <2>4. Step \in [D \X A -> A]
    <3>1. ASSUME NEW pos \in D, NEW v \in A
          PROVE  (IF pos >= L \/ IsBlank(text, pos, e(pos)) THEN v ELSE <<<<pos, e(pos)>>>> \o v) \in A
      <4>1. CASE pos >= L
        BY <4>1
      <4>2. CASE ~ (pos >= L)
        <5>1. <<pos, e(pos)>> \in Window
          BY <1>2, <4>2
        <5> DEFINE q == <<pos, e(pos)>>
        <5> HIDE DEF q
        <5>2. <<q>> \o v \in A
          BY <5>1 DEF q
        <5> QED BY <5>2 DEF q
      <4> QED BY <4>1, <4>2
    <3> HIDE DEF A
    <3> QED BY <3>1
  <2>5. ASSUME NEW d \in D \ Ends PROVE Left[Rest[d]] < Left[d]
    <3>1. d \in D /\ ~ (d >= L) /\ d \in Nat
      BY <1>1
    <3>2. e(d) \in d..L /\ e(d) + 2 \in D
      BY <1>2, <3>1
    <3>3. Rest[d] = e(d) + 2 /\ Left[d] = L + 2 - d /\ Left[e(d) + 2] = L + 2 - (e(d) + 2)
      BY <3>1, <3>2
    <3> HIDE DEF Left, Rest
    <3> QED BY <1>1, <3>1, <3>2, <3>3
  <2> HIDE DEF A, Left, Ends, Base, Rest, Step, D
  <2> QED BY <2>1, <2>2, <2>3, <2>4, <2>5 DEF IsRecursion
<1>5. \E it : it \in [D -> A] /\ it = Turn(it)
  <2>1. PICK it : Solves(it, D, A, Ends, Base, Rest, Step)
    <3> HIDE DEF A, Left, Ends, Base, Rest, Step, D
    <3> QED BY <1>4, Recursion
  <2>2. it \in [D -> A] /\ \A d \in D : it[d] = IF d \in Ends THEN Base[d] ELSE Step[<<d, it[Rest[d]]>>]
    <3> HIDE DEF A, Left, Ends, Base, Rest, Step, D
    <3> QED BY <2>1 DEF Solves
  <2>3. ASSUME NEW d \in D PROVE it[d] = Turn(it)[d]
    <3>1. CASE d >= L
      BY <2>2, <3>1 DEF L
    <3>2. CASE ~ (d >= L)
      <4>1. Rest[d] = e(d) + 2 /\ e(d) + 2 \in D /\ it[e(d) + 2] \in A
        BY <1>2, <2>2, <3>2
      <4> DEFINE v == it[e(d) + 2]
      <4>2. it[d] = Step[<<d, v>>]
        <5> HIDE DEF Step, Rest, A, Base, e
        <5> QED BY <2>2, <3>2, <4>1
      <4>3. Step[<<d, v>>] = IF IsBlank(text, d, e(d)) THEN v ELSE <<<<d, e(d)>>>> \o v
        <5> HIDE DEF v, A
        <5> QED BY <3>2, <4>1 DEF v
      <4>4. IsBlank(text, d, e(d)) <=> ~ \E i \in d..(e(d) - 1) : At(text, i) \notin Space
        BY DEF IsBlank
      <4> HIDE DEF Step, Rest, A, Base, D
      <4>5. Turn(it)[d] = IF \E i \in d..(e(d) - 1) : At(text, i) \notin Space
                          THEN <<<<d, e(d)>>>> \o v ELSE v
        BY <3>2 DEF e, L
      <4> QED BY <4>2, <4>3, <4>4, <4>5
    <3> QED BY <3>1, <3>2
  <2>4. it = [d \in D |-> it[d]]
    BY <2>2
  <2>5. Turn(it) = [d \in D |-> Turn(it)[d]]
    OBVIOUS
  <2> HIDE DEF Turn, A, D
  <2> QED BY <2>2, <2>3, <2>4, <2>5
<1>6. from = Turn(from)
  <2> HIDE DEF Turn, A, D
  <2> QED BY <1>5 DEF from
<1>7. ASSUME NEW pos \in D
      PROVE  from[pos] = IF pos >= L THEN <<>>
                         ELSE IF IsBlank(text, pos, e(pos)) THEN from[e(pos) + 2]
                              ELSE <<<<pos, e(pos)>>>> \o from[e(pos) + 2]
  <2>1. from[pos] = Turn(from)[pos]
    BY <1>6
  <2>2. IsBlank(text, pos, e(pos)) <=> ~ \E i \in pos..(e(pos) - 1) : At(text, i) \notin Space
    BY DEF IsBlank
  <2> QED BY <2>1, <2>2 DEF L, e
<1>8. \A pos \in D : from[pos] \in A
  <2> DEFINE T == {k \in Nat : \A pos \in D : L + 2 - pos <= k => from[pos] \in A}
  <2>1. 0 \in T
    <3> SUFFICES ASSUME NEW pos \in D, L + 2 - pos <= 0 PROVE from[pos] \in A
      OBVIOUS
    <3>1. pos >= L
      BY <1>1
    <3>2. from[pos] = <<>>
      BY <1>7, <3>1
    <3> QED BY <3>2
  <2>2. ASSUME NEW k \in 0..((L + 2) - 1), k \in T PROVE k + 1 \in T
    <3> SUFFICES ASSUME NEW pos \in D, L + 2 - pos <= k + 1 PROVE from[pos] \in A
      OBVIOUS
    <3>1. CASE pos >= L
      <4>1. from[pos] = <<>>
        BY <1>7, <3>1
      <4> QED BY <4>1
    <3>2. CASE ~ (pos >= L)
      <4>1. e(pos) \in pos..L /\ e(pos) + 2 \in D /\ <<pos, e(pos)>> \in Window
        BY <1>2, <3>2
      <4>2. L + 2 - (e(pos) + 2) <= k
        BY <1>1, <4>1
      <4> DEFINE v == from[e(pos) + 2]
                 q == <<pos, e(pos)>>
      <4>3. v \in A
        BY <2>2, <4>1, <4>2
      <4>4. from[pos] = v \/ from[pos] = <<q>> \o v
        BY <1>7, <3>2
      <4> HIDE DEF v, q
      <4>5. q \in Window
        BY <4>1 DEF q
      <4>6. <<q>> \o v \in A
        BY <4>3, <4>5
      <4> QED BY <4>3, <4>4, <4>6
    <3> QED BY <3>1, <3>2
  <2> HIDE DEF T
  <2>3. 0..(L + 2) \subseteq T
    <3>1. L + 2 \in Nat
      BY <1>1
    <3> DEFINE N == L + 2
    <3> HIDE DEF N
    <3>2. \A k \in 0..(N - 1) : k \in T => k + 1 \in T
      BY <2>2 DEF N
    <3>3. 0..N \subseteq T
      BY <2>1, <3>1, <3>2, Induction DEF N
    <3> QED BY <3>3 DEF N
  <2>4. L + 2 \in T
    BY <1>1, <2>3
  <2>5. \A pos \in D : L + 2 - pos <= L + 2
    BY <1>1
  <2> QED BY <2>4, <2>5 DEF T
<1> HIDE DEF from
<1> QED BY <1>3, <1>7, <1>8 DEF ParagraphRun, L, e

\* A position where _paragraphs may look: in a block, or behind the text.
InBlock(blocks, n, text, pos) ==
  pos >= Len(text) \/ \E i \in 1..n : blocks[i].start <= pos /\ pos < blocks[i].end

LEMMA ParagraphsWithin ==
  ASSUME NEW C, NEW entries \in Seq(Entry(C)), \A i \in DOMAIN entries : IsEntry(entries[i]),
         NEW text \in Seq(C), NEW blocks, IsLaid(entries, text, blocks),
         NEW from, ParagraphRun(text, from)
  PROVE  \A p \in ToSet(Paragraphs(text)) :
           \E i \in 1..Len(entries) : blocks[i].start <= p[1] /\ p[2] <= blocks[i].end
<1> DEFINE n == Len(entries)
           L == Len(text)
           N == L + 2
           D == 0..N
           In(pos) == InBlock(blocks, n, text, pos)
           Fits(p) == \E i \in 1..n : blocks[i].start <= p[1] /\ p[2] <= blocks[i].end
           e(pos) == SeparatorFrom(text, pos)
           T == {k \in Nat : \A pos \in D : N - pos <= k /\ In(pos) => \A p \in ToSet(from[pos]) : Fits(p)}
<1>1. n \in Nat /\ L \in Nat /\ N \in Nat
  OBVIOUS
<1>2. /\ n = 0 => L = 0
      /\ n > 0 => blocks[1].start = 0 /\ blocks[n].end = L
      /\ \A i \in 1..n : blocks[i].start \in Nat /\ blocks[i].end \in Nat /\ blocks[i].start < blocks[i].end /\ blocks[i].end <= L
      /\ \A i \in 1..(n - 1) : blocks[i + 1].start = blocks[i].end + 2
  BY DEF IsLaid
<1>3. \A pos \in D : pos >= L => from[pos] = <<>>
  BY DEF ParagraphRun
<1>a. \A pos \in D : from[pos] \in Seq(Window)
  BY DEF ParagraphRun
<1>b. \A pos \in D : ~ (pos >= L) => \/ from[pos] = from[e(pos) + 2]
                                     \/ from[pos] = <<<<pos, e(pos)>>>> \o from[e(pos) + 2]
  BY DEF ParagraphRun
<1>4. ASSUME NEW pos \in D, In(pos), ~ (pos >= L)
      PROVE  e(pos) \in pos..L /\ e(pos) + 2 \in D /\ In(e(pos) + 2) /\ Fits(<<pos, e(pos)>>) /\ pos \in Nat
             /\ <<pos, e(pos)>> \in Window
  <2>1. PICK i \in 1..n : blocks[i].start <= pos /\ pos < blocks[i].end
    BY <1>4 DEF InBlock
  <2>2. pos \in Nat
    OBVIOUS
  <2>3. e(pos) \in pos..L /\ (e(pos) = blocks[i].end \/ e(pos) + 2 < blocks[i].end)
    BY <2>1, <2>2, SeparatorInBlock
  <2> DEFINE x == blocks[i].start
             y == blocks[i].end
             z == e(pos)
  <2>4. x \in Nat /\ y \in Nat /\ x <= pos /\ y <= L /\ z \in pos..L /\ (z = y \/ z + 2 < y)
    BY <1>2, <2>1, <2>3
  <2> HIDE DEF e, L, n, D
  <2>5. x <= pos /\ z <= y /\ z + 2 \in 0..(L + 2) /\ z \in Nat
    <3> HIDE DEF x, y, z
    <3> QED BY <1>1, <2>2, <2>4
  <2>6. Fits(<<pos, z>>)
    BY <2>5
  <2>7. In(z + 2)
    <3>1. CASE z = y /\ i = n
      <4>1. z = L
        BY <1>1, <1>2, <3>1
      <4>2. z + 2 >= L
        <5> HIDE DEF z
        <5> QED BY <1>1, <4>1
      <4> QED BY <4>2 DEF InBlock, L
    <3>2. CASE z = y /\ i # n
      <4>1. i \in 1..(n - 1) /\ i + 1 \in 1..n
        BY <1>1, <3>2
      <4> DEFINE w == blocks[i + 1].start
                 v == blocks[i + 1].end
      <4>2. w = z + 2 /\ w \in Nat /\ w < v
        BY <1>2, <3>2, <4>1
      <4>3. w <= z + 2 /\ z + 2 < v
        <5> HIDE DEF w, v, z
        <5> QED BY <4>2
      <4> QED BY <4>1, <4>3 DEF InBlock
    <3>3. CASE z + 2 < y
      <4>1. x <= z + 2
        <5> HIDE DEF x, y, z
        <5> QED BY <2>2, <2>4, <2>5
      <4> QED BY <3>3, <4>1 DEF InBlock
    <3> QED BY <2>4, <3>1, <3>2, <3>3
  <2> QED BY <2>2, <2>4, <2>5, <2>6, <2>7 DEF z, D, L, Window
<1> HIDE DEF e, In
<1>5. 0 \in T
  <2> SUFFICES ASSUME NEW pos \in D, N - pos <= 0 PROVE \A p \in ToSet(from[pos]) : Fits(p)
    OBVIOUS
  <2>1. pos >= L
    <3> HIDE DEF L
    <3> QED BY <1>1
  <2>2. from[pos] = <<>>
    BY <1>3, <2>1
  <2> QED BY <2>2 DEF ToSet
<1>6. ASSUME NEW k \in 0..(N - 1), k \in T PROVE k + 1 \in T
  <2> SUFFICES ASSUME NEW pos \in D, N - pos <= k + 1, In(pos), NEW p \in ToSet(from[pos]) PROVE Fits(p)
    OBVIOUS
  <2>1. ~ (pos >= L)
    <3> SUFFICES ASSUME pos >= L PROVE FALSE
      OBVIOUS
    <3>1. from[pos] = <<>>
      BY <1>3
    <3> QED BY <3>1 DEF ToSet
  <2>2. /\ e(pos) \in pos..L /\ e(pos) + 2 \in D /\ In(e(pos) + 2) /\ Fits(<<pos, e(pos)>>)
        /\ <<pos, e(pos)>> \in Window
    BY <1>4, <2>1
  <2> DEFINE q == <<pos, e(pos)>>
             v == from[e(pos) + 2]
  <2>3. v \in Seq(Window) /\ q \in Window /\ (from[pos] = v \/ from[pos] = <<q>> \o v)
    BY <1>a, <1>b, <2>1, <2>2
  <2>4. N - (e(pos) + 2) <= k
    <3> HIDE DEF Fits
    <3> QED BY <1>1, <2>2
  <2>5. \A r \in ToSet(v) : Fits(r)
    <3> HIDE DEF Fits
    <3> QED BY <1>6, <2>2, <2>4
  <2>6. p \in ToSet(v) \/ p = q
    <3> HIDE DEF q, v, Fits
    <3>1. ToSet(<<q>>) = {q}
      BY DEF ToSet
    <3>2. ToSet(<<q>> \o v) = ToSet(<<q>>) \cup ToSet(v)
      <4>1. v \in Seq(Window) /\ <<q>> \in Seq(Window)
        BY <2>3
      <4> QED BY <4>1, ConcatSets
    <3> QED BY <2>3, <3>1, <3>2
  <2> HIDE DEF Fits
  <2> QED BY <2>2, <2>5, <2>6
<1> HIDE DEF T, N
<1>7. 0..N \subseteq T
  BY <1>1, <1>5, <1>6, Induction
<1>8. In(0)
  <2>1. CASE n = 0
    BY <1>2, <2>1 DEF In, InBlock
  <2>2. CASE n # 0
    <3>1. 1 \in 1..n /\ n > 0
      BY <1>1, <2>2
    <3>2. blocks[1].start <= 0 /\ 0 < blocks[1].end
      <4> DEFINE x == blocks[1].start
                 y == blocks[1].end
      <4>1. x = 0 /\ x < y
        BY <1>2, <3>1
      <4> HIDE DEF x, y
      <4>2. x <= 0 /\ 0 < y
        BY <4>1
      <4> QED BY <4>2 DEF x, y
    <3> QED BY <3>1, <3>2 DEF In, InBlock
  <2> QED BY <2>1, <2>2
<1>9. \A p \in ToSet(from[0]) : Fits(p)
  <2>1. 0 \in D /\ N - 0 <= N /\ N \in T
    BY <1>1, <1>7
  <2> HIDE DEF Fits
  <2> QED BY <1>8, <2>1 DEF T
<1> QED BY <1>9 DEF ParagraphRun

\* _paragraphs: without an empty line in a block, the blocks themselves.
LEMMA ParagraphsExact ==
  ASSUME NEW C, NEW entries \in Seq(Entry(C)), \A i \in DOMAIN entries : IsEntry(entries[i]),
         \A i \in DOMAIN entries : ~ HasEmptyLine(entries[i]),
         NEW text \in Seq(C), NEW blocks, IsLaid(entries, text, blocks),
         NEW from, ParagraphRun(text, from)
  PROVE  Paragraphs(text) = [i \in 1..Len(entries) |-> <<blocks[i].start, blocks[i].end>>]
<1> DEFINE n == Len(entries)
           L == Len(text)
           x(i) == blocks[i].start
           y(i) == blocks[i].end
           span(i) == <<x(i), y(i)>>
           at(k) == IF k = 0 THEN L + 2 ELSE x(n - k + 1)
           tail(k) == [j \in 1..k |-> span(n - k + j)]
           e(pos) == SeparatorFrom(text, pos)
           T == {k \in Nat : from[at(k)] = tail(k)}
<1>1. n \in Nat /\ L \in Nat /\ DOMAIN entries = 1..n
  OBVIOUS
<1>2. /\ n = 0 => L = 0
      /\ n > 0 => x(1) = 0 /\ y(n) = L
      /\ \A i \in 1..n : x(i) \in Nat /\ y(i) \in Nat /\ x(i) < y(i) /\ y(i) <= L
                         /\ y(i) = x(i) + Len(entries[i].text)
      /\ \A i \in 1..n : \A j \in 1..Len(entries[i].text) : text[x(i) + j] = entries[i].text[j]
      /\ \A i \in 1..(n - 1) : x(i + 1) = y(i) + 2
  BY DEF IsLaid
<1>3. \A pos \in 0..(L + 2) : pos >= L => from[pos] = <<>>
  BY DEF ParagraphRun
<1>a. \A pos \in 0..(L + 2) : from[pos] \in Seq(Window)
  BY DEF ParagraphRun
<1>b. \A pos \in 0..(L + 2) :
        ~ (pos >= L) /\ ~ IsBlank(text, pos, e(pos)) => from[pos] = <<<<pos, e(pos)>>>> \o from[e(pos) + 2]
  BY DEF ParagraphRun
<1>4. ASSUME NEW i \in 1..n
      PROVE  /\ from[x(i)] = <<span(i)>> \o from[y(i) + 2] /\ span(i) \in Window
             /\ from[y(i) + 2] \in Seq(Window)
  <2>1. x(i) \in Nat /\ y(i) \in Nat /\ x(i) < y(i) /\ y(i) <= L /\ i \in DOMAIN entries
    BY <1>1, <1>2
  <2>2. e(x(i)) = y(i)
    <3>1. x(i) <= x(i)
      BY <2>1
    <3> QED BY <2>1, <3>1, SeparatorInBlock
  <2>3. ~ IsBlank(text, x(i), y(i))
    <3>1. entries[i].text[1] \notin Space /\ Len(entries[i].text) > 0
      BY <2>1 DEF IsEntry
    <3>2. entries[i] \in Entry(C)
      OBVIOUS
    <3>3. entries[i].text \in Seq(C)
      BY <3>2 DEF Entry
    <3>4. 1 \in 1..Len(entries[i].text)
      <4> DEFINE w == entries[i].text
      <4> HIDE DEF w
      <4>1. 1 \in 1..Len(w)
        BY <3>1, <3>3 DEF w
      <4> QED BY <4>1 DEF w
    <3>5. text[x(i) + 1] \notin Space
      BY <1>2, <3>1, <3>4
    <3> DEFINE u == x(i)
               v == y(i)
    <3>6. u \in u..(v - 1)
      <4>1. u \in Nat /\ v \in Nat /\ u < v
        BY <2>1
      <4> HIDE DEF u, v
      <4> QED BY <4>1
    <3> QED BY <3>5, <3>6 DEF IsBlank, At
  <2>4. x(i) \in 0..(L + 2) /\ ~ (x(i) >= L) /\ y(i) + 2 \in 0..(L + 2)
    <3> DEFINE u == x(i)
               v == y(i)
    <3>1. u \in Nat /\ v \in Nat /\ u < v /\ v <= L
      BY <2>1
    <3> HIDE DEF u, v, L
    <3>2. u \in 0..(L + 2) /\ ~ (u >= L) /\ v + 2 \in 0..(L + 2)
      BY <1>1, <3>1
    <3> QED BY <3>2 DEF u, v
  <2>5. span(i) \in Window
    BY <2>1 DEF Window
  <2>6. from[y(i) + 2] \in Seq(Window)
    BY <1>a, <2>4
  <2>7. from[x(i)] = <<<<x(i), e(x(i))>>>> \o from[e(x(i)) + 2]
    <3> HIDE DEF x, y, e, L
    <3> QED BY <1>b, <2>2, <2>3, <2>4
  <2> HIDE DEF x, y, e, L
  <2> QED BY <2>2, <2>5, <2>6, <2>7
<1> HIDE DEF span, x, y, e
<1>5. 0 \in T
  <2>1. from[L + 2] = <<>>
    <3>1. L + 2 \in 0..(L + 2) /\ L + 2 >= L
      BY <1>1
    <3> HIDE DEF L
    <3> QED BY <1>3, <3>1
  <2> QED BY <2>1
<1>6. ASSUME NEW k \in 0..(n - 1), k \in T PROVE k + 1 \in T
  <2> DEFINE i == n - k
             v == tail(k)
             s == tail(k + 1)
             q == span(i)
  <2>1. i \in 1..n /\ n - (k + 1) + 1 = i /\ k + 1 \in Nat /\ k + 1 # 0 /\ k \in Nat
    BY <1>1
  <2>2. at(k + 1) = x(i) /\ at(k) = y(i) + 2
    <3>1. at(k + 1) = x(i)
      BY <2>1
    <3>2. CASE k = 0
      <4>1. i = n /\ n > 0
        BY <1>1, <2>1, <3>2
      <4>2. y(n) = L
        BY <1>2, <4>1
      <4>3. at(0) = L + 2
        OBVIOUS
      <4> HIDE DEF at, i, n, L
      <4> QED BY <3>1, <3>2, <4>1, <4>2, <4>3
    <3>3. CASE k # 0
      <4>1. i \in 1..(n - 1) /\ n - k + 1 = i + 1
        BY <1>1, <2>1, <3>3
      <4> QED BY <1>2, <3>3, <4>1
    <3> QED BY <3>1, <3>2, <3>3
  <2>3. from[at(k + 1)] = <<q>> \o v /\ q \in Window /\ v \in Seq(Window)
    BY <1>4, <1>6, <2>1, <2>2
  <2>4. Len(v) = k
    BY <2>1
  <2>5. <<q>> \o v = s
    <3>1. s[1] = q /\ \A j \in 1..k : s[j + 1] = v[j]
      <4>1. 1 \in 1..(k + 1) /\ n - (k + 1) + 1 = i
        BY <2>1
      <4>2. \A j \in 1..k : j + 1 \in 1..(k + 1) /\ n - (k + 1) + (j + 1) = n - k + j
        BY <1>1, <2>1
      <4> QED BY <4>1, <4>2
    <3>2. s = [j \in 1..(k + 1) |-> s[j]]
      OBVIOUS
    <3> HIDE DEF q, v, s
    <3> DEFINE r == <<q>> \o v
    <3>3. r \in Seq(Window) /\ Len(r) = k + 1 /\ r[1] = q /\ \A j \in 1..k : r[j + 1] = v[j]
      BY <2>1, <2>3, <2>4
    <3>4. r = [j \in 1..(k + 1) |-> r[j]]
      <4> HIDE DEF r
      <4> QED BY <3>3
    <3>5. \A j \in 1..(k + 1) : j = 1 \/ (j - 1 \in 1..k /\ (j - 1) + 1 = j)
      BY <2>1
    <3>6. \A j \in 1..(k + 1) : r[j] = s[j]
      <4> HIDE DEF r
      <4> QED BY <3>1, <3>3, <3>5
    <3> HIDE DEF r
    <3>7. r = s
      BY <3>2, <3>4, <3>6
    <3> QED BY <3>7 DEF r
  <2> HIDE DEF v, s, q
  <2> QED BY <2>1, <2>3, <2>5 DEF s
<1> HIDE DEF T
<1>7. n \in T
  <2>1. 0..n \subseteq T
    BY <1>1, <1>5, <1>6, Induction
  <2> QED BY <1>1, <2>1
<1>8. at(n) = 0 \/ (n = 0 /\ from[0] = tail(0))
  <2>1. CASE n = 0
    <3>1. L = 0 /\ 0 \in 0..(L + 2) /\ 0 >= L
      BY <1>1, <1>2, <2>1
    <3>2. from[0] = <<>>
      <4> HIDE DEF L
      <4> QED BY <1>3, <3>1
    <3> QED BY <2>1, <3>2
  <2>2. CASE n # 0
    <3>1. n > 0 /\ n - n + 1 = 1
      BY <1>1, <2>2
    <3> QED BY <1>2, <2>2, <3>1
  <2> QED BY <2>1, <2>2
<1>9. from[0] = tail(n)
  BY <1>7, <1>8 DEF T
<1>10. tail(n) = [i \in 1..n |-> span(i)]
  <2>1. \A j \in 1..n : n - n + j = j
    BY <1>1
  <2> QED BY <2>1
<1> QED BY <1>9, <1>10 DEF ParagraphRun, span, x, y

\* parsing.py, diffing.py: each block is at its offsets, and splitting the text
\* again never joins two blocks.
THEOREM ParagraphsFollowBlocks ==
  ASSUME NEW C, HasBreak(C), NEW entries \in Seq(Entry(C)), Parsed(entries)
  PROVE  ParagraphsAreBlocks(entries)
<1> DEFINE doc == Build(entries)
           b == doc.blocks
           t == doc.text
           n == Len(entries)
           spans == [i \in DOMAIN b |-> <<b[i].start, b[i].end>>]
<1>1. \A i \in DOMAIN entries : IsEntry(entries[i])
  BY DEF Parsed
<1>2. doc \in Doc(C) /\ TextInv(entries, n, doc)
  BY BuildFacts
<1>3. IsLaid(entries, t, b)
  BY <1>1, <1>2, BuiltIsLaid
<1>4. t \in Seq(C) /\ b \in Seq(Block) /\ DOMAIN b = 1..n /\ n \in Nat /\ DOMAIN entries = 1..n
  <2>1. t \in Seq(C) /\ b \in Seq(Block)
    BY <1>2 DEF Doc
  <2>2. Len(b) = n
    BY <1>3 DEF IsLaid
  <2> HIDE DEF b, t
  <2>3. DOMAIN b = 1..n
    BY <2>1, <2>2
  <2> QED BY <2>1, <2>3
<1> HIDE DEF doc, b, t
<1>5. PICK from : ParagraphRun(t, from)
  BY <1>4, ParagraphsRun
<1>6. \A p \in ToSet(Paragraphs(t)) : \E s \in ToSet(spans) : s[1] <= p[1] /\ p[2] <= s[2]
  <2> SUFFICES ASSUME NEW p \in ToSet(Paragraphs(t)) PROVE \E s \in ToSet(spans) : s[1] <= p[1] /\ p[2] <= s[2]
    OBVIOUS
  <2>1. PICK i \in 1..n : b[i].start <= p[1] /\ p[2] <= b[i].end
    <3>1. \A q \in ToSet(Paragraphs(t)) : \E i \in 1..n : b[i].start <= q[1] /\ q[2] <= b[i].end
      BY <1>1, <1>3, <1>4, <1>5, ParagraphsWithin
    <3> QED BY <3>1
  <2>2. spans[i] \in ToSet(spans) /\ spans[i] = <<b[i].start, b[i].end>>
    BY <1>4 DEF ToSet
  <2> DEFINE s == spans[i]
  <2>3. s[1] = b[i].start /\ s[2] = b[i].end
    BY <2>2
  <2>4. s \in ToSet(spans)
    BY <2>2
  <2> HIDE DEF spans
  <2>5. s[1] <= p[1] /\ p[2] <= s[2]
    BY <2>1, <2>3
  <2> HIDE DEF s
  <2> QED BY <2>4, <2>5
<1>7. (~ \E i \in DOMAIN entries : HasEmptyLine(entries[i])) => Paragraphs(t) = spans
  <2> SUFFICES ASSUME \A i \in DOMAIN entries : ~ HasEmptyLine(entries[i]) PROVE Paragraphs(t) = spans
    OBVIOUS
  <2>1. /\ entries \in Seq(Entry(C)) /\ \A i \in DOMAIN entries : IsEntry(entries[i])
        /\ t \in Seq(C) /\ IsLaid(entries, t, b) /\ ParagraphRun(t, from)
    BY <1>1, <1>3, <1>4, <1>5
  <2>2. Paragraphs(t) = [i \in 1..Len(entries) |-> <<b[i].start, b[i].end>>]
    BY <2>1, ParagraphsExact
  <2> HIDE DEF n
  <2>3. Len(entries) = n
    BY DEF n
  <2>4. Paragraphs(t) = [i \in 1..n |-> <<b[i].start, b[i].end>>]
    BY <2>2, <2>3
  <2> QED BY <1>4, <2>4
<1>8. ASSUME NEW i \in DOMAIN entries PROVE Slice(t, b[i].start, b[i].end) = entries[i].text
  <2> DEFINE x == b[i].start
             y == b[i].end
             w == entries[i].text
             s == SubSeq(t, x + 1, y)
             m == Len(w)
  <2>0. i \in 1..n
    BY <1>4
  <2>1. x \in Nat /\ y \in Nat /\ x < y /\ y <= Len(t) /\ y = x + m /\ \A j \in 1..m : t[x + j] = w[j]
    BY <1>3, <2>0 DEF IsLaid
  <2>2. w \in Seq(C)
    <3>1. entries[i] \in Entry(C)
      BY <2>0
    <3> QED BY <3>1 DEF Entry
  <2> HIDE DEF x, y, w
  <2>3. m \in Nat /\ w = [j \in 1..m |-> w[j]]
    BY <2>2
  <2>4. s \in Seq(C) /\ Len(s) = m
    <3>1. t \in Seq(C) /\ x + 1 \in Int /\ y \in Int /\ 1 <= x + 1 /\ y <= Len(t)
          /\ (y - (x + 1)) + 1 = m /\ x + 1 <= y
      BY <1>4, <2>1, <2>3
    <3> HIDE DEF m
    <3>2. s \in Seq(C)
      BY <3>1
    <3>3. Len(s) = (y - (x + 1)) + 1
      BY <3>1
    <3> QED BY <3>1, <3>2, <3>3
  <2>5. \A j \in 1..m : s[j] = t[x + 1 + j - 1] /\ x + 1 + j - 1 = x + j
    BY <1>4, <2>1, <2>3
  <2> HIDE DEF s, m
  <2>6. s = [j \in 1..m |-> s[j]]
    BY <2>3, <2>4
  <2>7. \A j \in 1..m : s[j] = w[j]
    BY <2>1, <2>5
  <2>8. s = w
    BY <2>3, <2>6, <2>7
  <2> QED BY <2>8 DEF Slice, s, x, y, w
<1> QED BY <1>6, <1>7, <1>8 DEF ParagraphsAreBlocks, doc, b, t

-----------------------------------------------------------------------------
(* Chunks (chunking.py)                                                    *)

LEMMA ChunkSizes == MaxChunk \in Nat /\ Overlap \in Nat /\ MaxChunk \div 2 \in Nat
                    /\ MaxChunk \div 2 > 0 /\ MaxChunk > 0 /\ MaxChunk \div 2 <= MaxChunk
BY ChunkingAssumption

\* _split_range: a window takes something, and no more than the budget.
LEMMA WindowStops ==
  ASSUME NEW text, NEW pos \in Nat, NEW bounds \in SUBSET Nat
  PROVE  Stop(text, pos, bounds) \in (pos + 1)..(pos + MaxChunk)
<1> DEFINE budget == pos + MaxChunk
           half   == MaxChunk \div 2
           stops  == {b \in bounds : b <= budget /\ b - pos >= half}
           cuts   == {i \in (pos + 1)..(budget - 1) : At(text, i) \in Space}
<1>1. budget \in Nat /\ half \in Nat /\ half > 0 /\ budget \in (pos + 1)..budget
  BY ChunkSizes
<1>2. CASE stops # {}
  <2>1. Stop(text, pos, bounds) = Max(stops)
    BY <1>2 DEF Stop
  <2> HIDE DEF budget, half
  <2>2. \A b \in stops : b \in Nat /\ b <= budget /\ b - pos >= half
    OBVIOUS
  <2>3. stops \in SUBSET Int /\ budget \in Int
    <3>1. \A b \in stops : b \in Int
      BY <2>2
    <3>2. budget \in Int
      BY <1>1
    <3> HIDE DEF stops
    <3> QED BY <3>1, <3>2
  <2> DEFINE m == Max(stops)
  <2> HIDE DEF stops
  <2>4. m \in stops
    BY <1>2, <2>2, <2>3, MaxOfBounded
  <2>5. m \in Nat /\ m <= budget /\ m - pos >= half
    BY <2>2, <2>4
  <2> HIDE DEF m
  <2>6. m \in (pos + 1)..budget
    BY <1>1, <2>5
  <2> QED BY <2>1, <2>6 DEF m, budget
<1>3. CASE stops = {}
  <2>1. Stop(text, pos, bounds) = IF cuts = {} THEN budget ELSE Max(cuts)
    BY <1>3 DEF Stop, SnapBackward
  <2>2. cuts \in SUBSET Int /\ \A i \in cuts : i \in (pos + 1)..(budget - 1) /\ i <= budget
    BY <1>1
  <2>3. cuts # {} => Max(cuts) \in cuts
    <3> HIDE DEF cuts, budget, half
    <3>1. budget \in Int /\ cuts \in SUBSET Int /\ \A i \in cuts : i <= budget
      BY <1>1, <2>2
    <3> QED BY <3>1, MaxOfBounded
  <2> HIDE DEF cuts, stops
  <2>4. cuts # {} => Max(cuts) \in (pos + 1)..budget
    <3> SUFFICES ASSUME cuts # {} PROVE Max(cuts) \in (pos + 1)..budget
      OBVIOUS
    <3> DEFINE m == Max(cuts)
    <3>1. m \in (pos + 1)..(budget - 1)
      BY <2>2, <2>3
    <3> HIDE DEF m, budget
    <3>2. m \in (pos + 1)..budget
      BY <1>1, <3>1
    <3> QED BY <3>2 DEF m
  <2> QED BY <1>1, <2>1, <2>4
<1> QED BY <1>2, <1>3

\* _split_range: the next window begins later, and at most the overlap before
\* the end of the last one.
LEMMA WindowsAdvance ==
  ASSUME NEW text, Len(text) \in Nat, NEW pos \in Nat, NEW stop \in (pos + 1)..Len(text)
  PROVE  /\ NextStart(text, pos, stop) \in (pos + 1)..stop
         /\ stop - NextStart(text, pos, stop) <= Overlap
<1> DEFINE L == Len(text)
           p == Max({stop - Overlap, pos + 1})
           found == {i \in p..(L - 1) : At(text, i) \notin Space}
           f == SnapForward(text, p)
           q == Min({f, stop})
<1>1. L \in Nat /\ Overlap \in Nat /\ stop \in Nat /\ pos + 1 <= stop /\ stop <= L
  BY ChunkSizes
<1>2. p = IF stop - Overlap >= pos + 1 THEN stop - Overlap ELSE pos + 1
  <2>1. stop - Overlap \in Int /\ pos + 1 \in Int
    BY <1>1
  <2> QED BY <2>1, MaxOfTwo
<1>3. p \in (pos + 1)..stop /\ stop - p <= Overlap
  <2> HIDE DEF p, L
  <2> QED BY <1>1, <1>2
<1> HIDE DEF L, p
<1>4. f \in p..L
  <2>1. f = IF found = {} THEN L ELSE Min(found)
    BY DEF SnapForward, L
  <2>2. found \in SUBSET Int /\ p \in Int /\ \A i \in found : p <= i /\ i <= L
    BY <1>1, <1>3
  <2>3. found # {} => Min(found) \in found
    <3> HIDE DEF found
    <3> QED BY <2>2, MinOfBounded
  <2> HIDE DEF f
  <2>4. CASE found = {}
    BY <1>1, <1>3, <2>1, <2>4
  <2>5. CASE found # {}
    <3>1. f \in found
      BY <2>1, <2>3, <2>5
    <3> HIDE DEF found
    <3> QED BY <1>1, <2>2, <3>1
  <2> QED BY <2>4, <2>5
<1> HIDE DEF f
<1>5. q = IF f <= stop THEN f ELSE stop
  <2>1. f \in Int /\ stop \in Int
    BY <1>1, <1>3, <1>4
  <2> QED BY <2>1, MinOfTwo
<1>6. q \in p..stop
  <2> HIDE DEF q
  <2> QED BY <1>1, <1>3, <1>4, <1>5
<1>7. NextStart(text, pos, stop) = Max({q, pos + 1})
  BY DEF NextStart, q, f, p
<1> HIDE DEF q
<1>8. Max({q, pos + 1}) = q
  <2>1. q \in Int /\ pos + 1 \in Int /\ q >= pos + 1
    BY <1>1, <1>3, <1>6
  <2> QED BY <2>1, MaxOfTwo
<1>9. q \in (pos + 1)..stop /\ stop - q <= Overlap
  BY <1>1, <1>3, <1>6
<1> QED BY <1>7, <1>8, <1>9

\* _split_range: the windows from each position on.
SplitRun(text, start, end, bounds, from) ==
  /\ from[start] = SplitRange(text, start, end, bounds)
  /\ \A pos \in start..end :
       /\ from[pos] \in Seq(Window)
       /\ pos = end => from[pos] = <<>>
       /\ pos # end /\ end - pos <= MaxChunk => from[pos] = <<<<pos, end>>>>
       /\ end - pos > MaxChunk =>
            LET stop == Stop(text, pos, bounds)
            IN from[pos] = <<<<pos, stop>>>> \o from[NextStart(text, pos, stop)]

LEMMA SplitRuns ==
  ASSUME NEW text, Len(text) \in Nat, NEW start \in Nat, NEW end \in start..Len(text),
         NEW bounds \in SUBSET Nat
  PROVE  \E from : SplitRun(text, start, end, bounds, from)
<1> DEFINE D == start..end
           A == Seq(Window)
           z(pos) == Stop(text, pos, bounds)
           y(pos) == NextStart(text, pos, z(pos))
           Ends == {pos \in D : end - pos <= MaxChunk}
           Left == [pos \in D |-> end - pos]
           Base == [pos \in D |-> IF pos = end THEN <<>> ELSE <<<<pos, end>>>>]
           Rest == [pos \in D |-> IF end - pos <= MaxChunk THEN pos ELSE y(pos)]
           Step == [p \in D \X A |-> IF end - p[1] <= MaxChunk THEN <<>> ELSE <<<<p[1], z(p[1])>>>> \o p[2]]
           Turn(it) == [pos \in D |->
             IF pos = end THEN <<>>
             ELSE IF end - pos <= MaxChunk THEN <<<<pos, end>>>>
             ELSE LET stop == Stop(text, pos, bounds)
                  IN <<<<pos, stop>>>> \o it[NextStart(text, pos, stop)]]
           from == CHOOSE it : it = Turn(it)
<1>1. start \in D /\ end \in Nat /\ start <= end /\ end - start \in Nat /\ MaxChunk \in Nat
  BY ChunkSizes
<1>2. ASSUME NEW pos \in D, ~ (end - pos <= MaxChunk)
      PROVE  /\ pos \in Nat /\ z(pos) \in Nat /\ <<pos, z(pos)>> \in Window
             /\ y(pos) \in D /\ pos < y(pos)
  <2>1. pos \in Nat /\ start <= pos /\ pos <= end
    BY <1>1
  <2>2. z(pos) \in (pos + 1)..(pos + MaxChunk)
    BY <2>1, WindowStops
  <2> HIDE DEF z
  <2>3. z(pos) \in (pos + 1)..Len(text) /\ z(pos) \in Nat /\ z(pos) <= end
    BY <1>1, <1>2, <2>1, <2>2
  <2>4. y(pos) \in (pos + 1)..z(pos)
    BY <2>1, <2>3, WindowsAdvance
  <2> HIDE DEF y
  <2>5. y(pos) \in D /\ pos < y(pos)
    BY <1>1, <2>1, <2>3, <2>4
  <2> QED BY <2>1, <2>3, <2>5 DEF Window
<1>3. SplitRange(text, start, end, bounds) = from[start]
  BY DEF SplitRange
<1> HIDE DEF from, z, y
<1>4. IsRecursion(D, A, end - start, Left, Ends, Base, Rest, Step)
  <2>1. Left \in [D -> 0..(end - start)] /\ Ends \subseteq D
    BY <1>1
  <2>2. Base \in [D -> A]
    <3> SUFFICES ASSUME NEW pos \in D PROVE Base[pos] \in A
      OBVIOUS
    <3>1. pos \in Nat /\ end \in Nat
      BY <1>1
    <3>2. <<pos, end>> \in Window
      BY <3>1 DEF Window
    <3> QED BY <3>2
  <2>3. Rest \in [D -> D]
    BY <1>2
  <2>4. Step \in [D \X A -> A]
    <3>1. ASSUME NEW pos \in D, NEW v \in A
          PROVE  (IF end - pos <= MaxChunk THEN <<>> ELSE <<<<pos, z(pos)>>>> \o v) \in A
      <4>1. CASE end - pos <= MaxChunk
        BY <4>1
      <4>2. CASE ~ (end - pos <= MaxChunk)
        <5>1. <<pos, z(pos)>> \in Window
          BY <1>2, <4>2
        <5> DEFINE q == <<pos, z(pos)>>
        <5> HIDE DEF q
        <5>2. <<q>> \o v \in A
          BY <5>1 DEF q
        <5> QED BY <4>2, <5>2 DEF q
      <4> QED BY <4>1, <4>2
    <3> HIDE DEF A
    <3> QED BY <3>1
  <2>5. ASSUME NEW d \in D \ Ends PROVE Left[Rest[d]] < Left[d]
    <3>1. d \in D /\ ~ (end - d <= MaxChunk) /\ d \in Nat
      BY <1>1
    <3>2. y(d) \in D /\ d < y(d)
      BY <1>2, <3>1
    <3>3. Rest[d] = y(d) /\ Left[d] = end - d /\ Left[y(d)] = end - y(d)
      BY <3>1, <3>2
    <3> HIDE DEF Left, Rest
    <3> QED BY <1>1, <3>1, <3>2, <3>3
  <2> HIDE DEF A, Left, Ends, Base, Rest, Step, D
  <2> QED BY <1>1, <2>1, <2>2, <2>3, <2>4, <2>5 DEF IsRecursion
<1>5. \E it : it \in [D -> A] /\ it = Turn(it)
  <2>1. PICK it : Solves(it, D, A, Ends, Base, Rest, Step)
    <3> HIDE DEF A, Left, Ends, Base, Rest, Step, D
    <3> QED BY <1>4, Recursion
  <2>2. it \in [D -> A] /\ \A d \in D : it[d] = IF d \in Ends THEN Base[d] ELSE Step[<<d, it[Rest[d]]>>]
    <3> HIDE DEF A, Left, Ends, Base, Rest, Step, D
    <3> QED BY <2>1 DEF Solves
  <2>3. ASSUME NEW d \in D PROVE it[d] = Turn(it)[d]
    <3>0. end - end <= MaxChunk
      BY <1>1
    <3>1. CASE end - d <= MaxChunk
      BY <2>2, <3>1
    <3>2. CASE ~ (end - d <= MaxChunk)
      <4>1. Rest[d] = y(d) /\ y(d) \in D /\ it[y(d)] \in A /\ d # end
        BY <1>2, <2>2, <3>0, <3>2
      <4> DEFINE v == it[y(d)]
      <4>2. it[d] = Step[<<d, v>>]
        <5> HIDE DEF Step, Rest, A, Base
        <5> QED BY <2>2, <3>2, <4>1
      <4>3. Step[<<d, v>>] = <<<<d, z(d)>>>> \o v
        <5> HIDE DEF v, A
        <5> QED BY <3>2, <4>1 DEF v
      <4> HIDE DEF Step, Rest, A, Base, D
      <4>4. Turn(it)[d] = <<<<d, z(d)>>>> \o v
        BY <3>2, <4>1 DEF y, z
      <4> QED BY <4>2, <4>3, <4>4
    <3> QED BY <3>1, <3>2
  <2>4. it = [d \in D |-> it[d]]
    BY <2>2
  <2>5. Turn(it) = [d \in D |-> Turn(it)[d]]
    OBVIOUS
  <2> HIDE DEF Turn, A, D
  <2> QED BY <2>2, <2>3, <2>4, <2>5
<1>6. from = Turn(from)
  <2> HIDE DEF Turn, A, D
  <2> QED BY <1>5 DEF from
<1>7. ASSUME NEW pos \in D
      PROVE  /\ pos = end => from[pos] = <<>>
             /\ pos # end /\ end - pos <= MaxChunk => from[pos] = <<<<pos, end>>>>
             /\ ~ (end - pos <= MaxChunk) => from[pos] = <<<<pos, z(pos)>>>> \o from[y(pos)]
  <2>1. from[pos] = Turn(from)[pos]
    BY <1>6
  <2>2. end - end <= MaxChunk
    BY <1>1
  <2> QED BY <2>1, <2>2 DEF z, y
<1>8. \A pos \in D : from[pos] \in A
  <2> DEFINE T == {k \in Nat : \A pos \in D : end - pos <= k => from[pos] \in A}
  <2>0. ASSUME NEW pos \in D, end - pos <= MaxChunk PROVE from[pos] \in A
    <3>1. pos \in Nat /\ end \in Nat
      BY <1>1
    <3>2. <<pos, end>> \in Window
      BY <3>1 DEF Window
    <3>3. from[pos] = <<>> \/ from[pos] = <<<<pos, end>>>>
      BY <1>7, <2>0
    <3> DEFINE q == <<pos, end>>
    <3> HIDE DEF q, from, Turn
    <3>4. <<q>> \in A
      BY <3>2 DEF q
    <3>5. <<>> \in A
      OBVIOUS
    <3>6. from[pos] = <<>> \/ from[pos] = <<q>>
      BY <3>3 DEF q
    <3> HIDE DEF A
    <3> QED BY <3>4, <3>5, <3>6
  <2>1. 0 \in T
    <3> SUFFICES ASSUME NEW pos \in D, end - pos <= 0 PROVE from[pos] \in A
      OBVIOUS
    <3>1. end - pos <= MaxChunk
      BY <1>1
    <3> QED BY <2>0, <3>1
  <2>2. ASSUME NEW k \in 0..((end - start) - 1), k \in T PROVE k + 1 \in T
    <3> SUFFICES ASSUME NEW pos \in D, end - pos <= k + 1 PROVE from[pos] \in A
      OBVIOUS
    <3>1. CASE end - pos <= MaxChunk
      BY <2>0, <3>1
    <3>2. CASE ~ (end - pos <= MaxChunk)
      <4>1. y(pos) \in D /\ pos < y(pos) /\ <<pos, z(pos)>> \in Window /\ pos \in Nat
        BY <1>2, <3>2
      <4>2. end - y(pos) <= k
        BY <1>1, <4>1
      <4> DEFINE v == from[y(pos)]
                 q == <<pos, z(pos)>>
      <4>3. v \in A
        BY <2>2, <4>1, <4>2
      <4>4. from[pos] = <<q>> \o v
        BY <1>7, <3>2
      <4> HIDE DEF q, v
      <4>5. <<q>> \o v \in A
        BY <4>1, <4>3 DEF q
      <4> QED BY <4>4, <4>5
    <3> QED BY <3>1, <3>2
  <2> HIDE DEF T
  <2>3. 0..(end - start) \subseteq T
    BY <1>1, <2>1, <2>2, Induction
  <2>4. end - start \in T
    BY <1>1, <2>3
  <2>5. \A pos \in D : end - pos <= end - start
    BY <1>1
  <2> QED BY <2>4, <2>5 DEF T
<1>9. \A pos \in D : end - pos > MaxChunk => ~ (end - pos <= MaxChunk)
  BY <1>1
<1>10. SplitRun(text, start, end, bounds, from)
  BY <1>3, <1>7, <1>8, <1>9 DEF SplitRun, y, z
<1> QED BY <1>10

\* What the windows from a position on are.
Covered(v, pos, end) == \A i \in pos..(end - 1) : \E k \in 1..Len(v) : v[k][1] <= i /\ i < v[k][2]
Windows(v, pos, end) ==
  /\ v \in Seq(Window)
  /\ \A k \in 1..Len(v) : /\ pos <= v[k][1] /\ v[k][1] < v[k][2] /\ v[k][2] <= end
                          /\ v[k][2] - v[k][1] <= MaxChunk
  /\ pos < end => Len(v) > 0 /\ v[1][1] = pos
  /\ \A k \in 1..(Len(v) - 1) : v[k][1] < v[k + 1][1] /\ v[k][2] - v[k + 1][1] <= Overlap
  /\ Covered(v, pos, end)

\* One window before others.
LEMMA WindowBefore ==
  ASSUME NEW pos \in Nat, NEW stop \in Nat, NEW next \in Nat, NEW end \in Nat, NEW v,
         pos < next, next <= stop, stop - next <= Overlap, stop - pos <= MaxChunk,
         stop < end, Windows(v, next, end)
  PROVE  Windows(<<<<pos, stop>>>> \o v, pos, end)
<1> DEFINE q == <<pos, stop>>
           r == <<q>> \o v
           m == Len(v)
<1>1. /\ v \in Seq(Window) /\ m \in Nat /\ m > 0 /\ v[1][1] = next
      /\ \A k \in 1..m : /\ next <= v[k][1] /\ v[k][1] < v[k][2] /\ v[k][2] <= end
                         /\ v[k][2] - v[k][1] <= MaxChunk
      /\ \A k \in 1..(m - 1) : v[k][1] < v[k + 1][1] /\ v[k][2] - v[k + 1][1] <= Overlap
      /\ \A i \in next..(end - 1) : \E k \in 1..m : v[k][1] <= i /\ i < v[k][2]
  <2>1. next < end /\ v \in Seq(Window) /\ m > 0 /\ v[1][1] = next
    BY DEF Windows
  <2>2. \A k \in 1..m : /\ next <= v[k][1] /\ v[k][1] < v[k][2] /\ v[k][2] <= end
                        /\ v[k][2] - v[k][1] <= MaxChunk
    BY DEF Windows
  <2>3. \A k \in 1..(m - 1) : v[k][1] < v[k + 1][1] /\ v[k][2] - v[k + 1][1] <= Overlap
    BY DEF Windows
  <2>4. Covered(v, next, end)
    BY DEF Windows
  <2>5. \A i \in next..(end - 1) : \E k \in 1..m : v[k][1] <= i /\ i < v[k][2]
    BY <2>4 DEF Covered
  <2>6. m \in Nat
    BY <2>1
  <2> QED BY <2>1, <2>2, <2>3, <2>5, <2>6
<1>2. q \in Window /\ q[1] = pos /\ q[2] = stop
  BY DEF Window
<1>3. \A k \in 1..m : v[k] \in Window /\ v[k][1] \in Nat /\ v[k][2] \in Nat
  <2>1. \A k \in 1..m : v[k] \in Window
    BY <1>1
  <2> QED BY <2>1 DEF Window
<1>4. Overlap \in Nat /\ MaxChunk \in Nat
  BY ChunkSizes
<1> HIDE DEF q
<1>5. /\ r \in Seq(Window) /\ Len(r) = m + 1 /\ r[1] = q
      /\ \A k \in 1..m : r[k + 1] = v[k]
  BY <1>1, <1>2
<1> HIDE DEF r, m
<1>6. \A k \in 1..(m + 1) : k = 1 \/ (k - 1 \in 1..m /\ r[k] = v[k - 1])
  <2> SUFFICES ASSUME NEW k \in 1..(m + 1), k # 1 PROVE k - 1 \in 1..m /\ r[k] = v[k - 1]
    OBVIOUS
  <2>1. k - 1 \in 1..m /\ (k - 1) + 1 = k
    BY <1>1
  <2> QED BY <1>5, <2>1
<1>7. ASSUME NEW k \in 1..(m + 1)
      PROVE  /\ pos <= r[k][1] /\ r[k][1] < r[k][2] /\ r[k][2] <= end
             /\ r[k][2] - r[k][1] <= MaxChunk
  <2>1. CASE k = 1
    BY <1>2, <1>5, <2>1
  <2>2. CASE k # 1
    <3> DEFINE w == v[k - 1]
    <3>1. r[k] = w /\ w[1] \in Nat /\ w[2] \in Nat /\ next <= w[1] /\ w[1] < w[2] /\ w[2] <= end
          /\ w[2] - w[1] <= MaxChunk
      BY <1>1, <1>3, <1>6, <2>2
    <3> HIDE DEF w
    <3> QED BY <3>1
  <2> QED BY <2>1, <2>2
<1>8. ASSUME NEW k \in 1..m
      PROVE  r[k][1] < r[k + 1][1] /\ r[k][2] - r[k + 1][1] <= Overlap
  <2>1. r[k + 1] = v[k]
    BY <1>5
  <2>2. CASE k = 1
    BY <1>1, <1>2, <1>5, <2>1, <2>2
  <2>3. CASE k # 1
    <3>1. k - 1 \in 1..(m - 1) /\ (k - 1) + 1 = k /\ k \in 1..(m + 1)
      BY <1>1, <2>3
    <3>2. r[k] = v[k - 1]
      BY <1>6, <2>3, <3>1
    <3>3. v[k - 1][1] < v[(k - 1) + 1][1] /\ v[k - 1][2] - v[(k - 1) + 1][1] <= Overlap
      BY <1>1, <3>1
    <3> QED BY <2>1, <3>1, <3>2, <3>3
  <2> QED BY <2>2, <2>3
<1>9. ASSUME NEW i \in pos..(end - 1) PROVE \E k \in 1..(m + 1) : r[k][1] <= i /\ i < r[k][2]
  <2>1. CASE i < stop
    <3>1. 1 \in 1..(m + 1) /\ r[1][1] <= i /\ i < r[1][2]
      BY <1>1, <1>2, <1>5, <2>1
    <3> QED BY <3>1
  <2>2. CASE ~ (i < stop)
    <3>1. i \in next..(end - 1)
      BY <2>2
    <3>2. PICK k \in 1..m : v[k][1] <= i /\ i < v[k][2]
      BY <1>1, <3>1
    <3>3. k + 1 \in 1..(m + 1) /\ r[k + 1] = v[k]
      BY <1>1, <1>5
    <3> QED BY <3>2, <3>3
  <2> QED BY <2>1, <2>2
<1>10. Len(r) - 1 = m
  BY <1>1, <1>5
<1>11. Covered(r, pos, end)
  BY <1>5, <1>9 DEF Covered
<1>12. Len(r) > 0 /\ r[1][1] = pos
  BY <1>1, <1>2, <1>5
<1>13. Windows(r, pos, end)
  BY <1>5, <1>7, <1>8, <1>10, <1>11, <1>12 DEF Windows
<1> QED BY <1>13 DEF r, q

\* _split_range: the windows cover their range, each within the budget, go
\* forward, and share at most the overlap.
LEMMA SplitWindows ==
  ASSUME NEW text, Len(text) \in Nat, NEW start \in Nat, NEW end \in start..Len(text),
         NEW bounds \in SUBSET Nat
  PROVE  Windows(SplitRange(text, start, end, bounds), start, end)
<1> DEFINE D == start..end
           z(pos) == Stop(text, pos, bounds)
           y(pos) == NextStart(text, pos, z(pos))
<1>1. start \in D /\ end \in Nat /\ start <= end /\ end - start \in Nat /\ MaxChunk \in Nat
  BY ChunkSizes
<1>2. PICK from : SplitRun(text, start, end, bounds, from)
  BY SplitRuns
<1>3. ASSUME NEW pos \in D, end - pos <= MaxChunk PROVE Windows(from[pos], pos, end)
  <2>1. pos \in Nat /\ pos <= end
    BY <1>1
  <2>2. CASE pos = end
    <3>1. from[pos] = <<>>
      BY <1>2, <2>2 DEF SplitRun
    <3>2. Covered(<<>>, pos, end)
      <4>1. pos..(end - 1) = {}
        BY <2>1, <2>2
      <4> QED BY <4>1 DEF Covered
    <3>3. <<>> \in Seq(Window) /\ Len(<<>>) = 0 /\ 1..0 = {} /\ 1..(0 - 1) = {} /\ ~ (pos < end)
      BY <2>1, <2>2
    <3> QED BY <3>1, <3>2, <3>3 DEF Windows
  <2>3. CASE pos # end
    <3> DEFINE q == <<pos, end>>
               v == <<q>>
    <3>1. from[pos] = v
      BY <1>2, <1>3, <2>3 DEF SplitRun
    <3>2. q \in Window /\ q[1] = pos /\ q[2] = end
      BY <1>1, <2>1 DEF Window
    <3> HIDE DEF q
    <3>3. v \in Seq(Window) /\ Len(v) = 1 /\ v[1] = q /\ 1..(1 - 1) = {}
      BY <3>2
    <3>4. pos < end
      BY <1>1, <2>1, <2>3
    <3> HIDE DEF v
    <3>5. \A k \in 1..1 : k = 1
      OBVIOUS
    <3>6. Covered(v, pos, end)
      <4>1. \A i \in pos..(end - 1) : v[1][1] <= i /\ i < v[1][2]
        BY <1>1, <2>1, <3>2, <3>3
      <4>2. 1 \in 1..Len(v)
        BY <3>3
      <4> QED BY <4>1, <4>2 DEF Covered
    <3>7. \A k \in 1..Len(v) : /\ pos <= v[k][1] /\ v[k][1] < v[k][2] /\ v[k][2] <= end
                               /\ v[k][2] - v[k][1] <= MaxChunk
      BY <1>1, <1>3, <2>1, <3>2, <3>3, <3>4, <3>5
    <3>8. \A k \in 1..(Len(v) - 1) : FALSE
      BY <3>3
    <3>9. Len(v) > 0 /\ v[1][1] = pos
      BY <3>2, <3>3
    <3> QED BY <3>1, <3>3, <3>6, <3>7, <3>8, <3>9 DEF Windows
  <2> QED BY <2>2, <2>3
<1>4. ASSUME NEW pos \in D, ~ (end - pos <= MaxChunk), Windows(from[y(pos)], y(pos), end)
      PROVE  Windows(from[pos], pos, end)
  <2>1. pos \in Nat /\ start <= pos /\ pos <= end /\ end - pos > MaxChunk
    BY <1>1, <1>4
  <2>2. from[pos] = <<<<pos, z(pos)>>>> \o from[y(pos)]
    BY <1>2, <2>1 DEF SplitRun
  <2>3. z(pos) \in (pos + 1)..(pos + MaxChunk)
    BY <2>1, WindowStops
  <2> HIDE DEF z
  <2>4. z(pos) \in (pos + 1)..Len(text) /\ z(pos) \in Nat /\ z(pos) < end /\ z(pos) - pos <= MaxChunk
    BY <1>1, <2>1, <2>3
  <2>5. y(pos) \in (pos + 1)..z(pos) /\ z(pos) - y(pos) <= Overlap
    BY <2>1, <2>4, WindowsAdvance
  <2> HIDE DEF y
  <2>6. y(pos) \in Nat /\ pos < y(pos) /\ y(pos) <= z(pos)
    BY <2>1, <2>4, <2>5
  <2>7. Windows(<<<<pos, z(pos)>>>> \o from[y(pos)], pos, end)
    BY <1>1, <1>4, <2>1, <2>4, <2>5, <2>6, WindowBefore
  <2> QED BY <2>2, <2>7
<1>5. ASSUME NEW pos \in D, ~ (end - pos <= MaxChunk) PROVE y(pos) \in D /\ pos < y(pos)
  <2>1. pos \in Nat /\ start <= pos /\ pos <= end
    BY <1>1
  <2>2. z(pos) \in (pos + 1)..(pos + MaxChunk)
    BY <2>1, WindowStops
  <2> HIDE DEF z
  <2>3. z(pos) \in (pos + 1)..Len(text) /\ z(pos) \in Nat /\ z(pos) <= end
    BY <1>1, <1>5, <2>1, <2>2
  <2>4. y(pos) \in (pos + 1)..z(pos)
    BY <2>1, <2>3, WindowsAdvance
  <2> HIDE DEF y
  <2> QED BY <1>1, <2>1, <2>3, <2>4
<1> DEFINE T == {k \in Nat : \A pos \in D : end - pos <= k => Windows(from[pos], pos, end)}
<1> HIDE DEF y, z
<1>6. 0 \in T
  <2> SUFFICES ASSUME NEW pos \in D, end - pos <= 0 PROVE Windows(from[pos], pos, end)
    OBVIOUS
  <2>1. end - pos <= MaxChunk
    BY <1>1
  <2> QED BY <1>3, <2>1
<1>7. ASSUME NEW k \in 0..((end - start) - 1), k \in T PROVE k + 1 \in T
  <2> SUFFICES ASSUME NEW pos \in D, end - pos <= k + 1 PROVE Windows(from[pos], pos, end)
    OBVIOUS
  <2>1. CASE end - pos <= MaxChunk
    BY <1>3, <2>1
  <2>2. CASE ~ (end - pos <= MaxChunk)
    <3>1. y(pos) \in D /\ pos < y(pos)
      BY <1>5, <2>2
    <3>2. end - y(pos) <= k
      BY <1>1, <3>1
    <3>3. Windows(from[y(pos)], y(pos), end)
      BY <1>7, <3>1, <3>2
    <3> QED BY <1>4, <2>2, <3>3
  <2> QED BY <2>1, <2>2
<1> HIDE DEF T
<1>8. 0..(end - start) \subseteq T
  BY <1>1, <1>6, <1>7, Induction
<1>9. Windows(from[start], start, end)
  <2>1. end - start \in T /\ end - start <= end - start
    BY <1>1, <1>8
  <2> QED BY <1>1, <2>1 DEF T
<1> QED BY <1>2, <1>9 DEF SplitRun

\* The elements of a set counted up to the k-th are k, and no others are.
LEMMA AscendingRank ==
  ASSUME NEW S \in SUBSET Int, IsFiniteSet(S), NEW k \in 1..Cardinality(S)
  PROVE  LET a == Ascending(S)
         IN /\ (CHOOSE h \in S : Cardinality({g \in S : g <= h}) = k) = a[k]
            /\ a[k] \in S /\ \A h \in S : h > a[k] => k < Cardinality(S) /\ a[k + 1] <= h
<1> DEFINE a == Ascending(S)
           c == Cardinality(S)
           U(h) == {g \in S : g <= h}
           P(j) == [i \in 1..j |-> a[i]]
<1>1. /\ c \in Nat /\ a \in [1..c -> S]
      /\ \A i, j \in 1..c : a[i] < a[j] <=> i < j
      /\ \A x \in S : \E j \in 1..c : a[j] = x
  BY AscendingLists
<1> HIDE DEF a, c
<1>2. ASSUME NEW j \in 1..c PROVE Cardinality(U(a[j])) = j
  <2>1. \A i \in 1..j : i \in 1..c /\ a[i] \in Int
    <3> SUFFICES ASSUME NEW i \in 1..j PROVE i \in 1..c /\ a[i] \in Int
      OBVIOUS
    <3>1. i \in 1..c
      BY <1>1
    <3>2. a[i] \in S
      BY <1>1, <3>1
    <3> QED BY <3>1, <3>2
  <2>2. P(j) \in Seq(S) /\ Len(P(j)) = j
    BY <1>1, <2>1
  <2>3. \A i, h \in 1..j : P(j)[i] = P(j)[h] => i = h
    <3> SUFFICES ASSUME NEW i \in 1..j, NEW h \in 1..j, a[i] = a[h] PROVE i = h
      OBVIOUS
    <3>1. ~ (a[i] < a[h]) /\ ~ (a[h] < a[i])
      BY <2>1
    <3>2. ~ (i < h) /\ ~ (h < i)
      BY <1>1, <2>1, <3>1
    <3> QED BY <3>2
  <2>4. U(a[j]) = ToSet(P(j))
    <3>1. ASSUME NEW g \in S, g <= a[j] PROVE g \in ToSet(P(j))
      <4>1. PICK i \in 1..c : a[i] = g
        BY <1>1
      <4>2. ~ (a[j] < a[i])
        <5>1. a[j] \in Int /\ g \in Int
          BY <2>1
        <5> HIDE DEF P
        <5> QED BY <3>1, <4>1, <5>1
      <4>3. i \in 1..j
        BY <1>1, <4>2
      <4>4. P(j)[i] = g /\ DOMAIN P(j) = 1..j
        BY <4>1, <4>3
      <4> HIDE DEF P
      <4> QED BY <4>3, <4>4 DEF ToSet
    <3>2. ASSUME NEW g \in ToSet(P(j)) PROVE g \in S /\ g <= a[j]
      <4>1. PICK i \in 1..j : g = a[i]
        BY DEF ToSet
      <4>2. i = j \/ a[i] < a[j]
        BY <1>1, <2>1
      <4>3. a[i] \in S /\ a[i] \in Int /\ a[j] \in Int
        BY <1>1, <2>1
      <4> QED BY <4>1, <4>2, <4>3
    <3> HIDE DEF P
    <3> QED BY <3>1, <3>2
  <2>5. Cardinality(ToSet(P(j))) = j
    <3> HIDE DEF P
    <3>1. DOMAIN P(j) = 1..j
      BY <2>2
    <3> QED BY <2>2, <2>3, <3>1, CountedByList
  <2> QED BY <2>4, <2>5
<1> HIDE DEF U
<1>3. \A h \in S : Cardinality(U(h)) = k <=> h = a[k]
  <2> SUFFICES ASSUME NEW h \in S PROVE Cardinality(U(h)) = k <=> h = a[k]
    OBVIOUS
  <2>1. PICK j \in 1..c : a[j] = h
    BY <1>1
  <2>2. Cardinality(U(h)) = j /\ k \in 1..c
    BY <1>2, <2>1 DEF c
  <2>3. h = a[k] => j = k
    <3> SUFFICES ASSUME h = a[k] PROVE j = k
      OBVIOUS
    <3>1. a[j] \in Int /\ a[k] = a[j]
      BY <1>1, <2>1
    <3>2. ~ (j < k) /\ ~ (k < j)
      BY <1>1, <2>2, <3>1
    <3> QED BY <2>2, <3>2
  <2> QED BY <2>1, <2>2, <2>3
<1>4. a[k] \in S /\ k \in 1..c
  BY <1>1 DEF c
<1>5. (CHOOSE h \in S : Cardinality(U(h)) = k) = a[k]
  BY <1>3, <1>4
<1>6. ASSUME NEW h \in S, h > a[k] PROVE k < c /\ a[k + 1] <= h
  <2>1. PICK j \in 1..c : a[j] = h
    BY <1>1
  <2>2. a[k] \in Int /\ a[j] \in Int /\ a[k] < a[j]
    BY <1>4, <1>6, <2>1
  <2>3. k < j
    BY <1>1, <1>4, <2>2
  <2>4. k < c /\ k + 1 \in 1..c /\ (j = k + 1 \/ k + 1 < j)
    BY <1>1, <1>4, <2>3
  <2>5. a[k + 1] = a[j] \/ a[k + 1] < a[j]
    BY <1>1, <2>4
  <2>6. a[k + 1] \in Int
    BY <1>1, <2>4
  <2> QED BY <2>1, <2>2, <2>4, <2>5, <2>6
<1> QED BY <1>4, <1>5, <1>6 DEF a, c, U

\* _clause_spans: the clauses share the text, but for the separators between
\* them, each heading opens one, and each block is in one.
ClausesOf(blocks, length, clauses) ==
  /\ clauses \in Seq(Nat \X Nat) /\ Len(clauses) > 0
  /\ \A k \in 1..Len(clauses) : clauses[k][1] < clauses[k][2] /\ clauses[k][2] <= length
  /\ \A k, m \in 1..Len(clauses) : k < m => clauses[k][2] + 2 <= clauses[m][1]
  /\ \A i \in 1..Len(blocks) : \E k \in 1..Len(clauses) :
       /\ clauses[k][1] <= blocks[i].start /\ blocks[i].end <= clauses[k][2]
       /\ blocks[i].kind = "heading" => clauses[k][1] = blocks[i].start

LEMMA ClausesInOrder ==
  ASSUME NEW entries, NEW text, Len(text) \in Nat, NEW blocks \in Seq(Block), Len(blocks) > 0,
         Len(entries) = Len(blocks), IsLaid(entries, text, blocks)
  PROVE  ClausesOf(blocks, Len(text), ClauseSpans(blocks))
<1> DEFINE n == Len(blocks)
           L == Len(text)
           H == {i \in 1..n : i = 1 \/ blocks[i].kind = "heading"}
           a == Ascending(H)
           c == Cardinality(H)
           Q(i) == {h \in H : h > i} \cup {n + 1}
           next(k) == IF k < c THEN a[k + 1] ELSE n + 1
           x(i) == blocks[i].start
           y(i) == blocks[i].end
           cl == ClauseSpans(blocks)
<1>1. n \in Nat /\ n > 0 /\ L \in Nat /\ H \in SUBSET Int /\ 1 \in H /\ H \subseteq 1..n
  OBVIOUS
<1>2. IsFiniteSet(H)
  BY <1>1, PrefixSets, FS_Subset
<1>3. /\ \A i \in 1..n : x(i) \in Nat /\ y(i) \in Nat /\ x(i) < y(i) /\ y(i) <= L
      /\ \A i, j \in 1..n : i < j => y(i) + 2 <= x(j)
  BY DEF IsLaid
<1> HIDE DEF H, L, n, x, y
<1>4. /\ c \in Nat /\ a \in [1..c -> H]
      /\ \A i, j \in 1..c : a[i] < a[j] <=> i < j
      /\ \A h \in H : \E j \in 1..c : a[j] = h
  BY <1>1, <1>2, AscendingLists
<1>5. \A k \in 1..c : /\ (CHOOSE h \in H : Cardinality({g \in H : g <= h}) = k) = a[k]
                      /\ a[k] \in H /\ \A h \in H : h > a[k] => k < c /\ a[k + 1] <= h
  BY <1>1, <1>2, AscendingRank
<1> HIDE DEF a, c
<1>6. c > 0
  BY <1>1, <1>4
<1>7. ASSUME NEW k \in 1..c
      PROVE  /\ Min(Q(a[k])) = next(k) /\ a[k] \in 1..n
             /\ next(k) \in Int /\ a[k] < next(k) /\ next(k) <= n + 1
  <2>1. a[k] \in 1..n
    BY <1>1, <1>5
  <2>2. next(k) \in Q(a[k]) /\ \A h \in Q(a[k]) : h \in Int /\ a[k] < h /\ next(k) <= h /\ h <= n + 1
    <3>1. CASE k < c
      <4>1. k + 1 \in 1..c /\ k < k + 1
        BY <1>4, <3>1
      <4>2. a[k + 1] \in H /\ a[k + 1] \in 1..n /\ a[k] < a[k + 1]
        BY <1>1, <1>4, <4>1
      <4>3. \A h \in H : h > a[k] => h \in Int /\ a[k] < h /\ a[k + 1] <= h /\ h <= n + 1
        <5> SUFFICES ASSUME NEW h \in H, h > a[k]
                     PROVE  h \in Int /\ a[k] < h /\ a[k + 1] <= h /\ h <= n + 1
          OBVIOUS
        <5>1. a[k + 1] <= h
          BY <1>5
        <5>2. h \in 1..n
          BY <1>1
        <5> QED BY <1>1, <2>1, <5>1, <5>2
      <4>4. n + 1 \in Int /\ a[k] < n + 1 /\ a[k + 1] <= n + 1
        BY <1>1, <2>1, <4>2
      <4> QED BY <3>1, <4>2, <4>3, <4>4
    <3>2. CASE ~ (k < c)
      <4>1. Q(a[k]) = {n + 1} /\ next(k) = n + 1
        BY <1>5, <3>2
      <4>2. n + 1 \in Int /\ a[k] < n + 1 /\ n + 1 <= n + 1
        BY <1>1, <2>1
      <4> QED BY <4>1, <4>2
    <3> QED BY <3>1, <3>2
  <2> HIDE DEF Q, next
  <2>3. Q(a[k]) \in SUBSET Int /\ Q(a[k]) # {} /\ next(k) \in Int /\ \A h \in Q(a[k]) : next(k) <= h
    BY <2>2
  <2>4. Min(Q(a[k])) \in Q(a[k]) /\ \A h \in Q(a[k]) : Min(Q(a[k])) <= h
    BY <2>3, MinOfBounded
  <2> QED BY <2>1, <2>2, <2>3, <2>4
<1> DEFINE span(k) == <<x(a[k]), y(next(k) - 1)>>
<1>8. cl = [k \in 1..c |-> span(k)]
  <2> DEFINE I(k) == CHOOSE h \in H : Cardinality({g \in H : g <= h}) = k
  <2>1. cl = [k \in 1..c |-> <<x(I(k)), y(Min(Q(I(k))) - 1)>>]
    BY DEF ClauseSpans, H, c, n, x, y
  <2>2. \A k \in 1..c : I(k) = a[k]
    BY <1>5
  <2> HIDE DEF I, Q, next
  <2>3. \A k \in 1..c : <<x(I(k)), y(Min(Q(I(k))) - 1)>> = span(k)
    BY <1>7, <2>2
  <2> QED BY <2>1, <2>3
<1> HIDE DEF Q, cl
<1>9. ASSUME NEW k \in 1..c
      PROVE  next(k) - 1 \in 1..n /\ a[k] <= next(k) - 1 /\ a[k] \in 1..n
  <2> HIDE DEF next
  <2> QED BY <1>1, <1>7
<1>10. ASSUME NEW i \in 1..n, NEW j \in 1..n, i <= j
       PROVE  x(i) \in Nat /\ y(i) \in Nat /\ x(j) \in Nat /\ y(j) \in Nat
              /\ x(i) <= x(j) /\ y(i) <= y(j) /\ x(i) < y(j) /\ y(j) <= L
  <2>1. x(i) \in Nat /\ y(i) \in Nat /\ x(j) \in Nat /\ y(j) \in Nat /\ x(i) < y(i) /\ x(j) < y(j) /\ y(j) <= L
    BY <1>3
  <2>2. i = j \/ y(i) + 2 <= x(j)
    BY <1>3, <1>10
  <2> QED BY <2>1, <2>2
<1>11. ASSUME NEW k \in 1..c
       PROVE  /\ x(a[k]) \in Nat /\ y(next(k) - 1) \in Nat
              /\ x(a[k]) < y(next(k) - 1) /\ y(next(k) - 1) <= L
  <2> HIDE DEF next
  <2> QED BY <1>9, <1>10
<1>12. ASSUME NEW k \in 1..c, NEW m \in 1..c, k < m
       PROVE  y(next(k) - 1) + 2 <= x(a[m])
  <2>1. k < c /\ k + 1 \in 1..c /\ (k + 1 = m \/ k + 1 < m)
    BY <1>4, <1>12
  <2>2. next(k) = a[k + 1]
    BY <2>1
  <2>3. a[k + 1] = a[m] \/ a[k + 1] < a[m]
    BY <1>4, <2>1
  <2>4. next(k) - 1 \in 1..n /\ a[m] \in 1..n /\ a[k + 1] \in 1..n
    BY <1>9, <2>1
  <2> HIDE DEF next
  <2>5. next(k) - 1 < a[m]
    BY <2>2, <2>3, <2>4
  <2> QED BY <1>3, <2>4, <2>5
<1>13. ASSUME NEW i \in 1..n
       PROVE  \E k \in 1..c : /\ a[k] <= i /\ i <= next(k) - 1
                              /\ i \in H => a[k] = i
  <2> DEFINE T == {k \in 1..c : a[k] <= i}
  <2>1. T # {} /\ T \in SUBSET Int /\ \A k \in T : k <= c
    <3>1. PICK j \in 1..c : a[j] = 1
      BY <1>1, <1>4
    <3>2. j \in T
      BY <3>1
    <3> QED BY <1>4, <3>2
  <2>2. PICK k \in T : \A m \in T : m <= k
    <3>1. c \in Int
      BY <1>4
    <3> HIDE DEF T
    <3> QED BY <2>1, <3>1, LargestBounded
  <2>3. k \in 1..c /\ a[k] <= i
    OBVIOUS
  <2>4. i <= next(k) - 1
    <3>1. CASE k < c
      <4>1. k + 1 \in 1..c /\ ~ (k + 1 <= k)
        BY <1>4, <3>1
      <4>2. k + 1 \notin T
        <5> HIDE DEF T
        <5> QED BY <2>2, <4>1
      <4>3. ~ (a[k + 1] <= i) /\ a[k + 1] \in 1..n
        BY <1>9, <4>1, <4>2
      <4> QED BY <3>1, <4>3
    <3>2. CASE ~ (k < c)
      BY <1>1, <3>2
    <3> QED BY <3>1, <3>2
  <2>5. ASSUME i \in H PROVE a[k] = i
    <3>1. PICK j \in 1..c : a[j] = i
      BY <1>4, <2>5
    <3>2. j \in T /\ j <= k
      BY <2>2, <3>1
    <3>3. a[k] \in 1..n /\ (j = k \/ a[j] < a[k])
      BY <1>4, <1>9, <2>3, <3>2
    <3> QED BY <2>3, <3>1, <3>3
  <2> HIDE DEF next, T
  <2> QED BY <2>3, <2>4, <2>5
<1>14. ASSUME NEW i \in 1..n
       PROVE  \E k \in 1..c : /\ cl[k][1] <= x(i) /\ y(i) <= cl[k][2]
                              /\ blocks[i].kind = "heading" => cl[k][1] = x(i)
  <2>1. PICK k \in 1..c : a[k] <= i /\ i <= next(k) - 1 /\ (i \in H => a[k] = i)
    BY <1>13
  <2>2. a[k] \in 1..n /\ next(k) - 1 \in 1..n
    BY <1>9
  <2>3. cl[k][1] = x(a[k]) /\ cl[k][2] = y(next(k) - 1)
    BY <1>8
  <2>4. x(a[k]) <= x(i)
    BY <1>10, <2>1, <2>2
  <2>5. y(i) <= y(next(k) - 1)
    <3> DEFINE j == next(k) - 1
    <3>1. j \in 1..n /\ i <= j
      BY <2>1, <2>2
    <3> HIDE DEF j
    <3>2. y(i) <= y(j)
      BY <1>10, <3>1
    <3> QED BY <3>2 DEF j
  <2>6. blocks[i].kind = "heading" => i \in H
    BY DEF H
  <2> HIDE DEF next
  <2> QED BY <2>1, <2>3, <2>4, <2>5, <2>6
<1>15. cl \in Seq(Nat \X Nat) /\ Len(cl) = c
  <2> HIDE DEF next
  <2>1. \A k \in 1..c : span(k) \in Nat \X Nat
    BY <1>11
  <2> HIDE DEF span
  <2> QED BY <1>4, <1>8, <2>1
<1>16. \A k \in 1..c : cl[k][1] < cl[k][2] /\ cl[k][2] <= L
  <2> HIDE DEF next
  <2> QED BY <1>8, <1>11
<1>17. \A k, m \in 1..c : k < m => cl[k][2] + 2 <= cl[m][1]
  <2> HIDE DEF next
  <2> QED BY <1>8, <1>12
<1> QED BY <1>6, <1>14, <1>15, <1>16, <1>17 DEF ClausesOf, cl, n, L, x, y

\* Every character that is not white space is in a block.
LEMMA BlocksHoldText ==
  ASSUME NEW entries, NEW text, Len(text) \in Nat, NEW blocks, Len(blocks) \in Nat,
         Len(entries) = Len(blocks), IsLaid(entries, text, blocks),
         NEW i \in 0..(Len(text) - 1), At(text, i) \notin Space
  PROVE  \E b \in 1..Len(blocks) : blocks[b].start <= i /\ i < blocks[b].end
<1> DEFINE n == Len(blocks)
           L == Len(text)
           x(b) == blocks[b].start
           y(b) == blocks[b].end
           T == {b \in 1..n : x(b) <= i}
<1>1. /\ n = 0 => L = 0
      /\ n > 0 => x(1) = 0 /\ y(n) = L
      /\ \A b \in 1..n : x(b) \in Nat /\ y(b) \in Nat
      /\ \A b \in 1..(n - 1) : x(b + 1) = y(b) + 2 /\ BreakAt(text, y(b))
  BY DEF IsLaid
<1>2. n \in Nat /\ L \in Nat /\ i \in Nat /\ i < L
  OBVIOUS
<1>3. n > 0
  BY <1>1, <1>2
<1> HIDE DEF n, L, x, y
<1>4. 1 \in T
  <2>1. 1 \in 1..n
    BY <1>2, <1>3
  <2> QED BY <1>1, <1>2, <1>3, <2>1
<1>5. PICK b \in T : \A m \in T : m <= b
  <2>1. T \in SUBSET Int /\ T # {} /\ n \in Int /\ \A m \in T : m <= n
    BY <1>2, <1>4
  <2> HIDE DEF T
  <2> QED BY <2>1, LargestBounded
<1>6. b \in 1..n /\ x(b) <= i
  OBVIOUS
<1>7. i < y(b)
  <2> SUFFICES ASSUME ~ (i < y(b)) PROVE FALSE
    OBVIOUS
  <2>1. y(b) \in Nat
    BY <1>1, <1>6
  <2>2. b # n
    BY <1>1, <1>2, <1>3, <2>1
  <2>3. b \in 1..(n - 1) /\ b + 1 \in 1..n /\ ~ (b + 1 <= b)
    BY <1>2, <1>6, <2>2
  <2>4. b + 1 \notin T
    <3> HIDE DEF T
    <3> QED BY <1>5, <2>3
  <2>5. ~ (x(b + 1) <= i) /\ x(b + 1) = y(b) + 2
    BY <1>1, <2>3, <2>4
  <2>6. i = y(b) \/ i = y(b) + 1
    BY <1>2, <2>1, <2>5
  <2>7. BreakAt(text, y(b))
    BY <1>1, <2>3
  <2>8. y(b) + 1 + 1 = y(b) + 2
    BY <2>1
  <2> QED BY <2>6, <2>7, <2>8 DEF BreakAt, At, Space
<1> QED BY <1>6, <1>7 DEF n, x, y

\* The chunks of a text cut into clauses.
Cut(chunks, clauses) ==
  /\ chunks \in Seq(Window)
  /\ \A p \in 1..Len(chunks) : \E k \in 1..Len(clauses) :
       /\ clauses[k][1] <= chunks[p][1] /\ chunks[p][1] < chunks[p][2]
       /\ chunks[p][2] <= clauses[k][2] /\ chunks[p][2] - chunks[p][1] <= MaxChunk
  /\ \A p \in 1..(Len(chunks) - 1) : /\ chunks[p][1] < chunks[p + 1][1]
                                     /\ chunks[p][2] - chunks[p + 1][1] <= Overlap
  /\ \A k \in 1..Len(clauses) : \A i \in clauses[k][1]..(clauses[k][2] - 1) :
       \E p \in 1..Len(chunks) : chunks[p][1] <= i /\ i < chunks[p][2]

\* chunk_document, with headings: the windows of the clauses one after another.
LEMMA ChunksOfClauses ==
  ASSUME NEW length \in Nat, NEW blocks, NEW clauses, ClausesOf(blocks, length, clauses),
         NEW parts, DOMAIN parts = DOMAIN clauses, parts = [k \in DOMAIN clauses |-> parts[k]],
         \A k \in DOMAIN clauses : Windows(parts[k], clauses[k][1], clauses[k][2])
  PROVE  Cut(FlattenSeq(parts), clauses)
<1> DEFINE c == Len(clauses)
           x(k) == clauses[k][1]
           y(k) == clauses[k][2]
           flat == FlattenSeq(parts)
           M == Len(flat)
<1>1. /\ clauses \in Seq(Nat \X Nat) /\ c > 0
      /\ \A k \in 1..c : x(k) < y(k) /\ y(k) <= length
      /\ \A k, m \in 1..c : k < m => y(k) + 2 <= x(m)
  BY DEF ClausesOf
<1>2. c \in Nat /\ DOMAIN clauses = 1..c /\ \A k \in 1..c : x(k) \in Nat /\ y(k) \in Nat
  <2>1. c \in Nat /\ DOMAIN clauses = 1..c /\ \A k \in 1..c : clauses[k] \in Nat \X Nat
    BY <1>1
  <2> QED BY <2>1
<1>3. \A k \in 1..c :
        /\ parts[k] \in Seq(Window)
        /\ \A j \in 1..Len(parts[k]) :
             /\ x(k) <= parts[k][j][1] /\ parts[k][j][1] < parts[k][j][2] /\ parts[k][j][2] <= y(k)
             /\ parts[k][j][2] - parts[k][j][1] <= MaxChunk
        /\ \A j \in 1..(Len(parts[k]) - 1) :
             /\ parts[k][j][1] < parts[k][j + 1][1]
             /\ parts[k][j][2] - parts[k][j + 1][1] <= Overlap
        /\ \A i \in x(k)..(y(k) - 1) : \E j \in 1..Len(parts[k]) : parts[k][j][1] <= i /\ i < parts[k][j][2]
  BY <1>2 DEF Windows, Covered
<1> HIDE DEF c, x, y
<1>4. parts \in Seq(Seq(Window)) /\ Len(parts) = c
  <2>1. parts \in [1..c -> Seq(Window)]
    BY <1>2, <1>3
  <2> QED BY <1>2, <2>1
<1>5. flat \in Seq(Window) /\ \E at : LaidOut(parts, flat, at)
  BY <1>4, FlattenLayout
<1> HIDE DEF flat
<1>6. PICK at : LaidOut(parts, flat, at)
  BY <1>5
<1>7. Located(parts, flat, at)
  BY <1>4, <1>5, <1>6, FlattenItems
<1>8. M \in Nat /\ \A p \in 1..M : flat[p] \in Window /\ flat[p][1] \in Nat /\ flat[p][2] \in Nat
  <2>1. M \in Nat /\ \A p \in 1..M : flat[p] \in Window
    BY <1>5
  <2> QED BY <2>1 DEF Window
<1>9. /\ at \in [0..c -> Nat] /\ at[0] = 0 /\ at[c] = M
      /\ \A k \in 1..c : at[k] = at[k - 1] + Len(parts[k])
      /\ \A k \in 1..c : \A j \in 1..Len(parts[k]) : flat[at[k - 1] + j] = parts[k][j]
  BY <1>4, <1>6 DEF LaidOut
<1>10. /\ \A p \in 1..M : \E k \in 1..c : \E j \in 1..Len(parts[k]) :
            p = at[k - 1] + j /\ flat[p] = parts[k][j]
       /\ \A k, m \in 0..c : k <= m => at[k] <= at[m]
  BY <1>4, <1>7 DEF Located
<1> HIDE DEF M
<1>11. Overlap \in Nat /\ \A k \in 1..c : k \in 0..c /\ k - 1 \in 0..c /\ at[k] \in Nat /\ at[k - 1] \in Nat /\ Len(parts[k]) \in Nat
  <2>1. Overlap \in Nat
    BY ChunkSizes
  <2>2. ASSUME NEW k \in 1..c PROVE k \in 0..c /\ k - 1 \in 0..c /\ at[k] \in Nat /\ at[k - 1] \in Nat /\ Len(parts[k]) \in Nat
    <3>1. k \in 0..c /\ k - 1 \in 0..c
      BY <1>2
    <3>2. parts[k] \in Seq(Window)
      BY <1>3
    <3> DEFINE v == parts[k]
    <3> HIDE DEF v
    <3>3. Len(v) \in Nat
      BY <3>2 DEF v
    <3> QED BY <1>9, <3>1, <3>3 DEF v
  <2> QED BY <2>1, <2>2
<1>12. ASSUME NEW p \in 1..M
       PROVE  \E k \in 1..c : /\ x(k) <= flat[p][1] /\ flat[p][1] < flat[p][2]
                              /\ flat[p][2] <= y(k) /\ flat[p][2] - flat[p][1] <= MaxChunk
  <2>1. PICK k \in 1..c : \E j \in 1..Len(parts[k]) : p = at[k - 1] + j /\ flat[p] = parts[k][j]
    BY <1>10
  <2>2. PICK j \in 1..Len(parts[k]) : flat[p] = parts[k][j]
    BY <2>1
  <2>3. /\ x(k) <= parts[k][j][1] /\ parts[k][j][1] < parts[k][j][2] /\ parts[k][j][2] <= y(k)
        /\ parts[k][j][2] - parts[k][j][1] <= MaxChunk
    BY <1>3
  <2> QED BY <2>2, <2>3
<1>13. ASSUME NEW p \in 1..(M - 1)
       PROVE  flat[p][1] < flat[p + 1][1] /\ flat[p][2] - flat[p + 1][1] <= Overlap
  <2>1. p \in 1..M /\ p + 1 \in 1..M /\ p \in Nat
    BY <1>8
  <2>2. PICK k \in 1..c : \E j \in 1..Len(parts[k]) : p = at[k - 1] + j /\ flat[p] = parts[k][j]
    BY <1>10, <2>1
  <2>3. PICK j \in 1..Len(parts[k]) : p = at[k - 1] + j /\ flat[p] = parts[k][j]
    BY <2>2
  <2>4. PICK m \in 1..c : \E h \in 1..Len(parts[m]) : p + 1 = at[m - 1] + h /\ flat[p + 1] = parts[m][h]
    BY <1>10, <2>1
  <2>5. PICK h \in 1..Len(parts[m]) : p + 1 = at[m - 1] + h /\ flat[p + 1] = parts[m][h]
    BY <2>4
  <2>6. k <= m
    <3> SUFFICES ASSUME m < k PROVE FALSE
      BY <1>2
    <3>1. m <= k - 1 /\ m \in 0..c /\ k - 1 \in 0..c
      BY <1>2, <1>11
    <3>2. at[m] <= at[k - 1] /\ at[m] = at[m - 1] + Len(parts[m])
      BY <1>9, <1>10, <3>1
    <3> DEFINE u == at[m]
               w == at[k - 1]
               d == at[m - 1]
               e == Len(parts[m])
    <3>3. u \in Nat /\ w \in Nat /\ d \in Nat /\ e \in Nat /\ h \in 1..e /\ u <= w /\ u = d + e
          /\ p = w + j /\ p + 1 = d + h /\ j \in Nat /\ j > 0
      <4>1. u \in Nat /\ w \in Nat /\ d \in Nat /\ e \in Nat
        BY <1>11
      <4>2. Len(parts[k]) \in Nat
        BY <1>11
      <4>3. j \in Nat /\ j > 0
        <5> DEFINE f == Len(parts[k])
        <5>1. f \in Nat /\ j \in 1..f
          BY <4>2
        <5> HIDE DEF f
        <5> QED BY <5>1
      <4> QED BY <2>3, <2>5, <3>2, <4>1, <4>3
    <3> HIDE DEF u, w, d, e
    <3> QED BY <2>1, <3>3
  <2>7. CASE k < m
    <3>1. y(k) + 2 <= x(m)
      BY <1>1, <2>7
    <3>2. flat[p][1] < flat[p][2] /\ flat[p][2] <= y(k)
      BY <1>3, <2>3
    <3>3. x(m) <= flat[p + 1][1]
      BY <1>3, <2>5
    <3> DEFINE a == flat[p][1]
               b == flat[p][2]
               d == flat[p + 1][1]
               e == y(k)
               f == x(m)
    <3>4. a \in Nat /\ b \in Nat /\ d \in Nat /\ e \in Nat /\ f \in Nat /\ a < b /\ b <= e /\ e + 2 <= f /\ f <= d
      BY <1>2, <1>8, <2>1, <3>1, <3>2, <3>3
    <3> HIDE DEF a, b, d, e, f
    <3>5. a < d /\ b - d <= Overlap
      BY <1>11, <3>4
    <3> QED BY <3>5 DEF a, b, d
  <2>8. CASE k = m
    <3>1. at[k - 1] \in Nat /\ Len(parts[k]) \in Nat
      BY <1>11
    <3> DEFINE w == at[k - 1]
               e == Len(parts[k])
    <3>2. w \in Nat /\ e \in Nat /\ j \in 1..e /\ h \in 1..e /\ p = w + j /\ p + 1 = w + h
      BY <2>3, <2>5, <2>8, <3>1
    <3> HIDE DEF w, e
    <3>3. h = j + 1 /\ j \in 1..(e - 1)
      BY <2>1, <3>2
    <3>4. flat[p] = parts[k][j] /\ flat[p + 1] = parts[k][j + 1] /\ j \in 1..(Len(parts[k]) - 1)
      BY <2>3, <2>5, <2>8, <3>3 DEF e
    <3> QED BY <1>3, <3>4
  <2> QED BY <1>2, <2>6, <2>7, <2>8
<1>14. ASSUME NEW k \in 1..c, NEW i \in x(k)..(y(k) - 1)
       PROVE  \E p \in 1..M : flat[p][1] <= i /\ i < flat[p][2]
  <2>1. PICK j \in 1..Len(parts[k]) : parts[k][j][1] <= i /\ i < parts[k][j][2]
    BY <1>3
  <2>2. flat[at[k - 1] + j] = parts[k][j]
    BY <1>9
  <2>3. at[k] = at[k - 1] + Len(parts[k]) /\ at[k] <= at[c] /\ at[c] = M
    <3>1. c \in 0..c /\ k \in 0..c /\ k <= c
      BY <1>2
    <3> QED BY <1>9, <1>10, <3>1
  <2>4. at[k - 1] + j \in 1..M
    <3> DEFINE u == at[k]
               w == at[k - 1]
               e == Len(parts[k])
    <3>1. u \in Nat /\ w \in Nat /\ e \in Nat /\ j \in 1..e /\ u = w + e /\ u <= M
      BY <1>11, <2>3
    <3> HIDE DEF u, w, e
    <3>2. w + j \in 1..M
      BY <1>8, <3>1
    <3> QED BY <3>2 DEF w
  <2> QED BY <2>1, <2>2, <2>4
<1> QED BY <1>5, <1>12, <1>13, <1>14 DEF Cut, flat, M, c, x, y

\* chunk_document: a text with a block is cut into its clauses, or is one clause.
LEMMA ChunksCut ==
  ASSUME NEW entries, NEW doc, Len(doc.text) \in Nat, doc.blocks \in Seq(Block), Len(doc.blocks) > 0,
         Len(entries) = Len(doc.blocks), IsLaid(entries, doc.text, doc.blocks)
  PROVE  \E clauses : ClausesOf(doc.blocks, Len(doc.text), clauses) /\ Cut(Chunks(doc), clauses)
<1> DEFINE blocks == doc.blocks
           text == doc.text
           L == Len(text)
           n == Len(blocks)
           Titled == \E b \in ToSet(blocks) : b.kind = "heading"
<1>1. blocks # <<>> /\ n \in Nat /\ DOMAIN blocks = 1..n /\ blocks \in Seq(Block)
      /\ \A i \in 1..n : blocks[i] \in Block
  OBVIOUS
<1>2. /\ n > 0 /\ blocks[1].start = 0 /\ blocks[n].end = L
      /\ \A i \in 1..n : /\ blocks[i].start \in Nat /\ blocks[i].end \in Nat
                         /\ blocks[i].start < blocks[i].end /\ blocks[i].end <= L
  BY DEF IsLaid
<1>3. CASE Titled
  <2> DEFINE cl == ClauseSpans(blocks)
             B(k) == Bounds(blocks, cl[k])
             parts == [k \in DOMAIN cl |-> SplitRange(text, cl[k][1], cl[k][2], B(k))]
  <2>1. ClausesOf(blocks, L, cl)
    BY ClausesInOrder
  <2>2. Chunks(doc) = FlattenSeq(parts)
    BY <1>1, <1>3 DEF Chunks
  <2> HIDE DEF cl, L
  <2>3. /\ cl \in Seq(Nat \X Nat)
        /\ \A k \in 1..Len(cl) : cl[k][1] < cl[k][2] /\ cl[k][2] <= L
    BY <2>1 DEF ClausesOf
  <2>4. ASSUME NEW k \in DOMAIN cl PROVE Windows(parts[k], cl[k][1], cl[k][2])
    <3>1. B(k) \in SUBSET Nat
      <4>1. \A b \in ToSet(blocks) : b.end \in Nat
        BY <1>1, <1>2 DEF ToSet
      <4> HIDE DEF blocks
      <4> QED BY <4>1 DEF Bounds
    <3>2. cl[k] \in Nat \X Nat /\ cl[k][1] < cl[k][2] /\ cl[k][2] <= L
      BY <2>3
    <3>3. cl[k][1] \in Nat /\ cl[k][2] \in cl[k][1]..L
      <4> DEFINE u == cl[k][1]
                 v == cl[k][2]
      <4>1. u \in Nat /\ v \in Nat /\ u < v /\ v <= L /\ L \in Nat
        BY <3>2 DEF L
      <4> HIDE DEF u, v
      <4>2. v \in u..L
        BY <4>1
      <4> QED BY <4>1, <4>2 DEF u, v
    <3>4. L \in Nat
      BY DEF L
    <3> HIDE DEF B
    <3>5. Windows(SplitRange(text, cl[k][1], cl[k][2], B(k)), cl[k][1], cl[k][2])
      BY <3>1, <3>3, <3>4, SplitWindows DEF L
    <3> QED BY <3>5
  <2>5. DOMAIN parts = DOMAIN cl /\ parts = [k \in DOMAIN cl |-> parts[k]]
    OBVIOUS
  <2>6. L \in Nat
    BY DEF L
  <2> HIDE DEF parts
  <2>7. Cut(FlattenSeq(parts), cl)
    BY <2>1, <2>4, <2>5, <2>6, ChunksOfClauses
  <2> QED BY <2>1, <2>2, <2>7 DEF L
<1>4. CASE ~ Titled
  <2> DEFINE cl == <<<<0, L>>>>
             v == SplitRange(text, 0, L, {})
  <2>1. Chunks(doc) = v
    BY <1>1, <1>4 DEF Chunks
  <2>2. L \in Nat /\ L > 0
    <3> DEFINE u == blocks[n].start
               w == blocks[n].end
    <3>1. n \in 1..n
      BY <1>1, <1>2
    <3>2. u \in Nat /\ w \in Nat /\ u < w /\ w = L
      BY <1>2, <3>1
    <3> HIDE DEF u, w, L
    <3> QED BY <3>2
  <2>3. Windows(v, 0, L)
    <3>1. L \in 0..L /\ {} \in SUBSET Nat /\ 0 \in Nat
      BY <2>2
    <3> QED BY <2>2, <3>1, SplitWindows
  <2> HIDE DEF v, L
  <2>4. cl \in Seq(Nat \X Nat) /\ Len(cl) = 1 /\ cl[1][1] = 0 /\ cl[1][2] = L /\ 1 \in 1..1
        /\ \A k \in 1..1 : k = 1
    BY <2>2
  <2> HIDE DEF cl
  <2>5. ClausesOf(blocks, L, cl)
    <3>1. \A i \in 1..n : blocks[i].kind # "heading"
      BY <1>1, <1>4 DEF ToSet
    <3>2. \A k, m \in 1..Len(cl) : k < m => cl[k][2] + 2 <= cl[m][1]
      BY <2>4
    <3>3. \A i \in 1..n : 0 <= blocks[i].start /\ blocks[i].end <= L
      BY <1>2
    <3>4. \A k \in 1..Len(cl) : cl[k][1] < cl[k][2] /\ cl[k][2] <= L
      BY <2>2, <2>4
    <3> HIDE DEF n, Titled
    <3>5. \A i \in 1..n : \E k \in 1..Len(cl) :
            /\ cl[k][1] <= blocks[i].start /\ blocks[i].end <= cl[k][2]
            /\ blocks[i].kind = "heading" => cl[k][1] = blocks[i].start
      BY <2>4, <3>1, <3>3
    <3> QED BY <2>4, <3>2, <3>4, <3>5 DEF ClausesOf, n
  <2>6. Cut(v, cl)
    <3>1. /\ v \in Seq(Window)
          /\ \A k \in 1..Len(v) : /\ 0 <= v[k][1] /\ v[k][1] < v[k][2] /\ v[k][2] <= L
                                  /\ v[k][2] - v[k][1] <= MaxChunk
          /\ \A k \in 1..(Len(v) - 1) : v[k][1] < v[k + 1][1] /\ v[k][2] - v[k + 1][1] <= Overlap
          /\ \A i \in 0..(L - 1) : \E k \in 1..Len(v) : v[k][1] <= i /\ i < v[k][2]
      BY <2>3 DEF Windows, Covered
    <3> QED BY <2>4, <3>1 DEF Cut
  <2> QED BY <2>1, <2>5, <2>6 DEF L
<1> QED BY <1>3, <1>4

\* chunking.py: chunks lose no character that is not white space, keep the
\* budget, go forward and stay in their clause.
THEOREM ChunksHoldTheText ==
  ASSUME NEW C, HasBreak(C), NEW entries \in Seq(Entry(C)), Parsed(entries)
  PROVE  ChunksHoldText(entries) /\ ChunksInOrder(entries)
<1> DEFINE doc == Build(entries)
           b == doc.blocks
           t == doc.text
           n == Len(entries)
           L == Len(t)
           w == Chunks(doc)
<1>1. \A i \in DOMAIN entries : IsEntry(entries[i])
  BY DEF Parsed
<1>2. doc \in Doc(C) /\ TextInv(entries, n, doc)
  BY BuildFacts
<1>3. IsLaid(entries, t, b)
  BY <1>1, <1>2, BuiltIsLaid
<1>4. t \in Seq(C) /\ b \in Seq(Block) /\ DOMAIN b = 1..n /\ Len(b) = n /\ n \in Nat /\ L \in Nat
  <2>1. t \in Seq(C) /\ b \in Seq(Block)
    BY <1>2 DEF Doc
  <2>2. Len(b) = n
    BY <1>3 DEF IsLaid
  <2> HIDE DEF b, t
  <2>3. DOMAIN b = 1..n /\ L \in Nat
    BY <2>1, <2>2
  <2> QED BY <2>1, <2>2, <2>3
<1> HIDE DEF doc
<1>5. CASE n = 0
  <2>1. b = <<>> /\ L = 0
    <3>1. L = 0
      BY <1>3, <1>5 DEF IsLaid
    <3> HIDE DEF b, t, L
    <3> QED BY <1>4, <1>5, <3>1
  <2>2. w = <<>>
    BY <2>1 DEF Chunks
  <2>3. ToSet(w) = {} /\ 1..(Len(w) - 1) = {} /\ 0..(L - 1) = {}
    <3>1. ToSet(<<>>) = {} /\ 1..(Len(<<>>) - 1) = {}
      BY DEF ToSet
    <3> QED BY <2>1, <2>2, <3>1
  <2> HIDE DEF w
  <2> QED BY <2>3 DEF ChunksHoldText, ChunksInOrder, doc, w
<1>6. CASE n # 0
  <2>1. n > 0
    BY <1>4, <1>6
  <2>2. PICK cl : ClausesOf(b, L, cl) /\ Cut(w, cl)
    BY <1>3, <1>4, <2>1, ChunksCut
  <2> DEFINE c == Len(cl)
             M == Len(w)
             x(k) == cl[k][1]
             y(k) == cl[k][2]
             p(k) == w[k][1]
             q(k) == w[k][2]
  <2> HIDE DEF b, t, w, L
  <2>3. /\ cl \in Seq(Nat \X Nat)
        /\ \A k \in 1..c : x(k) < y(k) /\ y(k) <= L
        /\ \A k, m \in 1..c : k < m => y(k) + 2 <= x(m)
        /\ \A i \in 1..n : \E k \in 1..c :
             /\ x(k) <= b[i].start /\ b[i].end <= y(k)
             /\ b[i].kind = "heading" => x(k) = b[i].start
    BY <1>4, <2>2 DEF ClausesOf
  <2>4. /\ w \in Seq(Window)
        /\ \A j \in 1..M : \E k \in 1..c :
             x(k) <= p(j) /\ p(j) < q(j) /\ q(j) <= y(k) /\ q(j) - p(j) <= MaxChunk
        /\ \A j \in 1..(M - 1) : p(j) < p(j + 1) /\ q(j) - p(j + 1) <= Overlap
        /\ \A k \in 1..c : \A i \in x(k)..(y(k) - 1) : \E j \in 1..M : p(j) <= i /\ i < q(j)
    BY <2>2 DEF Cut
  <2>5. c \in Nat /\ \A k \in 1..c : x(k) \in Nat /\ y(k) \in Nat
    <3>1. c \in Nat /\ \A k \in 1..c : cl[k] \in Nat \X Nat
      BY <2>3
    <3> QED BY <3>1
  <2>6. M \in Nat /\ DOMAIN w = 1..M /\ \A j \in 1..M : p(j) \in Nat /\ q(j) \in Nat
    <3>1. M \in Nat /\ DOMAIN w = 1..M /\ \A j \in 1..M : w[j] \in Window
      BY <2>4
    <3> QED BY <3>1 DEF Window
  <2>7. \A i \in 1..n : b[i].start \in Nat /\ b[i].end \in Nat /\ b[i].start < b[i].end /\ b[i].end <= L
    BY <1>3 DEF IsLaid, L
  <2> HIDE DEF c, M, x, y, p, q
  <2>8. ASSUME NEW j \in 1..M
        PROVE  0 <= p(j) /\ p(j) < q(j) /\ q(j) <= L /\ q(j) - p(j) <= MaxChunk
    <3>1. PICK k \in 1..c : x(k) <= p(j) /\ p(j) < q(j) /\ q(j) <= y(k) /\ q(j) - p(j) <= MaxChunk
      BY <2>4
    <3> QED BY <1>4, <2>3, <2>5, <2>6, <3>1
  <2>9. ASSUME NEW i \in 0..(L - 1), At(t, i) \notin Space
        PROVE  \E j \in 1..M : p(j) <= i /\ i < q(j)
    <3>1. PICK a \in 1..n : b[a].start <= i /\ i < b[a].end
      BY <1>3, <1>4, <2>9, BlocksHoldText DEF L
    <3>2. PICK k \in 1..c : x(k) <= b[a].start /\ b[a].end <= y(k)
      BY <2>3
    <3>3. i \in x(k)..(y(k) - 1)
      <4> DEFINE u == b[a].start
                 v == b[a].end
      <4>1. u \in Nat /\ v \in Nat /\ u <= i /\ i < v /\ x(k) <= u /\ v <= y(k)
        BY <2>7, <3>1, <3>2
      <4> HIDE DEF u, v
      <4> QED BY <2>5, <4>1
    <3> QED BY <2>4, <3>3
  <2>10. ASSUME NEW j \in 1..M, NEW i \in 1..n, b[i].kind = "heading"
         PROVE  ~ (p(j) < b[i].start /\ b[i].start < q(j))
    <3>1. PICK k \in 1..c : x(k) <= p(j) /\ q(j) <= y(k)
      BY <2>4
    <3>2. PICK m \in 1..c : x(m) = b[i].start
      BY <2>3, <2>10
    <3>3. x(k) \in Nat /\ y(k) \in Nat /\ x(m) \in Nat /\ y(m) \in Nat /\ x(m) < y(m)
      BY <2>3, <2>5
    <3>4. p(j) \in Nat /\ q(j) \in Nat
      BY <2>6
    <3>5. m = k \/ (m < k /\ y(m) + 2 <= x(k)) \/ (k < m /\ y(k) + 2 <= x(m))
      BY <2>3, <2>5
    <3>6. ~ (p(j) < x(m) /\ x(m) < q(j))
      BY <3>1, <3>3, <3>4, <3>5
    <3> QED BY <3>2, <3>6
  <2>11. \A v \in ToSet(w) : \E j \in 1..M : v[1] = p(j) /\ v[2] = q(j)
    BY <2>6 DEF ToSet, p, q
  <2>12. \A j \in 1..M : \E v \in ToSet(w) : v[1] = p(j) /\ v[2] = q(j)
    BY <2>6 DEF ToSet, p, q
  <2>13. ChunksHoldText(entries)
    <3>1. \A v \in ToSet(w) : 0 <= v[1] /\ v[1] < v[2] /\ v[2] <= L /\ v[2] - v[1] <= MaxChunk
      BY <2>8, <2>11
    <3>2. \A i \in 0..(L - 1) : At(t, i) \notin Space => \E v \in ToSet(w) : v[1] <= i /\ i < v[2]
      <4> SUFFICES ASSUME NEW i \in 0..(L - 1), At(t, i) \notin Space
                   PROVE  \E v \in ToSet(w) : v[1] <= i /\ i < v[2]
        OBVIOUS
      <4>1. PICK j \in 1..M : p(j) <= i /\ i < q(j)
        BY <2>9
      <4> QED BY <2>12, <4>1
    <3> QED BY <3>1, <3>2 DEF ChunksHoldText, doc, w, L, t
  <2>14. ChunksInOrder(entries)
    <3>1. \A k \in 1..(Len(w) - 1) : w[k][1] < w[k + 1][1] /\ w[k][2] - w[k + 1][1] <= Overlap
      BY <2>4 DEF M, p, q
    <3>2. ASSUME NEW v \in ToSet(w), NEW h \in ToSet(b), h.kind = "heading"
          PROVE  ~ (v[1] < h.start /\ h.start < v[2])
      <4>1. PICK i \in 1..n : h = b[i]
        BY <1>4 DEF ToSet
      <4>2. PICK j \in 1..M : v[1] = p(j) /\ v[2] = q(j)
        BY <2>11
      <4> QED BY <2>10, <3>2, <4>1, <4>2
    <3>3. \A v \in ToSet(w), h \in {h \in ToSet(b) : h.kind = "heading"} : ~ (v[1] < h.start /\ h.start < v[2])
      BY <3>2
    <3> QED BY <3>1, <3>3 DEF ChunksInOrder, doc, w, b
  <2> QED BY <2>13, <2>14
<1> QED BY <1>5, <1>6

-----------------------------------------------------------------------------
(* The rotation of a worker (worker.py)                                    *)

\* A pass that starts at a queue with a job runs that job: no other queue is
\* looked at before.
LEMMA FirstIsServed ==
  ASSUME NEW q \in Queue, NEW backlog \in SUBSET Queue, q \in backlog
  PROVE  RunNextJob(q, backlog) = q
<1> DEFINE hits == {offset \in Queue : Wrap(q + offset) \in backlog}
<1>1. 0 \in Queue
  BY QueuesAssumption DEF Queue
<1>2. Wrap(q + 0) = q
  BY QueuesAssumption DEF Queue, Wrap
<1>3. 0 \in hits
  BY <1>1, <1>2
<1>4. \A p \in hits : 0 <= p
  BY DEF Queue
<1>5. (CHOOSE o \in hits : \A p \in hits : o <= p) = 0
  <2> DEFINE least(o) == \A p \in hits : o <= p
  <2>1. 0 \in hits /\ least(0)
    BY <1>3, <1>4
  <2>2. \A o \in hits : least(o) => o = 0
    BY <1>3, <1>4, QueuesAssumption DEF Queue
  <2> HIDE DEF hits, least
  <2>3. (CHOOSE o \in hits : least(o)) = 0
    BY <2>1, <2>2
  <2> QED BY <2>3 DEF least
<1> QED BY <1>2, <1>3, <1>5 DEF RunNextJob

\* worker.py, main: the rotation starts with nobody waiting.
LEMMA RotationStarts == WorkerInit => RotationInv
BY QueuesAssumption DEF WorkerInit, RotationInv, RotationTypeOK, Since, Queue

\* worker.py, main: a pass that does not start at q takes the turn one further
\* from it, and one that does serves it or finds it empty.
LEMMA RotationKept == RotationInv /\ [WorkerNext]_workerVars => RotationInv'
<1> SUFFICES ASSUME RotationInv, [WorkerNext]_workerVars PROVE RotationInv'
  OBVIOUS
<1> USE QueuesAssumption DEF RotationInv, RotationTypeOK
<1>1. CASE UNCHANGED workerVars
  BY <1>1 DEF workerVars, Since
<1>2. CASE WorkerNext
  <2>1. PICK backlog \in SUBSET Queue : Pass(backlog)
    BY <1>2 DEF WorkerNext
  <2> DEFINE ran == RunNextJob(turn, backlog)
  <2>2. turn' = Wrap(turn + 1)
    BY <2>1 DEF Pass, NextTurn
  <2>3. turn' \in Queue
    BY <2>2 DEF Wrap, Queue
  <2>4. waited' = [q \in Queue |-> IF q \in backlog /\ ran # q THEN waited[q] + 1 ELSE 0]
    BY <2>1 DEF Pass
  <2>5. waited' \in [Queue -> Nat]
    BY <2>4
  <2>6. ASSUME NEW q \in Queue PROVE waited'[q] <= Since(q)'
    <3>1. Since(q)' \in Nat
      <4>1. turn' \in 0..(Queues - 1) /\ q \in 0..(Queues - 1)
        BY <2>3 DEF Queue
      <4>2. \A t \in 0..(Queues - 1) :
              (IF t > q THEN t - q - 1 ELSE t - q - 1 + Queues) \in Nat
        BY <4>1
      <4> QED BY <4>1, <4>2 DEF Since
    <3>2. CASE ~ (q \in backlog /\ ran # q)
      <4>1. waited'[q] = 0
        BY <3>2, <2>4
      <4> QED BY <4>1, <3>1
    <3>3. CASE q \in backlog /\ ran # q
      <4>1. waited'[q] = waited[q] + 1
        BY <3>3, <2>4
      <4>2. turn # q
        BY <3>3, FirstIsServed
      <4>3. Since(q)' = Since(q) + 1
        BY <4>2, <2>2, <2>3 DEF Since, Wrap, Queue
      <4>4. waited[q] \in Nat /\ waited[q] <= Since(q) /\ Since(q) \in Int
        BY DEF Since, Queue
      <4> QED BY <4>1, <4>3, <4>4
    <3> QED BY <3>2, <3>3
  <2> QED BY <2>3, <2>5, <2>6
<1> QED BY <1>1, <1>2

\* worker.py: in every reachable state each queue was passed over less often
\* than there are queues.
THEOREM RotationFair == WorkerSpec => []NoQueueStarves
<1>1. RotationInv => NoQueueStarves
  BY QueuesAssumption DEF RotationInv, RotationTypeOK, NoQueueStarves, Since, Queue
<1> QED BY <1>1, RotationStarts, RotationKept, PTL DEF WorkerSpec

-----------------------------------------------------------------------------
(* Spend (usage.py)                                                        *)

IsRows(A) == \A r \in A : r.cost \in Nat

\* The sums of a selection of rows are those over the positions selected.
LEMMA TotalsOfSelected ==
  ASSUME NEW A, IsRows(A), NEW rows \in Seq(A), NEW S \in SUBSET DOMAIN rows,
         NEW it, Sums(it, DOMAIN rows, [i \in DOMAIN rows |-> rows[i].cost])
  PROVE  Totals(Selected(rows, S)) = [calls |-> Cardinality(S), cost |-> it[S]]
<1> DEFINE D == DOMAIN rows
           f == [i \in D |-> rows[i].cost]
           s == Selected(rows, S)
           n == Cardinality(S)
           R == 1..n
           g == [k \in R |-> s[k].cost]
           b == [k \in R |-> Ascending(S)[k]]
<1>1. /\ s \in Seq(A) /\ Len(s) = n /\ n \in Nat /\ IsFiniteSet(S)
      /\ \A k \in R : Ascending(S)[k] \in S /\ s[k] = rows[Ascending(S)[k]]
  BY SelectedItems
<1>2. IsFiniteSet(R) /\ DOMAIN s = R
  BY <1>1, FS_Interval
<1>3. \A i \in D : rows[i].cost \in Int
  BY DEF IsRows
<1>4. /\ \A i, j \in R : Ascending(S)[i] < Ascending(S)[j] <=> i < j
      /\ \A x \in S : \E k \in R : Ascending(S)[k] = x
  <2>1. S \in SUBSET Int
    OBVIOUS
  <2> QED BY <1>1, <2>1, AscendingLists
<1> HIDE DEF s, n, D
<1>5. g \in [R -> Int]
  BY <1>1, <1>3 DEF D
<1>6. PICK jt : Sums(jt, R, g) /\ SumFunction(g) = jt[R]
  <2> HIDE DEF g, R
  <2> QED BY <1>2, <1>5, SumsExist
<1>7. SameTerms(R, g, D, f, b)
  <2>1. b \in [R -> D]
    BY <1>1 DEF D
  <2>2. ASSUME NEW i \in R, NEW j \in R, b[i] = b[j] PROVE i = j
    <3>1. b[i] = Ascending(S)[i] /\ b[j] = Ascending(S)[j] /\ i \in Int /\ j \in Int
      BY <1>1
    <3>2. Ascending(S)[i] \in Int /\ Ascending(S)[j] \in Int
      BY <1>1
    <3>3. ~ (i < j) /\ ~ (j < i)
      BY <1>4, <2>2, <3>1, <3>2
    <3> QED BY <3>1, <3>3
  <2>3. ASSUME NEW k \in R PROVE f[b[k]] = g[k]
    BY <1>1, <2>1 DEF D
  <2> QED BY <2>1, <2>2, <2>3 DEF SameTerms
<1>8. {b[k] : k \in R} = S
  BY <1>1, <1>4
<1>9. jt[R] = it[{b[k] : k \in R}]
  <2>1. Sums(it, D, f)
    BY DEF D
  <2>2. R \in SUBSET R
    OBVIOUS
  <2> HIDE DEF f, g, b, R
  <2> QED BY <1>6, <1>7, <2>1, <2>2, SumsAgree
<1>10. SumFunction([i \in DOMAIN s |-> s[i].cost]) = it[S]
  BY <1>2, <1>6, <1>8, <1>9
<1> QED BY <1>1, <1>10 DEF Totals, s, n

\* The total of two lists of rows, one behind the other.
LEMMA TotalsOfBoth ==
  ASSUME NEW A, IsRows(A), NEW rows \in Seq(A), NEW more \in Seq(A)
  PROVE  /\ Totals(rows).cost \in Nat /\ Totals(more).cost \in Nat
         /\ Totals(rows \o more).cost = Totals(rows).cost + Totals(more).cost
         /\ Totals(rows \o more).calls = Len(rows) + Len(more)
<1> DEFINE n == Len(rows)
           m == Len(more)
           all == rows \o more
           D == DOMAIN all
           f == [i \in D |-> all[i].cost]
           P == 1..n
           p == [i \in P |-> rows[i].cost]
           Q == 1..m
           q == [i \in Q |-> more[i].cost]
           shift == [i \in Q |-> n + i]
           same == [i \in P |-> i]
<1>1. /\ all \in Seq(A) /\ Len(all) = n + m /\ n \in Nat /\ m \in Nat
      /\ \A i \in P : i \in 1..Len(all) /\ all[i] = rows[i]
      /\ \A i \in Q : n + i \in 1..Len(all) /\ all[n + i] = more[i]
  BY ConcatParts
<1>2. D = 1..(n + m) /\ DOMAIN rows = P /\ DOMAIN more = Q
  BY <1>1
<1>3. /\ \A i \in P : rows[i].cost \in Nat
      /\ \A i \in Q : more[i].cost \in Nat
      /\ \A i \in D : all[i].cost \in Nat
  BY <1>1, <1>2 DEF IsRows
<1> HIDE DEF n, m, all, D
<1>4. IsFiniteSet(P) /\ IsFiniteSet(Q) /\ IsFiniteSet(D)
  BY <1>1, <1>2, FS_Interval
<1>5. p \in [P -> Nat] /\ q \in [Q -> Nat] /\ f \in [D -> Nat]
  BY <1>3
<1>6. PICK it : Sums(it, D, f) /\ SumFunction(f) = it[D]
  <2>1. f \in [D -> Int]
    BY <1>5
  <2> HIDE DEF f
  <2> QED BY <1>4, <2>1, SumsExist
<1>7. PICK ps : Sums(ps, P, p) /\ SumFunction(p) = ps[P]
  <2>1. p \in [P -> Int]
    BY <1>5
  <2> HIDE DEF p, P
  <2> QED BY <1>4, <2>1, SumsExist
<1>8. PICK qs : Sums(qs, Q, q) /\ SumFunction(q) = qs[Q]
  <2>1. q \in [Q -> Int]
    BY <1>5
  <2> HIDE DEF q, Q
  <2> QED BY <1>4, <2>1, SumsExist
<1>9. ps[P] = it[P]
  <2>1. SameTerms(P, p, D, f, same)
    BY <1>1, <1>2 DEF SameTerms
  <2>2. {same[x] : x \in P} = P
    OBVIOUS
  <2>3. P \in SUBSET P
    OBVIOUS
  <2> HIDE DEF P, p, f, same
  <2>4. ps[P] = it[{same[x] : x \in P}]
    BY <1>6, <1>7, <2>1, <2>3, SumsAgree
  <2> QED BY <2>2, <2>4
<1>10. qs[Q] = it[(n + 1)..(n + m)]
  <2>1. SameTerms(Q, q, D, f, shift)
    BY <1>1, <1>2 DEF SameTerms
  <2>2. {shift[x] : x \in Q} = (n + 1)..(n + m)
    <3>1. ASSUME NEW i \in (n + 1)..(n + m) PROVE \E x \in Q : shift[x] = i
      <4>1. i - n \in Q /\ shift[i - n] = i
        BY <1>1
      <4> QED BY <4>1
    <3>2. ASSUME NEW x \in Q PROVE shift[x] \in (n + 1)..(n + m)
      BY <1>1
    <3> HIDE DEF shift, Q
    <3> QED BY <3>1, <3>2
  <2>3. Q \in SUBSET Q
    OBVIOUS
  <2> HIDE DEF Q, q, f, shift
  <2>4. qs[Q] = it[{shift[x] : x \in Q}]
    BY <1>6, <1>8, <2>1, <2>3, SumsAgree
  <2> QED BY <2>2, <2>4
<1>11. it[D] = it[P] + it[(n + 1)..(n + m)]
  <2> DEFINE U == (n + 1)..(n + m)
  <2>1. D \in SUBSET D /\ Parts(D, P, U)
    BY <1>1, <1>2 DEF Parts
  <2> HIDE DEF P, U, f, p, q, Q
  <2>2. it[D] = it[P] + it[U]
    BY <1>6, <2>1, SumsDisjoint
  <2> QED BY <2>1, <2>2 DEF U
<1>12. ps[P] \in Nat /\ qs[Q] \in Nat
  <2>1. P \in SUBSET P /\ Q \in SUBSET Q
    OBVIOUS
  <2> HIDE DEF P, Q, p, q
  <2>2. ps[P] \in Nat
    BY <1>5, <1>7, <2>1, SumsOfNaturals
  <2>3. qs[Q] \in Nat
    BY <1>5, <1>8, <2>1, SumsOfNaturals
  <2> QED BY <2>2, <2>3
<1>13. Totals(rows).cost = ps[P] /\ Totals(more).cost = qs[Q] /\ Totals(all).cost = it[D]
       /\ Totals(all).calls = Len(all)
  BY <1>2, <1>6, <1>7, <1>8 DEF Totals, D
<1> QED BY <1>1, <1>9, <1>10, <1>11, <1>12, <1>13 DEF all, n, m

\* The groups of some rows, K naming the group of each.
GroupedBy(rows, K) ==
  {[group |-> k, sums |-> Totals(Selected(rows, {i \in DOMAIN rows : K[i] = k}))] :
     k \in {K[i] : i \in DOMAIN rows}}

LEMMA GroupsAddUp ==
  ASSUME NEW A, IsRows(A), NEW rows \in Seq(A), NEW K
  PROVE  /\ SumFunction([g \in GroupedBy(rows, K) |-> g.sums.calls]) = Len(rows)
         /\ SumFunction([g \in GroupedBy(rows, K) |-> g.sums.cost]) = Totals(rows).cost
<1> DEFINE D == DOMAIN rows
           f == [i \in D |-> rows[i].cost]
           ones == [i \in D |-> 1]
           count == [T \in SUBSET D |-> Cardinality(T)]
           Class(k) == {i \in D : K[i] = k}
           Of(k) == [group |-> k, sums |-> Totals(Selected(rows, Class(k)))]
           G == GroupedBy(rows, K)
           c == [i \in D |-> Of(K[i])]
           h == [g \in G |-> g.sums.cost]
           hc == [g \in G |-> g.sums.calls]
<1>1. D = 1..Len(rows) /\ Len(rows) \in Nat /\ IsFiniteSet(D) /\ Cardinality(D) = Len(rows)
      /\ \A i \in D : rows[i].cost \in Nat
  <2>1. D = 1..Len(rows) /\ Len(rows) \in Nat /\ \A i \in D : rows[i] \in A
    OBVIOUS
  <2> QED BY <2>1, FS_Interval DEF IsRows
<1>2. PICK it : Sums(it, D, f) /\ SumFunction(f) = it[D]
  <2>1. f \in [D -> Int]
    BY <1>1
  <2> HIDE DEF f, D
  <2> QED BY <1>1, <2>1, SumsExist
<1>3. Sums(count, D, ones)
  BY <1>1, SumsOfOnes
<1>4. \A T \in SUBSET D : Totals(Selected(rows, T)) = [calls |-> Cardinality(T), cost |-> it[T]]
  BY <1>2, TotalsOfSelected
<1>5. ASSUME NEW k
      PROVE  Class(k) \in SUBSET D /\ Of(k).sums = [calls |-> Cardinality(Class(k)), cost |-> it[Class(k)]]
             /\ Of(k).group = k
  BY <1>4
<1>6. G = {Of(k) : k \in {K[i] : i \in D}}
  BY DEF GroupedBy
<1>7. c \in [D -> G] /\ \A i \in D : c[i].group = K[i]
  <2>1. \A i \in D : c[i] = Of(K[i]) /\ c[i] \in G
    BY <1>6
  <2>2. \A i \in D : Of(K[i]).group = K[i]
    BY <1>5
  <2>3. c = [i \in D |-> c[i]]
    OBVIOUS
  <2> HIDE DEF c, G, Of
  <2> QED BY <2>1, <2>2, <2>3
<1>8. G = {c[i] : i \in D}
  BY <1>6
<1>9. IsFiniteSet(G)
  <2> HIDE DEF c, G, D
  <2>1. c \in [D -> G]
    BY <1>7
  <2>2. c \in Surjection(D, G)
    BY <1>8, <2>1 DEF Surjection
  <2> QED BY <1>1, <2>2, FS_Surjection
<1>10. ASSUME NEW g \in G
       PROVE  /\ {i \in D : c[i] = g} \in SUBSET D
              /\ g.sums.calls = Cardinality({i \in D : c[i] = g}) /\ g.sums.cost = it[{i \in D : c[i] = g}]
  <2>1. PICK k \in {K[i] : i \in D} : g = Of(k)
    BY <1>6
  <2>2. {i \in D : c[i] = g} = Class(k)
    <3>1. ASSUME NEW i \in D, c[i] = g PROVE K[i] = k
      BY <1>5, <1>7, <2>1, <3>1
    <3>2. ASSUME NEW i \in D, K[i] = k PROVE c[i] = g
      BY <2>1, <3>2
    <3> HIDE DEF c
    <3> QED BY <3>1, <3>2
  <2>3. g.sums = [calls |-> Cardinality(Class(k)), cost |-> it[Class(k)]]
    BY <1>5, <2>1
  <2>4. Class(k) \in SUBSET D
    BY <1>5
  <2>5. g.sums.calls = Cardinality(Class(k)) /\ g.sums.cost = it[Class(k)]
    BY <2>3
  <2> HIDE DEF Class, c, G, D
  <2> QED BY <2>2, <2>4, <2>5
<1>11. \A T \in SUBSET D : it[T] \in Int /\ Cardinality(T) \in Int
  BY <1>1, <1>2, SumTakes, SubsetSizes
<1>12. h \in [G -> Int] /\ hc \in [G -> Int]
  BY <1>10, <1>11
<1>13. PICK jt : Sums(jt, G, h) /\ SumFunction(h) = jt[G]
  <2> HIDE DEF h, G
  <2> QED BY <1>9, <1>12, SumsExist
<1>14. PICK jc : Sums(jc, G, hc) /\ SumFunction(hc) = jc[G]
  <2> HIDE DEF hc, G
  <2> QED BY <1>9, <1>12, SumsExist
<1>15. Classes(D, it, G, c, h)
  <2>1. \A g \in G : h[g] = it[{x \in D : c[x] = g}]
    <3> HIDE DEF c, G
    <3> QED BY <1>10
  <2> HIDE DEF c, G, h
  <2> QED BY <1>7, <2>1 DEF Classes
<1>16. Classes(D, count, G, c, hc)
  <2>1. \A g \in G : hc[g] = count[{x \in D : c[x] = g}]
    <3> HIDE DEF c, G
    <3> QED BY <1>10
  <2> HIDE DEF c, G, hc, count
  <2> QED BY <1>7, <2>1 DEF Classes
<1>17. jt[G] = it[D] /\ jc[G] = count[D]
  <2> HIDE DEF D, G, c, h, hc, f, ones, count
  <2>1. jt[G] = it[D]
    BY <1>2, <1>13, <1>15, SumsOfClasses
  <2>2. jc[G] = count[D]
    BY <1>3, <1>14, <1>16, SumsOfClasses
  <2> QED BY <2>1, <2>2
<1>18. count[D] = Len(rows)
  BY <1>1
<1>19. Totals(rows).cost = it[D]
  BY <1>2 DEF Totals
<1> QED BY <1>13, <1>14, <1>17, <1>18, <1>19

LEMMA SpendGroups ==
  ASSUME NEW rows
  PROVE  /\ SpendByJobType(rows) = GroupedBy(rows, [i \in DOMAIN rows |-> <<rows[i].kind>>])
         /\ SpendByJob(rows) = GroupedBy(rows, [i \in DOMAIN rows |-> <<rows[i].kind, rows[i].job>>])
<1> DEFINE D == DOMAIN rows
           F == [i \in D |-> <<rows[i].kind>>]
           J == [i \in D |-> <<rows[i].kind, rows[i].job>>]
           Rec(T, k) == [group |-> k, sums |-> Totals(Selected(rows, T))]
           OfType(k) == {i \in D : <<rows[i].kind>> = k}
           OfJob(k) == {i \in D : <<rows[i].kind, rows[i].job>> = k}
           Types == {<<rows[i].kind>> : i \in D}
           Jobs == {<<rows[i].kind, rows[i].job>> : i \in D}
<1>1. /\ SpendByJobType(rows) = {Rec(OfType(k), k) : k \in Types}
      /\ SpendByJob(rows) = {Rec(OfJob(k), k) : k \in Jobs}
  BY DEF SpendByJobType, SpendByJob, Groups
<1>2. \A K : GroupedBy(rows, K) = {Rec({i \in D : K[i] = k}, k) : k \in {K[i] : i \in D}}
  BY DEF GroupedBy
<1>3. {F[i] : i \in D} = Types /\ {J[i] : i \in D} = Jobs
  OBVIOUS
<1>4. ASSUME NEW k PROVE {i \in D : F[i] = k} = OfType(k) /\ {i \in D : J[i] = k} = OfJob(k)
  <2>1. {i \in D : F[i] = k} = OfType(k)
    OBVIOUS
  <2>2. {i \in D : J[i] = k} = OfJob(k)
    OBVIOUS
  <2> QED BY <2>1, <2>2
<1>5. GroupedBy(rows, F) = {Rec(OfType(k), k) : k \in Types}
  <2> HIDE DEF Rec, OfType, Types, F, D
  <2>1. GroupedBy(rows, F) = {Rec({i \in D : F[i] = k}, k) : k \in {F[i] : i \in D}}
    BY <1>2
  <2> QED BY <1>3, <1>4, <2>1
<1>6. GroupedBy(rows, J) = {Rec(OfJob(k), k) : k \in Jobs}
  <2> HIDE DEF Rec, OfJob, Jobs, J, D
  <2>1. GroupedBy(rows, J) = {Rec({i \in D : J[i] = k}, k) : k \in {J[i] : i \in D}}
    BY <1>2
  <2> QED BY <1>3, <1>4, <2>1
<1> HIDE DEF Rec, OfType, OfJob, Types, Jobs, F, J
<1>7. SpendByJobType(rows) = GroupedBy(rows, F) /\ SpendByJob(rows) = GroupedBy(rows, J)
  BY <1>1, <1>5, <1>6
<1> QED BY <1>7 DEF F, J, D

\* usage.py: whatever the rows are, and whatever is committed between the two
\* reads, the groups account for the whole spend that was there.
THEOREM SpendsAddUp ==
  ASSUME NEW A, IsRows(A), NEW rows \in Seq(A), NEW meanwhile \in Seq(A)
  PROVE  SpendReportAddsUp(rows, meanwhile)
<1> DEFINE G(by) == Spend(rows, meanwhile, by).rows
<1>1. \A by : Spend(rows, meanwhile, by).total = Totals(rows \o meanwhile)
  BY DEF Spend, SpendTotal
<1>2. ASSUME NEW by \in {"job", "job_type"}
      PROVE  /\ SumFunction([g \in G(by) |-> g.sums.calls]) = Len(rows)
             /\ SumFunction([g \in G(by) |-> g.sums.cost]) = Totals(rows).cost
  <2>1. \E K : G(by) = GroupedBy(rows, K)
    BY SpendGroups DEF Spend
  <2> HIDE DEF G
  <2> QED BY <2>1, GroupsAddUp
<1>3. /\ Totals(rows).cost \in Nat /\ Totals(meanwhile).cost \in Nat
      /\ Totals(rows \o meanwhile).cost = Totals(rows).cost + Totals(meanwhile).cost
      /\ Totals(rows \o meanwhile).calls = Len(rows) + Len(meanwhile)
  BY TotalsOfBoth
<1>4. meanwhile = <<>> => rows \o meanwhile = rows
  OBVIOUS
<1> SUFFICES ASSUME NEW by \in {"job", "job_type"}
             PROVE  LET report == Spend(rows, meanwhile, by)
                        sumCalls == SumFunction([g \in report.rows |-> g.sums.calls])
                        sumCost  == SumFunction([g \in report.rows |-> g.sums.cost])
                    IN /\ report.total.calls = sumCalls + Len(meanwhile)
                       /\ report.total.cost >= sumCost
                       /\ meanwhile = <<>> => report.total.cost = sumCost
  BY DEF SpendReportAddsUp
<1>5. Spend(rows, meanwhile, by).total.calls = Len(rows) + Len(meanwhile)
      /\ Spend(rows, meanwhile, by).total.cost = Totals(rows).cost + Totals(meanwhile).cost
  BY <1>1, <1>3
<1>6. meanwhile = <<>> => Spend(rows, meanwhile, by).total.cost = Totals(rows).cost
  BY <1>1, <1>4
<1>7. SumFunction([g \in G(by) |-> g.sums.calls]) = Len(rows)
      /\ SumFunction([g \in G(by) |-> g.sums.cost]) = Totals(rows).cost
  BY <1>2
<1> DEFINE report == Spend(rows, meanwhile, by)
           sumCalls == SumFunction([g \in report.rows |-> g.sums.calls])
           sumCost  == SumFunction([g \in report.rows |-> g.sums.cost])
           total == report.total
<1>8. sumCalls = Len(rows) /\ sumCost = Totals(rows).cost
  BY <1>7
<1> HIDE DEF sumCalls, sumCost, report
<1>9. /\ total.calls = Len(rows) + Len(meanwhile)
      /\ total.cost = Totals(rows).cost + Totals(meanwhile).cost
      /\ meanwhile = <<>> => total.cost = Totals(rows).cost
  BY <1>5, <1>6 DEF report
<1> HIDE DEF total
<1>10. total.calls = sumCalls + Len(meanwhile) /\ total.cost >= sumCost
       /\ (meanwhile = <<>> => total.cost = sumCost)
  <2> DEFINE x == Totals(rows).cost
             y == Totals(meanwhile).cost
             z == total.cost
  <2>1. x \in Nat /\ y \in Nat /\ z = x + y
    BY <1>3, <1>9
  <2> HIDE DEF x, y, z
  <2>2. z >= x
    BY <2>1
  <2>3. total.cost >= Totals(rows).cost
    BY <2>2 DEF x, z
  <2> QED BY <1>8, <1>9, <2>3
<1> QED BY <1>10 DEF sumCalls, sumCost, report, total

-----------------------------------------------------------------------------
(* Streams (client.py)                                                     *)

StreamChunks == {"delta", "usage", "failed"}
StreamState  == [outcome : {"open", "left", "LlmCallError"}, deltas : Nat,
                 tokens : {Tokens(0, 0), Tokens(1, 1)}]
Opened == [outcome |-> "open", deltas |-> 0, tokens |-> Tokens(0, 0)]

\* stream_complete: what it makes of a chunk, and of all of them.
StreamTurn(s, c, enough) ==
  CASE s.outcome # "open" -> s
    [] s.outcome = "open" /\ c = "failed" -> [s EXCEPT !.outcome = "LlmCallError"]
    [] s.outcome = "open" /\ c = "delta"  ->
         [s EXCEPT !.deltas = @ + 1, !.outcome = IF s.deltas + 1 = enough THEN "left" ELSE @]
    [] s.outcome = "open" /\ c = "usage"  -> [s EXCEPT !.tokens = Tokens(1, 1)]
StreamAll(chunks, enough) ==
  FoldLeft(LAMBDA s, c : StreamTurn(s, c, enough), Opened, chunks)
StreamRun(chunks, enough, f) ==
  /\ f \in [0..Len(chunks) -> StreamState] /\ f[0] = Opened
  /\ \A k \in 1..Len(chunks) : f[k] = StreamTurn(f[k - 1], chunks[k], enough)
  /\ f[Len(chunks)] = StreamAll(chunks, enough)

\* A turn, by what it meets.
LEMMA StreamTurns ==
  ASSUME NEW s \in StreamState, NEW c \in StreamChunks, NEW enough \in Nat
  PROVE  /\ StreamTurn(s, c, enough) \in StreamState
         /\ s.outcome # "open" => StreamTurn(s, c, enough) = s
         /\ s.outcome = "open" /\ c = "failed" =>
              StreamTurn(s, c, enough) = [s EXCEPT !.outcome = "LlmCallError"]
         /\ s.outcome = "open" /\ c = "delta" =>
              StreamTurn(s, c, enough) =
                [s EXCEPT !.deltas = s.deltas + 1, !.outcome = IF s.deltas + 1 = enough THEN "left" ELSE "open"]
         /\ s.outcome = "open" /\ c = "usage" =>
              StreamTurn(s, c, enough) = [s EXCEPT !.tokens = Tokens(1, 1)]
<1>1. CASE s.outcome # "open"
  BY <1>1 DEF StreamTurn
<1>2. CASE s.outcome = "open" /\ c = "failed"
  <2>1. StreamTurn(s, c, enough) = [s EXCEPT !.outcome = "LlmCallError"]
    BY <1>2 DEF StreamTurn
  <2>2. [s EXCEPT !.outcome = "LlmCallError"] \in StreamState
    BY DEF StreamState
  <2> QED BY <1>2, <2>1, <2>2
<1>3. CASE s.outcome = "open" /\ c = "delta"
  <2> DEFINE t == [s EXCEPT !.deltas = s.deltas + 1, !.outcome = IF s.deltas + 1 = enough THEN "left" ELSE "open"]
  <2>1. StreamTurn(s, c, enough) = t
    BY <1>3 DEF StreamTurn
  <2>2. t \in StreamState
    <3> DEFINE O == {"open", "left", "LlmCallError"}
               K == {Tokens(0, 0), Tokens(1, 1)}
               o == IF s.deltas + 1 = enough THEN "left" ELSE "open"
               d == s.deltas + 1
    <3>1. o \in O /\ d \in Nat
      BY DEF StreamState
    <3>2. s \in [outcome : O, deltas : Nat, tokens : K]
      BY DEF StreamState
    <3> HIDE DEF O, K, o, d
    <3>3. [s EXCEPT !.deltas = d, !.outcome = o] \in [outcome : O, deltas : Nat, tokens : K]
      BY <3>1, <3>2
    <3> QED BY <3>3 DEF O, K, o, d, StreamState
  <2> QED BY <1>3, <2>1, <2>2
<1>4. CASE s.outcome = "open" /\ c = "usage"
  <2> DEFINE t == [s EXCEPT !.tokens = Tokens(1, 1)]
  <2>1. StreamTurn(s, c, enough) = t
    BY <1>4 DEF StreamTurn
  <2>2. t \in StreamState
    BY DEF StreamState
  <2> QED BY <1>4, <2>1, <2>2
<1> QED BY <1>1, <1>2, <1>3, <1>4 DEF StreamChunks

LEMMA StreamRuns ==
  ASSUME NEW chunks \in Seq(StreamChunks), NEW enough \in Nat
  PROVE  \E f : StreamRun(chunks, enough, f)
<1> DEFINE n == Len(chunks)
           A == StreamState
           Turn(it) == [T \in SUBSET DOMAIN chunks |->
                          IF T = {} THEN Opened
                          ELSE StreamTurn(it[T \ {Max(T)}], chunks[Max(T)], enough)]
           iter == CHOOSE it : it = Turn(it)
           Step == [p \in (1..n) \X A |-> StreamTurn(p[2], chunks[p[1]], enough)]
           all == StreamAll(chunks, enough)
<1>1. n \in Nat /\ DOMAIN chunks = 1..n /\ \A i \in 1..n : chunks[i] \in StreamChunks
  OBVIOUS
<1>2. all = iter[DOMAIN chunks]
  BY DEF StreamAll, FoldLeft, MapThenFoldSet
<1> HIDE DEF n, iter, all
<1>3. Opened \in A
  BY DEF Opened, StreamState
<1>4. Step \in [(1..n) \X A -> A]
  <2>1. ASSUME NEW i \in 1..n, NEW s \in A PROVE StreamTurn(s, chunks[i], enough) \in A
    BY <1>1, StreamTurns
  <2> HIDE DEF A
  <2> QED BY <2>1
<1> HIDE DEF A
<1>5. PICK it : Iterates(it, n, A, Opened, Step)
  <2>1. IsFold(n, A, Opened, Step)
    BY <1>1, <1>3, <1>4 DEF IsFold
  <2> QED BY <2>1, FoldIteration
<1>6. /\ it \in [SUBSET (1..n) -> A]
      /\ \A T \in SUBSET (1..n) :
           it[T] = IF T = {} THEN Opened ELSE Step[<<Max(T), it[T \ {Max(T)}]>>]
  BY <1>5 DEF Iterates
<1>7. ASSUME NEW T \in SUBSET (1..n), T # {}
      PROVE  Step[<<Max(T), it[T \ {Max(T)}]>>] = StreamTurn(it[T \ {Max(T)}], chunks[Max(T)], enough)
  <2>1. Max(T) \in 1..n
    BY <1>1, <1>7, PrefixSets
  <2>2. it[T \ {Max(T)}] \in A
    BY <1>6
  <2> QED BY <2>1, <2>2
<1>8. it = Turn(it)
  <2>1. \A T \in SUBSET (1..n) : it[T] = Turn(it)[T]
    <3> HIDE DEF Step
    <3> QED BY <1>1, <1>6, <1>7
  <2>2. it = [T \in SUBSET (1..n) |-> it[T]]
    BY <1>6
  <2>3. Turn(it) = [T \in SUBSET (1..n) |-> Turn(it)[T]]
    BY <1>1
  <2> HIDE DEF Turn
  <2> QED BY <2>1, <2>2, <2>3
<1>9. iter = Turn(iter)
  <2> HIDE DEF Turn
  <2> QED BY <1>8 DEF iter
<1> DEFINE f == [k \in 0..n |-> iter[1..k]]
<1>10. f[0] = Opened
  <2>1. iter[{}] = Opened
    BY <1>9
  <2> QED BY <1>1, <2>1, PrefixSets
<1>11. ASSUME NEW k \in 1..n PROVE f[k] = StreamTurn(f[k - 1], chunks[k], enough)
  <2>1. Max(1..k) = k /\ (1..k) \ {k} = 1..(k - 1) /\ 1..k # {} /\ 1..k \in SUBSET (1..n)
    BY <1>1, PrefixSets
  <2>2. iter[1..k] = StreamTurn(iter[1..(k - 1)], chunks[k], enough)
    BY <1>1, <1>9, <2>1
  <2>3. f[k] = iter[1..k] /\ f[k - 1] = iter[1..(k - 1)]
    BY <1>1
  <2> QED BY <2>2, <2>3
<1>12. f[n] = all
  BY <1>1, <1>2
<1>13. f \in [0..n -> A]
  <2> DEFINE K == {k \in Nat : k \in 0..n => f[k] \in A}
  <2>1. 0 \in K
    BY <1>3, <1>10
  <2>2. ASSUME NEW k \in 0..(n - 1), k \in K PROVE k + 1 \in K
    <3>1. k + 1 \in 1..n /\ (k + 1) - 1 = k /\ k \in 0..n /\ k + 1 \in Nat
      BY <1>1
    <3>2. f[k + 1] = StreamTurn(f[k], chunks[k + 1], enough) /\ f[k] \in A
      BY <1>11, <2>2, <3>1
    <3> HIDE DEF f
    <3>3. f[k + 1] \in A
      <4>1. f[k] \in StreamState /\ chunks[k + 1] \in StreamChunks
        BY <1>1, <3>1, <3>2 DEF A
      <4>2. StreamTurn(f[k], chunks[k + 1], enough) \in StreamState
        BY <4>1, StreamTurns
      <4> QED BY <3>2, <4>2 DEF A
    <3> QED BY <3>1, <3>3
  <2> HIDE DEF K
  <2>3. 0..n \subseteq K
    BY <1>1, <2>1, <2>2, Induction
  <2>4. \A k \in 0..n : f[k] \in A
    BY <2>3 DEF K
  <2>5. f = [k \in 0..n |-> f[k]]
    OBVIOUS
  <2> HIDE DEF f
  <2> QED BY <2>4, <2>5
<1> HIDE DEF f
<1>14. StreamRun(chunks, enough, f)
  BY <1>10, <1>11, <1>12, <1>13 DEF StreamRun, all, n, A
<1> QED BY <1>14

\* How many of the first k chunks are deltas.
DeltasOf(chunks, k) == {i \in 1..k : chunks[i] = "delta"}
LEMMA DeltasCounted ==
  ASSUME NEW chunks, NEW k \in Nat
  PROVE  /\ IsFiniteSet(DeltasOf(chunks, k)) /\ Cardinality(DeltasOf(chunks, k)) \in Nat
         /\ Cardinality(DeltasOf(chunks, 0)) = 0
         /\ Cardinality(DeltasOf(chunks, k + 1)) =
              IF chunks[k + 1] = "delta" THEN Cardinality(DeltasOf(chunks, k)) + 1
              ELSE Cardinality(DeltasOf(chunks, k))
<1> DEFINE D == DeltasOf(chunks, k)
           E == DeltasOf(chunks, k + 1)
<1>1. IsFiniteSet(D) /\ Cardinality(D) \in Nat
  <2>1. IsFiniteSet(1..k) /\ D \in SUBSET (1..k)
    BY FS_Interval DEF DeltasOf
  <2> QED BY <2>1, FS_Subset, FS_CardinalityType
<1>2. DeltasOf(chunks, 0) = {}
  BY DEF DeltasOf
<1>3. CASE chunks[k + 1] = "delta"
  <2>1. E = D \cup {k + 1} /\ k + 1 \notin D
    BY <1>3 DEF DeltasOf
  <2>2. Cardinality(D \cup {k + 1}) = Cardinality(D) + 1
    <3> HIDE DEF D
    <3> QED BY <1>1, <2>1, FS_AddElement
  <2> QED BY <1>1, <1>2, <1>3, <2>1, <2>2, FS_EmptySet
<1>4. CASE chunks[k + 1] # "delta"
  <2>1. E = D
    BY <1>4 DEF DeltasOf
  <2> QED BY <1>1, <1>2, <1>4, <2>1, FS_EmptySet
<1> QED BY <1>3, <1>4

\* Where a stream is behind its first k chunks: open, with all of them taken, or
\* ended at one that broke it or with which the consumer has enough.
IsOpen(chunks, enough, k, s) ==
  /\ s.outcome = "open" /\ \A i \in 1..k : chunks[i] # "failed"
  /\ s.deltas = Cardinality(DeltasOf(chunks, k)) /\ s.deltas < enough
  /\ s.tokens = IF \E i \in 1..k : chunks[i] = "usage" THEN Tokens(1, 1) ELSE Tokens(0, 0)
EndsAt(chunks, enough, j, s) ==
  /\ \A i \in 1..(j - 1) : chunks[i] # "failed"
  /\ \/ /\ chunks[j] = "failed" /\ s.deltas = Cardinality(DeltasOf(chunks, j - 1))
        /\ s.deltas < enough
     \/ /\ chunks[j] = "delta" /\ s.deltas = Cardinality(DeltasOf(chunks, j))
        /\ s.deltas = enough
IsClosed(chunks, enough, k, s) ==
  s.outcome # "open" /\ \E j \in 1..k : EndsAt(chunks, enough, j, s)

LEMMA StreamStep ==
  ASSUME NEW chunks \in Seq(StreamChunks), NEW enough \in Nat,
         NEW k \in 0..(Len(chunks) - 1), NEW s \in StreamState,
         IsOpen(chunks, enough, k, s) \/ IsClosed(chunks, enough, k, s)
  PROVE  LET t == StreamTurn(s, chunks[k + 1], enough)
         IN IsOpen(chunks, enough, k + 1, t) \/ IsClosed(chunks, enough, k + 1, t)
<1> DEFINE c == chunks[k + 1]
           t == StreamTurn(s, c, enough)
<1>1. k \in Nat /\ k + 1 \in 1..Len(chunks) /\ c \in StreamChunks /\ (k + 1) - 1 = k
      /\ 1..(k + 1) = (1..k) \cup {k + 1}
  OBVIOUS
<1>2. Cardinality(DeltasOf(chunks, k + 1)) =
        (IF c = "delta" THEN Cardinality(DeltasOf(chunks, k)) + 1 ELSE Cardinality(DeltasOf(chunks, k)))
      /\ Cardinality(DeltasOf(chunks, k)) \in Nat
  BY <1>1, DeltasCounted
<1> HIDE DEF t
<1>3. CASE IsClosed(chunks, enough, k, s)
  <2>1. t = s
    BY <1>1, <1>3, StreamTurns DEF IsClosed, t
  <2>2. IsClosed(chunks, enough, k + 1, s)
    BY <1>1, <1>3 DEF IsClosed
  <2> QED BY <2>1, <2>2 DEF t
<1>4. CASE IsOpen(chunks, enough, k, s)
  <2> USE <1>4
  <2>o. /\ s.outcome = "open" /\ \A i \in 1..k : chunks[i] # "failed"
        /\ s.deltas = Cardinality(DeltasOf(chunks, k)) /\ s.deltas < enough
        /\ s.tokens = IF \E i \in 1..k : chunks[i] = "usage" THEN Tokens(1, 1) ELSE Tokens(0, 0)
    BY DEF IsOpen
  <2>d. s.deltas \in Nat /\ DOMAIN s = {"outcome", "deltas", "tokens"}
    BY DEF StreamState
  <2>a. s.outcome = "open"
    BY <2>o
  <2>1. CASE c = "failed"
    <3>1. t = [s EXCEPT !.outcome = "LlmCallError"]
      <4> HIDE <1>4
      <4> HIDE DEF c
      <4> QED BY <2>a, <2>1 DEF t, StreamTurn
    <3>2. t.outcome # "open" /\ t.deltas = s.deltas
      BY <2>d, <3>1
    <3>3. EndsAt(chunks, enough, k + 1, t)
      BY <1>1, <2>o, <2>1, <3>2 DEF EndsAt
    <3>4. IsClosed(chunks, enough, k + 1, t)
      BY <1>1, <3>2, <3>3 DEF IsClosed
    <3> QED BY <3>4 DEF t
  <2>2. CASE c = "delta"
    <3>1. t = [s EXCEPT !.deltas = s.deltas + 1, !.outcome = IF s.deltas + 1 = enough THEN "left" ELSE "open"]
      <4> HIDE <1>4
      <4> HIDE DEF c
      <4> QED BY <2>a, <2>2 DEF t, StreamTurn
    <3>2. t.deltas = s.deltas + 1 /\ t.tokens = s.tokens
          /\ t.outcome = IF s.deltas + 1 = enough THEN "left" ELSE "open"
      BY <2>d, <3>1
    <3>3. t.deltas = Cardinality(DeltasOf(chunks, k + 1))
      BY <1>2, <2>o, <2>2, <3>2
    <3>4. CASE s.deltas + 1 = enough
      <4>1. t.outcome # "open" /\ t.deltas = enough
        BY <3>2, <3>4
      <4>2. EndsAt(chunks, enough, k + 1, t)
        BY <1>1, <2>o, <2>2, <3>3, <4>1 DEF EndsAt
      <4>3. IsClosed(chunks, enough, k + 1, t)
        BY <1>1, <4>1, <4>2 DEF IsClosed
      <4> QED BY <4>3 DEF t
    <3>5. CASE s.deltas + 1 # enough
      <4>1. t.outcome = "open" /\ t.deltas < enough
        BY <2>o, <2>d, <3>2, <3>5
      <4>2. \A i \in 1..(k + 1) : chunks[i] # "failed"
        BY <1>1, <2>o, <2>2
      <4>3. (\E i \in 1..(k + 1) : chunks[i] = "usage") <=> \E i \in 1..k : chunks[i] = "usage"
        BY <1>1, <2>2
      <4>4. t.tokens = IF \E i \in 1..(k + 1) : chunks[i] = "usage" THEN Tokens(1, 1) ELSE Tokens(0, 0)
        BY <2>o, <3>2, <4>3
      <4>5. IsOpen(chunks, enough, k + 1, t)
        BY <3>3, <4>1, <4>2, <4>4 DEF IsOpen
      <4> QED BY <4>5 DEF t
    <3> QED BY <3>4, <3>5
  <2>3. CASE c = "usage"
    <3>1. t = [s EXCEPT !.tokens = Tokens(1, 1)]
      <4> HIDE <1>4
      <4> HIDE DEF c
      <4> QED BY <2>a, <2>3 DEF t, StreamTurn
    <3>2. t.deltas = s.deltas /\ t.tokens = Tokens(1, 1) /\ t.outcome = "open"
      BY <2>o, <2>d, <3>1
    <3>3. t.deltas = Cardinality(DeltasOf(chunks, k + 1))
      BY <1>2, <2>o, <2>3, <3>2
    <3>4. (\E i \in 1..(k + 1) : chunks[i] = "usage") /\ \A i \in 1..(k + 1) : chunks[i] # "failed"
      BY <1>1, <2>o, <2>3
    <3>5. IsOpen(chunks, enough, k + 1, t)
      BY <2>o, <3>2, <3>3, <3>4 DEF IsOpen
    <3> QED BY <3>5 DEF t
  <2> QED BY <1>1, <2>1, <2>2, <2>3 DEF StreamChunks
<1> QED BY <1>3, <1>4

LEMMA StreamEnds ==
  ASSUME NEW chunks \in Seq(StreamChunks), NEW enough \in Nat, enough > 0
  PROVE  LET s == StreamAll(chunks, enough)
             n == Len(chunks)
         IN s \in StreamState /\ (IsOpen(chunks, enough, n, s) \/ IsClosed(chunks, enough, n, s))
<1>1. PICK f : StreamRun(chunks, enough, f)
  BY StreamRuns
<1> DEFINE n == Len(chunks)
           Holds(k) == IsOpen(chunks, enough, k, f[k]) \/ IsClosed(chunks, enough, k, f[k])
           K == {k \in Nat : k \in 0..n => Holds(k)}
<1>2. /\ f \in [0..n -> StreamState] /\ f[0] = Opened
      /\ \A k \in 1..n : f[k] = StreamTurn(f[k - 1], chunks[k], enough)
      /\ f[n] = StreamAll(chunks, enough)
  BY <1>1 DEF StreamRun
<1>3. n \in Nat
  OBVIOUS
<1> HIDE DEF n
<1>4. 0 \in K
  <2>1. Cardinality(DeltasOf(chunks, 0)) = 0
    BY DeltasCounted
  <2>2. IsOpen(chunks, enough, 0, Opened)
    BY <2>1 DEF IsOpen, Opened
  <2> QED BY <1>2, <2>2
<1>5. ASSUME NEW k \in 0..(n - 1), k \in K PROVE k + 1 \in K
  <2>1. k + 1 \in 1..n /\ (k + 1) - 1 = k /\ k \in 0..n /\ k + 1 \in Nat
    BY <1>3
  <2>2. f[k + 1] = StreamTurn(f[k], chunks[k + 1], enough) /\ f[k] \in StreamState
    BY <1>2, <2>1
  <2>3. IsOpen(chunks, enough, k, f[k]) \/ IsClosed(chunks, enough, k, f[k])
    BY <1>5, <2>1
  <2>4. k \in 0..(Len(chunks) - 1)
    BY DEF n
  <2>5. Holds(k + 1)
    BY <2>2, <2>3, <2>4, StreamStep
  <2> HIDE DEF Holds
  <2> QED BY <2>1, <2>5
<1> HIDE DEF K
<1>6. 0..n \subseteq K
  BY <1>3, <1>4, <1>5, Induction
<1>7. n \in 0..n
  BY <1>3
<1>8. IsOpen(chunks, enough, n, f[n]) \/ IsClosed(chunks, enough, n, f[n])
  BY <1>6, <1>7 DEF K
<1> QED BY <1>2, <1>7, <1>8 DEF n

\* client.py: a stream leaves its log line or the warning, and the line only if
\* the consumer had everything, at the usage that the API sent with it.
THEOREM StreamsAccounted ==
  ASSUME NEW model, NEW chunks \in Seq(StreamChunks), NEW enough \in Nat, enough > 0
  PROVE  StreamAccounted(model, chunks, enough)
<1> DEFINE n == Len(chunks)
           s == StreamAll(chunks, enough)
           run == StreamComplete(model, chunks, enough)
           F == {i \in DOMAIN chunks : chunks[i] = "failed"}
           broken == Min(F \cup {n + 1})
           D == {i \in 1..(broken - 1) : chunks[i] = "delta"}
           whole == broken > n /\ Cardinality(D) < enough
<1>1. n \in Nat /\ DOMAIN chunks = 1..n
  OBVIOUS
<1>2. run = [outcome |-> IF s.outcome = "open" THEN "returned" ELSE s.outcome,
             deltas  |-> s.deltas,
             log     |-> IF s.outcome = "open" THEN <<LogLine(model, s.tokens)>> ELSE <<>>,
             warned  |-> s.outcome # "open"]
  BY DEF StreamComplete, StreamAll, StreamTurn, Opened
<1>3. s \in StreamState /\ (IsOpen(chunks, enough, n, s) \/ IsClosed(chunks, enough, n, s))
  BY StreamEnds
<1>4. D = DeltasOf(chunks, broken - 1)
  BY DEF DeltasOf
<1> HIDE DEF s, run
<1>5. /\ run.deltas = s.deltas /\ run.warned = (s.outcome # "open")
      /\ run.log = IF s.outcome = "open" THEN <<LogLine(model, s.tokens)>> ELSE <<>>
  BY <1>2
<1> HIDE DEF D, F
<1>a. broken \in 1..(n + 1) /\ (\A i \in 1..(broken - 1) : chunks[i] # "failed")
      /\ (broken <= n => chunks[broken] = "failed")
  <2> DEFINE T == F \cup {n + 1}
  <2>1. T \in SUBSET Int /\ T # {} /\ \A k \in T : 1 <= k
    BY <1>1 DEF F
  <2>2. broken \in T /\ \A k \in T : broken <= k
    <3>0. 1 \in Int
      OBVIOUS
    <3> HIDE DEF T, broken, whole, n
    <3>1. Min(T) \in T /\ \A k \in T : Min(T) <= k
      BY <2>1, <3>0, MinOfBounded
    <3> QED BY <3>1 DEF T, broken
  <2> HIDE DEF broken
  <2> QED BY <1>1, <2>2 DEF F
<1>b. ASSUME NEW j \in 1..(n + 1), \A i \in 1..(j - 1) : chunks[i] # "failed",
             j <= n => chunks[j] = "failed"
      PROVE  broken = j
  <2> HIDE DEF broken
  <2>1. broken \in 1..(n + 1) /\ ~ broken < j /\ ~ j < broken
    BY <1>1, <1>a, <1>b
  <2> QED BY <1>1, <2>1
<1>c. Cardinality(D) \in Nat
  <2> HIDE DEF broken
  <2>1. broken - 1 \in Nat
    BY <1>1, <1>a
  <2> QED BY <1>4, <2>1, DeltasCounted
<1> HIDE DEF broken
<1>6. CASE s.outcome = "open"
  <2>1. /\ \A i \in 1..n : chunks[i] # "failed"
        /\ s.deltas = Cardinality(DeltasOf(chunks, n)) /\ s.deltas < enough
        /\ s.tokens = IF \E i \in 1..n : chunks[i] = "usage" THEN Tokens(1, 1) ELSE Tokens(0, 0)
    BY <1>3, <1>6 DEF IsOpen, IsClosed
  <2>2. broken = n + 1 /\ broken - 1 = n /\ broken > n
    BY <1>1, <1>b, <2>1
  <2>3. whole /\ s.deltas = Cardinality(D)
    BY <1>4, <2>1, <2>2
  <2>4. run.log = <<LogLine(model, s.tokens)>> /\ run.log # <<>> /\ run.warned = FALSE
    <3>1. run.log = <<LogLine(model, s.tokens)>> /\ run.warned = FALSE
      BY <1>5, <1>6
    <3>2. <<LogLine(model, s.tokens)>> # <<>>
      OBVIOUS
    <3> QED BY <3>1, <3>2
  <2>5. run.log[1].tokens.prompt = IF \E i \in 1..n : chunks[i] = "usage" THEN 1 ELSE 0
    <3>1. run.log[1].tokens = s.tokens
      BY <2>4 DEF LogLine
    <3> QED BY <2>1, <3>1 DEF Tokens
  <2>6. "usage" \in ToSet(chunks) <=> \E i \in 1..n : chunks[i] = "usage"
    BY <1>1 DEF ToSet
  <2>7. Min({enough, Cardinality(D)}) = s.deltas
    BY <1>c, <2>1, <2>3, MinOfTwo
  <2>z. /\ run.deltas = Min({enough, Cardinality(D)})
        /\ run.warned # (run.log # <<>>) /\ (run.log # <<>>) = whole
        /\ whole => run.log[1].tokens.prompt = (IF "usage" \in ToSet(chunks) THEN 1 ELSE 0)
    BY <1>5, <2>3, <2>4, <2>5, <2>6, <2>7
  <2> QED BY <2>z DEF StreamAccounted, run, broken, F, D
<1>7. CASE s.outcome # "open"
  <2>1. PICK j \in 1..n : EndsAt(chunks, enough, j, s)
    BY <1>3, <1>7 DEF IsOpen, IsClosed
  <2>2. run.log = <<>> /\ run.warned = TRUE
    BY <1>5, <1>7
  <2>3. ~ whole /\ Min({enough, Cardinality(D)}) = s.deltas
    <3>1. CASE chunks[j] = "failed"
      <4>1. s.deltas = Cardinality(DeltasOf(chunks, j - 1)) /\ s.deltas < enough
            /\ \A i \in 1..(j - 1) : chunks[i] # "failed"
        BY <2>1, <3>1 DEF EndsAt
      <4>2. broken = j
        BY <1>1, <1>b, <3>1, <4>1
      <4>3. s.deltas = Cardinality(D) /\ ~ broken > n
        BY <1>1, <1>4, <4>1, <4>2
      <4>4. Min({enough, Cardinality(D)}) = s.deltas
        BY <1>c, <4>1, <4>3, MinOfTwo
      <4> QED BY <4>3, <4>4
    <3>2. CASE chunks[j] = "delta"
      <4>1. /\ s.deltas = Cardinality(DeltasOf(chunks, j)) /\ s.deltas = enough
            /\ \A i \in 1..(j - 1) : chunks[i] # "failed"
        BY <2>1, <3>2 DEF EndsAt
      <4>2. j < broken
        BY <1>1, <1>a, <3>2, <4>1
      <4>3. DeltasOf(chunks, j) \subseteq D
        BY <1>1, <1>4, <1>a, <4>2 DEF DeltasOf
      <4>4. IsFiniteSet(D)
        <5>1. broken - 1 \in Nat
          BY <1>1, <1>a
        <5> QED BY <1>4, <5>1, DeltasCounted
      <4>5. Cardinality(DeltasOf(chunks, j)) <= Cardinality(D)
        BY <4>3, <4>4, FS_Subset
      <4>6. enough <= Cardinality(D)
        BY <4>1, <4>5
      <4>7. Min({enough, Cardinality(D)}) = enough
        BY <1>c, <4>6, MinOfTwo
      <4> QED BY <1>c, <4>1, <4>6, <4>7
    <3> QED BY <2>1, <3>1, <3>2 DEF EndsAt
  <2>z. /\ run.deltas = Min({enough, Cardinality(D)})
        /\ run.warned # (run.log # <<>>) /\ (run.log # <<>>) = whole
        /\ whole => run.log[1].tokens.prompt = (IF "usage" \in ToSet(chunks) THEN 1 ELSE 0)
    BY <1>5, <2>2, <2>3
  <2> QED BY <2>z DEF StreamAccounted, run, broken, F, D
<1> QED BY <1>6, <1>7

-----------------------------------------------------------------------------
(* The loop that runs tools (client.py)                                    *)

IsUsage(u) == u = NoUsage \/ u \in [prompt : Nat, completion : Nat]
Replied == [status : {"failed", "no_choice", "parsed"},
            usage : {NoUsage} \cup [prompt : Nat, completion : Nat], calls : Seq(ToolKinds)]
RunState(model) ==
  [outcome : {"going", "LlmOutputError", "LlmError", "LlmCallError", "returned"}, asked : Nat,
   spent : [prompt : Nat, completion : Nat], handled : Seq(ToolKinds),
   log : {<<>>} \cup {<<LogLine(model, u)>> : u \in [prompt : Nat, completion : Nat]}]

\* Requests that got to a handler, and those that end the loop.
Handlers == {"served", "llm_error", "error"}
Failing(calls) == {i \in DOMAIN calls : calls[i] # "served"}

\* A request, by what becomes of it.
LEMMA CallTurns ==
  ASSUME NEW model, NEW r \in RunState(model), NEW call \in ToolKinds
  PROVE  LET t == CallTool(r, call)
         IN /\ t \in RunState(model) /\ (r.outcome # "going" => t = r)
            /\ r.outcome = "going" =>
                 /\ t.asked = r.asked /\ t.spent = r.spent /\ t.log = r.log
                 /\ t.handled = IF call \in Handlers THEN Append(r.handled, call) ELSE r.handled
                 /\ (t.outcome = "going") = (call = "served") /\ t.outcome # "returned"
<1> DEFINE t == CallTool(r, call)
           U == [prompt : Nat, completion : Nat]
           L == {<<>>} \cup {<<LogLine(model, u)>> : u \in U}
           O == {"going", "LlmOutputError", "LlmError", "LlmCallError", "returned"}
           H == Seq(ToolKinds)
           R == [outcome : O, asked : Nat, spent : U, handled : H, log : L]
<1>1. RunState(model) = R /\ r \in R
  BY DEF RunState
<1>2. CASE r.outcome # "going"
  BY <1>2 DEF CallTool
<1>3. CASE r.outcome = "going" /\ call \in {"unsupported", "unregistered", "malformed"}
  <2>1. t = [r EXCEPT !.outcome = "LlmOutputError"]
    BY <1>3 DEF CallTool
  <2>2. "LlmOutputError" \in O
    OBVIOUS
  <2> HIDE DEF U, L, O, H, t
  <2>3. t \in R /\ t.asked = r.asked /\ t.spent = r.spent /\ t.log = r.log /\ t.handled = r.handled
        /\ t.outcome = "LlmOutputError"
    BY <1>1, <2>1, <2>2
  <2>4. call \notin Handlers /\ call # "served"
    BY <1>3 DEF Handlers
  <2> QED BY <1>1, <1>3, <2>3, <2>4 DEF t
<1>4. CASE r.outcome = "going" /\ call \in Handlers
  <2> DEFINE h == Append(r.handled, call)
             o == IF call = "served" THEN r.outcome ELSE "LlmError"
  <2>1. t = [r EXCEPT !.handled = h, !.outcome = o]
    BY <1>4 DEF CallTool, Handlers
  <2>2. o \in O /\ h \in H
    <3>1. r.handled \in H
      BY <1>1
    <3> QED BY <1>4, <3>1
  <2>3. (o = "going") = (call = "served") /\ o # "returned"
    BY <1>4
  <2> HIDE DEF U, L, O, H, t, h, o
  <2>4. t \in R /\ t.asked = r.asked /\ t.spent = r.spent /\ t.log = r.log /\ t.handled = h /\ t.outcome = o
    BY <1>1, <2>1, <2>2
  <2> QED BY <1>1, <1>4, <2>3, <2>4 DEF t, h
<1> QED BY <1>2, <1>3, <1>4 DEF ToolKinds, Handlers

ToolsAll(base, calls) == FoldLeft(CallTool, base, calls)
ToolsRun(model, base, calls, f) ==
  /\ f \in [0..Len(calls) -> RunState(model)] /\ f[0] = base
  /\ \A k \in 1..Len(calls) : f[k] = CallTool(f[k - 1], calls[k])
  /\ f[Len(calls)] = ToolsAll(base, calls)

LEMMA ToolsRuns ==
  ASSUME NEW model, NEW base \in RunState(model), NEW calls \in Seq(ToolKinds)
  PROVE  \E f : ToolsRun(model, base, calls, f)
<1> DEFINE n == Len(calls)
           A == RunState(model)
           Turn(it) == [T \in SUBSET DOMAIN calls |->
                          IF T = {} THEN base
                          ELSE CallTool(it[T \ {Max(T)}], calls[Max(T)])]
           iter == CHOOSE it : it = Turn(it)
           Step == [p \in (1..n) \X A |-> CallTool(p[2], calls[p[1]])]
           all == ToolsAll(base, calls)
<1>1. n \in Nat /\ DOMAIN calls = 1..n /\ \A i \in 1..n : calls[i] \in ToolKinds
  OBVIOUS
<1>2. all = iter[DOMAIN calls]
  BY DEF ToolsAll, FoldLeft, MapThenFoldSet
<1> HIDE DEF n, iter, all
<1>3. base \in A
  OBVIOUS
<1>4. Step \in [(1..n) \X A -> A]
  <2>1. ASSUME NEW i \in 1..n, NEW s \in A PROVE CallTool(s, calls[i]) \in A
    BY <1>1, CallTurns
  <2> HIDE DEF A
  <2> QED BY <2>1
<1> HIDE DEF A
<1>5. PICK it : Iterates(it, n, A, base, Step)
  <2>1. IsFold(n, A, base, Step)
    BY <1>1, <1>3, <1>4 DEF IsFold
  <2> QED BY <2>1, FoldIteration
<1>6. /\ it \in [SUBSET (1..n) -> A]
      /\ \A T \in SUBSET (1..n) :
           it[T] = IF T = {} THEN base ELSE Step[<<Max(T), it[T \ {Max(T)}]>>]
  BY <1>5 DEF Iterates
<1>7. ASSUME NEW T \in SUBSET (1..n), T # {}
      PROVE  Step[<<Max(T), it[T \ {Max(T)}]>>] = CallTool(it[T \ {Max(T)}], calls[Max(T)])
  <2>1. Max(T) \in 1..n
    BY <1>1, <1>7, PrefixSets
  <2>2. it[T \ {Max(T)}] \in A
    BY <1>6
  <2> QED BY <2>1, <2>2
<1>8. it = Turn(it)
  <2>1. \A T \in SUBSET (1..n) : it[T] = Turn(it)[T]
    <3> HIDE DEF Step
    <3> QED BY <1>1, <1>6, <1>7
  <2>2. it = [T \in SUBSET (1..n) |-> it[T]]
    BY <1>6
  <2>3. Turn(it) = [T \in SUBSET (1..n) |-> Turn(it)[T]]
    BY <1>1
  <2> HIDE DEF Turn
  <2> QED BY <2>1, <2>2, <2>3
<1>9. iter = Turn(iter)
  <2> HIDE DEF Turn
  <2> QED BY <1>8 DEF iter
<1> DEFINE f == [k \in 0..n |-> iter[1..k]]
<1>10. f[0] = base
  <2>1. iter[{}] = base
    BY <1>9
  <2> QED BY <1>1, <2>1, PrefixSets
<1>11. ASSUME NEW k \in 1..n PROVE f[k] = CallTool(f[k - 1], calls[k])
  <2>1. Max(1..k) = k /\ (1..k) \ {k} = 1..(k - 1) /\ 1..k # {} /\ 1..k \in SUBSET (1..n)
    BY <1>1, PrefixSets
  <2>2. iter[1..k] = CallTool(iter[1..(k - 1)], calls[k])
    BY <1>1, <1>9, <2>1
  <2>3. f[k] = iter[1..k] /\ f[k - 1] = iter[1..(k - 1)]
    BY <1>1
  <2> QED BY <2>2, <2>3
<1>12. f[n] = all
  BY <1>1, <1>2
<1>13. f \in [0..n -> A]
  <2> DEFINE K == {k \in Nat : k \in 0..n => f[k] \in A}
  <2>1. 0 \in K
    BY <1>3, <1>10
  <2>2. ASSUME NEW k \in 0..(n - 1), k \in K PROVE k + 1 \in K
    <3>1. k + 1 \in 1..n /\ (k + 1) - 1 = k /\ k \in 0..n /\ k + 1 \in Nat
      BY <1>1
    <3>2. f[k + 1] = CallTool(f[k], calls[k + 1]) /\ f[k] \in A
      BY <1>11, <2>2, <3>1
    <3> HIDE DEF f
    <3>3. f[k + 1] \in A
      <4>1. f[k] \in RunState(model) /\ calls[k + 1] \in ToolKinds
        BY <1>1, <3>1, <3>2 DEF A
      <4>2. CallTool(f[k], calls[k + 1]) \in RunState(model)
        BY <4>1, CallTurns
      <4> QED BY <3>2, <4>2 DEF A
    <3> QED BY <3>1, <3>3
  <2> HIDE DEF K
  <2>3. 0..n \subseteq K
    BY <1>1, <2>1, <2>2, Induction
  <2>4. \A k \in 0..n : f[k] \in A
    BY <2>3 DEF K
  <2>5. f = [k \in 0..n |-> f[k]]
    OBVIOUS
  <2> HIDE DEF f
  <2> QED BY <2>4, <2>5
<1> HIDE DEF f
<1>14. ToolsRun(model, base, calls, f)
  BY <1>10, <1>11, <1>12, <1>13 DEF ToolsRun, all, n, A
<1> QED BY <1>14

\* What a round asks for of its calls, in the order it does: up to one that fails.
FirstOf(calls) == Min(Failing(calls) \cup {Len(calls)})
LEMMA FirstFails ==
  ASSUME NEW calls \in Seq(ToolKinds)
  PROVE  /\ FirstOf(calls) \in 0..Len(calls)
         /\ \A i \in 1..Len(calls) : i < FirstOf(calls) => calls[i] = "served"
         /\ FirstOf(calls) < Len(calls) => FirstOf(calls) \in 1..Len(calls) /\ calls[FirstOf(calls)] # "served"
<1> DEFINE n == Len(calls)
           T == Failing(calls) \cup {n}
           m == Min(T)
<1>1. n \in Nat /\ DOMAIN calls = 1..n
  OBVIOUS
<1>2. T \in SUBSET Int /\ T # {} /\ (\A k \in T : 0 <= k) /\ 0 \in Int
  BY <1>1 DEF Failing
<1>3. m \in T /\ \A k \in T : m <= k
  <2> HIDE DEF T
  <2> QED BY <1>2, MinOfBounded
<1> HIDE DEF m, n
<1>4. m \in 0..n /\ (\A i \in 1..n : i < m => calls[i] = "served")
      /\ (m < n => m \in 1..n /\ calls[m] # "served")
  BY <1>1, <1>3 DEF Failing
<1> QED BY <1>4 DEF m, n, FirstOf

LEMMA PrefixGrows ==
  ASSUME NEW A, NEW calls \in Seq(A), NEW before \in Seq(A), NEW k \in 0..(Len(calls) - 1)
  PROVE  /\ before \o SubSeq(calls, 1, k) \in Seq(A)
         /\ before \o SubSeq(calls, 1, k + 1) = Append(before \o SubSeq(calls, 1, k), calls[k + 1])
         /\ before \o SubSeq(calls, 1, 0) = before
<1>1. k + 1 \in 1..Len(calls) /\ k \in Nat
  OBVIOUS
<1>2. SubSeq(calls, 1, k) \in Seq(A) /\ SubSeq(calls, 1, k + 1) = Append(SubSeq(calls, 1, k), calls[k + 1])
  BY <1>1
<1>3. SubSeq(calls, 1, 0) = <<>>
  OBVIOUS
<1> DEFINE p == SubSeq(calls, 1, k)
           x == calls[k + 1]
<1>4. p \in Seq(A) /\ x \in A
  BY <1>1, <1>2
<1> HIDE DEF p, x
<1>5. before \o Append(p, x) = Append(before \o p, x)
  BY <1>4
<1>6. before \o <<>> = before /\ before \o p \in Seq(A)
  BY <1>4
<1> QED BY <1>2, <1>3, <1>5, <1>6 DEF p, x

\* What the requests of a round make of a run that asked for those before.
ToolsMake(base, before, calls, t) ==
  /\ t.asked = base.asked /\ t.spent = base.spent /\ t.log = base.log
  /\ t.handled = Kept(before \o SubSeq(calls, 1, FirstOf(calls)), Handlers)
  /\ (t.outcome = "going") = (\A i \in 1..Len(calls) : calls[i] = "served")
  /\ t.outcome # "returned"

\* A call that has a handler adds to what the handlers did, any other does not.
LEMMA HandledGrows ==
  ASSUME NEW seq \in Seq(ToolKinds), NEW x \in ToolKinds
  PROVE  Kept(Append(seq, x), Handlers) = IF x \in Handlers THEN Append(Kept(seq, Handlers), x)
                                          ELSE Kept(seq, Handlers)
BY KeptAppends

LEMMA ToolsDone ==
  ASSUME NEW model, NEW base \in RunState(model), base.outcome = "going",
         NEW before \in Seq(ToolKinds), base.handled = Kept(before, Handlers),
         NEW calls \in Seq(ToolKinds)
  PROVE  ToolsMake(base, before, calls, ToolsAll(base, calls))
<1> DEFINE n == Len(calls)
           stop == FirstOf(calls)
           upTo(k) == IF k <= stop THEN k ELSE stop
<1>1. PICK f : ToolsRun(model, base, calls, f)
  BY ToolsRuns
<1>2. /\ n \in Nat /\ f \in [0..n -> RunState(model)] /\ f[0] = base
      /\ \A k \in 1..n : f[k] = CallTool(f[k - 1], calls[k])
      /\ f[n] = ToolsAll(base, calls)
  BY <1>1 DEF ToolsRun
<1>3. /\ stop \in 0..n /\ \A i \in 1..n : i < stop => calls[i] = "served"
      /\ stop < n => stop \in 1..n /\ calls[stop] # "served"
  BY FirstFails
<1> HIDE DEF n, stop
<1> DEFINE Holds(k) ==
             /\ f[k].asked = base.asked /\ f[k].spent = base.spent /\ f[k].log = base.log
             /\ f[k].handled = Kept(before \o SubSeq(calls, 1, upTo(k)), Handlers)
             /\ (f[k].outcome = "going") = (\A i \in 1..k : calls[i] = "served")
             /\ f[k].outcome # "returned"
           K == {k \in Nat : k \in 0..n => Holds(k)}
<1>4. 0 \in K
  <2>1. before \o SubSeq(calls, 1, 0) = before
    OBVIOUS
  <2>2. upTo(0) = 0
    BY <1>2, <1>3
  <2>3. Holds(0)
    <3>1. /\ f[0] = base /\ base.outcome = "going" /\ base.handled = Kept(before, Handlers)
          /\ \A i \in 1..0 : calls[i] = "served"
      BY <1>2
    <3>2. base.outcome # "returned"
      BY <3>1
    <3> HIDE DEF upTo, K
    <3> QED BY <2>1, <2>2, <3>1, <3>2
  <2> HIDE DEF Holds
  <2> QED BY <2>3
<1>5. ASSUME NEW k \in 0..(n - 1), k \in K PROVE k + 1 \in K
  <2>1. k + 1 \in 1..n /\ (k + 1) - 1 = k /\ k \in 0..n /\ k + 1 \in Nat /\ k \in Nat
        /\ k \in 0..(Len(calls) - 1) /\ 1..(k + 1) = (1..k) \cup {k + 1}
    BY <1>2 DEF n
  <2>2. Holds(k)
    <3> HIDE DEF Holds
    <3> QED BY <1>5, <2>1
  <2> DEFINE r == f[k]
             t == f[k + 1]
             c == calls[k + 1]
             all == \A i \in 1..k : calls[i] = "served"
  <2>3. r \in RunState(model) /\ t = CallTool(r, c)
    BY <1>2, <2>1
  <2>4. c \in ToolKinds
    BY <2>1 DEF n
  <2>5. /\ r.asked = base.asked /\ r.spent = base.spent /\ r.log = base.log
        /\ r.handled = Kept(before \o SubSeq(calls, 1, upTo(k)), Handlers)
        /\ (r.outcome = "going") = all /\ r.outcome # "returned"
    BY <2>2
  <2> HIDE DEF r, t, c
  <2>6. /\ (r.outcome # "going" => t = r)
        /\ r.outcome = "going" =>
             /\ t.asked = r.asked /\ t.spent = r.spent /\ t.log = r.log
             /\ t.handled = IF c \in Handlers THEN Append(r.handled, c) ELSE r.handled
             /\ (t.outcome = "going") = (c = "served") /\ t.outcome # "returned"
    BY <2>3, <2>4, CallTurns
  <2>7. (\A i \in 1..(k + 1) : calls[i] = "served") = (all /\ c = "served")
    BY <2>1 DEF c
  <2> HIDE DEF upTo, all
  <2>8. CASE k < stop
    <3>1. upTo(k) = k /\ upTo(k + 1) = k + 1 /\ k <= stop
      BY <1>3, <2>1, <2>8 DEF upTo
    <3>2. all
      <4> SUFFICES ASSUME NEW i \in 1..k PROVE calls[i] = "served"
        BY DEF all
      <4>1. i \in 1..n /\ i < stop
        BY <1>2, <1>3, <2>1, <2>8
      <4> QED BY <1>3, <4>1
    <3>3. before \o SubSeq(calls, 1, k) \in Seq(ToolKinds)
          /\ before \o SubSeq(calls, 1, k + 1) = Append(before \o SubSeq(calls, 1, k), c)
      BY <2>1, PrefixGrows DEF c
    <3>4. Kept(before \o SubSeq(calls, 1, k + 1), Handlers)
            = IF c \in Handlers THEN Append(r.handled, c) ELSE r.handled
      <4> DEFINE p == before \o SubSeq(calls, 1, k)
      <4>1. p \in Seq(ToolKinds) /\ r.handled = Kept(p, Handlers)
            /\ before \o SubSeq(calls, 1, k + 1) = Append(p, c)
        BY <2>5, <3>1, <3>3
      <4> HIDE DEF p
      <4>2. Kept(Append(p, c), Handlers) = IF c \in Handlers THEN Append(Kept(p, Handlers), c) ELSE Kept(p, Handlers)
        <5>1. p \in Seq(ToolKinds) /\ c \in ToolKinds
          BY <2>4, <4>1
        <5> HIDE DEF c
        <5> QED BY ONLY <5>1, HandledGrows
      <4> DEFINE longer == before \o SubSeq(calls, 1, k + 1)
      <4>3. longer = Append(p, c) /\ r.handled = Kept(p, Handlers)
        BY <4>1
      <4> HIDE DEF longer, c
      <4>4. Kept(longer, Handlers) = IF c \in Handlers THEN Append(r.handled, c) ELSE r.handled
        BY <4>2, <4>3
      <4> QED BY <4>4 DEF longer
    <3>5. Holds(k + 1)
      BY <2>5, <2>6, <2>7, <3>1, <3>2, <3>4 DEF t
    <3> HIDE DEF Holds
    <3> QED BY <2>1, <3>5
  <2>9. CASE stop <= k
    <3>1. upTo(k) = stop /\ upTo(k + 1) = stop
      BY <1>3, <2>1, <2>9 DEF upTo
    <3>2. ~ all
      BY <1>2, <1>3, <2>1, <2>9 DEF all
    <3>3. t = r
      BY <2>5, <2>6, <3>2
    <3>4. Holds(k + 1)
      BY <2>5, <2>7, <3>1, <3>2, <3>3 DEF t
    <3> HIDE DEF Holds
    <3> QED BY <2>1, <3>4
  <2>10. k < stop \/ stop <= k
    BY <1>2, <1>3, <2>1
  <2> QED BY <2>8, <2>9, <2>10
<1> HIDE DEF K
<1>6. 0..n \subseteq K
  BY <1>2, <1>4, <1>5, Induction
<1>7. n \in 0..n /\ upTo(n) = stop
  BY <1>2, <1>3
<1>8. Holds(n)
  <2>1. n \in K
    BY <1>6, <1>7
  <2> HIDE DEF Holds
  <2> QED BY <1>7, <2>1 DEF K
<1> QED BY <1>2, <1>7, <1>8 DEF n, stop, ToolsMake

\* What a round makes of a reply: what it asked for is behind it, and it goes on
\* if all of that was served.
AsksOf(reply) == IF reply.status # "parsed" THEN <<>> ELSE SubSeq(reply.calls, 1, FirstOf(reply.calls))
Stops(reply)  == \/ reply.status # "parsed" \/ reply.calls = <<>>
                 \/ \E c \in ToSet(reply.calls) : c # "served"
Answering(reply) == reply.status = "parsed" /\ reply.calls = <<>>
RoundMakes(model, r, reply, before, t) ==
  /\ t.asked = r.asked + 1 /\ t.handled = Kept(before \o AsksOf(reply), Handlers)
  /\ (t.outcome = "going") = ~ Stops(reply) /\ (t.outcome = "returned") = Answering(reply)
  /\ t.log = IF Answering(reply) THEN <<LogLine(model, Plus(r.spent, Counted(reply.usage)))>> ELSE r.log
  /\ t.outcome = "going" => t.spent = Plus(r.spent, Counted(reply.usage))

LEMMA UsageCounted ==
  ASSUME NEW reply \in Replied, NEW v \in [prompt : Nat, completion : Nat]
  PROVE  /\ Counted(reply.usage) \in [prompt : Nat, completion : Nat]
         /\ Plus(v, Counted(reply.usage)) \in [prompt : Nat, completion : Nat]
<1> DEFINE u == Counted(reply.usage)
<1>1. u \in [prompt : Nat, completion : Nat]
  <2>1. CASE reply.usage = NoUsage
    BY <2>1 DEF Counted, Tokens
  <2>2. CASE reply.usage # NoUsage
    BY <2>2 DEF Counted, Replied
  <2> QED BY <2>1, <2>2
<1> HIDE DEF u
<1>2. Plus(v, u) \in [prompt : Nat, completion : Nat]
  BY <1>1 DEF Plus, Tokens
<1> QED BY <1>1, <1>2 DEF u

LEMMA RoundTurns ==
  ASSUME NEW model, NEW r \in RunState(model), NEW reply \in Replied
  PROVE  LET t == Round(model, r, reply)
         IN /\ t \in RunState(model) /\ (r.outcome # "going" => t = r)
            /\ \A before \in Seq(ToolKinds) :
                 r.outcome = "going" /\ r.handled = Kept(before, Handlers) =>
                   RoundMakes(model, r, reply, before, t)
<1> DEFINE t == Round(model, r, reply)
           u == Counted(reply.usage)
           spent == Plus(r.spent, u)
           calls == reply.calls
           U == [prompt : Nat, completion : Nat]
           L == {<<>>} \cup {<<LogLine(model, v)>> : v \in U}
           O == {"going", "LlmOutputError", "LlmError", "LlmCallError", "returned"}
           H == Seq(ToolKinds)
           R == [outcome : O, asked : Nat, spent : U, handled : H, log : L]
           line == <<LogLine(model, spent)>>
           n == r.asked + 1
<1>1. RunState(model) = R /\ r \in R
  BY DEF RunState
<1>2. spent \in U /\ line \in L /\ calls \in Seq(ToolKinds) /\ r.asked + 1 \in Nat /\ r.spent \in U
  <2>1. r.spent \in U /\ r.asked \in Nat /\ calls \in Seq(ToolKinds)
    BY <1>1 DEF Replied
  <2>2. spent \in U
    BY <2>1, UsageCounted
  <2> QED BY <2>1, <2>2
<1>3. \A before \in Seq(ToolKinds) : before \o <<>> = before
  OBVIOUS
<1> HIDE DEF u
<1>4. CASE r.outcome # "going"
  BY <1>4 DEF Round
<1>5. CASE r.outcome = "going" /\ reply.status = "failed"
  <2>1. t = [r EXCEPT !.asked = n, !.outcome = "LlmCallError"]
    BY <1>5 DEF Round
  <2>2. "LlmCallError" \in O
    OBVIOUS
  <2>3. AsksOf(reply) = <<>> /\ Stops(reply) = TRUE /\ Answering(reply) = FALSE
    BY <1>5 DEF AsksOf, Stops, Answering
  <2> HIDE DEF U, L, O, H, t, n
  <2>4. t \in R /\ t.asked = n /\ t.outcome = "LlmCallError" /\ t.handled = r.handled /\ t.log = r.log
    <3>1. n \in Nat
      BY <1>2 DEF n
    <3> QED BY <1>1, <2>1, <2>2, <3>1
  <2>5. ASSUME NEW before \in Seq(ToolKinds), r.handled = Kept(before, Handlers)
        PROVE  RoundMakes(model, r, reply, before, t)
    BY <1>3, <2>3, <2>4, <2>5 DEF RoundMakes, n
  <2> HIDE DEF R
  <2> QED BY <1>1, <1>5, <2>4, <2>5 DEF t
<1>6. CASE r.outcome = "going" /\ reply.status = "no_choice"
  <2>1. t = [r EXCEPT !.asked = n, !.outcome = "LlmOutputError"]
    BY <1>6 DEF Round
  <2>2. "LlmOutputError" \in O
    OBVIOUS
  <2>3. AsksOf(reply) = <<>> /\ Stops(reply) = TRUE /\ Answering(reply) = FALSE
    BY <1>6 DEF AsksOf, Stops, Answering
  <2> HIDE DEF U, L, O, H, t, n
  <2>4. t \in R /\ t.asked = n /\ t.outcome = "LlmOutputError" /\ t.handled = r.handled /\ t.log = r.log
    <3>1. n \in Nat
      BY <1>2 DEF n
    <3> QED BY <1>1, <2>1, <2>2, <3>1
  <2>5. ASSUME NEW before \in Seq(ToolKinds), r.handled = Kept(before, Handlers)
        PROVE  RoundMakes(model, r, reply, before, t)
    BY <1>3, <2>3, <2>4, <2>5 DEF RoundMakes, n
  <2> HIDE DEF R
  <2> QED BY <1>1, <1>6, <2>4, <2>5 DEF t
<1>7. CASE r.outcome = "going" /\ reply.status = "parsed" /\ calls = <<>>
  <2>1. t = [r EXCEPT !.asked = n, !.outcome = "returned", !.log = line]
    BY <1>7 DEF Round, u
  <2>2. "returned" \in O
    OBVIOUS
  <2>3. AsksOf(reply) = <<>> /\ Stops(reply) = TRUE /\ Answering(reply) = TRUE
    <3>0. <<>> \in Seq(ToolKinds) /\ Len(<<>>) = 0
      OBVIOUS
    <3>1. FirstOf(<<>>) = 0
      <4>1. FirstOf(<<>>) \in 0..Len(<<>>)
        BY <3>0, FirstFails
      <4> QED BY <3>0, <4>1
    <3>2. SubSeq(<<>>, 1, 0) = <<>>
      OBVIOUS
    <3> QED BY <1>7, <3>1, <3>2 DEF AsksOf, Stops, Answering
  <2> HIDE DEF U, L, O, H, t, n, line
  <2>4. t \in R /\ t.asked = n /\ t.outcome = "returned" /\ t.handled = r.handled /\ t.log = line
    <3>1. n \in Nat
      BY <1>2 DEF n
    <3> QED BY <1>1, <1>2, <2>1, <2>2, <3>1
  <2>5. ASSUME NEW before \in Seq(ToolKinds), r.handled = Kept(before, Handlers)
        PROVE  RoundMakes(model, r, reply, before, t)
    BY <1>3, <2>3, <2>4, <2>5 DEF RoundMakes, n, line, u
  <2> HIDE DEF R
  <2> QED BY <1>1, <1>7, <2>4, <2>5 DEF t
<1>8. CASE r.outcome = "going" /\ reply.status = "parsed" /\ calls # <<>>
  <2> DEFINE base == [r EXCEPT !.asked = n, !.spent = spent]
  <2>1. t = ToolsAll(base, calls)
    BY <1>8 DEF Round, u, ToolsAll
  <2>2. /\ base \in R /\ base.asked = n /\ base.spent = spent /\ base.outcome = "going"
        /\ base.handled = r.handled /\ base.log = r.log
    <3>1. n \in Nat
      BY <1>2
    <3> HIDE DEF U, L, O, H, n, spent
    <3> QED BY <1>1, <1>2, <1>8, <3>1
  <2> HIDE DEF base, t, n, spent, R
  <2>3. t \in RunState(model)
    <3>1. PICK f : ToolsRun(model, base, calls, f)
      BY <1>1, <1>2, <2>2, ToolsRuns
    <3>2. Len(calls) \in 0..Len(calls)
      BY <1>2
    <3> QED BY <2>1, <3>1, <3>2 DEF ToolsRun
  <2>4. Stops(reply) = ~ (\A i \in 1..Len(calls) : calls[i] = "served")
    <3>1. ToSet(calls) = {calls[i] : i \in 1..Len(calls)}
      BY <1>2 DEF ToSet
    <3>2. (\E c \in ToSet(calls) : c # "served") = ~ (\A i \in 1..Len(calls) : calls[i] = "served")
      BY <3>1
    <3> QED BY <1>8, <3>2 DEF Stops
  <2>5. Answering(reply) = FALSE /\ AsksOf(reply) = SubSeq(calls, 1, FirstOf(calls))
    BY <1>8 DEF Answering, AsksOf
  <2>6. ASSUME NEW before \in Seq(ToolKinds), r.handled = Kept(before, Handlers)
        PROVE  RoundMakes(model, r, reply, before, t)
    <3>1. base.handled = Kept(before, Handlers) /\ base \in RunState(model)
      BY <1>1, <2>2, <2>6
    <3>2. /\ t.asked = base.asked /\ t.spent = base.spent /\ t.log = base.log
          /\ t.handled = Kept(before \o SubSeq(calls, 1, FirstOf(calls)), Handlers)
          /\ (t.outcome = "going") = (\A i \in 1..Len(calls) : calls[i] = "served")
          /\ (t.outcome = "returned") = FALSE
      <4> HIDE DEF calls, U, L, O, H, line
      <4>1. ToolsMake(base, before, calls, ToolsAll(base, calls))
        BY <1>2, <2>2, <3>1, ToolsDone
      <4> QED BY <2>1, <4>1 DEF ToolsMake
    <3>3. (t.outcome = "going") = ~ Stops(reply)
      BY <2>4, <3>2
    <3>4. t.asked = r.asked + 1
      BY <2>2, <3>2 DEF n
    <3>5. t.spent = Plus(r.spent, Counted(reply.usage))
      BY <2>2, <3>2 DEF spent, u
    <3>6. t.log = r.log
      BY <2>2, <3>2
    <3> HIDE DEF U, L, O, H, line
    <3> QED BY <2>5, <3>2, <3>3, <3>4, <3>5, <3>6 DEF RoundMakes
  <2> QED BY <1>8, <2>3, <2>6 DEF t
<1>9. reply.status \in {"failed", "no_choice", "parsed"}
  BY DEF Replied
<1> QED BY <1>4, <1>5, <1>6, <1>7, <1>8, <1>9

RoundsAll(model, replies) ==
  FoldLeft(LAMBDA r, reply : Round(model, r, reply), Started, replies)
RoundsRun(model, replies, f) ==
  /\ f \in [0..Len(replies) -> RunState(model)] /\ f[0] = Started
  /\ \A k \in 1..Len(replies) : f[k] = Round(model, f[k - 1], replies[k])
  /\ f[Len(replies)] = RoundsAll(model, replies)

LEMMA RoundsRuns ==
  ASSUME NEW model, NEW replies \in Seq(Replied)
  PROVE  \E f : RoundsRun(model, replies, f)
<1> DEFINE n == Len(replies)
           A == RunState(model)
           Turn(it) == [T \in SUBSET DOMAIN replies |->
                          IF T = {} THEN Started
                          ELSE Round(model, it[T \ {Max(T)}], replies[Max(T)])]
           iter == CHOOSE it : it = Turn(it)
           Step == [p \in (1..n) \X A |-> Round(model, p[2], replies[p[1]])]
           all == RoundsAll(model, replies)
<1>1. n \in Nat /\ DOMAIN replies = 1..n /\ \A i \in 1..n : replies[i] \in Replied
  OBVIOUS
<1>2. all = iter[DOMAIN replies]
  BY DEF RoundsAll, FoldLeft, MapThenFoldSet
<1> HIDE DEF n, iter, all
<1>3. Started \in A
  <2>1. <<>> \in Seq(ToolKinds)
    OBVIOUS
  <2> QED BY <2>1 DEF Started, Tokens, RunState
<1>4. Step \in [(1..n) \X A -> A]
  <2>1. ASSUME NEW i \in 1..n, NEW s \in A PROVE Round(model, s, replies[i]) \in A
    BY <1>1, RoundTurns
  <2> HIDE DEF A
  <2> QED BY <2>1
<1> HIDE DEF A
<1>5. PICK it : Iterates(it, n, A, Started, Step)
  <2>1. IsFold(n, A, Started, Step)
    BY <1>1, <1>3, <1>4 DEF IsFold
  <2> QED BY <2>1, FoldIteration
<1>6. /\ it \in [SUBSET (1..n) -> A]
      /\ \A T \in SUBSET (1..n) :
           it[T] = IF T = {} THEN Started ELSE Step[<<Max(T), it[T \ {Max(T)}]>>]
  BY <1>5 DEF Iterates
<1>7. ASSUME NEW T \in SUBSET (1..n), T # {}
      PROVE  Step[<<Max(T), it[T \ {Max(T)}]>>] = Round(model, it[T \ {Max(T)}], replies[Max(T)])
  <2>1. Max(T) \in 1..n
    BY <1>1, <1>7, PrefixSets
  <2>2. it[T \ {Max(T)}] \in A
    BY <1>6
  <2> QED BY <2>1, <2>2
<1>8. it = Turn(it)
  <2>1. \A T \in SUBSET (1..n) : it[T] = Turn(it)[T]
    <3> HIDE DEF Step
    <3> QED BY <1>1, <1>6, <1>7
  <2>2. it = [T \in SUBSET (1..n) |-> it[T]]
    BY <1>6
  <2>3. Turn(it) = [T \in SUBSET (1..n) |-> Turn(it)[T]]
    BY <1>1
  <2> HIDE DEF Turn
  <2> QED BY <2>1, <2>2, <2>3
<1>9. iter = Turn(iter)
  <2> HIDE DEF Turn
  <2> QED BY <1>8 DEF iter
<1> DEFINE f == [k \in 0..n |-> iter[1..k]]
<1>10. f[0] = Started
  <2>1. iter[{}] = Started
    BY <1>9
  <2> QED BY <1>1, <2>1, PrefixSets
<1>11. ASSUME NEW k \in 1..n PROVE f[k] = Round(model, f[k - 1], replies[k])
  <2>1. Max(1..k) = k /\ (1..k) \ {k} = 1..(k - 1) /\ 1..k # {} /\ 1..k \in SUBSET (1..n)
    BY <1>1, PrefixSets
  <2>2. iter[1..k] = Round(model, iter[1..(k - 1)], replies[k])
    BY <1>1, <1>9, <2>1
  <2>3. f[k] = iter[1..k] /\ f[k - 1] = iter[1..(k - 1)]
    BY <1>1
  <2> QED BY <2>2, <2>3
<1>12. f[n] = all
  BY <1>1, <1>2
<1>13. f \in [0..n -> A]
  <2> DEFINE K == {k \in Nat : k \in 0..n => f[k] \in A}
  <2>1. 0 \in K
    BY <1>3, <1>10
  <2>2. ASSUME NEW k \in 0..(n - 1), k \in K PROVE k + 1 \in K
    <3>1. k + 1 \in 1..n /\ (k + 1) - 1 = k /\ k \in 0..n /\ k + 1 \in Nat
      BY <1>1
    <3>2. f[k + 1] = Round(model, f[k], replies[k + 1]) /\ f[k] \in A
      BY <1>11, <2>2, <3>1
    <3> HIDE DEF f
    <3>3. f[k + 1] \in A
      <4>1. f[k] \in RunState(model) /\ replies[k + 1] \in Replied
        BY <1>1, <3>1, <3>2 DEF A
      <4>2. Round(model, f[k], replies[k + 1]) \in RunState(model)
        BY <4>1, RoundTurns
      <4> QED BY <3>2, <4>2 DEF A
    <3> QED BY <3>1, <3>3
  <2> HIDE DEF K
  <2>3. 0..n \subseteq K
    BY <1>1, <2>1, <2>2, Induction
  <2>4. \A k \in 0..n : f[k] \in A
    BY <2>3 DEF K
  <2>5. f = [k \in 0..n |-> f[k]]
    OBVIOUS
  <2> HIDE DEF f
  <2> QED BY <2>4, <2>5
<1> HIDE DEF f
<1>14. RoundsRun(model, replies, f)
  BY <1>10, <1>11, <1>12, <1>13 DEF RoundsRun, all, n, A
<1> QED BY <1>14

\* cost_usd: what two amounts of tokens cost together.
LEMMA CostAdds ==
  ASSUME NEW model \in DOMAIN Prices, NEW u \in [prompt : Nat, completion : Nat],
         NEW v \in [prompt : Nat, completion : Nat]
  PROVE  /\ CostUsd(model, u) \in Int /\ CostUsd(model, v) \in Int
         /\ CostUsd(model, Plus(u, v)) = CostUsd(model, u) + CostUsd(model, v)
         /\ Plus(u, v) \in [prompt : Nat, completion : Nat]
         /\ Plus(u, v).prompt = u.prompt + v.prompt
<1> DEFINE P == Prices[model].input
           Q == Prices[model].output
           w == Plus(u, v)
<1>1. P \in Nat /\ Q \in Nat
  BY DEF Prices
<1>2. /\ w \in [prompt : Nat, completion : Nat]
      /\ w.prompt = u.prompt + v.prompt /\ w.completion = u.completion + v.completion
  BY DEF Plus, Tokens
<1>3. /\ CostUsd(model, u) = u.prompt * P + u.completion * Q
      /\ CostUsd(model, v) = v.prompt * P + v.completion * Q
      /\ CostUsd(model, w) = w.prompt * P + w.completion * Q
  BY DEF CostUsd
<1> HIDE DEF P, Q, w
<1>4. ASSUME NEW a \in Nat, NEW b \in Nat, NEW c \in Nat, NEW d \in Nat, NEW p \in Nat, NEW q \in Nat
      PROVE  /\ a * p + b * q \in Int
             /\ (a + c) * p + (b + d) * q = (a * p + b * q) + (c * p + d * q)
  OBVIOUS
<1>5. u.prompt \in Nat /\ u.completion \in Nat /\ v.prompt \in Nat /\ v.completion \in Nat
  OBVIOUS
<1> QED BY <1>1, <1>2, <1>3, <1>4, <1>5 DEF w

\* The rounds of a loop: all before the last are served, and it stops there or
\* has no more.
IsLoop(replies, rounds) ==
  /\ rounds \in 1..MaxRounds /\ (rounds < MaxRounds => Stops(replies[rounds]))
  /\ \A i \in 1..(rounds - 1) : ~ Stops(replies[i])
LEMMA LoopStops ==
  ASSUME NEW replies \in Seq(Replied), Len(replies) >= MaxRounds
  PROVE  IsLoop(replies, Min({i \in DOMAIN replies : Stops(replies[i])} \cup {MaxRounds}))
<1> DEFINE n == Len(replies)
           T == {i \in DOMAIN replies : Stops(replies[i])} \cup {MaxRounds}
           m == Min(T)
<1>1. n \in Nat /\ DOMAIN replies = 1..n /\ MaxRounds = 3 /\ n >= 3
  BY DEF MaxRounds
<1>2. T \in SUBSET Int /\ T # {} /\ (\A k \in T : 1 <= k) /\ 1 \in Int
  BY <1>1
<1>3. m \in T /\ \A k \in T : m <= k
  <2> HIDE DEF T
  <2> QED BY <1>2, MinOfBounded
<1> HIDE DEF m, n
<1>4. /\ m \in 1..MaxRounds /\ (m < MaxRounds => Stops(replies[m]))
      /\ \A i \in 1..(m - 1) : ~ Stops(replies[i])
  <2>1. m \in 1..MaxRounds
    BY <1>1, <1>2, <1>3
  <2>2. m < MaxRounds => Stops(replies[m])
    BY <1>1, <1>3
  <2>3. ASSUME NEW i \in 1..(m - 1) PROVE ~ Stops(replies[i])
    <3>1. i \in DOMAIN replies /\ ~ m <= i
      BY <1>1, <2>1
    <3> QED BY <1>3, <3>1
  <2> QED BY <2>1, <2>2, <2>3
<1> QED BY <1>4 DEF IsLoop, m

\* What a loop has asked for, spent and cost behind its first k rounds.
UsageOf(replies, k) == Counted(replies[k].usage)
LoopState(model, replies, rounds, fl, P, Q, k, r) ==
  /\ r.outcome = "going" /\ r.asked = k /\ r.log = <<>>
  /\ r.handled = Kept(IF k = 0 THEN <<>> ELSE fl[k], Handlers)
  /\ r.spent.prompt = P[1..k] /\ CostUsd(model, r.spent) = Q[1..k]
Loops(model, replies, rounds, fl, P, Q) ==
  /\ IsLoop(replies, rounds)
  /\ Flattens([i \in 1..rounds |-> AsksOf(replies[i])], ToolKinds, fl)
  /\ Sums(P, 1..rounds, [i \in 1..rounds |-> UsageOf(replies, i).prompt])
  /\ Sums(Q, 1..rounds, [i \in 1..rounds |-> CostUsd(model, UsageOf(replies, i))])

LEMMA AsksFacts ==
  ASSUME NEW reply \in Replied
  PROVE  AsksOf(reply) \in Seq(ToolKinds)
<1>1. reply.calls \in Seq(ToolKinds)
  BY DEF Replied
<1>2. FirstOf(reply.calls) \in 0..Len(reply.calls)
  BY <1>1, FirstFails
<1>3. SubSeq(reply.calls, 1, FirstOf(reply.calls)) \in Seq(ToolKinds)
  <2> DEFINE c == reply.calls
             m == FirstOf(c)
  <2>1. c \in Seq(ToolKinds) /\ m \in 0..Len(c)
    BY <1>1, <1>2
  <2> HIDE DEF c, m
  <2>2. SubSeq(c, 1, m) \in Seq(ToolKinds)
    BY <2>1
  <2> QED BY <2>2 DEF c, m
<1>4. <<>> \in Seq(ToolKinds)
  OBVIOUS
<1> QED BY <1>3, <1>4 DEF AsksOf

\* A round of a loop, and what it leaves.
LoopLeaves(model, replies, fl, P, Q, k, r) ==
  /\ r.asked = k /\ r.handled = Kept(fl[k], Handlers)
  /\ (r.outcome = "going") = ~ Stops(replies[k]) /\ (r.outcome = "returned") = Answering(replies[k])
  /\ IF Answering(replies[k])
     THEN \E v : r.log = <<LogLine(model, v)>> /\ v.prompt = P[1..k] /\ CostUsd(model, v) = Q[1..k]
     ELSE r.log = <<>>
  /\ r.outcome = "going" => r.spent.prompt = P[1..k] /\ CostUsd(model, r.spent) = Q[1..k]

LEMMA LoopTurn ==
  ASSUME NEW model \in DOMAIN Prices, NEW replies \in Seq(Replied), Len(replies) >= MaxRounds,
         NEW rounds, NEW fl, NEW P, NEW Q, Loops(model, replies, rounds, fl, P, Q),
         NEW k \in 0..(rounds - 1), NEW r \in RunState(model),
         LoopState(model, replies, rounds, fl, P, Q, k, r)
  PROVE  LoopLeaves(model, replies, fl, P, Q, k + 1, Round(model, r, replies[k + 1]))
<1> DEFINE before == IF k = 0 THEN <<>> ELSE fl[k]
           reply == replies[k + 1]
           t == Round(model, r, reply)
           u == Counted(reply.usage)
           v == Plus(r.spent, u)
           parts == [i \in 1..rounds |-> AsksOf(replies[i])]
<1>1. /\ rounds \in 1..3 /\ k + 1 \in 1..rounds /\ k \in Nat /\ k + 1 \in DOMAIN replies /\ reply \in Replied
      /\ 1..(k + 1) = (1..k) \cup {k + 1} /\ k + 1 \in (1..rounds) \ (1..k)
      /\ 1..k \in SUBSET (1..rounds)
  <2>1. rounds \in 1..3
    BY DEF Loops, IsLoop, MaxRounds
  <2>2. Len(replies) >= 3 /\ Len(replies) \in Nat /\ DOMAIN replies = 1..Len(replies)
    BY DEF MaxRounds
  <2> QED BY <2>1, <2>2
<1>2. /\ fl \in [1..rounds -> Seq(ToolKinds)]
      /\ \A i \in 1..rounds : fl[i] = IF i = 1 THEN AsksOf(replies[i]) ELSE fl[i - 1] \o AsksOf(replies[i])
  <2>1. Flattens(parts, ToolKinds, fl) /\ rounds \in Nat
    BY <1>1 DEF Loops
  <2>2. Len(parts) = rounds
    BY <1>1
  <2>3. \A i \in 1..rounds : parts[i] = AsksOf(replies[i])
    OBVIOUS
  <2> HIDE DEF parts
  <2> QED BY <2>1, <2>2, <2>3 DEF Flattens
<1>3. reply \in Replied /\ AsksOf(reply) \in Seq(ToolKinds) /\ before \in Seq(ToolKinds)
  <2>1. k # 0 => k \in 1..rounds
    BY <1>1
  <2>2. <<>> \in Seq(ToolKinds)
    OBVIOUS
  <2> HIDE DEF reply
  <2> QED BY <1>1, <1>2, <2>1, <2>2, AsksFacts
<1>4. before \o AsksOf(reply) = fl[k + 1]
  <2>1. CASE k = 0
    <3>1. before = <<>> /\ fl[k + 1] = AsksOf(reply)
      <4>1. k + 1 = 1 /\ 1 \in 1..rounds /\ reply = replies[1]
        BY <1>1, <2>1
      <4>2. fl[1] = AsksOf(replies[1])
        BY <1>2, <4>1
      <4> QED BY <2>1, <4>1, <4>2
    <3> HIDE DEF before, reply
    <3> QED BY <1>3, <3>1
  <2>2. CASE k # 0
    <3>1. k + 1 # 1 /\ (k + 1) - 1 = k /\ before = fl[k]
      BY <1>1, <2>2
    <3> QED BY <1>1, <1>2, <3>1
  <2> QED BY <2>1, <2>2
<1>5. /\ r.outcome = "going" /\ r.asked = k /\ r.log = <<>> /\ r.handled = Kept(before, Handlers)
      /\ r.spent.prompt = P[1..k] /\ CostUsd(model, r.spent) = Q[1..k]
  BY DEF LoopState
<1> HIDE DEF before, reply, t, u, v
<1>6. RoundMakes(model, r, reply, before, t)
  BY <1>3, <1>5, RoundTurns DEF t
<1>7. v.prompt = P[1..(k + 1)] /\ CostUsd(model, v) = Q[1..(k + 1)]
  <2>1. r.spent \in [prompt : Nat, completion : Nat] /\ u \in [prompt : Nat, completion : Nat]
    <3>1. r.spent \in [prompt : Nat, completion : Nat]
      BY DEF RunState
    <3> QED BY <1>3, <3>1, UsageCounted DEF u
  <2>2. CostUsd(model, v) = CostUsd(model, r.spent) + CostUsd(model, u) /\ v.prompt = r.spent.prompt + u.prompt
        /\ CostUsd(model, u) \in Int
    BY <2>1, CostAdds DEF v
  <2>3. P[(1..k) \cup {k + 1}] = u.prompt + P[1..k] /\ P[1..k] \in Int
    <3> DEFINE f == [i \in 1..rounds |-> UsageOf(replies, i).prompt]
    <3>1. Sums(P, 1..rounds, f)
      BY DEF Loops
    <3>2. f[k + 1] = u.prompt
      BY <1>1 DEF UsageOf, u, reply
    <3> HIDE DEF f
    <3> DEFINE S == 1..rounds
               T == 1..k
               x == k + 1
    <3>s. T \in SUBSET S /\ x \in S \ T /\ Sums(P, S, f)
      BY <1>1, <3>1
    <3> HIDE DEF S, T, x
    <3>t. P[T \cup {x}] = f[x] + P[T] /\ P[T] \in Int
      BY <3>s, SumTakes
    <3>3. P[(1..k) \cup {k + 1}] = f[k + 1] + P[1..k] /\ P[1..k] \in Int
      BY <3>t DEF T, x
    <3> QED BY <3>2, <3>3
  <2>4. Q[(1..k) \cup {k + 1}] = CostUsd(model, u) + Q[1..k] /\ Q[1..k] \in Int
    <3> DEFINE f == [i \in 1..rounds |-> CostUsd(model, UsageOf(replies, i))]
    <3>1. Sums(Q, 1..rounds, f)
      BY DEF Loops
    <3>2. f[k + 1] = CostUsd(model, u)
      BY <1>1 DEF UsageOf, u, reply
    <3> HIDE DEF f
    <3> DEFINE S == 1..rounds
               T == 1..k
               x == k + 1
    <3>s. T \in SUBSET S /\ x \in S \ T /\ Sums(Q, S, f)
      BY <1>1, <3>1
    <3> HIDE DEF S, T, x
    <3>t. Q[T \cup {x}] = f[x] + Q[T] /\ Q[T] \in Int
      BY <3>s, SumTakes
    <3>3. Q[(1..k) \cup {k + 1}] = f[k + 1] + Q[1..k] /\ Q[1..k] \in Int
      BY <3>t DEF T, x
    <3> QED BY <3>2, <3>3
  <2>5. u.prompt \in Int
    BY <2>1
  <2>6. P[1..(k + 1)] = P[(1..k) \cup {k + 1}] /\ Q[1..(k + 1)] = Q[(1..k) \cup {k + 1}]
    BY <1>1
  <2> QED BY <1>5, <2>2, <2>3, <2>4, <2>5, <2>6
<1>8. /\ t.asked = k + 1 /\ t.handled = Kept(fl[k + 1], Handlers)
      /\ (t.outcome = "going") = ~ Stops(reply) /\ (t.outcome = "returned") = Answering(reply)
      /\ t.log = IF Answering(reply) THEN <<LogLine(model, v)>> ELSE <<>>
      /\ t.outcome = "going" => t.spent = v
  BY <1>4, <1>5, <1>6 DEF RoundMakes, v, u
<1>9. IF Answering(reply)
      THEN \E w : t.log = <<LogLine(model, w)>> /\ w.prompt = P[1..(k + 1)] /\ CostUsd(model, w) = Q[1..(k + 1)]
      ELSE t.log = <<>>
  BY <1>7, <1>8
<1>10. t.outcome = "going" => t.spent.prompt = P[1..(k + 1)] /\ CostUsd(model, t.spent) = Q[1..(k + 1)]
  BY <1>7, <1>8
<1> QED BY <1>8, <1>9, <1>10 DEF LoopLeaves, t, reply

LEMMA LoopEnds ==
  ASSUME NEW model \in DOMAIN Prices, NEW replies \in Seq(Replied), Len(replies) >= MaxRounds,
         NEW rounds, NEW fl, NEW P, NEW Q, Loops(model, replies, rounds, fl, P, Q)
  PROVE  LET end == RoundsAll(model, SubSeq(replies, 1, MaxRounds))
         IN end \in RunState(model) /\ LoopLeaves(model, replies, fl, P, Q, rounds, end)
<1> DEFINE taken == SubSeq(replies, 1, 3)
           n == rounds - 1
<1>1. taken \in Seq(Replied) /\ Len(taken) = 3 /\ (\A i \in 1..3 : taken[i] = replies[i] /\ replies[i] \in Replied)
      /\ Len(replies) >= 3
  BY DEF MaxRounds
<1>2. rounds \in 1..3 /\ n \in Nat /\ n + 1 = rounds /\ (rounds < 3 => Stops(replies[rounds]))
      /\ \A i \in 1..n : ~ Stops(replies[i])
  BY DEF Loops, IsLoop, MaxRounds
<1> HIDE DEF taken
<1>3. PICK f : RoundsRun(model, taken, f)
  BY <1>1, RoundsRuns
<1>4. /\ f \in [0..3 -> RunState(model)] /\ f[0] = Started
      /\ (\A k \in 1..3 : f[k] = Round(model, f[k - 1], replies[k]))
      /\ f[3] = RoundsAll(model, taken)
  BY <1>1, <1>3 DEF RoundsRun
<1> DEFINE Holds(k) == LoopState(model, replies, rounds, fl, P, Q, k, f[k])
           K == {k \in Nat : k \in 0..n => Holds(k)}
<1>5. ASSUME NEW k \in 0..n, Holds(k) PROVE LoopLeaves(model, replies, fl, P, Q, k + 1, f[k + 1])
  <2>1. k + 1 \in 1..3 /\ (k + 1) - 1 = k /\ k \in 0..3 /\ k \in 0..(rounds - 1)
    BY <1>2
  <2>2. f[k + 1] = Round(model, f[k], replies[k + 1]) /\ f[k] \in RunState(model)
    BY <1>4, <2>1
  <2>3. LoopLeaves(model, replies, fl, P, Q, k + 1, Round(model, f[k], replies[k + 1]))
    BY <1>5, <2>1, <2>2, LoopTurn
  <2> QED BY <2>2, <2>3
<1>6. Holds(0)
  <2>1. P[{}] = 0 /\ Q[{}] = 0
    BY DEF Loops, Sums
  <2>2. 1..0 = {}
    OBVIOUS
  <2>3. CostUsd(model, Tokens(0, 0)) = 0
    <3> DEFINE p == Prices[model].input
               q == Prices[model].output
    <3>1. p \in Nat /\ q \in Nat
      BY DEF Prices
    <3>2. CostUsd(model, Tokens(0, 0)) = 0 * p + 0 * q
      BY DEF CostUsd, Tokens
    <3> HIDE DEF p, q
    <3> QED BY <3>1, <3>2
  <2>4. Kept(<<>>, Handlers) = <<>>
    <3>1. <<>> \in Seq(ToolKinds) /\ "served" \in ToolKinds
      BY DEF ToolKinds
    <3> QED BY <3>1, KeptAppends
  <2>5. /\ Started.outcome = "going" /\ Started.asked = 0 /\ Started.log = <<>> /\ Started.handled = <<>>
        /\ Started.spent = Tokens(0, 0) /\ Started.spent.prompt = 0
    BY DEF Started, Tokens
  <2> QED BY <1>4, <2>1, <2>2, <2>3, <2>4, <2>5 DEF LoopState
<1>7. ASSUME NEW k \in 0..(n - 1), k \in K PROVE k + 1 \in K
  <2>1. k \in 0..n /\ k + 1 \in 1..n /\ k + 1 \in Nat /\ k + 1 \in 1..3 /\ k + 1 # 0
    BY <1>2
  <2>2. Holds(k)
    BY <1>7, <2>1
  <2>3. LoopLeaves(model, replies, fl, P, Q, k + 1, f[k + 1])
    BY <1>5, <2>1, <2>2
  <2>4. ~ Stops(replies[k + 1])
    BY <1>2, <2>1
  <2>5. ~ Answering(replies[k + 1])
    BY <2>4 DEF Answering, Stops
  <2>6. Holds(k + 1)
    BY <2>1, <2>3, <2>4, <2>5 DEF LoopLeaves, LoopState
  <2> HIDE DEF Holds
  <2> QED BY <2>1, <2>6
<1>8. n \in K
  <2>1. 0 \in K
    BY <1>6
  <2> HIDE DEF K
  <2>2. 0..n \subseteq K
    BY <1>2, <1>7, <2>1, Induction
  <2> QED BY <1>2, <2>2
<1>9. LoopLeaves(model, replies, fl, P, Q, rounds, f[rounds])
  <2>1. n \in 0..n
    BY <1>2
  <2>2. Holds(n)
    BY <1>8, <2>1
  <2> HIDE DEF Holds
  <2>3. LoopLeaves(model, replies, fl, P, Q, n + 1, f[n + 1])
    BY <1>5, <2>1, <2>2
  <2> QED BY <1>2, <2>3
<1> HIDE DEF K, Holds, n
<1>10. f[3] = f[rounds]
  <2>1. ASSUME NEW k \in 1..3, f[k - 1].outcome # "going" PROVE f[k] = f[k - 1]
    <3>1. f[k] = Round(model, f[k - 1], replies[k]) /\ f[k - 1] \in RunState(model) /\ replies[k] \in Replied
      BY <1>1, <1>4
    <3> QED BY <2>1, <3>1, RoundTurns
  <2>2. rounds < 3 => f[rounds].outcome # "going"
    BY <1>2, <1>9 DEF LoopLeaves
  <2>3. CASE rounds = 3
    BY <2>3
  <2>4. CASE rounds = 2
    BY <2>1, <2>2, <2>4
  <2>5. CASE rounds = 1
    <3>1. f[2] = f[1]
      BY <2>1, <2>2, <2>5
    <3>2. f[3] = f[2]
      BY <2>1, <2>2, <2>5, <3>1
    <3> QED BY <2>5, <3>1, <3>2
  <2> QED BY <1>2, <2>3, <2>4, <2>5
<1>11. f[3] \in RunState(model)
  BY <1>4
<1> QED BY <1>4, <1>9, <1>10, <1>11 DEF taken, MaxRounds

\* client.py: a loop asks for no more than its rounds, its handlers run in the
\* order asked for and never behind a request that fails, and an answer is
\* accounted for once, with every round it took, at the sum of their costs.
THEOREM ToolLoopsAccounted ==
  ASSUME NEW model \in DOMAIN Prices, NEW replies \in Seq(Replied), Len(replies) >= MaxRounds
  PROVE  ToolLoopAccounted(model, replies)
<1> DEFINE run == CompleteWithTools(model, replies)
           rounds == Min({i \in DOMAIN replies : Stops(replies[i])} \cup {MaxRounds})
           parts == [i \in 1..rounds |-> AsksOf(replies[i])]
           prompts == [i \in 1..rounds |-> UsageOf(replies, i).prompt]
           costs == [i \in 1..rounds |-> CostUsd(model, UsageOf(replies, i))]
           asked == FlattenSeq(parts)
           end == RoundsAll(model, SubSeq(replies, 1, MaxRounds))
<1>1. run = IF end.outcome = "going" THEN [end EXCEPT !.outcome = "LlmOutputError"] ELSE end
  <2>1. Min({MaxRounds, Len(replies)}) = MaxRounds
    BY MinOfTwo DEF MaxRounds
  <2> QED BY <2>1 DEF CompleteWithTools, RoundsAll
<1>2. IsLoop(replies, rounds)
  BY LoopStops
<1> HIDE DEF rounds, run, end
<1>3. rounds \in 1..3 /\ (\A i \in 1..rounds : replies[i] \in Replied) /\ rounds <= MaxRounds
  BY <1>2 DEF IsLoop, MaxRounds
<1>4. PICK fl : Flattens(parts, ToolKinds, fl)
  <2>1. parts \in Seq(Seq(ToolKinds)) /\ Len(parts) > 0
    <3>1. \A i \in 1..rounds : AsksOf(replies[i]) \in Seq(ToolKinds)
      BY <1>3, AsksFacts
    <3> QED BY <1>3, <3>1
  <2> HIDE DEF parts
  <2> QED BY <2>1, FlattenRuns
<1>5. asked = fl[rounds]
  <2>1. Len(parts) = rounds
    BY <1>3
  <2> HIDE DEF parts
  <2> QED BY <1>4, <2>1 DEF Flattens
<1>u. \A i \in 1..rounds : UsageOf(replies, i) \in [prompt : Nat, completion : Nat]
  <2>1. Tokens(0, 0) \in [prompt : Nat, completion : Nat]
    BY DEF Tokens
  <2> QED BY <1>3, <2>1, UsageCounted DEF UsageOf
<1>6. PICK P : Sums(P, 1..rounds, prompts) /\ SumFunction(prompts) = P[1..rounds]
  <2>1. prompts \in [1..rounds -> Int] /\ IsFiniteSet(1..rounds)
    BY <1>3, <1>u, FS_Interval
  <2> HIDE DEF prompts
  <2> QED BY <2>1, SumsExist
<1>7. PICK Q : Sums(Q, 1..rounds, costs) /\ SumFunction(costs) = Q[1..rounds]
  <2>1. costs \in [1..rounds -> Int] /\ IsFiniteSet(1..rounds)
    BY <1>3, <1>u, FS_Interval, CostAdds
  <2> HIDE DEF costs
  <2> QED BY <2>1, SumsExist
<1>8. Loops(model, replies, rounds, fl, P, Q)
  BY <1>2, <1>4, <1>6, <1>7 DEF Loops
<1>9. end \in RunState(model) /\ LoopLeaves(model, replies, fl, P, Q, rounds, end)
  BY <1>8, LoopEnds DEF end
<1> DEFINE last == replies[rounds]
<1> HIDE DEF parts, prompts, costs, last, asked
<1>10. /\ end.asked = rounds /\ end.handled = Kept(asked, Handlers)
       /\ (end.outcome = "returned") = Answering(last)
       /\ IF Answering(last)
          THEN \E v : end.log = <<LogLine(model, v)>> /\ v.prompt = P[1..rounds] /\ CostUsd(model, v) = Q[1..rounds]
          ELSE end.log = <<>>
  BY <1>5, <1>9 DEF LoopLeaves, last
<1>11. /\ run.asked = end.asked /\ run.handled = end.handled /\ run.log = end.log
       /\ (run.outcome = "returned") = (end.outcome = "returned")
  <2>1. CASE end.outcome = "going"
    <3>1. run = [end EXCEPT !.outcome = "LlmOutputError"]
      BY <1>1, <2>1
    <3> QED BY <1>9, <2>1, <3>1 DEF RunState
  <2>2. CASE end.outcome # "going"
    BY <1>1, <2>2
  <2> QED BY <2>1, <2>2
<1>12. Answering(last) => run.log[1].tokens.prompt = SumFunction(prompts) /\ run.log[1].cost = SumFunction(costs)
       /\ Len(run.log) = 1
  <2> SUFFICES ASSUME Answering(last)
               PROVE  run.log[1].tokens.prompt = SumFunction(prompts) /\ run.log[1].cost = SumFunction(costs)
                      /\ Len(run.log) = 1
    OBVIOUS
  <2>1. PICK v : end.log = <<LogLine(model, v)>> /\ v.prompt = P[1..rounds] /\ CostUsd(model, v) = Q[1..rounds]
    BY <1>10
  <2>2. run.log = <<LogLine(model, v)>>
    BY <1>11, <2>1
  <2>3. run.log[1] = LogLine(model, v) /\ Len(run.log) = 1
    BY <2>2
  <2>4. run.log[1].tokens = v /\ run.log[1].cost = CostUsd(model, v)
    BY <2>3 DEF LogLine
  <2> QED BY <1>6, <1>7, <2>1, <2>3, <2>4
<1>13. ~ Answering(last) => Len(run.log) = 0
  BY <1>10, <1>11
<1>14. /\ run.asked = rounds /\ rounds <= MaxRounds
       /\ run.handled = Kept(asked, Handlers) /\ (run.outcome = "returned") = Answering(last)
       /\ Len(run.log) = (IF Answering(last) THEN 1 ELSE 0)
       /\ Answering(last) => run.log[1].tokens.prompt = SumFunction(prompts) /\ run.log[1].cost = SumFunction(costs)
  BY <1>3, <1>10, <1>11, <1>12, <1>13
<1> QED BY <1>14 DEF ToolLoopAccounted, run, rounds, last, Answering, Stops, asked, parts, AsksOf, FirstOf,
                    Failing, prompts, costs, UsageOf, Kept, Handlers

\* client.py: a loop whose model asks for no tool costs and ends as the plain
\* call with the same reply does.
THEOREM PlainLoops ==
  ASSUME NEW model \in DOMAIN Prices, NEW reply \in Replied
  PROVE  PlainLoopIsComplete(model, reply)
<1> SUFFICES ASSUME reply.status \in {"parsed", "failed"}, reply.calls = <<>>
             PROVE  LET run == CompleteWithTools(model, <<reply>>)
                    IN <<run.outcome, run.log>> = <<Complete(model, reply).outcome, Complete(model, reply).log>>
  BY DEF PlainLoopIsComplete
<1> DEFINE replies == <<reply>>
           run == CompleteWithTools(model, replies)
           end == RoundsAll(model, replies)
           u == Counted(reply.usage)
           spent == Plus(Tokens(0, 0), u)
<1>1. replies \in Seq(Replied) /\ Len(replies) = 1 /\ replies[1] = reply /\ SubSeq(replies, 1, 1) = replies
  <2>1. replies \in Seq(Replied) /\ Len(replies) = 1 /\ replies[1] = reply
    OBVIOUS
  <2> HIDE DEF replies
  <2>2. SubSeq(replies, 1, 1) \in Seq(Replied) /\ Len(SubSeq(replies, 1, 1)) = 1
        /\ SubSeq(replies, 1, 1)[1] = replies[1]
    BY <2>1
  <2>3. SubSeq(replies, 1, 1) = replies
    BY <2>1, <2>2
  <2> QED BY <2>1, <2>3
<1>2. run = IF end.outcome = "going" THEN [end EXCEPT !.outcome = "LlmOutputError"] ELSE end
  <2>1. Min({MaxRounds, Len(replies)}) = 1
    BY <1>1, MinOfTwo DEF MaxRounds
  <2> HIDE DEF replies
  <2> QED BY <1>1, <2>1 DEF CompleteWithTools, RoundsAll
<1>3. end = Round(model, Started, reply)
  <2> HIDE DEF replies
  <2>1. PICK f : RoundsRun(model, replies, f)
    BY <1>1, RoundsRuns
  <2>2. f[0] = Started /\ f[1] = Round(model, f[1 - 1], replies[1]) /\ f[1] = end
    BY <1>1, <2>1 DEF RoundsRun
  <2>3. 1 - 1 = 0
    OBVIOUS
  <2> HIDE DEF end
  <2> QED BY <1>1, <2>2, <2>3
<1> HIDE DEF run, end, replies
<1>4. spent = u
  <2>1. u \in [prompt : Nat, completion : Nat]
    <3>1. Tokens(0, 0) \in [prompt : Nat, completion : Nat]
      BY DEF Tokens
    <3> QED BY <3>1, UsageCounted
  <2> HIDE DEF u
  <2>2. spent = [prompt |-> 0 + u.prompt, completion |-> 0 + u.completion]
    BY DEF Plus, Tokens
  <2>3. u = [prompt |-> u.prompt, completion |-> u.completion]
    BY <2>1
  <2>4. 0 + u.prompt = u.prompt /\ 0 + u.completion = u.completion
    BY <2>1
  <2> QED BY <2>2, <2>3, <2>4
<1> HIDE DEF u, spent
<1>5. Started.outcome = "going" /\ Started.spent = Tokens(0, 0) /\ Started.log = <<>>
      /\ DOMAIN Started = {"outcome", "asked", "spent", "handled", "log"}
  BY DEF Started
<1>6. CASE reply.status = "failed"
  <2>1. end = [Started EXCEPT !.asked = Started.asked + 1, !.outcome = "LlmCallError"]
    BY <1>3, <1>5, <1>6 DEF Round
  <2>2. end.outcome = "LlmCallError" /\ end.log = <<>>
    BY <1>5, <2>1 DEF Started
  <2>3. run.outcome = "LlmCallError" /\ run.log = <<>>
    BY <1>2, <2>2
  <2>4. Complete(model, reply) = [outcome |-> "LlmCallError", log |-> <<>>]
    BY <1>6 DEF Complete, CompleteStructured
  <2> QED BY <2>3, <2>4 DEF run, replies
<1>7. CASE reply.status = "parsed"
  <2> DEFINE line == <<LogLine(model, u)>>
  <2>1. end = [Started EXCEPT !.asked = Started.asked + 1, !.outcome = "returned", !.log = line]
    <3>1. line = <<LogLine(model, Plus(Started.spent, Counted(reply.usage)))>>
      BY <1>4, <1>5 DEF spent, u
    <3> QED BY <1>3, <1>5, <1>7, <3>1 DEF Round
  <2> HIDE DEF line
  <2>2. end.outcome = "returned" /\ end.log = line
    BY <1>5, <2>1 DEF Started
  <2>3. run.outcome = "returned" /\ run.log = line
    BY <1>2, <2>2
  <2>4. Complete(model, reply) = [outcome |-> "returned", log |-> line]
    BY <1>7 DEF Complete, CompleteStructured, line, u
  <2> QED BY <2>3, <2>4 DEF run, replies
<1> QED BY <1>6, <1>7

-----------------------------------------------------------------------------
(* Rank fusion (search.py)                                                 *)

\* Points are shares of one product: the better the rank, the more of it.
LEMMA PointsScale ==
  ASSUME NEW depth \in Nat
  PROVE  \E all \in Positive : \A rank \in 1..depth :
           Points(rank, depth) \in Positive /\ (RrfK + rank) * Points(rank, depth) = all
<1> DEFINE U == {RrfK + r : r \in 1..depth}
<1>1. RrfK \in Nat
  BY RetrievalAssumption
<1>2. U \in SUBSET Positive /\ IsFiniteSet(U)
  <2>1. U \subseteq RrfK..(RrfK + depth) /\ IsFiniteSet(RrfK..(RrfK + depth))
    BY <1>1, FS_Interval
  <2>2. IsFiniteSet(U)
    BY <2>1, FS_Subset
  <2>3. \A r \in 1..depth : RrfK + r \in Positive
    BY <1>1 DEF Positive
  <2> QED BY <2>2, <2>3
<1> DEFINE f == [x \in U |-> x]
<1>3. PICK P : Products(P, U, f)
  BY <1>2, ProductOfSet
<1>4. /\ P \in [SUBSET U -> Positive]
      /\ \A T \in SUBSET U : \A x \in T : P[T] = x * P[T \ {x}]
  BY <1>3 DEF Products
<1>5. ASSUME NEW rank \in 1..depth
      PROVE  Points(rank, depth) \in Positive /\ (RrfK + rank) * Points(rank, depth) = P[U]
  <2> DEFINE x == RrfK + rank
             T == U \ {x}
  <2>1. {RrfK + r : r \in (1..depth) \ {rank}} = T /\ x \in U
    <3>1. \A r \in 1..depth : RrfK + r = x <=> r = rank
      BY <1>1
    <3> QED BY <3>1
  <2>2. Points(rank, depth) = ProductSet(T)
    BY <2>1 DEF Points
  <2>3. T \in SUBSET Positive /\ IsFiniteSet(T) /\ T \in SUBSET U
    BY <1>2, FS_Subset
  <2> HIDE DEF T, x, U
  <2> DEFINE g == [y \in T |-> y]
  <2>4. PICK Q : Products(Q, T, g) /\ ProductSet(T) = Q[T]
    BY <2>3, ProductOfSet
  <2>5. g \in [T -> Positive] /\ \A y \in T : g[y] = f[y]
    BY <2>3
  <2>6. Q[T] = P[T]
    <3>1. T \in SUBSET T
      OBVIOUS
    <3> HIDE DEF f, g
    <3> QED BY <1>3, <2>3, <2>4, <2>5, <3>1, ProductsWithin
  <2>7. P[U] = x * P[T] /\ P[T] \in Positive
    BY <1>4, <2>1, <2>3 DEF T
  <2> QED BY <2>2, <2>4, <2>6, <2>7 DEF x
<1>6. P[U] \in Positive
  BY <1>4
<1> QED BY <1>5, <1>6

\* More for a better rank, and two of them, however late, for more than one
\* while there are no more ranks than RRF_K.
LEMMA PointsCompare ==
  ASSUME NEW depth \in Nat, NEW a \in 1..depth, NEW b \in 1..depth, NEW c \in 1..depth
  PROVE  /\ Points(a, depth) \in Positive /\ Points(b, depth) \in Positive /\ Points(c, depth) \in Positive
         /\ a < b => Points(a, depth) > Points(b, depth)
         /\ depth <= RrfK + 1 => Points(a, depth) + Points(b, depth) > Points(c, depth)
<1>0. RrfK \in Nat
  BY RetrievalAssumption
<1>1. PICK all \in Positive : \A rank \in 1..depth :
        Points(rank, depth) \in Positive /\ (RrfK + rank) * Points(rank, depth) = all
  BY PointsScale
<1> DEFINE p == Points(a, depth)
           q == Points(b, depth)
           r == Points(c, depth)
<1>2. /\ p \in Nat /\ q \in Nat /\ r \in Nat /\ p > 0 /\ q > 0 /\ r > 0 /\ all \in Nat
      /\ (RrfK + a) * p = all /\ (RrfK + b) * q = all /\ (RrfK + c) * r = all
  BY <1>1 DEF Positive
<1> HIDE DEF p, q, r
<1>m. \A x, y, z \in Nat : x <= y => x * z <= y * z
  OBVIOUS
<1>3. ASSUME a < b PROVE p > q
  <2> SUFFICES ASSUME p <= q PROVE FALSE
    BY <1>2
  <2> DEFINE x == RrfK + a
             y == RrfK + b
  <2>1. x \in Nat /\ y \in Nat /\ x < y /\ x * p = y * q
    BY <1>0, <1>2, <1>3
  <2> HIDE DEF x, y
  <2>2. p * x <= q * x
    BY <1>2, <1>m, <2>1
  <2>3. (x + 1) * q <= y * q
    <3>1. x + 1 \in Nat /\ x + 1 <= y
      BY <2>1
    <3> QED BY <1>2, <1>m, <2>1, <3>1
  <2>4. (x + 1) * q = x * q + q /\ p * x = x * p /\ q * x = x * q /\ x * q \in Nat
    BY <1>2, <2>1
  <2> QED BY <1>2, <2>1, <2>2, <2>3, <2>4
<1>4. ASSUME depth <= RrfK + 1 PROVE p + q > r
  <2> SUFFICES ASSUME p + q <= r PROVE FALSE
    BY <1>2
  <2> DEFINE x == RrfK + a
             y == RrfK + b
             z == RrfK + c
             m == RrfK + depth
  <2>1. x \in Nat /\ y \in Nat /\ z \in Nat /\ m \in Nat /\ x <= m /\ y <= m /\ m + 1 <= z + z
        /\ x * p = all /\ y * q = all /\ z * r = all
    BY <1>0, <1>2, <1>4
  <2> HIDE DEF x, y, z, m
  <2>2. all <= m * p /\ all <= m * q
    BY <1>2, <1>m, <2>1
  <2>3. (p + q) * m <= r * m
    <3>1. p + q \in Nat
      BY <1>2
    <3> QED BY <1>2, <1>m, <2>1, <3>1
  <2>4. (m + 1) * r <= (z + z) * r
    <3>1. m + 1 \in Nat /\ z + z \in Nat
      BY <2>1
    <3> QED BY <1>2, <1>m, <2>1, <3>1
  <2>5. /\ (p + q) * m = m * p + m * q /\ r * m = m * r /\ (m + 1) * r = m * r + r
        /\ (z + z) * r = z * r + z * r
        /\ m * p \in Nat /\ m * q \in Nat /\ m * r \in Nat /\ z * r \in Nat
    BY <1>2, <2>1
  <2> QED BY <1>2, <2>1, <2>2, <2>3, <2>4, <2>5
<1> QED BY <1>1, <1>3, <1>4 DEF p, q, r

\* Where an item is in a ranking, and what it scores there.
ScoreIn(ranking, item, depth) ==
  IF item \in ToSet(ranking) THEN Points(Rank(ranking, item), depth) ELSE 0

LEMMA RankFound ==
  ASSUME NEW E, NEW s \in Seq(E), NEW x \in ToSet(s)
  PROVE  Rank(s, x) \in 1..Len(s) /\ s[Rank(s, x)] = x
<1>1. DOMAIN s = 1..Len(s) /\ ToSet(s) = {s[i] : i \in DOMAIN s}
  BY DEF ToSet
<1>2. \E r \in DOMAIN s : s[r] = x
  BY <1>1
<1> QED BY <1>1, <1>2 DEF Rank

LEMMA FlattenTwo ==
  ASSUME NEW E, NEW s \in Seq(E), NEW t \in Seq(E)
  PROVE  FlattenSeq(<<s, t>>) \in Seq(E) /\ ToSet(FlattenSeq(<<s, t>>)) = ToSet(s) \cup ToSet(t)
<1> DEFINE B == Seq(E)
           p == <<s, t>>
<1>1. p \in Seq(B) /\ Len(p) = 2 /\ p[1] = s /\ p[2] = t
  OBVIOUS
<1>2. PICK fl : Flattens(p, E, fl)
  <2>1. p \in Seq(Seq(E)) /\ Len(p) > 0
    BY <1>1
  <2> HIDE DEF p
  <2> QED BY <2>1, FlattenRuns
<1> HIDE DEF p
<1>3. fl[1] = s /\ fl[2] = fl[1] \o t /\ FlattenSeq(p) = fl[2]
  <2>1. /\ fl[1] = p[1] /\ fl[2] = fl[2 - 1] \o p[2] /\ FlattenSeq(p) = fl[2]
    BY <1>1, <1>2 DEF Flattens
  <2>2. 2 - 1 = 1
    OBVIOUS
  <2> QED BY <1>1, <2>1, <2>2
<1>4. s \o t \in Seq(E) /\ ToSet(s \o t) = ToSet(s) \cup ToSet(t)
  BY ConcatSets
<1> QED BY <1>3, <1>4 DEF p

LEMMA SumOfTwo ==
  ASSUME NEW f \in [1..2 -> Int]
  PROVE  SumFunction(f) = f[1] + f[2]
<1> DEFINE S == 1..2
           a == 1
           b == 2
           Z == {}
           T == {a}
<1>1. IsFiniteSet(S) /\ f \in [S -> Int]
  <2>1. a \in Int /\ b \in Int
    OBVIOUS
  <2> HIDE DEF a, b
  <2>2. IsFiniteSet(a..b)
    BY <2>1, FS_Interval
  <2>3. a..b = S
    BY DEF a, b
  <2>4. f \in [S -> Int]
    OBVIOUS
  <2> HIDE DEF S
  <2> QED BY <2>2, <2>3, <2>4
<1>2. /\ Z \in SUBSET S /\ T \in SUBSET S /\ a \in S \ Z /\ b \in S \ T
      /\ T \cup {b} = S /\ Z \cup {a} = T /\ f[a] \in Int /\ f[b] \in Int
  OBVIOUS
<1> HIDE DEF S, a, b, T
<1>3. PICK it : Sums(it, S, f) /\ SumFunction(f) = it[S]
  BY <1>1, SumsExist
<1>4. it[Z] = 0
  BY <1>3 DEF Sums
<1> HIDE DEF Z
<1>5. it[Z \cup {a}] = f[a] + it[Z]
  BY <1>2, <1>3, SumTakes
<1>6. it[T \cup {b}] = f[b] + it[T]
  BY <1>2, <1>3, SumTakes
<1>7. it[S] = f[a] + f[b]
  <2>1. it[T] = f[a] + 0
    BY <1>2, <1>4, <1>5
  <2>2. it[S] = f[b] + it[T]
    BY <1>2, <1>6
  <2> DEFINE u == f[a]
             v == f[b]
  <2>3. u \in Int /\ v \in Int
    BY <1>2
  <2> HIDE DEF u, v
  <2>4. it[S] = v + (u + 0)
    BY <2>1, <2>2 DEF u, v
  <2>5. v + (u + 0) = u + v
    BY <2>3
  <2>6. it[S] = u + v
    BY <2>4, <2>5
  <2> QED BY <2>6 DEF u, v
<1> QED BY <1>3, <1>7 DEF a, b

LEMMA ScoreOfTwo ==
  ASSUME NEW E, NEW s \in Seq(E), NEW t \in Seq(E), NEW x, NEW depth \in Nat,
         Len(s) <= depth, Len(t) <= depth
  PROVE  /\ ScoreIn(s, x, depth) \in Nat /\ ScoreIn(t, x, depth) \in Nat
         /\ Score(<<s, t>>, x, depth) = ScoreIn(s, x, depth) + ScoreIn(t, x, depth)
<1>1. ASSUME NEW r \in Seq(E), Len(r) <= depth PROVE ScoreIn(r, x, depth) \in Nat
  <2>1. CASE x \in ToSet(r)
    <3>1. Rank(r, x) \in 1..Len(r)
      BY <2>1, RankFound
    <3>2. Rank(r, x) \in 1..depth
      BY <1>1, <3>1
    <3> QED BY <2>1, <3>2, PointsCompare DEF ScoreIn, Positive
  <2> QED BY <2>1 DEF ScoreIn
<1>2. ScoreIn(s, x, depth) \in Nat /\ ScoreIn(t, x, depth) \in Nat
  BY <1>1
<1> DEFINE u == ScoreIn(s, x, depth)
           v == ScoreIn(t, x, depth)
           f == [i \in 1..2 |-> IF i = 1 THEN u ELSE v]
           lists == <<s, t>>
<1>3. [i \in DOMAIN lists |-> IF x \in ToSet(lists[i]) THEN Points(Rank(lists[i], x), depth) ELSE 0] = f
  <2>1. DOMAIN lists = 1..2 /\ lists[1] = s /\ lists[2] = t
    OBVIOUS
  <2> HIDE DEF lists
  <2>2. ASSUME NEW i \in 1..2
        PROVE  (IF x \in ToSet(lists[i]) THEN Points(Rank(lists[i], x), depth) ELSE 0) = f[i]
    <3>1. CASE i = 1
      BY <2>1, <3>1 DEF ScoreIn
    <3>2. CASE i = 2
      BY <2>1, <3>2 DEF ScoreIn
    <3> QED BY <3>1, <3>2
  <2> HIDE DEF u, v
  <2> QED BY <2>1, <2>2
<1>4. Score(lists, x, depth) = SumFunction(f)
  BY <1>3 DEF Score
<1> HIDE DEF u, v, lists
<1>5. f \in [1..2 -> Int] /\ f[1] = u /\ f[2] = v
  <2>1. u \in Int /\ v \in Int
    BY <1>2 DEF u, v
  <2>2. \A i \in 1..2 : (IF i = 1 THEN u ELSE v) \in Int
    BY <2>1
  <2>3. 1 \in 1..2 /\ 2 \in 1..2
    OBVIOUS
  <2>4. f[1] = u /\ f[2] = v
    BY <2>3
  <2> QED BY <2>2, <2>4
<1> HIDE DEF f
<1>6. SumFunction(f) = u + v
  BY <1>5, SumOfTwo
<1> QED BY <1>2, <1>4, <1>6 DEF u, v, lists

\* A higher score first, of equal ones what was met first.
ByScore(S, sc, fi) ==
  {p \in S \X S : \/ sc[p[1]] > sc[p[2]]
                  \/ sc[p[1]] = sc[p[2]] /\ fi[p[1]] < fi[p[2]]}
LEMMA ByScoreOrders ==
  ASSUME NEW S, NEW sc \in [S -> Int], NEW fi \in [S -> Int],
         \A x, y \in S : x # y => fi[x] # fi[y]
  PROVE  /\ StrictOrder(S, ByScore(S, sc, fi))
         /\ \A x, y \in S : sc[x] > sc[y] => <<x, y>> \in ByScore(S, sc, fi)
<1>1. \A x, y \in S : <<x, y>> \in ByScore(S, sc, fi) <=>
        sc[x] > sc[y] \/ (sc[x] = sc[y] /\ fi[x] < fi[y])
  BY DEF ByScore
<1>2. \A x \in S : sc[x] \in Int /\ fi[x] \in Int
  OBVIOUS
<1>3. \A x \in S : <<x, x>> \notin ByScore(S, sc, fi)
  BY <1>1, <1>2
<1>4. ASSUME NEW x \in S, NEW y \in S, NEW z \in S, <<x, y>> \in ByScore(S, sc, fi), <<y, z>> \in ByScore(S, sc, fi)
      PROVE  <<x, z>> \in ByScore(S, sc, fi)
  BY <1>1, <1>2, <1>4
<1>5. ASSUME NEW x \in S, NEW y \in S, x # y
      PROVE  <<x, y>> \in ByScore(S, sc, fi) \/ <<y, x>> \in ByScore(S, sc, fi)
  BY <1>1, <1>2, <1>5
<1> QED BY <1>1, <1>3, <1>4, <1>5 DEF StrictOrder

\* Fusion lists what was found once, by score.
FusedByScore(fused, s, t, depth) ==
  LET found == ToSet(s) \cup ToSet(t)
      score(x) == ScoreIn(s, x, depth) + ScoreIn(t, x, depth)
  IN /\ fused \in Seq(found) /\ ToSet(fused) = found /\ Len(fused) = Cardinality(found)
     /\ \A x, y \in found : score(x) > score(y) => Rank(fused, x) < Rank(fused, y)
LEMMA FusionListsByScore ==
  ASSUME NEW E, NEW s \in Seq(E), NEW t \in Seq(E), NEW depth \in Nat,
         Len(s) <= depth, Len(t) <= depth
  PROVE  FusedByScore(RrfFuse(<<s, t>>, depth), s, t, depth)
<1> DEFINE lists == <<s, t>>
           seen == FlattenSeq(lists)
           S == ToSet(seen)
           sc == [x \in S |-> Score(lists, x, depth)]
           fi == [x \in S |-> Rank(seen, x)]
           R == ByScore(S, sc, fi)
           fused == RrfFuse(lists, depth)
<1>1. seen \in Seq(E) /\ S = ToSet(s) \cup ToSet(t)
  BY FlattenTwo
<1>2. IsFiniteSet(S) /\ S \subseteq E
  <2>1. seen \in Seq(E) /\ Len(seen) \in Nat /\ DOMAIN seen = 1..Len(seen)
    BY <1>1
  <2> HIDE DEF seen
  <2>2. S = {seen[i] : i \in 1..Len(seen)} /\ IsFiniteSet(1..Len(seen))
    BY <2>1, FS_Interval DEF ToSet
  <2> DEFINE D == 1..Len(seen)
             f == [i \in D |-> seen[i]]
  <2>3. f \in Surjection(D, S)
    BY <2>2 DEF Surjection
  <2>4. IsFiniteSet(S)
    BY <2>2, <2>3, FS_Surjection
  <2>5. S \subseteq E
    BY <2>1, <2>2
  <2> QED BY <2>4, <2>5
<1>3. \A x \in S : sc[x] = ScoreIn(s, x, depth) + ScoreIn(t, x, depth) /\ sc[x] \in Int
  <2> SUFFICES ASSUME NEW x \in S
               PROVE  sc[x] = ScoreIn(s, x, depth) + ScoreIn(t, x, depth) /\ sc[x] \in Int
    OBVIOUS
  <2> DEFINE u == ScoreIn(s, x, depth)
             v == ScoreIn(t, x, depth)
  <2>1. u \in Nat /\ v \in Nat /\ Score(lists, x, depth) = u + v
    BY ScoreOfTwo
  <2>2. sc[x] = Score(lists, x, depth)
    BY DEF S
  <2> HIDE DEF u, v, sc
  <2> QED BY <2>1, <2>2 DEF u, v
<1>4. \A x \in S : fi[x] \in Int /\ seen[fi[x]] = x
  <2> SUFFICES ASSUME NEW x \in S PROVE fi[x] \in Int /\ seen[fi[x]] = x
    OBVIOUS
  <2>1. fi[x] = Rank(seen, x)
    OBVIOUS
  <2>2. Len(seen) \in Nat
    BY <1>1
  <2> HIDE DEF fi, seen
  <2> QED BY <1>1, <2>1, <2>2, RankFound DEF S
<1>5. sc \in [S -> Int] /\ fi \in [S -> Int]
  <2>1. sc = [x \in S |-> sc[x]] /\ fi = [x \in S |-> fi[x]]
    OBVIOUS
  <2> HIDE DEF sc, fi
  <2> QED BY <1>3, <1>4, <2>1
<1>6. fused = SortedBy(S, R)
  <2> DEFINE Q == {p \in S \X S :
                     \/ Score(lists, p[1], depth) > Score(lists, p[2], depth)
                     \/ /\ Score(lists, p[1], depth) = Score(lists, p[2], depth)
                        /\ Rank(seen, p[1]) < Rank(seen, p[2])}
  <2>1. fused = SortedBy(S, Q)
    BY DEF RrfFuse
  <2>2. \A x \in S : sc[x] = Score(lists, x, depth) /\ fi[x] = Rank(seen, x)
    OBVIOUS
  <2> HIDE DEF sc, fi, S, seen, lists
  <2>3. Q = R
    BY <2>2 DEF ByScore
  <2> QED BY <2>1, <2>3
<1> HIDE DEF sc, fi, S
<1>7. StrictOrder(S, R) /\ \A x, y \in S : sc[x] > sc[y] => <<x, y>> \in R
  <2>1. \A x, y \in S : x # y => fi[x] # fi[y]
    BY <1>4
  <2> QED BY <1>5, <2>1, ByScoreOrders
<1> HIDE DEF R, fused, seen, lists
<1>8. Lists(fused, S, R)
  BY <1>2, <1>6, <1>7, SortedByLists
<1> DEFINE n == Cardinality(S)
<1>9. /\ n \in Nat /\ fused \in [1..n -> S]
      /\ \A i, j \in 1..n : <<fused[i], fused[j]>> \in R <=> i < j
      /\ \A x \in S : \E k \in 1..n : fused[k] = x
  BY <1>8 DEF Lists
<1> HIDE DEF n
<1>10. fused \in Seq(S) /\ Len(fused) = n /\ DOMAIN fused = 1..n
  BY <1>9
<1>11. ToSet(fused) = S
  BY <1>9, <1>10 DEF ToSet
<1>12. ASSUME NEW x \in S, NEW y \in S, sc[x] > sc[y] PROVE Rank(fused, x) < Rank(fused, y)
  <2>1. /\ Rank(fused, x) \in 1..n /\ fused[Rank(fused, x)] = x
        /\ Rank(fused, y) \in 1..n /\ fused[Rank(fused, y)] = y
    BY <1>10, <1>11, RankFound
  <2>2. <<x, y>> \in R
    BY <1>7, <1>12
  <2> QED BY <1>9, <2>1, <2>2
<1> QED BY <1>1, <1>3, <1>10, <1>11, <1>12 DEF FusedByScore, n, fused, lists

\* A list cut at a length it may have.
LEMMA TakenSet ==
  ASSUME NEW E, NEW s \in Seq(E), NEW n \in Nat
  PROVE  \A x \in ToSet(s) \ ToSet(Take(s, n)) : Len(Take(s, n)) = n
<1> DEFINE u == Take(s, n)
<1>1. /\ u \in Seq(E) /\ Len(u) = (IF n <= Len(s) THEN n ELSE Len(s))
      /\ \A k \in 1..Len(u) : u[k] = s[k]
  BY TakeFacts
<1> HIDE DEF u
<1>2. Len(s) \in Nat /\ DOMAIN s = 1..Len(s) /\ DOMAIN u = 1..Len(u)
  BY <1>1
<1>3. ASSUME NEW x \in ToSet(s) \ ToSet(u), Len(u) # n PROVE FALSE
  <2>1. Len(u) = Len(s)
    BY <1>1, <1>3
  <2>2. PICK k \in DOMAIN s : s[k] = x
    BY DEF ToSet
  <2>3. k \in DOMAIN u /\ u[k] = x
    BY <1>1, <1>2, <2>1, <2>2
  <2>4. x \in ToSet(u)
    BY <2>3 DEF ToSet
  <2> QED BY <2>4
<1> QED BY <1>3 DEF u

\* search.py: a chunk both engines found comes before any that one of them
\* found, one that is better in both before the other, and the page is full if
\* they found enough - for rankings of any length, as long as they are cut at
\* no more than RRF_K + 1.
THEOREM FusionFollowsAgreement ==
  ASSUME NEW E, NEW byVector \in Seq(E), NEW byText \in Seq(E), NEW limit \in Nat,
         DepthFactor * limit <= RrfK + 1
  PROVE  HitsFused(byVector, byText, limit)
<1> DEFINE depth == DepthFactor * limit
           s == Take(byVector, depth)
           t == Take(byText, depth)
           lists == <<s, t>>
           fused == RrfFuse(lists, depth)
           hits == HybridHits(byVector, byText, limit)
           found == ToSet(s) \cup ToSet(t)
           points(x) == ScoreIn(s, x, depth) + ScoreIn(t, x, depth)
<1>1. depth \in Nat /\ depth <= RrfK + 1
  BY DEF DepthFactor
<1>2. hits = Take(fused, limit)
  BY DEF HybridHits
<1> HIDE DEF depth, hits
<1>3. s \in Seq(E) /\ t \in Seq(E) /\ Len(s) <= depth /\ Len(t) <= depth /\ Len(s) \in Nat /\ Len(t) \in Nat
  <2>1. Len(byVector) \in Nat /\ Len(byText) \in Nat
    OBVIOUS
  <2>2. /\ s \in Seq(E) /\ Len(s) = (IF depth <= Len(byVector) THEN depth ELSE Len(byVector))
        /\ t \in Seq(E) /\ Len(t) = (IF depth <= Len(byText) THEN depth ELSE Len(byText))
    BY <1>1, TakeFacts
  <2> HIDE DEF s, t
  <2> QED BY <1>1, <2>1, <2>2
<1> HIDE DEF s, t
<1>4. lists[1] = s /\ lists[2] = t
  OBVIOUS
<1>5. FusedByScore(fused, s, t, depth)
  BY <1>1, <1>3, FusionListsByScore
<1> HIDE DEF fused, lists
<1>6. /\ fused \in Seq(found) /\ ToSet(fused) = found /\ Len(fused) = Cardinality(found)
      /\ \A x, y \in found : points(x) > points(y) => Rank(fused, x) < Rank(fused, y)
  BY <1>5 DEF FusedByScore
<1>7. ASSUME NEW l \in Seq(E), Len(l) <= depth, Len(l) \in Nat, NEW x \in ToSet(l)
      PROVE  Rank(l, x) \in 1..depth /\ ScoreIn(l, x, depth) = Points(Rank(l, x), depth)
  <2>1. Rank(l, x) \in 1..Len(l)
    BY RankFound
  <2>2. Rank(l, x) \in 1..depth
    BY <1>1, <1>7, <2>1
  <2> QED BY <2>2 DEF ScoreIn
<1>8. ASSUME NEW x \in found, NEW y \in found, x \in ToSet(s) /\ x \in ToSet(t),
             ~ (y \in ToSet(s) /\ y \in ToSet(t))
      PROVE  points(x) > points(y)
  <2> DEFINE a == Rank(s, x)
             b == Rank(t, x)
  <2>1. a \in 1..depth /\ b \in 1..depth /\ points(x) = Points(a, depth) + Points(b, depth)
    BY <1>3, <1>7, <1>8
  <2>2. \E c \in 1..depth : points(y) = Points(c, depth) + 0 \/ points(y) = 0 + Points(c, depth)
    <3>1. CASE y \in ToSet(s)
      <4>1. ScoreIn(t, y, depth) = 0
        BY <1>8, <3>1 DEF ScoreIn
      <4> QED BY <1>3, <1>7, <3>1, <4>1
    <3>2. CASE y \in ToSet(t)
      <4>1. ScoreIn(s, y, depth) = 0
        BY <1>8, <3>2 DEF ScoreIn
      <4> QED BY <1>3, <1>7, <3>2, <4>1
    <3> QED BY <3>1, <3>2
  <2>3. PICK c \in 1..depth : points(y) = Points(c, depth) + 0 \/ points(y) = 0 + Points(c, depth)
    BY <2>2
  <2>4. Points(c, depth) \in Positive /\ Points(a, depth) + Points(b, depth) > Points(c, depth)
    BY <1>1, <2>1, PointsCompare
  <2> DEFINE p == Points(c, depth)
  <2>5. p \in Int /\ Points(a, depth) + Points(b, depth) > p /\ (points(y) = p + 0 \/ points(y) = 0 + p)
    BY <2>3, <2>4 DEF Positive
  <2> HIDE DEF p
  <2>6. points(y) = p
    BY <2>5
  <2> HIDE DEF points
  <2> QED BY <2>1, <2>5, <2>6
<1>9. ASSUME NEW x \in found, NEW y \in found, x \in ToSet(s) /\ x \in ToSet(t),
             y \in ToSet(s) /\ y \in ToSet(t),
             Rank(s, x) < Rank(s, y), Rank(t, x) < Rank(t, y)
      PROVE  points(x) > points(y)
  <2> DEFINE p == ScoreIn(s, x, depth)
             q == ScoreIn(t, x, depth)
             u == ScoreIn(s, y, depth)
             v == ScoreIn(t, y, depth)
  <2>1. p \in Int /\ u \in Int /\ p > u
    <3>1. /\ Rank(s, x) \in 1..depth /\ p = Points(Rank(s, x), depth)
          /\ Rank(s, y) \in 1..depth /\ u = Points(Rank(s, y), depth)
      BY <1>3, <1>7, <1>9
    <3> QED BY <1>1, <1>9, <3>1, PointsCompare DEF Positive
  <2>2. q \in Int /\ v \in Int /\ q > v
    <3>1. /\ Rank(t, x) \in 1..depth /\ q = Points(Rank(t, x), depth)
          /\ Rank(t, y) \in 1..depth /\ v = Points(Rank(t, y), depth)
      BY <1>3, <1>7, <1>9
    <3> QED BY <1>1, <1>9, <3>1, PointsCompare DEF Positive
  <2> HIDE DEF p, q, u, v
  <2>3. p + q > u + v
    BY <2>1, <2>2
  <2> QED BY <2>3 DEF p, q, u, v
<1>10. \A x \in ToSet(fused) \ ToSet(hits) : Len(hits) = limit
  BY <1>2, <1>6, TakenSet
<1> HIDE DEF points
<1>11. \A x, y \in found :
         (x \in ToSet(s) /\ x \in ToSet(t)) /\ ~ (y \in ToSet(s) /\ y \in ToSet(t))
           => Rank(fused, x) < Rank(fused, y)
  BY <1>6, <1>8
<1>12. \A x, y \in found :
         x # y /\ (x \in ToSet(s) /\ x \in ToSet(t)) /\ (y \in ToSet(s) /\ y \in ToSet(t))
           /\ (\A l \in 1..2 : Rank(lists[l], x) < Rank(lists[l], y))
           => Rank(fused, x) < Rank(fused, y)
  <2> SUFFICES ASSUME NEW x \in found, NEW y \in found,
                      x \in ToSet(s) /\ x \in ToSet(t), y \in ToSet(s) /\ y \in ToSet(t),
                      \A l \in 1..2 : Rank(lists[l], x) < Rank(lists[l], y)
               PROVE  Rank(fused, x) < Rank(fused, y)
    OBVIOUS
  <2>1. Rank(s, x) < Rank(s, y) /\ Rank(t, x) < Rank(t, y)
    <3>1. 1 \in 1..2 /\ 2 \in 1..2
      OBVIOUS
    <3> QED BY <1>4, <3>1
  <2> QED BY <1>6, <1>9, <2>1
<1> HIDE DEF found
<1> QED BY <1>2, <1>4, <1>6, <1>10, <1>11, <1>12 DEF HitsFused, depth, s, t, lists, fused, hits, found

-----------------------------------------------------------------------------
(* Scores (metrics.py, harness.py)                                         *)

\* What a score is: a part of a whole.
IsScore(r) == r.n \in Nat /\ r.d \in Positive /\ r.n <= r.d

LEMMA RatioFacts ==
  ASSUME NEW n \in Nat, NEW d \in Nat, n <= d
  PROVE  /\ IsScore(Ratio(n, d)) /\ Ratio(n, d).n \in Nat /\ Ratio(n, d).d \in Positive
         /\ IsOne(Ratio(n, d)) <=> d # 0 /\ n = d
<1>1. CASE d = 0
  <2>1. Ratio(n, d).n = 0 /\ Ratio(n, d).d = 1
    BY <1>1 DEF Ratio
  <2> QED BY <1>1, <2>1 DEF IsScore, IsOne, Positive
<1>2. CASE d # 0
  <2>1. Ratio(n, d).n = n /\ Ratio(n, d).d = d
    BY <1>2 DEF Ratio
  <2> QED BY <1>2, <2>1 DEF IsScore, IsOne, Positive
<1> QED BY <1>1, <1>2

LEMMA OneIsScore == IsScore(One) /\ IsOne(One) /\ IsScore(Zero) /\ ~ IsOne(Zero) /\ One.n = 1 /\ One.d = 1
<1>1. 0 \in Nat /\ 1 \in Nat /\ 1 # 0
  OBVIOUS
<1>2. One.n = 1 /\ One.d = 1
  BY DEF One, Ratio
<1> QED BY <1>1, <1>2, RatioFacts DEF One, Zero

LEMMA AtMostOne ==
  ASSUME NEW r, IsScore(r)
  PROVE  AtMost(r, One)
<1>1. r.n \in Nat /\ r.d \in Nat /\ r.n <= r.d /\ One.n = 1 /\ One.d = 1
  BY OneIsScore DEF IsScore, Positive
<1> DEFINE u == r.n
           v == r.d
<1>2. u \in Nat /\ v \in Nat /\ u <= v
  BY <1>1
<1> HIDE DEF u, v
<1>3. u * 1 <= 1 * v
  BY <1>2
<1> QED BY <1>1, <1>3 DEF AtMost, u, v

\* A sequence is as long as its set is large where it repeats nothing.
LEMMA CountOfSet ==
  ASSUME NEW E, NEW s \in Seq(E)
  PROVE  /\ IsFiniteSet(ToSet(s)) /\ Cardinality(ToSet(s)) \in Nat /\ Cardinality(ToSet(s)) <= Len(s)
         /\ Cardinality(ToSet(s)) = Len(s) <=> IsInjective(s)
<1> DEFINE D == DOMAIN s
           T == ToSet(s)
           n == Len(s)
<1>1. n \in Nat /\ D = 1..n /\ T = {s[i] : i \in D} /\ s = [i \in D |-> s[i]]
  BY DEF ToSet
<1> HIDE DEF D, T, n
<1>2. IsFiniteSet(D) /\ Cardinality(D) = n
  <2>1. 1 \in Int /\ n \in Int /\ (IF 1 > n THEN 0 ELSE n - 1 + 1) = n
    BY <1>1
  <2>2. IsFiniteSet(1..n) /\ Cardinality(1..n) = IF 1 > n THEN 0 ELSE n - 1 + 1
    BY <2>1, FS_Interval
  <2> QED BY <1>1, <2>1, <2>2
<1>3. s \in [D -> T] /\ \A t \in T : \E i \in D : s[i] = t
  BY <1>1
<1>4. s \in Surjection(D, T)
  BY <1>3 DEF Surjection
<1>5. IsFiniteSet(T) /\ Cardinality(T) <= Cardinality(D)
      /\ (Cardinality(T) = Cardinality(D) <=> s \in Injection(D, T))
  BY <1>2, <1>4, FS_Surjection
<1>6. Cardinality(T) \in Nat
  BY <1>5, FS_CardinalityType
<1>7. s \in Injection(D, T) <=> IsInjective(s)
  BY <1>3 DEF Injection, IsInjective, D
<1> QED BY <1>2, <1>5, <1>6, <1>7 DEF T, n

\* What precision and recall of an answer against a set say: what was expected,
\* once each.
ScoredAs(s, right) ==
  IsScore(s.precision) /\ IsScore(s.recall) /\ (IsPerfect(s) <=> right)

LEMMA PairsExact ==
  ASSUME NEW W, IsFiniteSet(W), NEW E, NEW actual \in Seq(E), ~ (W = {} /\ actual = <<>>)
  PROVE  ScoredAs(MatchedPrecisionRecall(W, actual), W = ToSet(actual) /\ IsInjective(actual))
<1> DEFINE T == ToSet(actual)
           n == Len(actual)
           w == Cardinality(W)
           t == Cardinality(T)
           m == Cardinality(W \cap T)
           s == MatchedPrecisionRecall(W, actual)
<1>1. /\ IsFiniteSet(T) /\ t \in Nat /\ n \in Nat /\ t <= n
      /\ t = n <=> IsInjective(actual)
  <2>1. n \in Nat
    OBVIOUS
  <2> QED BY <2>1, CountOfSet
<1>2. n = 0 <=> actual = <<>>
  OBVIOUS
<1>3. s.precision = Ratio(m, n) /\ s.recall = Ratio(m, w)
  BY DEF MatchedPrecisionRecall, Scores
<1> HIDE DEF n, s
<1>4. T = {} <=> t = 0
  BY <1>1, FS_EmptySet
<1> HIDE DEF T
<1>5. w \in Nat /\ (W = {} <=> w = 0)
  BY FS_CardinalityType, FS_EmptySet
<1>6. m \in Nat /\ m <= w /\ m <= t /\ (m = w => W \cap T = W) /\ (m = t => W \cap T = T)
  <2>1. W \cap T \in SUBSET W /\ W \cap T \in SUBSET T
    OBVIOUS
  <2>2. IsFiniteSet(W \cap T) /\ m <= w /\ (w = m => W = W \cap T)
    BY <2>1, FS_Subset
  <2>3. m <= t /\ (t = m => T = W \cap T)
    BY <1>1, <2>1, FS_Subset
  <2>4. m \in Nat
    BY <2>2, FS_CardinalityType
  <2> QED BY <2>2, <2>3, <2>4
<1>7. W = T => m = w /\ m = t
  OBVIOUS
<1> HIDE DEF t, w, m
<1>8. m <= n
  BY <1>1, <1>6
<1>9. /\ IsScore(s.precision) /\ (IsOne(s.precision) <=> n # 0 /\ m = n)
      /\ IsScore(s.recall) /\ (IsOne(s.recall) <=> w # 0 /\ m = w)
  BY <1>1, <1>3, <1>5, <1>6, <1>8, RatioFacts
<1>10. ASSUME n # 0, m = n, w # 0, m = w PROVE W = T /\ t = n
  <2>1. m = t /\ t = n
    BY <1>1, <1>6, <1>10
  <2>2. W \cap T = W /\ W \cap T = T
    BY <1>6, <1>10, <2>1
  <2> QED BY <2>1, <2>2
<1>11. ASSUME W = T, t = n PROVE n # 0 /\ m = n /\ w # 0 /\ m = w
  <2>1. w = n /\ m = n
    BY <1>7, <1>11
  <2>2. ~ (w = 0 /\ n = 0)
    BY <1>2, <1>5
  <2> QED BY <2>1, <2>2
<1>12. IsPerfect(s) <=> W = T /\ IsInjective(actual)
  BY <1>1, <1>9, <1>10, <1>11 DEF IsPerfect
<1> QED BY <1>9, <1>12 DEF ScoredAs, s, T

\* metrics.py: a score is perfect exactly for the answer that was expected, once
\* each, and none is above one - for sequences of any length, of any values.
THEOREM PerfectScoresAreExact ==
  ASSUME NEW E, NEW expected \in Seq(E), NEW actual \in Seq(E)
  PROVE  PerfectIsExact(expected, actual)
<1> DEFINE s == DiffPrecisionRecall(expected, actual)
           W == ToSet(expected)
<1>1. ScoredAs(s, W = ToSet(actual) /\ IsInjective(actual))
  <2>1. CASE expected = <<>> /\ actual = <<>>
    <3>1. s.precision = One /\ s.recall = One
      BY <2>1 DEF DiffPrecisionRecall, Scores
    <3>2. W = ToSet(actual) /\ IsInjective(actual)
      BY <2>1 DEF IsInjective
    <3> QED BY <3>1, <3>2, OneIsScore DEF ScoredAs, IsPerfect
  <2>2. CASE ~ (expected = <<>> /\ actual = <<>>)
    <3>1. s = MatchedPrecisionRecall(W, actual)
      BY <2>2 DEF DiffPrecisionRecall
    <3>2. IsFiniteSet(W)
      BY CountOfSet
    <3>3. W = {} => expected = <<>>
      <4> SUFFICES ASSUME expected # <<>> PROVE expected[1] \in W
        OBVIOUS
      <4>1. 1 \in DOMAIN expected
        OBVIOUS
      <4> QED BY <4>1 DEF ToSet
    <3> HIDE DEF W, s
    <3> QED BY <2>2, <3>1, <3>2, <3>3, PairsExact
  <2> QED BY <2>1, <2>2
<1> HIDE DEF s
<1>2. AtMost(s.precision, One) /\ AtMost(s.recall, One)
  BY <1>1, AtMostOne DEF ScoredAs
<1>3. IsPerfect(s) <=> W = ToSet(actual) /\ IsInjective(actual)
  BY <1>1 DEF ScoredAs
<1> QED BY <1>2, <1>3 DEF PerfectIsExact, s

\* A page of hybrid search holds chunks that were found.
LEMMA PageOfHits ==
  ASSUME NEW E, NEW byVector \in Seq(E), NEW byText \in Seq(E), NEW limit \in Nat
  PROVE  HybridHits(byVector, byText, limit) \in Seq(E)
<1> DEFINE depth == DepthFactor * limit
           s == Take(byVector, depth)
           t == Take(byText, depth)
           fused == RrfFuse(<<s, t>>, depth)
           found == ToSet(s) \cup ToSet(t)
<1>1. depth \in Nat
  BY DEF DepthFactor
<1>2. HybridHits(byVector, byText, limit) = Take(fused, limit)
  BY DEF HybridHits
<1> HIDE DEF depth
<1>3. s \in Seq(E) /\ t \in Seq(E) /\ Len(s) <= depth /\ Len(t) <= depth
  <2>1. Len(byVector) \in Nat /\ Len(byText) \in Nat
    OBVIOUS
  <2>2. /\ s \in Seq(E) /\ Len(s) = (IF depth <= Len(byVector) THEN depth ELSE Len(byVector))
        /\ t \in Seq(E) /\ Len(t) = (IF depth <= Len(byText) THEN depth ELSE Len(byText))
    BY <1>1, TakeFacts
  <2> HIDE DEF s, t
  <2> QED BY <1>1, <2>1, <2>2
<1> HIDE DEF s, t
<1>4. FusedByScore(fused, s, t, depth)
  BY <1>1, <1>3, FusionListsByScore
<1> HIDE DEF fused
<1>5. fused \in Seq(found)
  BY <1>4 DEF FusedByScore
<1>6. found \subseteq E
  BY <1>3 DEF ToSet
<1> HIDE DEF found
<1>7. fused \in Seq(E)
  BY <1>5, <1>6, WiderSequence
<1> QED BY <1>2, <1>7, TakeFacts

\* metrics.py: recall never falls with k, and is one exactly where every chunk
\* that was expected is among the first k - for any cut-offs, over pages of any
\* length.
THEOREM RecallGrowsWithK ==
  ASSUME NEW E, NEW expected, IsFiniteSet(expected),
         NEW byVector \in Seq(E), NEW byText \in Seq(E),
         NEW ks \in SUBSET Nat, NEW b \in Nat, \A k \in ks : k <= b
  PROVE  RecallGrows(expected, byVector, byText, ks)
<1> DEFINE page == HybridHits(byVector, byText, Max(ks))
           recall == ScoreRetrieve(expected, byVector, byText, ks)
           among(k) == expected \cap ToSet(Take(page, k))
           d == Cardinality(expected)
           n(k) == Cardinality(among(k))
<1> SUFFICES ASSUME expected # {}, NEW j \in ks, NEW k \in ks
             PROVE  /\ j <= k => AtMost(recall[j][2], recall[k][2])
                    /\ IsOne(recall[k][2]) <=> expected \subseteq ToSet(Take(page, k))
  BY DEF RecallGrows
<1>1. page \in Seq(E)
  <2>1. Max(ks) \in ks
    <3>1. ks \in SUBSET Int /\ ks # {} /\ b \in Int
      OBVIOUS
    <3> QED BY <3>1, MaxOfBounded
  <2>2. Max(ks) \in Nat
    BY <2>1
  <2> QED BY <2>2, PageOfHits
<1>2. \A i \in ks : recall[i][2] = Ratio(n(i), d)
  <2>1. \A i \in ks : recall[i] = RecallAtK(expected, page, i)
    BY DEF ScoreRetrieve
  <2> HIDE DEF recall, page
  <2>2. \A i \in ks : RecallAtK(expected, page, i) = Result(Ratio(n(i), d))
    BY DEF RecallAtK
  <2>3. \A r : Result(r)[2] = r
    BY DEF Result
  <2> HIDE DEF n, d
  <2> QED BY <2>1, <2>2, <2>3
<1> HIDE DEF page, recall
<1>3. d \in Nat /\ d # 0
  BY FS_CardinalityType, FS_EmptySet
<1>4. \A i \in ks : n(i) \in Nat /\ n(i) <= d /\ (n(i) = d <=> expected \subseteq ToSet(Take(page, i)))
  <2> SUFFICES ASSUME NEW i \in ks
               PROVE  n(i) \in Nat /\ n(i) <= d /\ (n(i) = d <=> expected \subseteq ToSet(Take(page, i)))
    OBVIOUS
  <2>1. among(i) \in SUBSET expected
    OBVIOUS
  <2>2. IsFiniteSet(among(i)) /\ n(i) <= d /\ (d = n(i) => expected = among(i))
    BY <2>1, FS_Subset
  <2>3. n(i) \in Nat
    BY <2>2, FS_CardinalityType
  <2>4. among(i) = expected => n(i) = d
    OBVIOUS
  <2>5. among(i) = expected <=> expected \subseteq ToSet(Take(page, i))
    OBVIOUS
  <2> HIDE DEF n, d, among
  <2> QED BY <2>2, <2>3, <2>4, <2>5
<1>5. ASSUME j <= k PROVE n(j) <= n(k)
  <2>1. among(j) \in SUBSET among(k)
    <3>1. j \in Nat /\ k \in Nat
      OBVIOUS
    <3> DEFINE u == Take(page, j)
               v == Take(page, k)
    <3>2. /\ u \in Seq(E) /\ Len(u) = (IF j <= Len(page) THEN j ELSE Len(page))
          /\ \A i \in 1..Len(u) : u[i] = page[i]
          /\ v \in Seq(E) /\ Len(v) = (IF k <= Len(page) THEN k ELSE Len(page))
          /\ \A i \in 1..Len(v) : v[i] = page[i]
      BY <1>1, <3>1, TakeFacts
    <3> HIDE DEF u, v
    <3>3. Len(page) \in Nat /\ DOMAIN u = 1..Len(u) /\ DOMAIN v = 1..Len(v)
      BY <1>1, <3>2
    <3>4. \A i \in DOMAIN u : i \in DOMAIN v
      BY <1>5, <3>1, <3>2, <3>3
    <3>5. \A i \in DOMAIN u : v[i] = u[i]
      BY <3>2, <3>3, <3>4
    <3>6. ToSet(u) \subseteq ToSet(v)
      BY <3>4, <3>5 DEF ToSet
    <3> QED BY <3>6 DEF u, v
  <2>2. IsFiniteSet(among(k))
    <3>1. among(k) \in SUBSET expected
      OBVIOUS
    <3> QED BY <3>1, FS_Subset
  <2> QED BY <2>1, <2>2, FS_Subset
<1> HIDE DEF n, d, among
<1>6. n(j) \in Nat /\ n(k) \in Nat /\ n(j) <= d /\ n(k) <= d
  BY <1>4
<1>7. /\ Ratio(n(j), d).n = n(j) /\ Ratio(n(j), d).d = d
      /\ Ratio(n(k), d).n = n(k) /\ Ratio(n(k), d).d = d
  BY <1>3 DEF Ratio
<1>8. ASSUME j <= k PROVE AtMost(Ratio(n(j), d), Ratio(n(k), d))
  <2> DEFINE p == n(j)
             q == n(k)
  <2>1. p \in Nat /\ q \in Nat /\ p <= q
    BY <1>5, <1>6, <1>8
  <2> HIDE DEF p, q
  <2>2. p * d <= q * d
    BY <1>3, <2>1
  <2> QED BY <1>7, <2>2 DEF AtMost, p, q
<1>9. IsOne(Ratio(n(k), d)) <=> n(k) = d
  BY <1>7 DEF IsOne
<1> QED BY <1>2, <1>4, <1>8, <1>9

\* What an extraction completes with has passed the gate.
LEMMA CompletedIsGrounded ==
  ASSUME NEW A, IsItems(A), NEW length \in Nat,
         NEW calls, \A a \in 1..Attempts : calls[a] \in Outcomes(A),
         HasResult(ExtractObligations(calls, length))
  PROVE  LET items == ExtractObligations(calls, length)[2]
         IN items \in Seq(A) /\ \A i \in ToSet(items) : IsGrounded(i.span, length)
<1> DEFINE Listed(a)    == InLists(calls[a][2])
           Grounded(a) == SplitCited(Listed(a), length)
           result == ExtractObligations(calls, length)
           Fits(items) == items \in Seq(A) /\ \A i \in ToSet(items) : IsGrounded(i.span, length)
<1>1. ASSUME NEW a \in 1..Attempts, HasResult(calls[a]) PROVE Fits(Grounded(a))
  <2>1. calls[a][2] \in Seq(A)
    BY <1>1 DEF Outcomes, HasResult, Result
  <2>2. Listed(a) \in Seq(A)
    BY <2>1, ListsHoldItems
  <2> HIDE DEF Listed
  <2>3. /\ Grounded(a) \in Seq(A)
        /\ ToSet(Grounded(a)) = {i \in ToSet(Listed(a)) : IsGrounded(i.span, length)}
    BY <2>2, SplitKeepsGrounded
  <2> HIDE DEF Grounded
  <2> QED BY <2>3
<1>2. 1 \in 1..Attempts /\ 2 \in 1..Attempts
  BY DEF Attempts
<1>3. \/ HasResult(calls[1]) /\ result = Result(Grounded(1))
      \/ HasResult(calls[2]) /\ result = Result(Grounded(2))
  <2> HIDE DEF Listed, Grounded, result
  <2> QED BY ExtractionByAttempts DEF HasResult, Listed, Grounded, result
<1>4. \A items : Result(items)[2] = items
  BY DEF Result
<1> HIDE DEF Grounded, Fits, result
<1>5. Fits(result[2])
  BY <1>1, <1>2, <1>3, <1>4
<1> QED BY <1>5 DEF Fits, result

\* metrics.py: over the service's own gate, no citation of a completed
\* extraction is ever found invalid - for any answers, of any length.
THEOREM TripwireStaysSilent ==
  ASSUME NEW A, IsItems(A), NEW length \in Nat,
         NEW calls, \A a \in 1..Attempts : calls[a] \in Outcomes(A)
  PROVE  TripwireIsSilent(calls, length)
<1> DEFINE result == ExtractObligations(calls, length)
           items == result[2]
           spans == [k \in DOMAIN items |-> items[k].span]
           n == Len(items)
           valid == {k \in DOMAIN spans : IsGrounded(spans[k], length)}
<1> SUFFICES ASSUME HasResult(result)
             PROVE  IsOne(ScoreExtraction(<<>>, calls, length).validity)
  BY DEF TripwireIsSilent
<1>1. ScoreExtraction(<<>>, calls, length).validity = CitationSpansValid(length, spans)
  BY DEF ScoreExtraction, HasResult
<1>2. items \in Seq(A) /\ \A i \in ToSet(items) : IsGrounded(i.span, length)
  BY CompletedIsGrounded
<1> HIDE DEF items
<1>3. n \in Nat /\ DOMAIN items = 1..n
  BY <1>2
<1>4. \A k \in 1..n : IsGrounded(items[k].span, length)
  BY <1>2, <1>3 DEF ToSet
<1>5. spans \in [1..n -> {items[k].span : k \in 1..n}]
  BY <1>3
<1>6. Len(spans) = n /\ DOMAIN spans = 1..n /\ \A k \in 1..n : spans[k] = items[k].span
  <2>1. spans \in Seq({items[k].span : k \in 1..n}) /\ DOMAIN spans = 1..n
    BY <1>3, <1>5
  <2>2. \A k \in 1..n : spans[k] = items[k].span
    BY <1>3
  <2> HIDE DEF spans, n
  <2> QED BY <1>3, <2>1, <2>2
<1> HIDE DEF spans, n
<1>7. valid = 1..n
  BY <1>4, <1>6
<1>8. Cardinality(1..n) = n
  <2>1. 1 \in Int /\ n \in Int /\ (IF 1 > n THEN 0 ELSE n - 1 + 1) = n
    BY <1>3
  <2>2. Cardinality(1..n) = IF 1 > n THEN 0 ELSE n - 1 + 1
    BY <2>1, FS_Interval
  <2> QED BY <2>1, <2>2
<1>9. IsOne(CitationSpansValid(length, spans))
  <2>1. CASE spans = <<>>
    BY <2>1, OneIsScore DEF CitationSpansValid
  <2>2. CASE spans # <<>>
    <3>1. CitationSpansValid(length, spans) = Ratio(n, n)
      BY <1>6, <1>7, <1>8, <2>2 DEF CitationSpansValid
    <3>2. n # 0
      <4>1. n = 0 => spans = <<>>
        BY <1>5, <1>6
      <4> QED BY <2>2, <4>1
    <3> QED BY <1>3, <3>1, <3>2, RatioFacts
  <2> QED BY <2>1, <2>2
<1> QED BY <1>1, <1>9

\* Sums of naturals that are no more than others, and as much only if equal.
LEMMA SumsCompare ==
  ASSUME NEW S, NEW f, NEW it, Sums(it, S, f), NEW g, NEW jt, Sums(jt, S, g),
         \A x \in S : f[x] <= g[x]
  PROVE  /\ it[S] <= jt[S]
         /\ it[S] = jt[S] <=> \A x \in S : f[x] = g[x]
<1> DEFINE K == {T \in SUBSET S : it[T] <= jt[T] /\ (it[T] = jt[T] <=> \A x \in T : f[x] = g[x])}
<1>1. /\ IsFiniteSet(S) /\ \A x \in S : f[x] \in Int /\ g[x] \in Int
      /\ \A T \in SUBSET S : it[T] \in Int /\ jt[T] \in Int
      /\ \A T \in SUBSET S : \A x \in S \ T :
           it[T \cup {x}] = f[x] + it[T] /\ jt[T \cup {x}] = g[x] + jt[T]
  <2>1. /\ IsFiniteSet(S) /\ \A x \in S : f[x] \in Int
        /\ \A T \in SUBSET S : it[T] \in Int
        /\ \A T \in SUBSET S : \A x \in S \ T : it[T \cup {x}] = f[x] + it[T]
    BY SumTakes
  <2>2. /\ \A x \in S : g[x] \in Int
        /\ \A T \in SUBSET S : jt[T] \in Int
        /\ \A T \in SUBSET S : \A x \in S \ T : jt[T \cup {x}] = g[x] + jt[T]
    BY SumTakes
  <2> QED BY <2>1, <2>2
<1>2. {} \in K
  BY DEF Sums
<1>3. ASSUME NEW T \in SUBSET S, NEW x \in S \ T, T \in K PROVE T \cup {x} \in K
  <2> DEFINE U == T \cup {x}
  <2>1. U \in SUBSET S /\ x \in S
    OBVIOUS
  <2> DEFINE a == it[T]
             b == jt[T]
             p == f[x]
             q == g[x]
  <2>2. a \in Int /\ b \in Int /\ p \in Int /\ q \in Int /\ p <= q /\ a <= b
    BY <1>1, <1>3
  <2>3. it[U] = p + a /\ jt[U] = q + b
    BY <1>1
  <2>4. a = b <=> \A y \in T : f[y] = g[y]
    BY <1>3
  <2>5. (\A y \in U : f[y] = g[y]) <=> (\A y \in T : f[y] = g[y]) /\ p = q
    OBVIOUS
  <2> HIDE DEF a, b, p, q, U
  <2>6. p + a <= q + b /\ (p + a = q + b <=> p = q /\ a = b)
    BY <2>2
  <2>7. it[U] <= jt[U] /\ (it[U] = jt[U] <=> \A y \in U : f[y] = g[y])
    BY <2>3, <2>4, <2>5, <2>6
  <2>8. U \in K
    BY <2>1, <2>7
  <2> QED BY <2>8 DEF U
<1> HIDE DEF K
<1>4. S \in K
  <2>1. S \in SUBSET S
    OBVIOUS
  <2> QED BY <1>1, <1>2, <1>3, <2>1, SetInduction
<1> QED BY <1>4 DEF K

\* The sum of a constant.
LEMMA SumOfSame ==
  ASSUME NEW S, NEW c \in Nat, NEW f, NEW it, Sums(it, S, f), \A x \in S : f[x] = c
  PROVE  it[S] = c * Cardinality(S)
<1>1. /\ IsFiniteSet(S) /\ \A x \in S : f[x] \in Int
      /\ \A T \in SUBSET S : it[T] \in Int
      /\ \A T \in SUBSET S : \A x \in S \ T : it[T \cup {x}] = f[x] + it[T]
  BY SumTakes
<1> DEFINE K == {T \in SUBSET S : it[T] = c * Cardinality(T)}
<1>2. {} \in K
  <2>1. it[{}] = 0 /\ Cardinality({}) = 0
    BY FS_EmptySet DEF Sums
  <2>2. c * 0 = 0
    OBVIOUS
  <2> QED BY <2>1, <2>2
<1>3. ASSUME NEW T \in SUBSET S, NEW x \in S \ T, T \in K PROVE T \cup {x} \in K
  <2> DEFINE U == T \cup {x}
             n == Cardinality(T)
  <2>1. IsFiniteSet(T)
    BY <1>1, FS_Subset
  <2>2. n \in Nat /\ Cardinality(U) = n + 1
    BY <2>1, FS_CardinalityType, FS_AddElement
  <2>3. it[U] = c + c * n
    BY <1>1, <1>3
  <2> HIDE DEF n, U
  <2>4. c * (n + 1) = c + c * n
    BY <2>2
  <2>5. it[U] = c * Cardinality(U)
    BY <2>2, <2>3, <2>4
  <2> QED BY <2>5 DEF U
<1> HIDE DEF K
<1>4. S \in K
  <2>1. S \in SUBSET S
    OBVIOUS
  <2> QED BY <1>1, <1>2, <1>3, <2>1, SetInduction
<1> QED BY <1>4 DEF K

\* The mean of scores is one exactly if each of them is.
LEMMA AggregateIsOne ==
  ASSUME NEW S, IsFiniteSet(S), S # {}, NEW scores, DOMAIN scores = S,
         \A i \in S : IsScore(scores[i])
  PROVE  IsOne(Aggregate(scores)) <=> \A i \in S : IsOne(scores[i])
<1> DEFINE f == [i \in S |-> scores[i].d]
           Turn(it) == [T \in SUBSET S |-> IF T = {} THEN 1 ELSE it[T \ {Chosen(T)}] * scores[Chosen(T)].d]
           iter == CHOOSE it : it = Turn(it)
           common == FoldSet(LAMBDA i, d : d * scores[i].d, 1, DOMAIN scores)
           terms == [i \in DOMAIN scores |-> scores[i].n * (common \div scores[i].d)]
           whole == [i \in S |-> common]
           n == Cardinality(S)
<1>1. common = iter[S]
  BY DEF FoldSet, MapThenFoldSet, Chosen
<1>2. f \in [S -> Positive]
  BY DEF IsScore
<1>3. \A T \in SUBSET S : T # {} => Chosen(T) \in T
  BY SubsetSizes
<1> HIDE DEF iter, f
<1>4. PICK P : /\ Products(P, S, f)
               /\ \A T \in SUBSET S : T # {} => P[T] = f[Chosen(T)] * P[T \ {Chosen(T)}]
               /\ \A h : ProductTurns(h, S, f) => h[S] = P[S]
  <2> HIDE DEF Turn, common, terms, whole, n
  <2>1. IsFiniteSet(S) /\ f \in [S -> Positive]
    BY <1>2
  <2>2. \E it : /\ Products(it, S, f)
                /\ \A T \in SUBSET S : T # {} => it[T] = f[Chosen(T)] * it[T \ {Chosen(T)}]
                /\ \A h : ProductTurns(h, S, f) => h[S] = it[S]
    BY ONLY <2>1, ProductsExist
  <2> QED BY ONLY <2>2
<1>5. \A i \in S : f[i] = scores[i].d
  BY DEF f
<1>6. /\ P \in [SUBSET S -> Positive] /\ P[{}] = 1
      /\ \A T \in SUBSET S : \A x \in T : P[T] = f[x] * P[T \ {x}]
  BY <1>4 DEF Products
<1>7. iter = Turn(iter)
  <2>1. P = Turn(P)
    <3>1. ASSUME NEW T \in SUBSET S PROVE P[T] = Turn(P)[T]
      <4>1. CASE T = {}
        BY <1>6, <4>1
      <4>2. CASE T # {}
        <5> DEFINE x == Chosen(T)
                   a == f[x]
                   b == P[T \ {x}]
        <5>1. x \in T /\ x \in S
          BY <1>3, <4>2
        <5>2. P[T] = a * b /\ a \in Positive /\ b \in Positive
          BY <1>2, <1>6, <5>1
        <5>3. a * b = b * a
          <6> HIDE DEF a, b
          <6> QED BY <5>2 DEF Positive
        <5>4. Turn(P)[T] = b * scores[x].d
          BY <4>2
        <5>5. Turn(P)[T] = b * a
          BY <1>5, <5>1, <5>4
        <5> QED BY <5>2, <5>3, <5>5
      <4> QED BY <4>1, <4>2
    <3>2. P = [T \in SUBSET S |-> P[T]] /\ Turn(P) = [T \in SUBSET S |-> Turn(P)[T]]
      BY <1>6
    <3> HIDE DEF Turn
    <3> QED BY <3>1, <3>2
  <2>2. \E it : it = Turn(it)
    <3> HIDE DEF Turn
    <3> QED BY <2>1
  <2> HIDE DEF Turn
  <2> QED BY <2>2 DEF iter
<1>8. ProductTurns(iter, S, f)
  <2>1. iter[{}] = 1
    <3>1. {} \in SUBSET S
      OBVIOUS
    <3>2. Turn(iter)[{}] = 1
      BY <3>1
    <3> HIDE DEF Turn
    <3> QED BY <1>7, <3>2
  <2>2. ASSUME NEW T \in SUBSET S, T # {}, iter[T \ {Chosen(T)}] \in Positive
        PROVE  iter[T] = f[Chosen(T)] * iter[T \ {Chosen(T)}]
    <3> DEFINE x == Chosen(T)
               a == f[x]
               b == iter[T \ {x}]
    <3>1. x \in S
      BY <1>3, <2>2
    <3>2. Turn(iter)[T] = b * scores[x].d
      BY <2>2
    <3>3. iter[T] = b * a
      <4> HIDE DEF Turn
      <4> QED BY <1>5, <1>7, <3>1, <3>2
    <3>4. a \in Positive /\ b \in Positive
      BY <1>2, <2>2, <3>1
    <3>5. b * a = a * b
      <4> HIDE DEF a, b
      <4> QED BY <3>4 DEF Positive
    <3> QED BY <3>3, <3>5
  <2> HIDE DEF Turn
  <2> QED BY <2>1, <2>2 DEF ProductTurns
<1>9. common = P[S] /\ common \in Positive
  BY <1>1, <1>4, <1>6, <1>8
<1> HIDE DEF common
<1>10. \A i \in S : /\ terms[i] \in Nat /\ terms[i] <= whole[i]
                    /\ terms[i] = whole[i] <=> scores[i].n = scores[i].d
  <2> SUFFICES ASSUME NEW i \in S
               PROVE  /\ terms[i] \in Nat /\ terms[i] <= whole[i]
                      /\ terms[i] = whole[i] <=> scores[i].n = scores[i].d
    OBVIOUS
  <2> DEFINE u == scores[i].n
             v == scores[i].d
             q == P[S \ {i}]
  <2>1. u \in Nat /\ v \in Positive /\ u <= v
    BY DEF IsScore
  <2>2. common = v * q /\ q \in Positive
    BY <1>5, <1>6, <1>9
  <2>3. terms[i] = u * (common \div v) /\ whole[i] = common
    OBVIOUS
  <2> HIDE DEF u, v, q, terms, whole
  <2>4. u \in Nat /\ v \in Nat /\ q \in Nat /\ v > 0 /\ q > 0
    BY <2>1, <2>2 DEF Positive
  <2>5. (v * q) \div v = q
    BY <2>4
  <2>6. terms[i] = u * q /\ whole[i] = v * q
    BY <2>2, <2>3, <2>5
  <2>7. u * q \in Nat /\ u * q <= v * q
    BY <2>1, <2>4
  <2>8. u < v => u * q < v * q
    <3> SUFFICES ASSUME u < v PROVE u * q < v * q
      OBVIOUS
    <3>1. (u + 1) * q <= v * q
      BY <2>4
    <3>2. (u + 1) * q = u * q + q
      BY <2>4
    <3> QED BY <2>4, <2>7, <3>1, <3>2
  <2>9. u = v \/ u < v
    BY <2>1, <2>4
  <2> DEFINE y == u * q
             z == v * q
  <2>10. y \in Nat /\ z \in Nat /\ (u = v => y = z) /\ (u < v => y < z) /\ y <= z
    <3>1. z \in Nat
      BY <2>4
    <3> QED BY <2>7, <2>8, <3>1
  <2> HIDE DEF y, z
  <2>11. y = z <=> u = v
    BY <2>1, <2>4, <2>9, <2>10
  <2>12. terms[i] = y /\ whole[i] = z
    BY <2>6 DEF y, z
  <2> QED BY <2>10, <2>11, <2>12 DEF u, v
<1>11. terms \in [S -> Int] /\ whole \in [S -> Int]
  <2>1. terms = [i \in S |-> terms[i]] /\ whole = [i \in S |-> whole[i]]
    OBVIOUS
  <2>2. \A i \in S : whole[i] \in Int
    BY <1>9 DEF Positive
  <2> HIDE DEF terms, whole
  <2> QED BY <1>10, <2>1, <2>2
<1>12. PICK it : Sums(it, S, terms) /\ SumFunction(terms) = it[S]
  <2> HIDE DEF terms, whole
  <2> QED BY <1>11, SumsExist
<1>13. PICK jt : Sums(jt, S, whole)
  <2> HIDE DEF terms, whole
  <2> QED BY <1>11, SumsExist
<1>14. jt[S] = common * n
  <2>1. common \in Nat /\ \A i \in S : whole[i] = common
    BY <1>9 DEF Positive
  <2> HIDE DEF whole, terms
  <2> QED BY <1>13, <2>1, SumOfSame
<1>15. /\ it[S] <= jt[S]
       /\ it[S] = jt[S] <=> \A i \in S : terms[i] = whole[i]
  <2> HIDE DEF terms, whole
  <2> QED BY <1>10, <1>12, <1>13, SumsCompare
<1>16. it[S] \in Nat
  <2>1. \A i \in S : terms[i] \in Nat
    BY <1>10
  <2> HIDE DEF terms, whole, n
  <2>2. terms \in [S -> Nat]
    BY <1>11, <2>1
  <2>3. \A T \in SUBSET S : it[T] \in Nat
    BY <1>12, <2>2, SumsOfNaturals
  <2> QED BY <2>3
<1>17. n \in Nat /\ n # 0 /\ common * n \in Nat /\ common * n # 0
  <2>1. n \in Nat /\ n # 0
    BY FS_CardinalityType, FS_EmptySet
  <2> HIDE DEF n
  <2>2. common \in Nat /\ common > 0
    BY <1>9 DEF Positive
  <2>3. common * n \in Nat /\ common * n > 0
    BY <2>1, <2>2
  <2> QED BY <2>1, <2>3
<1>18. Aggregate(scores) = Ratio(SumFunction(terms), common * n)
  BY DEF Aggregate, common
<1> HIDE DEF terms, whole, n
<1>19. IsOne(Aggregate(scores)) <=> it[S] = common * n
  <2>1. it[S] <= common * n
    BY <1>14, <1>15
  <2>2. Aggregate(scores) = Ratio(it[S], common * n)
    BY <1>12, <1>18
  <2> DEFINE y == it[S]
             z == common * n
  <2>3. y \in Nat /\ z \in Nat /\ y <= z /\ z # 0 /\ Aggregate(scores) = Ratio(y, z)
    BY <1>16, <1>17, <2>1, <2>2
  <2> HIDE DEF y, z
  <2>4. IsOne(Aggregate(scores)) <=> y = z
    BY <2>3, RatioFacts
  <2> QED BY <2>4 DEF y, z
<1> QED BY <1>10, <1>14, <1>15, <1>19 DEF IsOne

\* Keys of a list of obligations.
LEMMA KeysOfList ==
  ASSUME NEW E, NEW s \in Seq(E)
  PROVE  /\ Keys(s) \in Seq({Key(x) : x \in E})
         /\ Keys(s) = <<>> <=> s = <<>>
         /\ ToSet(Keys(s)) = {} <=> s = <<>>
         /\ IsFiniteSet(ToSet(Keys(s)))
<1> DEFINE n == Len(s)
           K == {Key(x) : x \in E}
           keys == Keys(s)
<1>1. n \in Nat /\ DOMAIN s = 1..n /\ \A i \in 1..n : s[i] \in E
  OBVIOUS
<1>2. keys = [i \in 1..n |-> Key(s[i])]
  BY <1>1 DEF Keys
<1>3. \A i \in 1..n : Key(s[i]) \in K
  BY <1>1
<1> HIDE DEF n, K, keys
<1>4. keys \in [1..n -> K]
  BY <1>2, <1>3
<1>5. keys \in Seq(K) /\ Len(keys) = n /\ DOMAIN keys = 1..n
  BY <1>1, <1>4
<1>6. keys = <<>> <=> s = <<>>
  <2>1. keys = <<>> <=> n = 0
    BY <1>1, <1>5
  <2>2. s = <<>> <=> n = 0
    BY DEF n
  <2> QED BY <2>1, <2>2
<1>7. ToSet(keys) = {} <=> s = <<>>
  <2>1. ASSUME s # <<>> PROVE keys[1] \in ToSet(keys)
    <3>1. n # 0
      BY <2>1 DEF n
    <3>2. 1 \in DOMAIN keys
      BY <1>1, <1>5, <3>1
    <3> QED BY <3>2 DEF ToSet
  <2>2. ASSUME s = <<>> PROVE ToSet(keys) = {}
    <3>1. keys = <<>>
      BY <1>6, <2>2
    <3> QED BY <3>1 DEF ToSet
  <2> QED BY <2>1, <2>2
<1>8. IsFiniteSet(ToSet(keys))
  BY <1>5, CountOfSet
<1> QED BY <1>5, <1>6, <1>7, <1>8 DEF keys, K

\* impact_precision_recall: perfect for what was expected, once each.
LEMMA ImpactScored ==
  ASSUME NEW E, NEW wanted \in Seq(E), NEW actual \in Seq(E)
  PROVE  ScoredAs(ImpactPrecisionRecall(wanted, actual),
                  ToSet(Keys(wanted)) = ToSet(Keys(actual)) /\ IsInjective(Keys(actual)))
<1> DEFINE s == ImpactPrecisionRecall(wanted, actual)
           W == ToSet(Keys(wanted))
           got == Keys(actual)
           K == {Key(x) : x \in E}
<1>1. /\ got \in Seq(K)
      /\ got = <<>> <=> actual = <<>>
      /\ ToSet(got) = {} <=> actual = <<>>
      /\ W = {} <=> wanted = <<>>
      /\ IsFiniteSet(W)
  <2>1. /\ got \in Seq(K)
        /\ got = <<>> <=> actual = <<>>
        /\ ToSet(got) = {} <=> actual = <<>>
    BY KeysOfList
  <2>2. (W = {} <=> wanted = <<>>) /\ IsFiniteSet(W)
    BY KeysOfList
  <2> QED BY <2>1, <2>2
<1>2. CASE wanted = <<>> /\ actual = <<>>
  <2>1. s.precision = One /\ s.recall = One
    BY <1>2 DEF ImpactPrecisionRecall, Scores
  <2>2. W = ToSet(got) /\ got = <<>>
    BY <1>1, <1>2
  <2>3. IsInjective(got)
    BY <2>2 DEF IsInjective
  <2> QED BY <2>1, <2>2, <2>3, OneIsScore DEF ScoredAs, IsPerfect
<1>3. CASE ~ (wanted = <<>> /\ actual = <<>>)
  <2>1. s = MatchedPrecisionRecall(W, got)
    BY <1>3 DEF ImpactPrecisionRecall
  <2>2. ~ (W = {} /\ got = <<>>)
    BY <1>1, <1>3
  <2>0. IsFiniteSet(W) /\ got \in Seq(K)
    BY <1>1
  <2> HIDE DEF s, W, got, K
  <2>3. ScoredAs(MatchedPrecisionRecall(W, got), W = ToSet(got) /\ IsInjective(got))
    BY <2>0, <2>2, PairsExact
  <2>4. ScoredAs(s, W = ToSet(got) /\ IsInjective(got))
    BY <2>1, <2>3
  <2> QED BY <2>4 DEF s, W, got
<1> QED BY <1>2, <1>3

\* What map_change_impacts returns is a list of positions of candidates.
LEMMA ImpactsListed ==
  ASSUME NEW n \in Nat, NEW reply, IsReply(reply),
         HasResult(MapImpacts([o \in 1..n |-> o], reply))
  PROVE  LET impacts == MapImpacts([o \in 1..n |-> o], reply)[2]
         IN \E m \in Nat : /\ DOMAIN impacts = 1..m
                           /\ \A k \in 1..m : impacts[k].obligation \in 1..n
<1> DEFINE picked == [o \in 1..n |-> o]
           mapped == MapImpacts(picked, reply)
           impacts == mapped[2]
<1>1. picked \in Seq(1..n) /\ Len(picked) = n /\ DOMAIN picked = 1..n /\ \A o \in 1..n : picked[o] = o
  OBVIOUS
<1> HIDE DEF picked
<1>2. \A i, j \in DOMAIN picked : i < j => picked[i] # picked[j]
  BY <1>1
<1>3. HasResult(mapped)
  BY DEF picked
<1>4. \A i \in ToSet(impacts) : i.obligation \in ToSet(picked)
  <2> HIDE DEF mapped
  <2>1. LET r == MapImpacts(picked, reply)[2]
        IN /\ IsInjective([k \in DOMAIN r |-> r[k].obligation])
           /\ \A i \in ToSet(r) : i.obligation \in ToSet(picked) /\ i.confidence \in 0..10
    BY <1>1, <1>2, <1>3, ImpactsAreCandidates DEF mapped
  <2> QED BY <2>1 DEF mapped
<1>5. \E m \in Nat : DOMAIN impacts = 1..m
  <2>1. CASE picked = <<>>
    <3>1. impacts = <<>>
      BY <2>1 DEF MapImpacts, Result
    <3>2. DOMAIN impacts = 1..0 /\ 0 \in Nat
      BY <3>1
    <3> QED BY <3>2
  <2>2. CASE picked # <<>>
    <3> DEFINE first == {i \in DOMAIN reply : \A j \in 1..(i - 1) : reply[j].index # reply[i].index}
               order == Ascending(first)
               m == Cardinality(first)
    <3>1. DOMAIN impacts = DOMAIN order
      BY <1>3, <2>2 DEF MapImpacts, Result, HasResult
    <3>2. DOMAIN reply = 1..Len(reply) /\ Len(reply) \in Nat
      <4> HIDE DEF first, order, m, mapped
      <4> QED BY ReplyParts
    <3>3. m \in Nat /\ order \in [1..m -> first]
      <4>1. first \subseteq DOMAIN reply
        OBVIOUS
      <4>2. IsFiniteSet(DOMAIN reply) /\ DOMAIN reply \subseteq Int
        BY <3>2, FS_Interval
      <4> HIDE DEF first
      <4>3. IsFiniteSet(first) /\ first \in SUBSET Int
        BY <4>1, <4>2, FS_Subset
      <4> QED BY <4>3, AscendingLists
    <3> HIDE DEF mapped, first, order, m
    <3>4. DOMAIN impacts = 1..m
      BY <3>1, <3>3
    <3> QED BY <3>3, <3>4
  <2> QED BY <2>1, <2>2
<1>6. PICK m \in Nat : DOMAIN impacts = 1..m
  BY <1>5
<1> HIDE DEF mapped
<1>7. \A k \in 1..m : impacts[k].obligation \in 1..n
  <2>1. ToSet(picked) \subseteq 1..n
    BY <1>1 DEF ToSet
  <2>2. \A k \in 1..m : impacts[k] \in ToSet(impacts)
    BY <1>6 DEF ToSet
  <2> QED BY <1>4, <2>1, <2>2
<1> QED BY <1>6, <1>7 DEF mapped, picked

LEMMA TakeAll ==
  ASSUME NEW E, NEW s \in Seq(E), NEW n \in Nat, Len(s) <= n
  PROVE  Take(s, n) = s
<1> DEFINE t == Take(s, n)
           m == Len(s)
<1>1. m \in Nat /\ s = [k \in 1..m |-> s[k]]
  OBVIOUS
<1>2. /\ t \in Seq(E) /\ Len(t) = (IF n <= m THEN n ELSE m)
      /\ \A k \in 1..Len(t) : t[k] = s[k]
  BY TakeFacts
<1> HIDE DEF t, m
<1>3. Len(t) = m
  BY <1>1, <1>2 DEF m
<1>4. t = [k \in 1..m |-> t[k]]
  BY <1>2, <1>3
<1> QED BY <1>1, <1>2, <1>3, <1>4 DEF t

\* detect_changes returns a list.
LEMMA ChangesListed ==
  ASSUME NEW Q, NEW base \in Seq(Q), NEW amended \in Seq(Q)
  PROVE  \E C : DetectChanges(base, amended) \in Seq(C)
<1> DEFINE K == KeysOf(base) \cup KeysOf(amended)
           b == Sections(base)
           a == Sections(amended)
           n == Len(b)
           aligned == AlignAll(base, amended)
           New == DOMAIN a \ aligned.consumed
           added == Ascending(New)
           m == Cardinality(New)
           x == aligned.changes
           New1(j) == Change("added", a[j].key, NoSpan, a[j].span)
           y == [k \in DOMAIN added |-> New1(added[k])]
<1>1. IsSections(b, K) /\ IsSections(a, K)
  <2>1. KeysOf(base) \subseteq K /\ KeysOf(amended) \subseteq K
    OBVIOUS
  <2> HIDE DEF K
  <2> QED BY <2>1, SectionsInOrder
<1> HIDE DEF K
<1>2. DetectChanges(base, amended) = x \o y
  BY DEF DetectChanges, AlignAll
<1>3. AlignmentInv(base, amended, K, n, aligned)
  BY <1>1, AlignmentComplete
<1> HIDE DEF aligned
<1>4. x \in Seq(Changed(K))
  BY <1>3 DEF AlignmentInv, Findings
<1>5. DOMAIN a = 1..Len(a) /\ Len(a) \in Nat
  <2> HIDE DEF a, b
  <2> QED BY <1>1 DEF IsSections
<1>6. m \in Nat /\ added \in [1..m -> New]
  <2>1. New \in SUBSET Int /\ New \in SUBSET DOMAIN a /\ IsFiniteSet(DOMAIN a)
    BY <1>5, FS_Interval
  <2> HIDE DEF New
  <2>2. IsFiniteSet(New)
    BY <2>1, FS_Subset
  <2> QED BY <2>1, <2>2, AscendingLists
<1> HIDE DEF New, added, m, x, New1
<1> DEFINE C == Changed(K) \cup {y[k] : k \in 1..m}
<1>7. y = [k \in 1..m |-> y[k]] /\ \A k \in 1..m : y[k] \in C
  BY <1>6
<1> HIDE DEF y
<1>8. Changed(K) \subseteq C
  OBVIOUS
<1> HIDE DEF C
<1>9. x \in Seq(C)
  BY <1>4, <1>8, WiderSequence
<1>10. y \in Seq(C)
  <2>1. y \in [1..m -> C]
    BY <1>7
  <2> QED BY <1>6, <2>1
<1>11. x \o y \in Seq(C)
  BY <1>9, <1>10
<1> QED BY <1>2, <1>11

\* harness.py: where no clause number comes twice, and the obligations are no
\* more than are asked about at once, an impact record is perfect exactly if each
\* change that was detected got the impacts expected of it - for any changes,
\* obligations and replies.
THEOREM ImpactScoresAreExact ==
  ASSUME NEW E, NEW obligations \in Seq(E), Len(obligations) <= CandidateLimit,
         NEW C, NEW changes \in Seq(C),
         NEW expected, \A k \in DOMAIN expected : expected[k] \in Seq(E),
         NEW answer, \A i \in DOMAIN changes : IsReply(answer[i])
  PROVE  ImpactScoreExact(expected, obligations, changes, answer)
<1> DEFINE n == Len(obligations)
           candidates == Take(obligations, CandidateLimit)
           WantedList(c) == IF Kind(c) \in DOMAIN expected THEN expected[Kind(c)] ELSE <<>>
           WantedKeys(c) == IF Kind(c) \in DOMAIN expected THEN ToSet(Keys(expected[Kind(c)])) ELSE {}
           Mapped(i) == MapImpacts([o \in DOMAIN obligations |-> o], answer[i])
           Listed(i) == [k \in DOMAIN Mapped(i)[2] |-> obligations[Mapped(i)[2][k].obligation]]
           Got(i) == [k \in DOMAIN Mapped(i)[2] |-> Key(obligations[Mapped(i)[2][k].obligation])]
           Right(i) == /\ HasResult(Mapped(i))
                       /\ ToSet(Got(i)) = WantedKeys(changes[i]) /\ IsInjective(Got(i))
           Scored1(i) == IF Mapped(i) = Raised THEN Scores(Zero, Zero)
                         ELSE ImpactPrecisionRecall(WantedList(changes[i]), Listed(i))
           D == DOMAIN changes
           total == ScoreImpact(expected, obligations, changes, answer)
<1> SUFFICES ASSUME IsInjective([i \in D |-> Kind(changes[i])])
             PROVE  IsPerfect(total) <=> \A i \in D : Right(i)
  BY DEF ImpactScoreExact
<1>1. n \in Nat /\ DOMAIN obligations = 1..n /\ \A o \in 1..n : obligations[o] \in E
  OBVIOUS
<1>2. candidates = obligations
  <2>1. CandidateLimit \in Nat
    BY RetrievalAssumption
  <2> HIDE DEF candidates
  <2>2. Take(obligations, CandidateLimit) = obligations
    BY <2>1, TakeAll
  <2> QED BY <2>2 DEF candidates
<1>3. \A i \in D : Got(i) = Keys(Listed(i))
  <2> SUFFICES ASSUME NEW i \in D PROVE Got(i) = Keys(Listed(i))
    OBVIOUS
  <2> DEFINE r == Mapped(i)[2]
  <2> HIDE DEF r
  <2>1. Listed(i) = [k \in DOMAIN r |-> obligations[r[k].obligation]]
        /\ Got(i) = [k \in DOMAIN r |-> Key(obligations[r[k].obligation])]
    BY DEF r
  <2> HIDE DEF Listed, Got
  <2> QED BY <2>1 DEF Keys
<1>4. ASSUME NEW i \in D, HasResult(Mapped(i)) PROVE Listed(i) \in Seq(E)
  <2> DEFINE r == Mapped(i)[2]
  <2>1. \E m \in Nat : DOMAIN r = 1..m /\ \A k \in 1..m : r[k].obligation \in 1..n
    <3>1. IsReply(answer[i]) /\ n \in Nat /\ Mapped(i) = MapImpacts([o \in 1..n |-> o], answer[i])
      BY <1>1
    <3> DEFINE reply == answer[i]
               all == [o \in 1..n |-> o]
    <3>2. HasResult(MapImpacts(all, reply)) /\ IsReply(reply)
      BY <1>4, <3>1
    <3>3. r = MapImpacts(all, reply)[2]
      BY <3>1
    <3> HIDE DEF reply, r
    <3>4. LET impacts == MapImpacts([o \in 1..n |-> o], reply)[2]
          IN \E m \in Nat : /\ DOMAIN impacts = 1..m
                            /\ \A k \in 1..m : impacts[k].obligation \in 1..n
      <4> HIDE DEF n
      <4> QED BY <3>1, <3>2, ImpactsListed
    <3> QED BY <3>3, <3>4
  <2> HIDE DEF r
  <2>2. PICK m \in Nat : DOMAIN r = 1..m /\ \A k \in 1..m : r[k].obligation \in 1..n
    BY <2>1
  <2>3. Listed(i) = [k \in 1..m |-> obligations[r[k].obligation]]
    BY <2>2 DEF r
  <2> HIDE DEF Listed
  <2>4. Listed(i) \in [1..m -> E]
    BY <1>1, <2>2, <2>3
  <2> QED BY <2>4
<1>5. \A c : WantedList(c) \in Seq(E) /\ WantedKeys(c) = ToSet(Keys(WantedList(c)))
  <2> SUFFICES ASSUME NEW c PROVE WantedList(c) \in Seq(E) /\ WantedKeys(c) = ToSet(Keys(WantedList(c)))
    OBVIOUS
  <2>1. CASE Kind(c) \in DOMAIN expected
    BY <2>1
  <2>2. CASE Kind(c) \notin DOMAIN expected
    <3>1. WantedList(c) = <<>> /\ WantedKeys(c) = {}
      BY <2>2
    <3> HIDE DEF WantedList, WantedKeys
    <3>2. <<>> \in Seq(E)
      OBVIOUS
    <3>3. ToSet(Keys(<<>>)) = {}
      BY <3>2, KeysOfList
    <3> QED BY <3>1, <3>2, <3>3
  <2> QED BY <2>1, <2>2
<1>6. ASSUME NEW i \in D PROVE ScoredAs(Scored1(i), Right(i))
  <2>1. CASE Mapped(i) = Raised
    <3>1. ~ Right(i)
      BY <2>1 DEF HasResult
    <3>2. Scored1(i).precision = Zero /\ Scored1(i).recall = Zero
      BY <2>1 DEF Scores
    <3> HIDE DEF Scored1, Right
    <3> QED BY <3>1, <3>2, OneIsScore DEF ScoredAs, IsPerfect
  <2>2. CASE Mapped(i) # Raised
    <3>1. HasResult(Mapped(i))
      BY <2>2 DEF HasResult
    <3> DEFINE wanted == WantedList(changes[i])
               actual == Listed(i)
    <3>2. wanted \in Seq(E) /\ actual \in Seq(E)
      <4> HIDE DEF WantedList, Listed, Mapped
      <4> QED BY <1>4, <1>5, <3>1
    <3>3. Scored1(i) = ImpactPrecisionRecall(wanted, actual)
      BY <2>2
    <3>4. Right(i) <=> ToSet(Keys(wanted)) = ToSet(Keys(actual)) /\ IsInjective(Keys(actual))
      <4>1. WantedKeys(changes[i]) = ToSet(Keys(wanted))
        <5> HIDE DEF WantedKeys, WantedList
        <5> QED BY <1>5
      <4>2. Got(i) = Keys(actual)
        <5> HIDE DEF Got, Listed
        <5> QED BY <1>3
      <4>3. Right(i) <=> ToSet(Got(i)) = WantedKeys(changes[i]) /\ IsInjective(Got(i))
        <5> HIDE DEF Got, WantedKeys, Mapped
        <5> QED BY <3>1
      <4> HIDE DEF Right, Got, WantedKeys, wanted, actual
      <4> QED BY <4>1, <4>2, <4>3
    <3> HIDE DEF Right, Scored1, wanted, actual
    <3>5. ScoredAs(ImpactPrecisionRecall(wanted, actual),
                   ToSet(Keys(wanted)) = ToSet(Keys(actual)) /\ IsInjective(Keys(actual)))
      BY <3>2, ImpactScored
    <3> QED BY <3>3, <3>4, <3>5 DEF ScoredAs
  <2> QED BY <2>1, <2>2
<1>7. total = IF changes = <<>> THEN Scores(One, One)
              ELSE Scores(Aggregate([i \in D |-> Scored1(i).precision]),
                          Aggregate([i \in D |-> Scored1(i).recall]))
  <2> DEFINE taken == {i \in D : \A j \in D : Kind(changes[j]) = Kind(changes[i]) => j <= i}
             Score1(i) == LET mapped == MapImpacts([o \in DOMAIN candidates |-> o], answer[i])
                          IN IF mapped = Raised THEN Scores(Zero, Zero)
                             ELSE ImpactPrecisionRecall(WantedList(changes[i]),
                                    [k \in DOMAIN mapped[2] |-> candidates[mapped[2][k].obligation]])
             perChange == [i \in taken |-> Score1(i)]
  <2>1. taken = D
    <3>1. D = 1..Len(changes) /\ Len(changes) \in Nat
      OBVIOUS
    <3>2. \A i, j \in D : Kind(changes[i]) = Kind(changes[j]) => i = j
      BY DEF IsInjective
    <3>3. \A i, j \in D : Kind(changes[j]) = Kind(changes[i]) => j <= i
      BY <3>1, <3>2
    <3> QED BY <3>3
  <2>2. \A i : Score1(i) = Scored1(i)
    <3> HIDE DEF candidates, WantedList
    <3>1. \A i : MapImpacts([o \in DOMAIN candidates |-> o], answer[i]) = Mapped(i)
      BY <1>2
    <3> QED BY <1>2, <3>1
  <2>3. total = IF changes = <<>> THEN Scores(One, One)
                ELSE Scores(Aggregate([i \in taken |-> perChange[i].precision]),
                            Aggregate([i \in taken |-> perChange[i].recall]))
    BY DEF ScoreImpact
  <2> HIDE DEF total, taken, Score1, Scored1
  <2>4. perChange = [i \in D |-> Scored1(i)]
    BY <2>1, <2>2
  <2> QED BY <2>1, <2>3, <2>4
<1> DEFINE ps == [i \in D |-> Scored1(i).precision]
           rs == [i \in D |-> Scored1(i).recall]
<1>8. CASE changes = <<>>
  <2>1. total.precision = One /\ total.recall = One
    <3> HIDE DEF total, Scored1
    <3> QED BY <1>7, <1>8 DEF Scores
  <2>2. D = {}
    BY <1>8
  <2> HIDE DEF total, D
  <2> QED BY <2>1, <2>2, OneIsScore DEF IsPerfect
<1>9. CASE changes # <<>>
  <2> HIDE DEF total, Scored1, Right
  <2>1. total.precision = Aggregate(ps) /\ total.recall = Aggregate(rs)
    BY <1>7, <1>9 DEF Scores
  <2>2. IsFiniteSet(D) /\ D # {}
    <3>1. D = 1..Len(changes) /\ Len(changes) \in Nat /\ Len(changes) # 0
      BY <1>9
    <3> HIDE DEF D
    <3>2. IsFiniteSet(1..Len(changes)) /\ 1 \in 1..Len(changes)
      BY <3>1, FS_Interval
    <3> QED BY <3>1, <3>2
  <2> HIDE DEF D
  <2>3. \A i \in D : IsScore(ps[i]) /\ IsScore(rs[i]) /\ (IsOne(ps[i]) /\ IsOne(rs[i]) <=> Right(i))
    BY <1>6 DEF ScoredAs, IsPerfect
  <2>4. DOMAIN ps = D /\ DOMAIN rs = D
    OBVIOUS
  <2> HIDE DEF ps, rs
  <2>5. IsOne(Aggregate(ps)) <=> \A i \in D : IsOne(ps[i])
    BY <2>2, <2>3, <2>4, AggregateIsOne
  <2>6. IsOne(Aggregate(rs)) <=> \A i \in D : IsOne(rs[i])
    BY <2>2, <2>3, <2>4, AggregateIsOne
  <2>7. IsPerfect(total) <=> IsOne(Aggregate(ps)) /\ IsOne(Aggregate(rs))
    BY <2>1 DEF IsPerfect
  <2> QED BY <2>3, <2>5, <2>6, <2>7
<1> QED BY <1>8, <1>9

-----------------------------------------------------------------------------
(* The bench: each input it reaches is one the theorems above are about    *)

Characters == Space \cup {"c"}
Found == {"c1", "c2", "c3", "c4"}
Marks == {"k1", "k2", "k3"}

\* What the input of an operation is.
BenchInput ==
  /\ task = "parse"   => input \in Seq(Entry(Characters)) /\ Parsed(input)
  /\ task = "diff"    => /\ input[1] \in Seq(VersionParagraphs)
                         /\ input[2] \in Seq(VersionParagraphs)
  /\ task = "extract" => \A a \in 1..Attempts : input[a] \in Outcomes(Items)
  /\ task = "explain" => input[1] \in Nat /\ input[2] \in Seq(Int)
  /\ task = "embed"   => /\ input[1] \in Nat /\ input[2] \in Seq(Seq(Nat))
                         /\ AnswersBatches(input[1], input[2])
  /\ task = "impact"  => IsSpans(input[1]) /\ IsSpans(input[2]) /\ IsReply(input[3])
  /\ task = "tools"   => input \in Seq(Replied) /\ Len(input) >= MaxRounds
  /\ task = "stream"  => input[1] \in Seq(StreamChunks) /\ input[2] \in Nat /\ input[2] > 0
  /\ task = "spend"   => input[1] \in Seq(Rows) /\ input[2] \in Seq(Rows)
  /\ task = "search"  => /\ input[1] \in Seq(Found) /\ input[2] \in Seq(Found)
                         /\ input[3] \in 1..2
  /\ task = "score"   => input[1] \in Seq(Marks) /\ input[2] \in Seq(Marks)
  /\ task = "recall"  => /\ IsFiniteSet(input[1])
                         /\ input[2] \in Seq(Found) /\ input[3] \in Seq(Found)
  /\ task = "grade"   => /\ \E C : input[1] \in Seq(C)
                         /\ input[2] \in Seq(ToSet(Obligations))
                         /\ \A i \in DOMAIN input[1] : IsReply(input[3][i])

\* The bench's short sequences are sequences.
LEMMA UpToAreSequences ==
  ASSUME NEW n \in Nat, NEW S
  PROVE  UpTo(n, S) \subseteq Seq(S)
<1> SUFFICES ASSUME NEW s \in UpTo(n, S) PROVE s \in Seq(S)
  OBVIOUS
<1>1. PICK k \in 0..n : s \in [1..k -> S]
  BY DEF UpTo
<1> QED BY <1>1

LEMMA ItemsOfBench == IsItems(Items) /\ Text \in Seq(Space \cup {"c"})
<1>1. \A s \in Spans : s \in Int \X Int
  BY DEF Spans
<1>2. IsItems(Items)
  BY <1>1 DEF IsItems, Items
<1>3. Text \in Seq(Space \cup {"c"})
  BY DEF Text, Space
<1> QED BY <1>2, <1>3

LEMMA ArrangementsAreSequences ==
  ASSUME NEW S, IsFiniteSet(S), NEW s \in Arrangements(S)
  PROVE  s \in Seq(S) /\ IsInjective(s)
<1>1. PICK T \in SUBSET S : s \in SetToSeqs(T)
  BY DEF Arrangements
<1>2. IsFiniteSet(T) /\ Cardinality(T) \in Nat
  BY FS_Subset, FS_CardinalityType
<1>3. s \in [1..Cardinality(T) -> T] /\ \A i, j \in 1..Cardinality(T) : i # j => s[i] # s[j]
  BY <1>1 DEF SetToSeqs
<1>4. s \in Seq(S) /\ DOMAIN s = 1..Cardinality(T)
  BY <1>2, <1>3
<1> QED BY <1>3, <1>4 DEF IsInjective

\* Answers of the bench, of a batch each.
LEMMA BenchAnswers ==
  ASSUME Vectors
  PROVE  /\ task' = "embed" /\ input'[1] \in Nat /\ input'[2] \in Seq(Seq(Nat))
         /\ AnswersBatches(input'[1], input'[2])
<1>1. PICK texts \in 0..5 :
        LET batches == (texts + EmbedBatch - 1) \div EmbedBatch
            batch(b) == 0..(Min({EmbedBatch, texts - (b - 1) * EmbedBatch}) - 1)
        IN \E answers \in [1..batches -> Arrangements(0..(EmbedBatch - 1))] :
             /\ \A b \in 1..batches : ToSet(answers[b]) \subseteq batch(b)
             /\ Call("embed", <<texts, answers>>)
  BY DEF Vectors
<1> DEFINE n == (texts + EmbedBatch - 1) \div EmbedBatch
<1>2. PICK answers \in [1..n -> Arrangements(0..(EmbedBatch - 1))] :
        /\ \A b \in 1..n : ToSet(answers[b]) \subseteq 0..(BatchSize(texts, b) - 1)
        /\ Call("embed", <<texts, answers>>)
  BY <1>1 DEF BatchSize
<1>3. n \in Nat /\ texts \in Nat
  <2>1. texts \in Nat
    OBVIOUS
  <2> QED BY <2>1, BatchesCover
<1>4. ASSUME NEW b \in 1..n
      PROVE  answers[b] \in Seq(Nat) /\ IsAnswer(answers[b], BatchSize(texts, b))
  <2> DEFINE S == 0..(EmbedBatch - 1)
             C == 0..(BatchSize(texts, b) - 1)
  <2>1. IsFiniteSet(S) /\ S \subseteq Nat
    BY LlmClientAssumption, FS_Interval
  <2>2. answers[b] \in Arrangements(S) /\ ToSet(answers[b]) \subseteq C
    BY <1>2
  <2> HIDE DEF S, C
  <2>3. answers[b] \in Seq(S) /\ IsInjective(answers[b])
    BY <2>1, <2>2, ArrangementsAreSequences
  <2>4. DOMAIN answers[b] = 1..Len(answers[b]) /\ Len(answers[b]) \in Nat /\ answers[b] \in Seq(Nat)
    BY <2>1, <2>3, WiderSequence
  <2>5. \A k \in DOMAIN answers[b] : answers[b][k] \in C
    BY <2>2 DEF ToSet
  <2>6. answers[b] \in Seq(C)
    BY <2>3, <2>4, <2>5
  <2> QED BY <2>3, <2>4, <2>6 DEF IsAnswer, C
<1>5. answers \in Seq(Seq(Nat)) /\ Len(answers) = n /\ DOMAIN answers = 1..n
  <2> DEFINE B == Seq(Nat)
  <2>1. \A b \in 1..n : answers[b] \in B
    BY <1>4
  <2> HIDE DEF n, B
  <2> QED BY <1>2, <1>3, <2>1 DEF B
<1>6. AnswersBatches(texts, answers)
  <2> HIDE DEF n
  <2> QED BY <1>4, <1>5 DEF AnswersBatches, n
<1> QED BY <1>2, <1>3, <1>5, <1>6 DEF Call

LEMMA BodiesOfBench == HasBreak(Characters) /\ Bodies \subseteq Seq(Characters)
<1>1. HasBreak(Characters)
  BY DEF HasBreak, Characters, Space
<1> DEFINE c == "c"
           s == "s"
           n == "n"
<1>2. c \in Characters /\ s \in Characters /\ n \in Characters
  BY DEF Characters, Space
<1>3. Bodies = {<<c>>, <<c, s, c>>, <<c, c, c, n, c>>, <<c, n, n, n, c>>, <<c, c, c, s, c, n, c, c>>,
                <<c, c, c, c, c, c, c, c, c>>, <<c, c, c, c, s, s, s, c, c, c, c, c, c, c>>}
  BY DEF Bodies
<1> HIDE DEF c, s, n
<1>4. /\ <<c>> \in Seq(Characters) /\ <<c, s, c>> \in Seq(Characters)
      /\ <<c, c, c, n, c>> \in Seq(Characters) /\ <<c, n, n, n, c>> \in Seq(Characters)
  BY <1>2
<1>5. /\ <<c, c, c, s, c, n, c, c>> \in Seq(Characters)
      /\ <<c, c, c, c, c, c, c, c, c>> \in Seq(Characters)
  BY <1>2
<1>6. <<c, c, c, c, s, s, s, c, c, c, c, c, c, c>> \in Seq(Characters)
  BY <1>2
<1> QED BY <1>1, <1>3, <1>4, <1>5, <1>6

\* The documents of the bench.
LEMMA BenchDocuments == ParserOutputs \subseteq {e \in Seq(Entry(Characters)) : Parsed(e)}
<1> DEFINE E == Entry(Characters)
           P == Entries(Bodies, {NoPage})
           Q == Entries({<<"c">>, <<"c", "s", "c">>}, {1, 2})
<1>1. P \subseteq E
  <2>1. {NoPage} \subseteq Nat /\ Bodies \subseteq Seq(Characters)
    BY BodiesOfBench DEF NoPage
  <2> QED BY <2>1 DEF Entries, Entry, Kinds
<1>2. Q \subseteq E
  <2>1. {<<"c">>, <<"c", "s", "c">>} \subseteq Seq(Characters)
    <3>1. {<<"c">>, <<"c", "s", "c">>} \subseteq Bodies
      BY DEF Bodies
    <3> QED BY <3>1, BodiesOfBench
  <2> DEFINE X == {<<"c">>, <<"c", "s", "c">>}
             Y == {1, 2}
  <2>2. Y \subseteq Nat /\ X \subseteq Seq(Characters)
    BY <2>1
  <2> HIDE DEF X, Y
  <2>3. Entries(X, Y) \subseteq E
    BY <2>2 DEF Entries, Entry, Kinds
  <2> QED BY <2>3 DEF X, Y
<1> HIDE DEF E, P, Q
<1>3. UpTo(3, P) \subseteq Seq(E) /\ UpTo(3, Q) \subseteq Seq(E)
  <2>1. 3 \in Nat
    OBVIOUS
  <2>2. UpTo(3, P) \subseteq Seq(P) /\ UpTo(3, Q) \subseteq Seq(Q)
    BY <2>1, UpToAreSequences
  <2>3. \A s \in Seq(P) : s \in Seq(E)
    BY <1>1, WiderSequence
  <2>4. \A s \in Seq(Q) : s \in Seq(E)
    BY <1>2, WiderSequence
  <2> QED BY <2>2, <2>3, <2>4
<1>4. ParserOutputs = {e \in UpTo(3, P) \cup UpTo(3, Q) : Parsed(e)}
  BY DEF ParserOutputs, P, Q
<1> QED BY <1>3, <1>4 DEF E

\* The replies of the bench.
LEMMA BenchReplies == Reply("parsed", Usage, <<>>) \in Replied /\ RoundReplies \subseteq Replied
<1> DEFINE S == {"failed", "no_choice", "parsed"}
           U == {NoUsage} \cup [prompt : Nat, completion : Nat]
           C == Seq(ToolKinds)
<1>1. ToolCalls \subseteq C /\ <<>> \in C
  <2> DEFINE B == {"served", "unregistered", "llm_error"}
  <2>1. UpTo(2, B) \subseteq Seq(B)
    BY UpToAreSequences
  <2>2. B \subseteq ToolKinds /\ ToolCalls \subseteq UpTo(2, B)
    BY DEF ToolKinds, ToolCalls
  <2> HIDE DEF B
  <2>3. \A s \in Seq(B) : s \in Seq(ToolKinds)
    BY <2>2, WiderSequence
  <2> QED BY <2>1, <2>2, <2>3
<1>2. Usage \in U /\ NoUsage \in U
  BY DEF Usage, Tokens
<1>3. Replied = [status : S, usage : U, calls : C]
  BY DEF Replied
<1>4. "failed" \in S /\ "no_choice" \in S /\ "parsed" \in S
  OBVIOUS
<1> HIDE DEF S, U, C
<1>5. \A s \in S, u \in U, c \in C : Reply(s, u, c) \in Replied
  BY <1>3 DEF Reply
<1>6. ASSUME NEW r \in RoundReplies PROVE r \in Replied
  <2>1. \/ r = Reply("failed", NoUsage, <<>>) \/ r = Reply("no_choice", Usage, <<>>)
        \/ r = Reply("parsed", Usage, <<>>) \/ r = Reply("parsed", NoUsage, <<>>)
        \/ \E c \in ToolCalls : r = Reply("parsed", Usage, c)
    BY DEF RoundReplies
  <2> QED BY <1>1, <1>2, <1>4, <1>5, <2>1
<1> QED BY <1>1, <1>2, <1>4, <1>5, <1>6

\* What the bench grades.
LEMMA BenchObligations ==
  /\ Obligations \in Seq(ToSet(Obligations)) /\ Len(Obligations) = 2
  /\ {Obligations[1]} \subseteq ToSet(Obligations)
<1> DEFINE a == Pair("1", "a", FALSE)
           b == Pair("2", "a", FALSE)
<1>1. Obligations = <<a, b>>
  BY DEF Obligations
<1> HIDE DEF a, b
<1>2. ToSet(<<a, b>>) = {a, b}
  <2>1. DOMAIN <<a, b>> = {1, 2} /\ <<a, b>>[1] = a /\ <<a, b>>[2] = b
    OBVIOUS
  <2> QED BY <2>1 DEF ToSet
<1>3. <<a, b>> \in Seq({a, b}) /\ Len(<<a, b>>) = 2 /\ <<a, b>>[1] = a
  OBVIOUS
<1> QED BY <1>1, <1>2, <1>3

LEMMA BenchAnswersAreReplies == \A answer \in Answers : IsReply(answer)
<1> DEFINE R == [index : Int, confidence : Int]
<1>1. Mapping(0, 5) \in R /\ Mapping(1, 5) \in R /\ Mapping(5, 5) \in R
  BY DEF Mapping
<1>2. ASSUME NEW answer \in Answers PROVE answer \in Seq(R)
  <2> DEFINE first == Mapping(0, 5)
             second == Mapping(1, 5)
             third == Mapping(5, 5)
  <2>1. answer = <<>> \/ answer = <<first>> \/ answer = <<second>> \/ answer = <<third>>
    BY DEF Answers
  <2>2. first \in R /\ second \in R /\ third \in R
    BY <1>1
  <2> HIDE DEF R, first, second, third
  <2>3. <<>> \in Seq(R)
    OBVIOUS
  <2>4. ASSUME NEW x \in R PROVE <<x>> \in Seq(R)
    OBVIOUS
  <2> QED BY ONLY <2>1, <2>2, <2>3, <2>4
<1> QED BY <1>2 DEF IsReply

LEMMA BenchChanges == \A changes \in GradedChanges : \E C : changes \in Seq(C)
<1> SUFFICES ASSUME NEW changes \in GradedChanges PROVE \E C : changes \in Seq(C)
  OBVIOUS
<1> DEFINE Q == {Clause1, Paragraph(Number(1, 0), "b"), Paragraph(Number(2, 0), "a")}
<1>1. PICK base \in UpTo(2, Q), amended \in UpTo(2, Q) : changes = DetectChanges(base, amended)
  BY DEF GradedChanges, Graded
<1> HIDE DEF Q
<1>2. base \in Seq(Q) /\ amended \in Seq(Q)
  BY UpToAreSequences
<1> QED BY <1>1, <1>2, ChangesListed

\* One more element, and the functions that are sequences.
LEMMA LongerSequence ==
  ASSUME NEW S, NEW s \in Seq(S), NEW x \in S
  PROVE  Append(s, x) \in Seq(S) /\ Len(Append(s, x)) = Len(s) + 1
OBVIOUS

LEMMA ShortSequence ==
  ASSUME NEW n \in Nat, NEW S, NEW s \in [1..n -> S]
  PROVE  s \in Seq(S) /\ Len(s) = n
OBVIOUS

\* The chunks the bench's searches find are finitely many.
LEMMA FoundIsFinite == IsFiniteSet(Found)
<1>1. IsFiniteSet({"c1"})
  BY FS_Singleton
<1>2. IsFiniteSet({"c1"} \cup {"c2"})
  BY <1>1, FS_AddElement
<1>3. IsFiniteSet(({"c1"} \cup {"c2"}) \cup {"c3"})
  BY <1>2, FS_AddElement
<1>4. IsFiniteSet((({"c1"} \cup {"c2"}) \cup {"c3"}) \cup {"c4"})
  BY <1>3, FS_AddElement
<1>5. Found = (({"c1"} \cup {"c2"}) \cup {"c3"}) \cup {"c4"}
  BY DEF Found
<1> QED BY <1>4, <1>5

\* Each call of the bench has the input of its kind.
LEMMA BenchCalls ==
  ASSUME Next
  PROVE  BenchInput' \/ (task' = task /\ input' = input)
<1>1. CASE Diff
  <2>1. PICK base \in UpTo(3, VersionParagraphs), amended \in UpTo(3, VersionParagraphs) :
          Call("diff", <<base, amended>>)
    BY <1>1 DEF Diff
  <2>2. base \in Seq(VersionParagraphs) /\ amended \in Seq(VersionParagraphs)
    BY UpToAreSequences
  <2> QED BY <2>1, <2>2 DEF Call, BenchInput
<1>2. CASE Extract
  <2>1. PICK first \in CallResults(1), second \in CallResults(2) : Call("extract", <<first, second>>)
    BY <1>2 DEF Extract
  <2>2. first \in Outcomes(Items) /\ second \in Outcomes(Items)
    BY UpToAreSequences DEF CallResults, Outcomes
  <2>3. \A a \in 1..Attempts : input'[a] \in Outcomes(Items)
    BY <2>1, <2>2 DEF Call, Attempts
  <2> QED BY <2>1, <2>3 DEF Call, BenchInput
<1>3. CASE Explain
  <2>1. PICK changes \in 0..3, indices \in UpTo(4, -1..3) : Call("explain", <<changes, indices>>)
    BY <1>3 DEF Explain
  <2>2. indices \in Seq(-1..3)
    BY UpToAreSequences
  <2>3. indices \in Seq(Int)
    BY <2>2
  <2> QED BY <2>1, <2>3 DEF Call, BenchInput
<1>6. CASE Vectors
  BY <1>6, BenchAnswers DEF BenchInput
<1>7. CASE Impact
  <2>1. PICK obligations \in UpTo(3, {<<0, 2>>, <<1, 4>>, <<5, 7>>}),
             chunks \in UpTo(2, {<<0, 2>>, <<2, 5>>, <<4, 6>>}), reply \in UpTo(2, Mappings) :
          Call("impact", <<obligations, chunks, reply>>)
    BY <1>7 DEF Impact
  <2>2. /\ obligations \in Seq({<<0, 2>>, <<1, 4>>, <<5, 7>>})
        /\ chunks \in Seq({<<0, 2>>, <<2, 5>>, <<4, 6>>}) /\ reply \in Seq(Mappings)
    BY UpToAreSequences
  <2>3. IsSpans(obligations) /\ IsSpans(chunks)
    <3> DEFINE P == Int \X Int
    <3>1. {<<0, 2>>, <<1, 4>>, <<5, 7>>} \subseteq P /\ {<<0, 2>>, <<2, 5>>, <<4, 6>>} \subseteq P
      OBVIOUS
    <3> HIDE DEF P
    <3>2. obligations \in Seq(P) /\ chunks \in Seq(P)
      BY <2>2, <3>1, WiderSequence
    <3> QED BY <3>2 DEF IsSpans, P
  <2>4. Mappings \subseteq [index : Int, confidence : Int]
    BY DEF Mappings, Mapping
  <2>5. IsReply(reply)
    BY <2>2, <2>4, WiderSequence DEF IsReply
  <2> QED BY <2>1, <2>3, <2>5 DEF Call, BenchInput
<1>8. CASE Parse
  <2>1. PICK entries \in ParserOutputs : Call("parse", entries)
    BY <1>8 DEF Parse
  <2>2. entries \in Seq(Entry(Characters)) /\ Parsed(entries)
    BY BenchDocuments
  <2> QED BY <2>1, <2>2 DEF Call, BenchInput
<1>9. CASE Tools
  <2>1. PICK replies \in [1..MaxRounds -> RoundReplies] :
          Call("tools", Append(replies, Reply("parsed", Usage, <<>>)))
    BY <1>9 DEF Tools
  <2> DEFINE final == Reply("parsed", Usage, <<>>)
             all == Append(replies, final)
  <2>2. final \in Replied /\ RoundReplies \subseteq Replied
    BY BenchReplies
  <2> HIDE DEF final
  <2>3. all \in Seq(Replied) /\ Len(all) = 4
    <3>1. MaxRounds = 3
      BY DEF MaxRounds
    <3>2. replies \in [1..3 -> RoundReplies]
      BY <3>1
    <3>3. replies \in Seq(RoundReplies) /\ Len(replies) = 3
      <4> DEFINE R == RoundReplies
      <4>1. replies \in [1..3 -> R]
        BY <3>2
      <4> HIDE DEF R
      <4>2. replies \in Seq(R) /\ Len(replies) = 3
        BY <4>1, ShortSequence
      <4> QED BY <4>2 DEF R
    <3> DEFINE B == Replied
    <3>4. replies \in Seq(B) /\ final \in B
      BY <2>2, <3>3, WiderSequence
    <3> HIDE DEF B
    <3>5. all \in Seq(B) /\ Len(all) = 4
      <4>1. Len(replies) = 3
        BY <3>3
      <4>2. Append(replies, final) \in Seq(B) /\ Len(Append(replies, final)) = Len(replies) + 1
        BY ONLY <3>4, LongerSequence
      <4> QED BY ONLY <4>1, <4>2 DEF all
    <3> QED BY <3>5 DEF B
  <2>4. task' = "tools" /\ input' = all
    BY <2>1 DEF Call, final
  <2>5. input' \in Seq(Replied) /\ Len(input') >= MaxRounds
    <3> HIDE DEF all
    <3>1. MaxRounds = 3
      BY DEF MaxRounds
    <3> QED BY <2>3, <2>4, <3>1
  <2> QED BY <2>4, <2>5 DEF BenchInput
<1>10. CASE Stream
  <2>1. PICK chunks \in UpTo(4, {"delta", "usage", "failed"}), enough \in 1..3 :
          Call("stream", <<chunks, enough>>)
    BY <1>10 DEF Stream
  <2>2. chunks \in Seq(StreamChunks)
    BY UpToAreSequences DEF StreamChunks
  <2> QED BY <2>1, <2>2 DEF Call, BenchInput
<1>11. CASE Account
  <2>1. PICK rows \in UpTo(3, Rows), meanwhile \in UpTo(1, Rows) : Call("spend", <<rows, meanwhile>>)
    BY <1>11 DEF Account
  <2>2. rows \in Seq(Rows) /\ meanwhile \in Seq(Rows)
    BY UpToAreSequences
  <2> QED BY <2>1, <2>2 DEF Call, BenchInput
<1>12. CASE Search
  <2>1. PICK byVector \in Arrangements(Found), byText \in Arrangements(Found), limit \in 1..2 :
          Call("search", <<byVector, byText, limit>>)
    BY <1>12 DEF Search, Found
  <2>2. IsFiniteSet(Found)
    BY FoundIsFinite
  <2>3. byVector \in Seq(Found) /\ byText \in Seq(Found)
    BY <2>2, ArrangementsAreSequences
  <2> QED BY <2>1, <2>3 DEF Call, BenchInput
<1>13. CASE Measure
  <2>1. PICK expected \in UpTo(3, Marks), actual \in UpTo(3, Marks) :
          Call("score", <<expected, actual>>)
    BY <1>13 DEF Measure, Marks
  <2>2. expected \in Seq(Marks) /\ actual \in Seq(Marks)
    BY UpToAreSequences
  <2> QED BY <2>1, <2>2 DEF Call, BenchInput
<1>14. CASE Recall
  <2> DEFINE S == {"c1", "c2", "c3"}
  <2>1. PICK expected \in SUBSET S, byVector \in Arrangements(S), byText \in Arrangements(S) :
          Call("recall", <<expected, byVector, byText>>)
    BY <1>14 DEF Recall
  <2>2. IsFiniteSet(S) /\ S \subseteq Found
    <3>1. IsFiniteSet(Found) /\ S \subseteq Found
      BY FoundIsFinite DEF Found
    <3> HIDE DEF S
    <3> QED BY <3>1, FS_Subset
  <2> HIDE DEF S
  <2>3. byVector \in Seq(S) /\ byText \in Seq(S) /\ IsFiniteSet(expected)
    BY <2>2, ArrangementsAreSequences, FS_Subset
  <2>4. byVector \in Seq(Found) /\ byText \in Seq(Found)
    BY <2>2, <2>3, WiderSequence
  <2> QED BY <2>1, <2>3, <2>4 DEF Call, BenchInput
<1>15. CASE Grade
  <2>1. PICK changes \in GradedChanges, wanted \in UpTo(1, {Obligations[1]}) :
          \E answer \in [DOMAIN changes -> Answers] : Call("grade", <<changes, wanted, answer>>)
    BY <1>15 DEF Grade
  <2>2. PICK answer \in [DOMAIN changes -> Answers] : Call("grade", <<changes, wanted, answer>>)
    BY <2>1
  <2>3. \E C : changes \in Seq(C)
    BY BenchChanges
  <2>4. wanted \in Seq(ToSet(Obligations))
    <3>1. wanted \in Seq({Obligations[1]})
      BY UpToAreSequences
    <3>2. {Obligations[1]} \subseteq ToSet(Obligations)
      BY BenchObligations
    <3> QED BY <3>1, <3>2, WiderSequence
  <2>5. \A i \in DOMAIN changes : IsReply(answer[i])
    BY BenchAnswersAreReplies
  <2> QED BY <2>2, <2>3, <2>4, <2>5 DEF Call, BenchInput
<1>4. CASE Return
  BY <1>4 DEF Return, BenchInput
<1>5. CASE Work
  BY <1>5 DEF Work
<1> QED BY <1>1, <1>2, <1>3, <1>4, <1>5, <1>6, <1>7, <1>8, <1>9, <1>10, <1>11, <1>12, <1>13,
         <1>14, <1>15 DEF Next

LEMMA BenchInputs == Spec => []BenchInput
<1>1. Init => BenchInput
  BY DEF Init, BenchInput
<1>2. BenchInput /\ [Next]_vars => BenchInput'
  <2> SUFFICES ASSUME BenchInput, [Next]_vars PROVE BenchInput'
    OBVIOUS
  <2>1. BenchInput' \/ (task' = task /\ input' = input)
    BY BenchCalls DEF vars
  <2> QED BY <2>1 DEF BenchInput
<1> QED BY <1>1, <1>2, PTL DEF Spec

\* parsing.py, diffing.py: over the bench, the canonical text is its blocks, its
\* pages share it, and its paragraphs never join two blocks.
THEOREM BenchCanonicalText == Spec => []CanonicalText
<1>1. BenchInput => CanonicalText
  BY ParagraphsFollowBlocks, PagesShareTheText, BodiesOfBench DEF BenchInput, CanonicalText
<1> QED BY <1>1, BenchInputs, PTL

\* chunking.py: over the bench, chunks hold the text, in order and within budget.
THEOREM BenchChunksFit == Spec => []ChunksFit
<1>1. BenchInput => ChunksFit
  BY ChunksHoldTheText, BodiesOfBench DEF BenchInput, ChunksFit
<1> QED BY <1>1, BenchInputs, PTL

\* diffing.py: over the bench, changes are those of the clauses by occurrence.
THEOREM BenchDiffIsFaithful == Spec => []DiffIsFaithful
<1>1. BenchInput => DiffIsFaithful
  BY AlignmentByOccurrence, NumbersAreKept DEF BenchInput, DiffIsFaithful
<1> QED BY <1>1, BenchInputs, PTL

\* diffing.py: over the bench, a diff mirrors.
THEOREM BenchDiffIsMirrored == Spec => []DiffIsMirrored
<1>1. BenchInput => DiffIsMirrored
  BY DiffsMirror DEF BenchInput, DiffIsMirrored
<1> QED BY <1>1, BenchInputs, PTL

\* extraction.py: over the bench, extractions cite the text.
THEOREM BenchExtractionCites == Spec => []ExtractionCites
<1>1. BenchInput => ExtractionCites
  BY ExtractionsCiteTheText, ItemsOfBench DEF BenchInput, ExtractionCites
<1> QED BY <1>1, BenchInputs, PTL

\* change_report.py: over the bench, each change is explained.
THEOREM BenchExplanationsFit == Spec => []ExplanationsFit
<1>1. BenchInput => ExplanationsFit
  BY ExplanationsNameTheirChange DEF BenchInput, ExplanationsFit
<1> QED BY <1>1, BenchInputs, PTL

\* impact.py: over the bench, impacts are candidates and candidates overlap hits.
THEOREM BenchImpactsFollow == Spec => []ImpactsFollowRetrieval
<1>1. BenchInput => ImpactsFollowRetrieval
  BY ImpactsAreGrounded DEF BenchInput, ImpactsFollowRetrieval
<1> QED BY <1>1, BenchInputs, PTL

\* client.py: over the bench, what is stored for a text is its own vector.
THEOREM BenchVectorsAligned == Spec => []VectorsAligned
<1>1. BenchInput => VectorsAligned
  BY VectorsStayAligned DEF BenchInput, VectorsAligned
<1> QED BY <1>1, BenchInputs, PTL

\* client.py: over the bench, every call is accounted for once, with all its
\* rounds, or the stream it was is reported as lost.
THEOREM BenchCallsAccounted == Spec => []CallsAccounted
<1>1. BenchInput => CallsAccounted
  <2> SUFFICES ASSUME BenchInput PROVE CallsAccounted
    OBVIOUS
  <2>0. "mini" \in DOMAIN Prices
    BY DEF Prices
  <2>1. ASSUME task = "tools"
        PROVE  ToolLoopAccounted("mini", input) /\ PlainLoopIsComplete("mini", input[1])
    <3>1. input \in Seq(Replied) /\ Len(input) >= MaxRounds
      BY <2>1 DEF BenchInput
    <3>2. input[1] \in Replied
      BY <3>1 DEF MaxRounds
    <3> QED BY <2>0, <3>1, <3>2, ToolLoopsAccounted, PlainLoops
  <2>2. ASSUME task = "stream" PROVE StreamAccounted("mini", input[1], input[2])
    <3>1. input[1] \in Seq(StreamChunks) /\ input[2] \in Nat /\ input[2] > 0
      BY <2>2 DEF BenchInput
    <3> QED BY <3>1, StreamsAccounted
  <2> QED BY <2>1, <2>2 DEF CallsAccounted
<1> QED BY <1>1, BenchInputs, PTL

\* usage.py: over the bench, the spend report adds up.
THEOREM BenchSpendAddsUp == Spec => []SpendAddsUp
<1>1. BenchInput => SpendAddsUp
  <2> SUFFICES ASSUME BenchInput, task = "spend" PROVE SpendReportAddsUp(input[1], input[2])
    BY DEF SpendAddsUp
  <2>1. IsRows(Rows)
    BY DEF IsRows, Rows, Row
  <2>2. input[1] \in Seq(Rows) /\ input[2] \in Seq(Rows)
    BY DEF BenchInput
  <2> QED BY <2>1, <2>2, SpendsAddUp
<1> QED BY <1>1, BenchInputs, PTL

\* search.py: over the bench, fusion follows the agreement of the engines, for
\* every RRF_K that its pages of two stay below.
THEOREM BenchFusionAgrees == RrfK >= 3 => (Spec => []FusionAgrees)
<1> SUFFICES ASSUME RrfK >= 3 PROVE Spec => []FusionAgrees
  OBVIOUS
<1>1. BenchInput => FusionAgrees
  <2> SUFFICES ASSUME BenchInput, task = "search" PROVE HitsFused(input[1], input[2], input[3])
    BY DEF FusionAgrees
  <2>1. input[1] \in Seq(Found) /\ input[2] \in Seq(Found) /\ input[3] \in 1..2
    BY DEF BenchInput
  <2>2. input[3] \in Nat /\ DepthFactor * input[3] <= RrfK + 1
    <3>1. RrfK \in Nat
      BY RetrievalAssumption
    <3> QED BY <2>1, <3>1 DEF DepthFactor
  <2> QED BY <2>1, <2>2, FusionFollowsAgreement
<1> QED BY <1>1, BenchInputs, PTL

\* metrics.py, harness.py: over the bench, scores are perfect exactly where the
\* answers are, for every CANDIDATE_LIMIT that its two obligations stay within.
THEOREM BenchScoresExact == CandidateLimit >= 2 => (Spec => []ScoresExact)
<1> SUFFICES ASSUME CandidateLimit >= 2 PROVE Spec => []ScoresExact
  OBVIOUS
<1>1. BenchInput => ScoresExact
  <2> SUFFICES ASSUME BenchInput PROVE ScoresExact
    OBVIOUS
  <2>1. ASSUME task = "score" PROVE PerfectIsExact(input[1], input[2])
    BY <2>1, PerfectScoresAreExact DEF BenchInput
  <2>2. ASSUME task = "recall" PROVE RecallGrows(input[1], input[2], input[3], {1, 2})
    <3>1. IsFiniteSet(input[1]) /\ input[2] \in Seq(Found) /\ input[3] \in Seq(Found)
      BY <2>2 DEF BenchInput
    <3> DEFINE ks == {1, 2}
    <3>2. ks \in SUBSET Nat /\ 2 \in Nat /\ \A k \in ks : k <= 2
      OBVIOUS
    <3> HIDE DEF ks
    <3>3. RecallGrows(input[1], input[2], input[3], ks)
      BY <3>1, <3>2, RecallGrowsWithK
    <3> QED BY <3>3 DEF ks
  <2>3. ASSUME task = "extract" PROVE TripwireIsSilent(input, Len(Text))
    <3>1. \A a \in 1..Attempts : input[a] \in Outcomes(Items)
      BY <2>3 DEF BenchInput
    <3>2. Len(Text) \in Nat /\ IsItems(Items)
      BY ItemsOfBench
    <3> QED BY <3>1, <3>2, TripwireStaysSilent
  <2>4. ASSUME task = "grade"
        PROVE  LET changes == input[1]
                   golden  == [k \in {Kind(changes[i]) : i \in DOMAIN changes} \cap KindsOfChange
                                 |-> input[2]]
               IN ImpactScoreExact(golden, Obligations, changes, input[3])
    <3> DEFINE changes == input[1]
               golden == [k \in {Kind(changes[i]) : i \in DOMAIN changes} \cap KindsOfChange |-> input[2]]
               E == ToSet(Obligations)
    <3>1. /\ \E C : changes \in Seq(C)
          /\ input[2] \in Seq(E)
          /\ \A i \in DOMAIN changes : IsReply(input[3][i])
      BY <2>4 DEF BenchInput
    <3>2. PICK C : changes \in Seq(C)
      BY <3>1
    <3>3. Obligations \in Seq(E) /\ Len(Obligations) <= CandidateLimit
      <4>1. CandidateLimit \in Nat
        BY RetrievalAssumption
      <4> QED BY <4>1, BenchObligations
    <3>4. \A k \in DOMAIN golden : golden[k] \in Seq(E)
      BY <3>1
    <3> HIDE DEF golden, changes, E
    <3>5. ImpactScoreExact(golden, Obligations, changes, input[3])
      BY <3>1, <3>2, <3>3, <3>4, ImpactScoresAreExact
    <3> QED BY <3>5 DEF golden, changes
  <2> QED BY <2>1, <2>2, <2>3, <2>4 DEF ScoresExact
<1> QED BY <1>1, BenchInputs, PTL
=============================================================================
