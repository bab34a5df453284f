------------------------------ MODULE Metrics ------------------------------
(***************************************************************************)
(* The scores of the evaluation harness (evals/metrics.py, and the runs of *)
(* evals/harness.py over the pipeline): what is compared with what, and    *)
(* what counts as perfect.  A score is a ratio of naturals.                *)
(***************************************************************************)
EXTENDS Retrieval, Diffing

Ratio(n, d) == IF d = 0 THEN [n |-> 0, d |-> 1] ELSE [n |-> n, d |-> d]
Zero == Ratio(0, 1)
One  == Ratio(1, 1)
IsOne(r)     == r.n = r.d
AtMost(r, s) == r.n * s.d <= s.n * r.d

Scores(precision, recall) == [precision |-> precision, recall |-> recall]
IsPerfect(s) == IsOne(s.precision) /\ IsOne(s.recall)

\* recall_at_k; a record without expected chunks is malformed.
RecallAtK(expected, retrieved, k) ==
  IF expected = {} THEN Raised
  ELSE Result(Ratio(Cardinality(expected \cap ToSet(Take(retrieved, k))),
                    Cardinality(expected)))

\* run_retrieve, one record: a recall for each k, of one search for the largest.
ScoreRetrieve(expected, byVector, byText, ks) ==
  LET hits == HybridHits(byVector, byText, Max(ks))
  IN [k \in ks |-> RecallAtK(expected, hits, k)]

\* citation_spans_valid
CitationSpansValid(length, spans) ==
  IF spans = <<>> THEN One
  ELSE Ratio(Cardinality({k \in DOMAIN spans : IsGrounded(spans[k], length)}), Len(spans))

\* Mutant of MatchedPrecisionRecall: what is emitted twice counts once.
MatchedOnce(expected, actual) ==
  LET matched == Cardinality(expected \cap ToSet(actual))
  IN Scores(Ratio(matched, Cardinality(ToSet(actual))), Ratio(matched, Cardinality(expected)))

\* _matched_precision_recall: what is emitted twice counts twice.
MatchedPrecisionRecall(expected, actual) ==
  LET matched == Cardinality(expected \cap ToSet(actual))
  IN Scores(Ratio(matched, Len(actual)), Ratio(matched, Cardinality(expected)))

\* An obligation as the metrics see it: its clause and its owner, whose case
\* does not count.
Key(pair)    == [clause |-> pair.clause, owner |-> pair.owner]
Keys(pairs)  == [i \in DOMAIN pairs |-> Key(pairs[i])]

ExtractionPrecisionRecall(expected, actual) ==
  MatchedPrecisionRecall(ToSet(Keys(expected)), Keys(actual))

\* diff_precision_recall, on (kind, clause): nothing against nothing is right.
DiffPrecisionRecall(expected, actual) ==
  IF expected = <<>> /\ actual = <<>> THEN Scores(One, One)
  ELSE MatchedPrecisionRecall(ToSet(expected), actual)

\* impact_precision_recall
ImpactPrecisionRecall(expected, actual) ==
  IF expected = <<>> /\ actual = <<>> THEN Scores(One, One)
  ELSE MatchedPrecisionRecall(ToSet(Keys(expected)), Keys(actual))

\* run_extraction, one record; an extraction the gate rejects scores zero.
ScoreExtraction(expected, calls, length) ==
  LET result == ExtractObligations(calls, length)
      Of(list) == Selected(result[2], {k \in DOMAIN result[2] : result[2][k].list = list})
  IN IF result = Raised THEN [scores |-> Scores(Zero, Zero), validity |-> Zero]
     ELSE [scores   |-> ExtractionPrecisionRecall(expected,
                          [k \in DOMAIN Of("obligation") |-> Of("obligation")[k].pair]),
           validity |-> CitationSpansValid(length,
                          [k \in DOMAIN result[2] |-> result[2][k].span])]

Kind(change) == [kind |-> change.kind, clause |-> change.clause]

\* run_diff, one record.
ScoreDiff(expected, base, amended) ==
  LET changes == DetectChanges(base, amended)
  IN DiffPrecisionRecall(expected, [k \in DOMAIN changes |-> Kind(changes[k])])

\* _aggregate: the mean over the records.
Aggregate(scores) ==
  LET common == FoldSet(LAMBDA i, d : d * scores[i].d, 1, DOMAIN scores)
      Mean   == SumFunction([i \in DOMAIN scores |-> scores[i].n * (common \div scores[i].d)])
  IN Ratio(Mean, common * Cardinality(DOMAIN scores))

\* run_impact, one record: each change that is detected is scored against what
\* the record expects of its key; of two changes with one key the second score
\* replaces the first, and expected changes that were not detected are not seen.
\* changes is what detect_changes returned; answer maps a change's position to
\* what the model replied for it.
ScoreImpact(expected, obligations, changes, answer) ==
  LET candidates == Take(obligations, CandidateLimit)
      Wanted(c)  == IF Kind(c) \in DOMAIN expected THEN expected[Kind(c)] ELSE <<>>
      Score1(i)  ==
        LET mapped == MapImpacts([o \in DOMAIN candidates |-> o], answer[i])
        IN IF mapped = Raised THEN Scores(Zero, Zero)
           ELSE ImpactPrecisionRecall(Wanted(changes[i]),
                  [k \in DOMAIN mapped[2] |-> candidates[mapped[2][k].obligation]])
      scored == {i \in DOMAIN changes :
                   \A j \in DOMAIN changes : Kind(changes[j]) = Kind(changes[i]) => j <= i}
      perChange == [i \in scored |-> Score1(i)]
  IN IF changes = <<>> THEN Scores(One, One)
     ELSE Scores(Aggregate([i \in scored |-> perChange[i].precision]),
                 Aggregate([i \in scored |-> perChange[i].recall]))
-----------------------------------------------------------------------------
(* What it promises                                                        *)

\* metrics.py: a perfect score is an answer that is exactly what was expected,
\* once each ("double-emitting is a real failure"), and no score is above one.
PerfectIsExact(expected, actual) ==
  LET scores == DiffPrecisionRecall(expected, actual)
  IN /\ AtMost(scores.precision, One) /\ AtMost(scores.recall, One)
     /\ IsPerfect(scores) <=> ToSet(expected) = ToSet(actual) /\ IsInjective(actual)

\* Recall never falls with k, and is one exactly where every relevant chunk is
\* among the first k of the page.
RecallGrows(expected, byVector, byText, ks) ==
  LET recall == ScoreRetrieve(expected, byVector, byText, ks)
  IN expected # {} => \A j, k \in ks :
       /\ j <= k => AtMost(recall[j][2], recall[k][2])
       /\ IsOne(recall[k][2]) <=>
            expected \subseteq ToSet(Take(HybridHits(byVector, byText, Max(ks)), k))

\* metrics.py: "completed extractions only carry grounded spans and a score
\* below 1.0 means a gate bypass": the tripwire is silent over the service's
\* own gate.
TripwireIsSilent(calls, length) ==
  HasResult(ExtractObligations(calls, length)) =>
    IsOne(ScoreExtraction(<<>>, calls, length).validity)

\* harness.py: where no clause number comes twice, an impact record is perfect
\* exactly if each change that was detected got the impacts expected of it.
ImpactScoreExact(expected, obligations, changes, answer) ==
  LET Wanted(c) == IF Kind(c) \in DOMAIN expected THEN ToSet(Keys(expected[Kind(c)])) ELSE {}
      right(i) ==
        LET mapped == MapImpacts([o \in DOMAIN obligations |-> o], answer[i])
        IN HasResult(mapped) /\
           LET got == [k \in DOMAIN mapped[2] |-> Key(obligations[mapped[2][k].obligation])]
           IN ToSet(got) = Wanted(changes[i]) /\ IsInjective(got)
  IN IsInjective([i \in DOMAIN changes |-> Kind(changes[i])]) =>
       (IsPerfect(ScoreImpact(expected, obligations, changes, answer))
          <=> \A i \in DOMAIN changes : right(i))
=============================================================================
