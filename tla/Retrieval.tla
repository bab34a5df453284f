----------------------------- MODULE Retrieval -----------------------------
(***************************************************************************)
(* From two rankings of a document's chunks to the obligations a change    *)
(* affects (app/services/search.py, app/services/impact.py): reciprocal    *)
(* rank fusion, the candidates whose citations overlap the hits, and what  *)
(* is taken from the model's answer about them.                            *)
(*                                                                         *)
(* A chunk stands for its span, an obligation for its citation's span; a   *)
(* reply is a sequence of candidate indices and confidences.               *)
(***************************************************************************)
EXTENDS Grounding

CONSTANTS RrfK,             \* RRF_K, 60
          CandidateLimit    \* CANDIDATE_LIMIT, 20

ASSUME RetrievalAssumption == RrfK \in Nat /\ CandidateLimit \in Nat \ {0}

DepthFactor == 2            \* _CANDIDATE_DEPTH_FACTOR

\* What an item at a rank scores, over a common denominator for ranks up to depth.
Points(rank, depth) == ProductSet({RrfK + r : r \in (1..depth) \ {rank}})

Rank(ranking, item) == CHOOSE r \in DOMAIN ranking : ranking[r] = item

Score(rankings, item, depth) ==
  SumFunction([i \in DOMAIN rankings |->
    IF item \in ToSet(rankings[i]) THEN Points(Rank(rankings[i], item), depth) ELSE 0])

\* Mutant of RrfFuse: each item keeps the score of the best list only.
RrfFuseBest(rankings, depth) ==
  LET seen == FlattenSeq(rankings)
      first(item) == Rank(seen, item)
      best(item) == Max({Points(Rank(rankings[i], item), depth) :
                           i \in {i \in DOMAIN rankings : item \in ToSet(rankings[i])}})
  IN SortedBy(ToSet(seen), {p \in ToSet(seen) \X ToSet(seen) :
       \/ best(p[1]) > best(p[2])
       \/ best(p[1]) = best(p[2]) /\ first(p[1]) < first(p[2])})

\* rrf_fuse: best score first, equal scores in the order of first appearance.
RrfFuse(rankings, depth) ==
  LET seen == FlattenSeq(rankings)
      first(item) == Rank(seen, item)
      score(item) == Score(rankings, item, depth)
  IN SortedBy(ToSet(seen), {p \in ToSet(seen) \X ToSet(seen) :
       \/ score(p[1]) > score(p[2])
       \/ score(p[1]) = score(p[2]) /\ first(p[1]) < first(p[2])})

Take(seq, n) == SubSeq(seq, 1, Min({n, Len(seq)}))

\* _hybrid_hits: each ranking is asked for more than the page it is fused into.
HybridHits(byVector, byText, limit) ==
  LET depth == DepthFactor * limit
  IN Take(RrfFuse(<<Take(byVector, depth), Take(byText, depth)>>, depth), limit)

Overlaps(a, b) == a[1] < b[2] /\ b[1] < a[2]

\* One turn of the outer loop of select_candidates: what a chunk adds.
PickFrom(obligations, picked, chunk) ==
  LET hit == {i \in DOMAIN obligations \ ToSet(picked) : Overlaps(obligations[i], chunk)}
  IN picked \o Ascending(hit)

\* select_candidates, as indices of obligations; returning at the limit takes
\* what came first.
SelectCandidates(obligations, chunks) ==
  Take(FoldLeft(LAMBDA picked, chunk : PickFrom(obligations, picked, chunk), <<>>, chunks),
       CandidateLimit)

\* Mutant of MapImpacts: a candidate the reply names twice is affected twice.
MapImpactsTwice(candidates, reply) ==
  IF \E m \in ToSet(reply) : ~ (0 <= m.index /\ m.index < Len(candidates))
  THEN Raised
  ELSE Result([k \in DOMAIN reply |->
         [obligation |-> candidates[reply[k].index + 1],
          confidence |-> Clamp(reply[k].confidence)]])

\* map_change_impacts on the model's reply, whose indices count from zero: one
\* that is no candidate's rejects it, of several for a candidate the first counts.
MapImpacts(candidates, reply) ==
  IF candidates = <<>> THEN Result(<<>>)
  ELSE IF \E m \in ToSet(reply) : ~ (0 <= m.index /\ m.index < Len(candidates))
  THEN Raised
  ELSE LET order == Ascending({i \in DOMAIN reply :
                      \A j \in 1..(i - 1) : reply[j].index # reply[i].index})
       IN Result([k \in DOMAIN order |->
            [obligation |-> candidates[reply[order[k]].index + 1],
             confidence |-> Clamp(reply[order[k]].confidence)]])
-----------------------------------------------------------------------------
(* What it promises                                                        *)

\* search.py: "RRF can push a chunk to the top by agreeing across engines even
\* when one engine ranked it below the cut": a chunk both engines found comes
\* before any that one found (while no list is longer than RRF_K + 1), one that is
\* better in both before the other, and the page is full if they found enough.
HitsFused(byVector, byText, limit) ==
  LET depth == DepthFactor * limit
      lists == <<Take(byVector, depth), Take(byText, depth)>>
      fused == RrfFuse(lists, depth)
      hits  == HybridHits(byVector, byText, limit)
      both(x)      == x \in ToSet(lists[1]) /\ x \in ToSet(lists[2])
      before(x, y) == Rank(fused, x) < Rank(fused, y)
      found == ToSet(lists[1]) \cup ToSet(lists[2])
  IN /\ ToSet(fused) = found /\ Len(fused) = Cardinality(found)
     /\ hits = Take(fused, limit)
     /\ \A x, y \in found : both(x) /\ ~ both(y) => before(x, y)
     /\ \A x, y \in found : x # y /\ both(x) /\ both(y)
          /\ (\A l \in 1..2 : Rank(lists[l], x) < Rank(lists[l], y)) => before(x, y)
     /\ \A x \in ToSet(fused) \ ToSet(hits) : Len(hits) = limit

\* impact.py: an impact is an obligation whose citation overlaps a chunk that
\* was retrieved, named once; the candidates come by the rank of their first
\* chunk and then in their own order, and those cut off are the last of it.
ImpactsGrounded(obligations, chunks, reply) ==
  LET picked == SelectCandidates(obligations, chunks)
      result == MapImpacts(picked, reply)
      hits(o) == {c \in DOMAIN chunks : Overlaps(obligations[o], chunks[c])}
      relevant == {o \in DOMAIN obligations : hits(o) # {}}
      before(o, p) == \/ Min(hits(o)) < Min(hits(p))
                      \/ Min(hits(o)) = Min(hits(p)) /\ o < p
  IN /\ Len(picked) = Min({CandidateLimit, Cardinality(relevant)})
     /\ ToSet(picked) \subseteq relevant
     /\ \A k \in DOMAIN picked, o \in relevant :
          before(o, picked[k]) => \E j \in 1..(k - 1) : picked[j] = o
     /\ HasResult(result) =>
          /\ IsInjective([k \in DOMAIN result[2] |-> result[2][k].obligation])
          /\ \A i \in ToSet(result[2]) : i.obligation \in ToSet(picked)
                                         /\ i.confidence \in 0..10
=============================================================================
