----------------------------- MODULE Grounding -----------------------------
(***************************************************************************)
(* What is taken from a model's answer, and what is turned away: citations *)
(* against the text (app/services/extraction.py) and explanations against  *)
(* the changes they explain (app/services/change_report.py).               *)
(*                                                                         *)
(* A span is a pair of offsets the model chose, so any integers at all; an *)
(* item is its list, its span and its confidence in tenths.  A reply is    *)
(* the items of a parsed answer; any other outcome of the call raises.     *)
(***************************************************************************)
EXTENDS LlmClient

Attempts == 2                     \* _CITATION_ATTEMPTS

\* _clamp_confidence: into the unit interval.
Clamp(tenths) == Min({10, Max({0, tenths})})

\* What s[start:end] takes from a text in Python: an offset below zero counts
\* from the end, and one out of range stops at the boundary.
PythonOffset(i, length) == IF i < 0 THEN Max({0, length + i}) ELSE Min({i, length})
PythonSlice(text, span) ==
  SubSeq(text, PythonOffset(span[1], Len(text)) + 1, PythonOffset(span[2], Len(text)))

\* Mutant of IsGrounded: only the end is held against the text.
IsBelowEnd(span, length) == span[1] < span[2] /\ span[2] <= length

IsGrounded(span, length) == 0 <= span[1] /\ span[1] < span[2] /\ span[2] <= length

\* _split_cited: the items that keep their citation, in the order of the two
\* lists; obligations come first.
InLists(items) ==
  Selected(items, {k \in DOMAIN items : items[k].list = "obligation"})
    \o Selected(items, {k \in DOMAIN items : items[k].list = "defined_term"})
SplitCited(items, length) ==
  LET listed == InLists(items)
  IN Selected(listed, {k \in DOMAIN listed : IsGrounded(listed[k].span, length)})

\* extract_obligations on the outcomes of its calls: the first attempt must be
\* flawless, of the last whatever is grounded counts.
ExtractObligations(calls, length) ==
  LET attempt[a \in 1..Attempts] ==
        IF calls[a] = Raised THEN Raised
        ELSE LET items    == InLists(calls[a][2])
                 grounded == SplitCited(items, length)
             IN CASE grounded = items -> Result(items)
                  [] grounded # items /\ a < Attempts -> attempt[a + 1]
                  [] grounded # items /\ a = Attempts ->
                       IF grounded = <<>> THEN Raised ELSE Result(grounded)
  IN attempt[1]

\* Mutant of ExplainChanges: as many explanations as changes are enough.
ExplainCounted(changes, indices) ==
  IF Len(indices) # changes THEN Raised
  ELSE Result([k \in 1..changes |->
         IF \E p \in DOMAIN indices : indices[p] = k - 1
         THEN Max({p \in DOMAIN indices : indices[p] = k - 1}) ELSE k])

\* explain_changes, for as many changes and a reply that is the indices its
\* explanations name: which explanation each change gets.  The dictionary keeps
\* the last one of an index.
ExplainChanges(changes, indices) ==
  IF changes = 0 THEN Result(<<>>)
  ELSE IF ToSet(indices) # 0..(changes - 1) THEN Raised
  ELSE Result([k \in 1..changes |-> Max({p \in DOMAIN indices : indices[p] = k - 1})])
-----------------------------------------------------------------------------
(* What it promises                                                        *)

\* extraction.py: "Every returned item therefore points at real parsed text":
\* the slice the citation names is as long as the citation says, and not empty.
\* What is returned is one attempt's answer, all that is grounded of it.
ExtractionGrounded(calls, text) ==
  LET result == ExtractObligations(calls, Len(text))
      Cites(i) == /\ i.span[1] >= 0 /\ i.span[1] # i.span[2]
                  /\ Len(PythonSlice(text, i.span)) = i.span[2] - i.span[1]
  IN HasResult(result) =>
       /\ \A i \in ToSet(result[2]) : Cites(i)
       /\ \E a \in 1..Attempts : HasResult(calls[a]) /\
            LET items == ToSet(calls[a][2])
            IN /\ ToSet(result[2]) = {i \in items : Cites(i)}
               /\ result[2] = <<>> => items = {}

\* change_report.py: "an explanation for every detected Change": each change
\* gets an explanation that names it, or the report fails.
EveryChangeExplained(changes, indices) ==
  LET result == ExplainChanges(changes, indices)
  IN HasResult(result) =>
       /\ Len(result[2]) = changes
       /\ changes > 0 => /\ \A k \in 1..changes : indices[result[2][k]] = k - 1
                         /\ \A p \in DOMAIN indices : indices[p] \in 0..(changes - 1)
=============================================================================
