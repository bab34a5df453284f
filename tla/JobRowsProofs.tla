--------------------------- MODULE JobRowsProofs ---------------------------
(***************************************************************************)
(* What the writes of JobRows return, for any attempt cap: the facts the   *)
(* proofs about JobLease, Ingestion and ReviewRouting cite.                *)
(***************************************************************************)
EXTENDS JobRows, TLAPS

\* claim_next adds one attempt and leaves the row running under a live lease,
\* or failed once the attempt is past the cap.
LEMMA ClaimedFacts ==
  ASSUME NEW r \in Row, r.attempts \in 0..MaxAttempts
  PROVE  /\ Claimed(r) \in Row
         /\ Claimed(r).attempts = r.attempts + 1
         /\ Claimed(r).status \in {"running", "failed"}
         /\ (Claimed(r).status = "failed") <=> (r.attempts + 1 > MaxAttempts)
<1>1. CASE r.attempts + 1 > MaxAttempts
  BY <1>1, MaxAttemptsAssumption DEF Claimed, Row, JobStatus
<1>2. CASE ~ (r.attempts + 1 > MaxAttempts)
  BY <1>2, MaxAttemptsAssumption DEF Claimed, Row, JobStatus
<1> QED BY <1>1, <1>2

\* What mark_completed and mark_failed make of a session's copy.
LEMMA MarkTypes ==
  ASSUME NEW c \in Row, NEW m \in {MarkCompleted(c), MarkFailed(c)}
  PROVE  m \in Row /\ m.attempts = c.attempts /\ m.status \in Terminal
BY DEF MarkCompleted, MarkFailed, Row, JobStatus, Terminal

\* A mark touches no attempt.  It settles the row as it says, unless the copy
\* already said so: then the row keeps its status.
LEMMA MarkFacts ==
  ASSUME NEW r \in Row, NEW c \in Row, NEW m \in {MarkCompleted(c), MarkFailed(c)}
  PROVE  /\ Flush(r, c, m) \in Row
         /\ Flush(r, c, m).attempts = r.attempts
         /\ Flush(r, c, m).status \in {r.status, m.status}
         /\ r.status \in Terminal => Flush(r, c, m).status \in Terminal
         /\ c.status \notin Terminal => Flush(r, c, m).status = m.status
<1>1. m \in Row /\ m.attempts = c.attempts /\ m.status \in Terminal
  BY MarkTypes
<1> QED BY <1>1 DEF Flush, Row, Terminal

\* Time passing a lease changes no other column.
LEMMA LapsedFacts ==
  ASSUME NEW r \in Row
  PROVE  Lapsed(r) \in Row /\ Lapsed(r).attempts = r.attempts /\ Lapsed(r).status = r.status
BY DEF Lapsed, Row
=============================================================================
