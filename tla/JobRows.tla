------------------------------ MODULE JobRows ------------------------------
(***************************************************************************)
(* The rows of the three job tables (extraction_jobs, ingestion_jobs and   *)
(* change_report_jobs) and what the code writes into them: the shared      *)
(* claim of app/repositories/job_claims.py and the mark_completed and      *)
(* mark_failed that the three repositories define identically.             *)
(*                                                                         *)
(* A lease is abstracted to whether it is unset, still running ("live") or *)
(* past its expiry ("lapsed"): claims compare it with the clock of the     *)
(* worker that claims, so only that distinction matters.  A result payload *)
(* is "value"; a failure reason is "reason" unless it is the attempt cap's.*)
(***************************************************************************)
EXTENDS Naturals

CONSTANT MaxAttempts                        \* MAX_ATTEMPTS: 3 in the code

ASSUME MaxAttemptsAssumption == MaxAttempts \in Nat \ {0}

JobStatus == {"queued", "running", "completed", "failed"}
Terminal  == {"completed", "failed"}

Row == [status   : JobStatus,
        attempts : 0..(MaxAttempts + 1),
        lease    : {"none", "live", "lapsed"},
        result   : {"none", "value"},
        error    : {"none", "reason", "max_attempts_exceeded"}]

\* create(): the column defaults of a new row.
NewRow == [status |-> "queued", attempts |-> 0, lease |-> "none",
           result |-> "none", error |-> "none"]

\* The rows the repositories' find_active_for_document looks for.
Active(r) == r.status \in {"queued", "running"}

\* Mutant of Claimable: failed rows are offered for a retry.
ClaimableOrFailed(r) == \/ r.status \in {"queued", "failed"}
                        \/ r.status = "running" /\ r.lease = "lapsed"

\* The WHERE clause of claim_next.
Claimable(r) == \/ r.status = "queued"
                \/ r.status = "running" /\ r.lease = "lapsed"

\* Mutants of Claimed: no attempt cap; an attempt that is not counted.
ClaimedUncapped(r) == [status |-> "running", attempts |-> r.attempts + 1,
                       lease |-> "live", result |-> r.result, error |-> r.error]
ClaimedUncounted(r) == [status |-> "running", attempts |-> r.attempts,
                        lease |-> "live", result |-> r.result, error |-> r.error]

\* What claim_next writes into the row it selected: one more attempt, then a
\* fresh lease, or the terminal failure of a row past the cap.
Claimed(r) ==
  IF r.attempts + 1 > MaxAttempts
  THEN [status |-> "failed", attempts |-> r.attempts + 1, lease |-> "none",
        result |-> "none", error |-> "max_attempts_exceeded"]
  ELSE [status |-> "running", attempts |-> r.attempts + 1, lease |-> "live",
        result |-> r.result, error |-> r.error]

\* The assignments of mark_completed and mark_failed to a session's copy.
MarkCompleted(c) == [status |-> "completed", attempts |-> c.attempts, lease |-> "none",
                     result |-> "value", error |-> "none"]
MarkFailed(c)    == [status |-> "failed", attempts |-> c.attempts, lease |-> "none",
                     result |-> "none", error |-> "reason"]

\* The UPDATE a commit emits for a copy `before` the session loaded and turned
\* into `after`: it names the row by primary key alone and carries only the
\* columns whose value changed in the session, whatever the row holds by now.
Flush(r, before, after) ==
  [status   |-> IF after.status   = before.status   THEN r.status   ELSE after.status,
   attempts |-> IF after.attempts = before.attempts THEN r.attempts ELSE after.attempts,
   lease    |-> IF after.lease    = before.lease    THEN r.lease    ELSE after.lease,
   result   |-> IF after.result   = before.result   THEN r.result   ELSE after.result,
   error    |-> IF after.error    = before.error    THEN r.error    ELSE after.error]

\* Time passing the lease_expires_at of a row.
Lapsed(r) == [status |-> r.status, attempts |-> r.attempts, lease |-> "lapsed",
              result |-> r.result, error |-> r.error]
=============================================================================
