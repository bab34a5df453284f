------------------------------ MODULE JobLease ------------------------------
(***************************************************************************)
(* One job table and the worker processes that claim from it               *)
(* (app/repositories/job_claims.py, app/worker.py and the part the three   *)
(* run_next_*_job services share).                                         *)
(*                                                                         *)
(* A claim is three steps of a worker: it selects and locks the oldest     *)
(* claimable row, skipping rows another claim has locked; it commits the   *)
(* new attempt; it refreshes its copy of the row in a new transaction and  *)
(* decides, from that copy, whether to run the handler.  The handler ends  *)
(* in mark_completed or mark_failed.  Neither looks at who holds the lease *)
(* by then, so a worker that outlived its lease still writes.  Between any *)
(* two steps a worker may die, a lease may lapse, and the document-delete  *)
(* sweep may remove the row.                                               *)
(***************************************************************************)
EXTENDS JobRows

CONSTANTS Jobs,      \* job ids, numbered in (created_at, id) order
          Workers,   \* worker processes
          NoJob      \* a worker with nothing in hand

ASSUME JobsAssumption  == Jobs \subseteq Nat
ASSUME NoJobAssumption == NoJob \notin Jobs

VARIABLES
  made,      \* jobs enqueued so far
  table,     \* jobs whose row is in the table
  row,       \* the rows (of a deleted job: its last contents)
  pc,        \* where each worker is
  job,       \* the job each worker has in hand
  copy,      \* each worker's session copy of that job's row
  attempt,   \* the attempt number each worker's claim committed
  ran        \* history: the attempts of a job whose handler was started

vars == <<made, table, row, pc, job, copy, attempt, ran>>

PC == {"idle", "locked", "claimed", "running", "down", "raised"}

TypeOK ==
  /\ made \subseteq Jobs
  /\ table \subseteq made
  /\ row \in [Jobs -> Row]
  /\ pc \in [Workers -> PC]
  /\ job \in [Workers -> Jobs \cup {NoJob}]
  /\ copy \in [Workers -> Row]
  /\ attempt \in [Workers -> 0..(MaxAttempts + 1)]
  /\ ran \in [Jobs -> SUBSET (1..(MaxAttempts + 1))]

Init ==
  /\ made = {}
  /\ table = {}
  /\ row = [j \in Jobs |-> NewRow]
  /\ pc = [w \in Workers |-> "idle"]
  /\ job = [w \in Workers |-> NoJob]
  /\ copy = [w \in Workers |-> NewRow]
  /\ attempt = [w \in Workers |-> 0]
  /\ ran = [j \in Jobs |-> {}]

\* The row lock of FOR UPDATE, held until the claiming transaction ends.
Locked(j) == \E w \in Workers : pc[w] = "locked" /\ job[w] = j

Holds(w, j) == job[w] = j /\ pc[w] \in {"claimed", "running"}

\* The worker drops what it has in hand; its session is closed.
LetGo(w, where) ==
  /\ pc' = [pc EXCEPT ![w] = where]
  /\ job' = [job EXCEPT ![w] = NoJob]
  /\ copy' = [copy EXCEPT ![w] = NewRow]
  /\ attempt' = [attempt EXCEPT ![w] = 0]

-----------------------------------------------------------------------------
\* create().  created_at is the start of the inserting transaction, so rows may
\* be committed in another order than the one they are claimed in.
Enqueue(j) ==
  /\ j \in Jobs \ made
  /\ made' = made \cup {j}
  /\ table' = table \cup {j}
  /\ UNCHANGED <<row, pc, job, copy, attempt, ran>>

\* The SELECT ... ORDER BY created_at, id LIMIT 1 FOR UPDATE SKIP LOCKED.
Oldest(S) == {j \in S : \A i \in S : j <= i}

\* Mutant of Select: FOR UPDATE SKIP LOCKED is forgotten.
SelectUnlocked(w) ==
  /\ pc[w] = "idle"
  /\ \E j \in Oldest({i \in table : Claimable(row[i])}) : job' = [job EXCEPT ![w] = j]
  /\ pc' = [pc EXCEPT ![w] = "locked"]
  /\ UNCHANGED <<made, table, row, copy, attempt, ran>>

Select(w) ==
  /\ pc[w] = "idle"
  /\ \E j \in Oldest({i \in table : Claimable(row[i]) /\ ~Locked(i)}) :
       job' = [job EXCEPT ![w] = j]
  /\ pc' = [pc EXCEPT ![w] = "locked"]
  /\ UNCHANGED <<made, table, row, copy, attempt, ran>>

\* The rest of the claiming transaction, up to its commit.
CommitClaim(w) ==
  /\ pc[w] = "locked"
  /\ row' = [row EXCEPT ![job[w]] = Claimed(@)]
  /\ attempt' = [attempt EXCEPT ![w] = row[job[w]].attempts + 1]
  /\ pc' = [pc EXCEPT ![w] = "claimed"]
  /\ UNCHANGED <<made, table, job, copy, ran>>

\* session.refresh(job), and the caller's test of the refreshed status: a
\* failed row is taken for a capped one and not run.
TakeForCapped(w) ==
  /\ pc[w] = "claimed"
  /\ job[w] \in table
  /\ row[job[w]].status = "failed"
  /\ LetGo(w, "idle")
  /\ UNCHANGED <<made, table, row, ran>>

StartHandler(w) ==
  /\ pc[w] = "claimed"
  /\ job[w] \in table
  /\ row[job[w]].status # "failed"
  /\ copy' = [copy EXCEPT ![w] = row[job[w]]]
  /\ pc' = [pc EXCEPT ![w] = "running"]
  /\ ran' = [ran EXCEPT ![job[w]] = @ \cup {attempt[w]}]
  /\ UNCHANGED <<made, table, row, job, attempt>>

\* mark_completed / mark_failed; the UPDATE waits for a claim's row lock.
Finish(w, marked) ==
  /\ pc[w] = "running"
  /\ job[w] \in table
  /\ ~Locked(job[w])
  /\ row' = [row EXCEPT ![job[w]] = Flush(@, copy[w], marked)]
  /\ LetGo(w, "idle")
  /\ UNCHANGED <<made, table, ran>>

Complete(w) == Finish(w, MarkCompleted(copy[w]))

\* Mutant of Fail: the return after mark_failed is missing, the run goes on.
FailAndGoOn(w) ==
  /\ pc[w] = "running"
  /\ job[w] \in table
  /\ ~Locked(job[w])
  /\ row' = [row EXCEPT ![job[w]] = Flush(@, copy[w], MarkFailed(copy[w]))]
  /\ copy' = [copy EXCEPT ![w] = MarkFailed(@)]
  /\ UNCHANGED <<made, table, pc, job, attempt, ran>>

Fail(w) == Finish(w, MarkFailed(copy[w]))

\* Refreshing or updating a row that was deleted meanwhile raises out of the
\* handler (InvalidRequestError, StaleDataError) and ends the worker loop.
Raise(w) ==
  /\ pc[w] \in {"claimed", "running"}
  /\ job[w] \notin table
  /\ LetGo(w, "raised")
  /\ UNCHANGED <<made, table, row, ran>>

\* The process dies (its open transaction rolls back) and is started again.
Crash(w) ==
  /\ pc[w] \in {"locked", "claimed", "running"}
  /\ LetGo(w, "down")
  /\ UNCHANGED <<made, table, row, ran>>

Restart(w) ==
  /\ pc[w] \in {"down", "raised"}
  /\ pc' = [pc EXCEPT ![w] = "idle"]
  /\ UNCHANGED <<made, table, row, job, copy, attempt, ran>>

\* Fifteen minutes pass since the claim of a row that is still running.
LeaseLapses(j) ==
  /\ j \in table
  /\ row[j].status = "running"
  /\ row[j].lease = "live"
  /\ row' = [row EXCEPT ![j] = Lapsed(@)]
  /\ UNCHANGED <<made, table, pc, job, copy, attempt, ran>>

\* Mutant of Sweep: the DELETE does not wait for the lock of a claim.
SweepUnlocked(j) ==
  /\ j \in table
  /\ table' = table \ {j}
  /\ UNCHANGED <<made, row, pc, job, copy, attempt, ran>>

\* delete_for_document, within the document-delete sweep: any status.
Sweep(j) ==
  /\ j \in table
  /\ ~Locked(j)
  /\ table' = table \ {j}
  /\ UNCHANGED <<made, row, pc, job, copy, attempt, ran>>

-----------------------------------------------------------------------------
Next ==
  \/ \E j \in Jobs : Enqueue(j) \/ LeaseLapses(j) \/ Sweep(j)
  \/ \E w \in Workers :
       \/ Select(w) \/ CommitClaim(w) \/ TakeForCapped(w) \/ StartHandler(w)
       \/ Complete(w) \/ Fail(w) \/ Raise(w) \/ Crash(w) \/ Restart(w)

Spec == Init /\ [][Next]_vars

\* A worker keeps polling, handlers end (every LLM call has a timeout), a dead
\* worker is restarted by its service, time passes.  A claiming transaction is
\* not cut by a crash every single time.
Fairness ==
  /\ \A j \in Jobs : WF_vars(LeaseLapses(j))
  /\ \A w \in Workers :
       /\ WF_vars(Select(w))
       /\ SF_vars(CommitClaim(w))
       /\ WF_vars(TakeForCapped(w) \/ StartHandler(w) \/ Raise(w))
       /\ WF_vars(Complete(w) \/ Fail(w) \/ Raise(w))
       /\ WF_vars(Restart(w))

FairSpec == Spec /\ Fairness
-----------------------------------------------------------------------------
\* FOR UPDATE SKIP LOCKED: no two workers are inside a claim of the same row,
\* and no two workers ever have the same attempt of a job in hand, even when
\* both run it because the first outlived its lease.
ClaimsExclusive ==
  \A w1, w2 \in Workers, j \in Jobs : w1 # w2 =>
    /\ ~ (/\ job[w1] = j /\ pc[w1] = "locked"
          /\ job[w2] = j /\ pc[w2] = "locked")
    /\ Holds(w1, j) /\ Holds(w2, j) => attempt[w1] # attempt[w2]

\* A row the claim locked is still the claimable row it selected: neither the
\* unguarded updates of late workers nor the delete sweep get in between.
LockedRowsStable ==
  \A w \in Workers :
    pc[w] = "locked" => job[w] \in table /\ Claimable(row[job[w]])

\* attempts is zero exactly while a row is queued, and a row past the cap is
\* settled: claim_next never leaves such a row running.
AttemptsFitStatus ==
  \A j \in Jobs :
    /\ row[j].status = "queued" <=> row[j].attempts = 0
    /\ row[j].attempts > MaxAttempts => row[j].status \in Terminal
    /\ j \notin made => row[j].attempts = 0

\* The attempt in hand was issued by the row, and one that has not started its
\* handler never started it before.
AttemptsIssued ==
  /\ \A j \in Jobs : ran[j] \subseteq 1..row[j].attempts
  /\ \A w \in Workers, j \in Jobs : Holds(w, j) =>
       /\ j \in made
       /\ attempt[w] \in 1..row[j].attempts
       /\ pc[w] = "claimed" => attempt[w] \notin ran[j]
       /\ pc[w] = "running" => attempt[w] \in ran[j]

\* A copy that does not say "running" was refreshed from a settled row.
CopiesFitRows ==
  \A w \in Workers, j \in Jobs : Holds(w, j) /\ pc[w] = "running" =>
    \/ copy[w].status = "running"
    \/ row[j].status \in Terminal

\* A job claimed once and not settled yet is in the hand of the only worker
\* that can settle it; nobody is left to write once it settled.
SoleClaimOpen ==
  \A w \in Workers, j \in Jobs :
    Holds(w, j) /\ row[j].attempts = 1 => row[j].status = "running"

\* The inductive invariant behind the theorems of JobLeaseProofs.
Inv ==
  /\ TypeOK
  /\ ClaimsExclusive
  /\ LockedRowsStable
  /\ AttemptsFitStatus
  /\ AttemptsIssued
  /\ CopiesFitRows
  /\ SoleClaimOpen

\* mark_completed and mark_failed check neither status nor lease, yet the
\* outcome of a job that was claimed only once is never written over.
FirstClaimFinal ==
  [][\A j \in Jobs :
       row[j].status \in Terminal /\ row[j].attempts = 1 => row'[j] = row[j]]_vars

\* A row seen as a ticket office of JobTickets.
Phase(j) ==
  IF j \notin made THEN "none"
  ELSE IF j \notin table THEN "gone"
  ELSE IF row[j].status \in Terminal THEN "settled" ELSE "open"

phaseBar  == [j \in Jobs |-> Phase(j)]
issuedBar == [j \in Jobs |-> row[j].attempts]

Tickets == INSTANCE JobTickets WITH phase <- phaseBar, issued <- issuedBar, started <- ran

\* claim_next and its callers keep the promises of JobTickets: a claim is a
\* fresh ticket, a ticket starts one handler, a settled row is not claimed.
ImplementsTickets == Tickets!Spec

\* Every enqueued job reaches a terminal status or is deleted with its
\* document, however often workers die: crashed attempts use up the cap.
EventuallySettled ==
  \A j \in Jobs :
    j \in table ~> (j \notin table \/ row[j].status \in Terminal)

\* extraction.py: "Every failure ... becomes a failed job row, never a raise: a
\* worker loop keeps going after bad jobs."
NeverRaises == \A w \in Workers : pc[w] # "raised"

\* job_claims.py: a row past the cap is "returned in that terminal state - the
\* caller must not run it".
CappedNeverRun ==
  \A w \in Workers : pc[w] = "running" => attempt[w] <= MaxAttempts
=============================================================================
