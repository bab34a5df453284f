--------------------------- MODULE ReviewRouting ---------------------------
(***************************************************************************)
(* An agreement ("base"), the amendment of it ("amended"), the extraction  *)
(* and change report jobs run on them, and the review items those jobs     *)
(* route to human reviewers (app/services/extraction.py, change_report.py, *)
(* review_queue.py, and the delete sweep of documents.py).                 *)
(*                                                                         *)
(* A worker commits a job's completion first and its review items second.  *)
(* An item references the job without a foreign key and, with one, the     *)
(* document it concerns: for a change report that is the base, while the   *)
(* report is swept with the amendment.  Claims are one transaction here    *)
(* (JobLease opens them); which of the two tables a worker polls first is  *)
(* its rotation's business and left open.  The low-confidence items of one *)
(* run are one batch, identified by the run.  Each call of the model that  *)
(* is answered owes a usage row, written in a transaction of its own; the  *)
(* audit row of a resolution is a transaction of its own as well.          *)
(***************************************************************************)
EXTENDS JobRows, FiniteSets, Integers

CONSTANTS MaxJob,      \* bound: the ids of jobs are 1..MaxJob
          Workers,
          Reviewers,
          None

Jobs      == 1..MaxJob
Documents == {"base", "amended"}
Kinds     == {"extraction", "report"}

ASSUME RoutingAssumption == MaxJob \in Nat /\ MaxJob >= 2 /\ None \notin Nat
ASSUME WorkersAssumption == IsFiniteSet(Workers)

Batch      == Jobs \X (1..(MaxAttempts + 1))
Resolved   == {"approved", "edited", "rejected"}
ItemStatus == {"none", "pending", "deleted"} \cup Resolved

VARIABLES
  docs,      \* documents whose row is there; both were ingested
  made,      \* jobs enqueued so far
  table,     \* jobs whose row is in its table
  kind,      \* the table a job is in
  subject,   \* the document a job is swept with
  row,
  request,   \* an enqueue request that passed its checks: <<kind, subject>>
  items,     \* the review items of each run
  pc, job, copy, attempt,   \* as in JobLease
  step,      \* the call of the model the worker's run is at
  low,       \* whether the worker's run found low-confidence output
  owed,      \* for each job, answered calls without a usage row, except those
             \* whose usage went with the worker that held it
  reading,   \* the batch each reviewer is about to resolve
  filing,    \* the resolution each reviewer has yet to audit: <<batch, disposition>>
  audits     \* for each batch, the dispositions its audit rows name

jobVars    == <<made, table, kind, subject, row>>
workerVars == <<pc, job, copy, attempt, step, low, owed>>
reviewVars == <<reading, filing, audits>>
vars       == <<docs, jobVars, request, items, workerVars, reviewVars>>

Steps == {"extract", "retry", "explain", "search", "map"}

\* Where a worker has the usage of a call in hand: returned with the reply, on
\* the exception of a refusal, or there still after mark_failed.
Holding == {"paid", "refused", "owing"}
PC == {"idle", "claimed", "handed", "failing", "answered", "routing", "raised", "down"}
        \cup Holding

\* The document a job's review items are attached to: document_id of the item.
Anchor(j) == IF kind[j] = "report" THEN "base" ELSE subject[j]

Present(b) == items[b] \in {"pending"} \cup Resolved

TypeOK ==
  /\ docs \subseteq Documents
  /\ made \subseteq Jobs
  /\ table \subseteq made
  /\ kind \in [Jobs -> Kinds]
  /\ subject \in [Jobs -> Documents]
  /\ row \in [Jobs -> Row]
  /\ request \in (Kinds \X Documents) \cup {None}
  /\ items \in [Batch -> ItemStatus]
  /\ pc \in [Workers -> PC]
  /\ job \in [Workers -> Jobs \cup {None}]
  /\ copy \in [Workers -> Row]
  /\ attempt \in [Workers -> 0..(MaxAttempts + 1)]
  /\ step \in [Workers -> Steps \cup {"none"}]
  /\ low \in [Workers -> BOOLEAN]
  /\ owed \in [Jobs -> Nat]
  /\ filing \in [Reviewers -> (Batch \X Resolved) \cup {None}]
  /\ audits \in [Batch -> SUBSET Resolved]
  /\ reading \in [Reviewers -> Batch \cup {None}]

\* Both documents ingested and extracted once: jobs 1 and 2, with nothing that
\* had to be routed.
Extracted == [status |-> "completed", attempts |-> 1, lease |-> "none",
              result |-> "value", error |-> "none"]

Init ==
  /\ docs = Documents
  /\ made = {1, 2}
  /\ table = {1, 2}
  /\ kind = [j \in Jobs |-> "extraction"]
  /\ subject = [j \in Jobs |-> IF j = 1 THEN "base" ELSE "amended"]
  /\ row = [j \in Jobs |-> IF j \in {1, 2} THEN Extracted ELSE NewRow]
  /\ request = None
  /\ items = [b \in Batch |-> "none"]
  /\ pc = [w \in Workers |-> "idle"]
  /\ job = [w \in Workers |-> None]
  /\ copy = [w \in Workers |-> NewRow]
  /\ attempt = [w \in Workers |-> 0]
  /\ step = [w \in Workers |-> "none"]
  /\ low = [w \in Workers |-> FALSE]
  /\ owed = [j \in Jobs |-> 0]
  /\ filing = [v \in Reviewers |-> None]
  /\ audits = [b \in Batch |-> {}]
  /\ reading = [v \in Reviewers |-> None]

Move(w, to) == pc' = [pc EXCEPT ![w] = to]

LetGo(w, to) ==
  /\ Move(w, to)
  /\ job' = [job EXCEPT ![w] = None]
  /\ copy' = [copy EXCEPT ![w] = NewRow]
  /\ attempt' = [attempt EXCEPT ![w] = 0]
  /\ step' = [step EXCEPT ![w] = "none"]
  /\ low' = [low EXCEPT ![w] = FALSE]

Owe(w, calls) == owed' = [owed EXCEPT ![job[w]] = @ + calls]

\* find_latest_for_document: created_at decides.
Extractions(d)   == {j \in table : kind[j] = "extraction" /\ subject[j] = d}
LatestCompleted(d) ==
  \E j \in Extractions(d) :
    /\ \A i \in Extractions(d) : i <= j
    /\ row[j].status = "completed"
-----------------------------------------------------------------------------
(* Requests to enqueue, one at a time                                      *)

\* enqueue_extraction up to its insert.
CheckExtraction(d) ==
  /\ request = None
  /\ d \in docs
  /\ ~ \E j \in Extractions(d) : Active(row[j])
  /\ request' = <<"extraction", d>>
  /\ UNCHANGED <<docs, jobVars, items, workerVars, reviewVars>>

\* enqueue_change_report up to its insert: both versions extracted, base first.
\* It does not look for an unfinished report of the same pair.
CheckReport ==
  /\ request = None
  /\ docs = Documents
  /\ \A d \in Documents : LatestCompleted(d)
  /\ request' = <<"report", "amended">>
  /\ UNCHANGED <<docs, jobVars, items, workerVars, reviewVars>>

\* Mutant of Create: the job row has no foreign keys.
CreateUnchecked(j) ==
  /\ request # None
  /\ j \in Jobs \ made
  /\ \A i \in Jobs \ made : j <= i
  /\ made' = made \cup {j}
  /\ table' = table \cup {j}
  /\ kind' = [kind EXCEPT ![j] = request[1]]
  /\ subject' = [subject EXCEPT ![j] = request[2]]
  /\ request' = None
  /\ UNCHANGED <<docs, row, items, workerVars, reviewVars>>

\* create(): the foreign keys of the row want its documents there.
Create(j) ==
  /\ request # None
  /\ request[2] \in docs
  /\ request[1] = "report" => "base" \in docs
  /\ j \in Jobs \ made
  /\ \A i \in Jobs \ made : j <= i
  /\ made' = made \cup {j}
  /\ table' = table \cup {j}
  /\ kind' = [kind EXCEPT ![j] = request[1]]
  /\ subject' = [subject EXCEPT ![j] = request[2]]
  /\ request' = None
  /\ UNCHANGED <<docs, row, items, workerVars, reviewVars>>

\* The foreign key fails, or the request is cut off.
CreateFails ==
  /\ request # None
  /\ request' = None
  /\ UNCHANGED <<docs, jobVars, items, workerVars, reviewVars>>
-----------------------------------------------------------------------------
(* The delete sweep                                                        *)

\* delete_document: a base goes only after its amendment (409).  Reports are
\* found by their amendment, items by the reports found or by their document.
Delete(d) ==
  /\ d \in docs
  /\ d = "base" => "amended" \notin docs
  /\ LET swept == {j \in table : subject[j] = d} IN
       /\ table' = table \ swept
       /\ items' = [b \in Batch |->
                      IF /\ Present(b)
                         /\ \/ Anchor(b[1]) = d
                            \/ b[1] \in swept /\ kind[b[1]] = "report"
                      THEN "deleted" ELSE items[b]]
  /\ docs' = docs \ {d}
  /\ UNCHANGED <<made, kind, subject, row, request, workerVars, reviewVars>>
-----------------------------------------------------------------------------
(* Workers                                                                 *)

Oldest(S) == {j \in S : \A i \in S : j <= i}

\* run_next_job tries a table; claim_next takes its oldest claimable row.
Claim(w, k) ==
  /\ pc[w] = "idle"
  /\ \E j \in Oldest({i \in table : kind[i] = k /\ Claimable(row[i])}) :
       /\ row' = [row EXCEPT ![j] = Claimed(@)]
       /\ job' = [job EXCEPT ![w] = j]
       /\ attempt' = [attempt EXCEPT ![w] = row[j].attempts + 1]
  /\ Move(w, "claimed")
  /\ UNCHANGED <<docs, made, table, kind, subject, request, items, copy, step, low, owed, reviewVars>>

\* The refreshed job; a failed one is taken for a capped one and dropped.
TakeForCapped(w) ==
  /\ pc[w] = "claimed"
  /\ job[w] \in table
  /\ row[job[w]].status = "failed"
  /\ LetGo(w, "idle")
  /\ UNCHANGED <<docs, jobVars, request, items, owed, reviewVars>>

StartHandler(w) ==
  /\ pc[w] = "claimed"
  /\ job[w] \in table
  /\ row[job[w]].status # "failed"
  /\ copy' = [copy EXCEPT ![w] = row[job[w]]]
  /\ step' = [step EXCEPT ![w] = IF kind[job[w]] = "report" THEN "explain" ELSE "extract"]
  /\ Move(w, "handed")
  /\ UNCHANGED <<docs, jobVars, request, items, job, attempt, low, owed, reviewVars>>

\* The model answers: what comes back carries the usage of the call.
Return(w) ==
  /\ pc[w] = "handed"
  /\ Move(w, "paid") /\ Owe(w, 1)
  /\ UNCHANGED <<docs, jobVars, request, items, job, copy, attempt, step, low, reviewVars>>

\* It refuses: the usage is on the LlmOutputError.  An embedding cannot refuse.
Refuse(w) ==
  /\ pc[w] = "handed" /\ step[w] # "search"
  /\ Move(w, "refused") /\ Owe(w, 1)
  /\ UNCHANGED <<docs, jobVars, request, items, job, copy, attempt, step, low, reviewVars>>

\* Two versions without a difference are not explained.
NothingChanged(w) ==
  /\ pc[w] = "handed" /\ step[w] = "explain"
  /\ Move(w, "answered")
  /\ UNCHANGED <<docs, jobVars, request, items, job, copy, attempt, step, low, owed,
                 reviewVars>>

\* What a run does after the reply of a step: its next call, its result, or the
\* rejection of the reply.  An extraction tries twice to have its citations
\* right.  A report maps impacts if the base's latest extraction is completed
\* when it looks, behind the explanations (_base_obligations); then it searches
\* once a change, and asks for the impacts where the search found candidates.
After(w) ==
  CASE step[w] = "extract" -> {"retry", "answered"}
    [] step[w] = "retry"   -> {"answered", "failing"}
    [] step[w] = "explain" -> {"answered", "failing"}
                                \cup IF LatestCompleted("base") THEN {"search"} ELSE {}
    [] step[w] = "search"  -> {"search", "map", "answered"}
    [] step[w] = "map"     -> {"search", "answered", "failing"}

\* The sink's usage row, which has no foreign key, and the run up to its next
\* call.
Record(w, to) ==
  /\ pc[w] = "paid"
  /\ to \in After(w)
  /\ Owe(w, -1)
  /\ IF to \in Steps
     THEN Move(w, "handed") /\ step' = [step EXCEPT ![w] = to]
     ELSE Move(w, to) /\ UNCHANGED step
  /\ \E found \in BOOLEAN :
       /\ found => step[w] = "map" \/ (to = "answered" /\ step[w] \in {"extract", "retry"})
       /\ low' = [low EXCEPT ![w] = @ \/ found]
  /\ UNCHANGED <<docs, jobVars, request, items, job, copy, attempt, reviewVars>>

\* A failed call, a reply without usage or one that was rejected, a missing
\* text: mark_failed.
Fail(w) ==
  /\ pc[w] \in {"handed", "failing"}
  /\ job[w] \in table
  /\ row' = [row EXCEPT ![job[w]] = Flush(@, copy[w], MarkFailed(copy[w]))]
  /\ LetGo(w, "idle")
  /\ UNCHANGED <<docs, made, table, kind, subject, request, items, owed, reviewVars>>

\* Mutant of FailRefused: the failure path forgets the exception's usage.
FailForgetting(w) ==
  /\ pc[w] = "refused"
  /\ job[w] \in table
  /\ row' = [row EXCEPT ![job[w]] = Flush(@, copy[w], MarkFailed(copy[w]))]
  /\ LetGo(w, "idle")
  /\ UNCHANGED <<docs, made, table, kind, subject, request, items, owed, reviewVars>>

\* mark_failed for a refusal.
FailRefused(w) ==
  /\ pc[w] = "refused"
  /\ job[w] \in table
  /\ row' = [row EXCEPT ![job[w]] = Flush(@, copy[w], MarkFailed(copy[w]))]
  /\ Move(w, "owing")
  /\ UNCHANGED <<docs, made, table, kind, subject, request, items, job, copy, attempt, step,
                 low, owed, reviewVars>>

\* account_rejected_output.
AccountRejected(w) ==
  /\ pc[w] = "owing"
  /\ Owe(w, -1)
  /\ LetGo(w, "idle")
  /\ UNCHANGED <<docs, jobVars, request, items, reviewVars>>

\* mark_completed, then route_for_review when any confidence is too low.
Complete(w) ==
  /\ pc[w] = "answered"
  /\ job[w] \in table
  /\ row' = [row EXCEPT ![job[w]] = Flush(@, copy[w], MarkCompleted(copy[w]))]
  /\ IF low[w]
     THEN Move(w, "routing") /\ UNCHANGED <<job, copy, attempt, step, low>>
     ELSE LetGo(w, "idle")
  /\ UNCHANGED <<docs, made, table, kind, subject, request, items, owed, reviewVars>>

\* Mutant of Route: the items are created before the job is marked.
RouteEarly(w) ==
  /\ pc[w] \in {"answered", "routing"}
  /\ low[w]
  /\ Anchor(job[w]) \in docs
  /\ items' = [items EXCEPT ![<<job[w], attempt[w]>>] = "pending"]
  /\ IF pc[w] = "routing"
     THEN LetGo(w, "idle")
     ELSE low' = [low EXCEPT ![w] = FALSE] /\ UNCHANGED <<pc, job, copy, attempt, step>>
  /\ UNCHANGED <<docs, jobVars, request, owed, reviewVars>>

\* create_many: the items' foreign key wants their document, nothing else.
Route(w) ==
  /\ pc[w] = "routing"
  /\ Anchor(job[w]) \in docs
  /\ items' = [items EXCEPT ![<<job[w], attempt[w]>>] = "pending"]
  /\ LetGo(w, "idle")
  /\ UNCHANGED <<docs, jobVars, request, owed, reviewVars>>

\* A refresh or a mark of a swept job, items for a deleted document, an answer
\* without a choice.  Usage in hand is lost, that of a refusal too.
Raise(w) ==
  /\ \/ pc[w] \in {"claimed", "handed", "failing", "refused", "answered"}
          /\ job[w] \notin table
     \/ pc[w] = "routing" /\ Anchor(job[w]) \notin docs
     \/ pc[w] = "handed" /\ step[w] # "search"
  /\ Owe(w, IF pc[w] \in Holding THEN -1 ELSE 0)
  /\ LetGo(w, "raised")
  /\ UNCHANGED <<docs, jobVars, request, items, reviewVars>>

Crash(w) ==
  /\ pc[w] \notin {"idle", "raised", "down"}
  /\ Owe(w, IF pc[w] \in Holding THEN -1 ELSE 0)
  /\ LetGo(w, "down")
  /\ UNCHANGED <<docs, jobVars, request, items, reviewVars>>

Restart(w) ==
  /\ pc[w] \in {"raised", "down"}
  /\ Move(w, "idle")
  /\ UNCHANGED <<docs, jobVars, request, items, job, copy, attempt, step, low, owed,
                 reviewVars>>

LeaseLapses(j) ==
  /\ j \in table
  /\ row[j].status = "running"
  /\ row[j].lease = "live"
  /\ row' = [row EXCEPT ![j] = Lapsed(@)]
  /\ UNCHANGED <<docs, made, table, kind, subject, request, items, workerVars, reviewVars>>
-----------------------------------------------------------------------------
(* Reviewers                                                               *)

\* get_review_item: an unknown item is a 404.
Fetch(v, b) ==
  /\ reading[v] = None /\ filing[v] = None
  /\ Present(b)
  /\ reading' = [reading EXCEPT ![v] = b]
  /\ UNCHANGED <<docs, jobVars, request, items, workerVars, filing, audits>>

\* Mutant of Resolve: the UPDATE names the item by its id alone.
ResolveUnguarded(v, disposition) ==
  /\ reading[v] # None
  /\ items' = [items EXCEPT ![reading[v]] =
                 IF Present(reading[v]) THEN disposition ELSE @]
  /\ filing' = [filing EXCEPT ![v] =
                  IF Present(reading[v]) THEN <<reading[v], disposition>> ELSE None]
  /\ reading' = [reading EXCEPT ![v] = None]
  /\ UNCHANGED <<docs, jobVars, request, workerVars, audits>>

\* resolve: the UPDATE's WHERE asks for pendency, so a second resolution, or one
\* of an item swept meanwhile, updates nothing and is not audited (409).
Resolve(v, disposition) ==
  /\ reading[v] # None
  /\ items' = [items EXCEPT ![reading[v]] = IF @ = "pending" THEN disposition ELSE @]
  /\ filing' = [filing EXCEPT ![v] = IF items[reading[v]] = "pending"
                                     THEN <<reading[v], disposition>> ELSE None]
  /\ reading' = [reading EXCEPT ![v] = None]
  /\ UNCHANGED <<docs, jobVars, request, workerVars, audits>>

\* The audit row, a commit after the resolution's.
Audit(v) ==
  /\ filing[v] # None
  /\ audits' = [audits EXCEPT ![filing[v][1]] = @ \cup {filing[v][2]}]
  /\ filing' = [filing EXCEPT ![v] = None]
  /\ UNCHANGED <<docs, jobVars, request, items, workerVars, reading>>

\* The request is cut off between the two.
AuditLost(v) ==
  /\ filing[v] # None
  /\ filing' = [filing EXCEPT ![v] = None]
  /\ UNCHANGED <<docs, jobVars, request, items, workerVars, reading, audits>>
-----------------------------------------------------------------------------
Next ==
  \/ CheckReport \/ CreateFails
  \/ \E d \in Documents : CheckExtraction(d) \/ Delete(d)
  \/ \E j \in Jobs : Create(j) \/ LeaseLapses(j)
  \/ \E w \in Workers :
       \/ \E k \in Kinds : Claim(w, k)
       \/ \E to \in Steps \cup {"answered", "failing"} : Record(w, to)
       \/ TakeForCapped(w) \/ StartHandler(w) \/ Return(w) \/ Refuse(w) \/ NothingChanged(w)
       \/ Fail(w) \/ FailRefused(w) \/ AccountRejected(w) \/ Complete(w)
       \/ Route(w) \/ Raise(w) \/ Crash(w) \/ Restart(w)
  \/ \E v \in Reviewers :
       \/ \E b \in Batch : Fetch(v, b)
       \/ \E disposition \in Resolved : Resolve(v, disposition)
       \/ Audit(v) \/ AuditLost(v)

Spec == Init /\ [][Next]_vars
-----------------------------------------------------------------------------
\* change_report_jobs.py: a report "whose base is the deleted document cannot
\* exist": whatever is enqueued while documents go, a job in its table has all
\* its documents, and so has an item.
OwnersPresent ==
  /\ \A j \in table : {subject[j], Anchor(j)} \subseteq docs
  /\ \A b \in Batch : Present(b) => Anchor(b[1]) \in docs

\* Items are routed after the outcome: a job with items in the queue is settled,
\* and if it was claimed only once it is completed and they are its only batch.
\* (A job that outlived its lease may route twice, and fail after it routed.)
ItemsFitJob ==
  \A b \in Batch : Present(b) /\ b[1] \in table =>
    /\ row[b[1]].status \in Terminal
    /\ row[b[1]].attempts = 1 => row[b[1]].status = "completed" /\ b[2] = 1

\* review_queue.py: "every resolution is terminal": a batch item resolved once
\* keeps its disposition until it is swept, however reviewers and workers race.
ResolutionFinal ==
  [][\A b \in Batch : items[b] \in Resolved => items'[b] \in {items[b], "deleted"}]_vars

\* usage.py: "a job failure path must not drop them (one row per logged call)":
\* a call whose usage came back is in the table, or in the hands of a worker that
\* is about to write it, on every path of both handlers, also when the job was
\* swept or another worker settled it.  Only a worker that dies or raises loses
\* what it held.
SpendAccounted ==
  \A j \in Jobs :
    owed[j] = Cardinality({w \in Workers : job[w] = j /\ pc[w] \in Holding})

\* review_queue.py, audit.py: the audit log tells what became of an item: all
\* its rows name one disposition, the one the item has unless it was swept.
ResolutionAudited ==
  \A b \in Batch : \A disposition \in audits[b] : items[b] \in {disposition, "deleted"}

\* documents.py: "Review Items routed from the deleted Change Reports go with
\* them".
SweptReportsLeaveNoItems ==
  \A b \in Batch : Present(b) => b[1] \in table
=============================================================================
