----------------------------- MODULE Ingestion -----------------------------
(***************************************************************************)
(* One document and its ingestion jobs (app/services/ingestion.py): the    *)
(* requests that enqueue a job, the workers that run one, the sweep that   *)
(* deletes the document with everything it owns.                           *)
(*                                                                         *)
(* A worker commits an outcome in two or three transactions: the parsed    *)
(* text and its chunks, the job row, the document's status.  Other workers,*)
(* requests and crashes come in between, and the session writes from the   *)
(* copies it loaded when it claimed the job.  The claim itself is a single *)
(* transaction here; JobLease opens it.  Each run of a job parses the same *)
(* bytes, so what it stores is told apart by who stored it: the batch      *)
(* <<job, attempt>>.  The audit row of a request and the usage rows of LLM *)
(* calls, which nothing here reads, are left out.                          *)
(***************************************************************************)
EXTENDS JobRows

CONSTANTS Jobs,      \* job ids, numbered in (created_at, id) order
          Workers,   \* worker processes
          Clients,   \* requests to enqueue, each served by a session of its own
          None       \* nothing in hand, nothing stored

ASSUME IngestionAssumption == Jobs \subseteq Nat /\ None \notin Jobs

Batch  == Jobs \X (1..(MaxAttempts + 1))

ASSUME BatchAssumption == None \notin Batch

Status == {"uploaded", "parsed", "failed", "gone"}
PC     == {"idle", "claimed", "capped", "handed", "ingesting", "waiting",
           "textStaged", "staged", "stored", "settingFailed", "settingParsed",
           "conflict", "raised", "down"}

VARIABLES
  docStatus,   \* the document row's status; "gone" once the row is deleted
  text,        \* document_texts: the batch stored there, or None
  chunks,      \* document_chunks: the batches with rows in the table
  made,        \* jobs enqueued so far
  table,       \* jobs whose row is in the table
  row,         \* the rows
  clientPc,    \* requests that saw no active job and will insert one
  pc, job, copy, attempt,   \* as in JobLease
  mem,         \* the document's status as the worker's session loaded it
  seen         \* the chunk batches the worker's open transaction deleted

docVars    == <<docStatus, text, chunks>>
jobVars    == <<made, table, row>>
workerVars == <<pc, job, copy, attempt, mem, seen>>
vars       == <<docVars, jobVars, clientPc, workerVars>>

TypeOK ==
  /\ docStatus \in Status
  /\ text \in Batch \cup {None}
  /\ chunks \subseteq Batch
  /\ made \subseteq Jobs
  /\ table \subseteq made
  /\ row \in [Jobs -> Row]
  /\ clientPc \in [Clients -> {"none", "cleared"}]
  /\ pc \in [Workers -> PC]
  /\ job \in [Workers -> Jobs \cup {None}]
  /\ copy \in [Workers -> Row]
  /\ attempt \in [Workers -> 0..(MaxAttempts + 1)]
  /\ mem \in [Workers -> Status \cup {None}]
  /\ seen \in [Workers -> SUBSET Batch]

\* The document was just uploaded.
Init ==
  /\ docStatus = "uploaded"
  /\ text = None
  /\ chunks = {}
  /\ made = {}
  /\ table = {}
  /\ row = [j \in Jobs |-> NewRow]
  /\ clientPc = [c \in Clients |-> "none"]
  /\ pc = [w \in Workers |-> "idle"]
  /\ job = [w \in Workers |-> None]
  /\ copy = [w \in Workers |-> NewRow]
  /\ attempt = [w \in Workers |-> 0]
  /\ mem = [w \in Workers |-> None]
  /\ seen = [w \in Workers |-> {}]

Move(w, to) == pc' = [pc EXCEPT ![w] = to]

\* The worker's session is closed, its open transaction rolled back.
LetGo(w, to) ==
  /\ Move(w, to)
  /\ job' = [job EXCEPT ![w] = None]
  /\ copy' = [copy EXCEPT ![w] = NewRow]
  /\ attempt' = [attempt EXCEPT ![w] = 0]
  /\ mem' = [mem EXCEPT ![w] = None]
  /\ seen' = [seen EXCEPT ![w] = {}]

\* Workers whose open transaction has inserted the document's text.
Replacing == {w \in Workers : pc[w] \in {"textStaged", "staged"}}
-----------------------------------------------------------------------------
(* Requests                                                                *)

\* Mutant of CheckActive: only queued jobs count as unfinished.
CheckQueued(c) ==
  /\ clientPc[c] = "none"
  /\ docStatus # "gone"
  /\ ~ \E j \in table : row[j].status = "queued"
  /\ clientPc' = [clientPc EXCEPT ![c] = "cleared"]
  /\ UNCHANGED <<docVars, jobVars, workerVars>>

\* enqueue_ingestion up to find_active_for_document: 404 and 409 change nothing.
CheckActive(c) ==
  /\ clientPc[c] = "none"
  /\ docStatus # "gone"
  /\ ~ \E j \in table : Active(row[j])
  /\ clientPc' = [clientPc EXCEPT ![c] = "cleared"]
  /\ UNCHANGED <<docVars, jobVars, workerVars>>

\* create() inserts the row without another look at the other jobs.
Create(c, j) ==
  /\ clientPc[c] = "cleared"
  /\ docStatus # "gone"
  /\ j \in Jobs \ made
  /\ made' = made \cup {j}
  /\ table' = table \cup {j}
  /\ clientPc' = [clientPc EXCEPT ![c] = "none"]
  /\ UNCHANGED <<docVars, row, workerVars>>

\* The insert's foreign key fails, or the request is cut off.
CreateFails(c) ==
  /\ clientPc[c] = "cleared"
  /\ clientPc' = [clientPc EXCEPT ![c] = "none"]
  /\ UNCHANGED <<docVars, jobVars, workerVars>>

\* Mutant of Delete: no foreign key holds the sweep back.
DeleteRegardless ==
  /\ docStatus # "gone"
  /\ docStatus' = "gone"
  /\ text' = None
  /\ chunks' = {}
  /\ table' = {}
  /\ UNCHANGED <<made, row, clientPc, workerVars>>

\* delete_document sweeps text, chunks and jobs, then the row, in one
\* transaction.  An inserted text holds a key-share lock on the document row,
\* and once it commits the sweep's own snapshot misses it: the foreign key
\* then rolls the delete back.
Delete ==
  /\ docStatus # "gone"
  /\ Replacing = {}
  /\ docStatus' = "gone"
  /\ text' = None
  /\ chunks' = {}
  /\ table' = {}
  /\ UNCHANGED <<made, row, clientPc, workerVars>>
-----------------------------------------------------------------------------
(* Workers                                                                 *)

Oldest(S) == {j \in S : \A i \in S : j <= i}

\* The claiming transaction of claim_next (JobLease opens it).
Claim(w) ==
  /\ pc[w] = "idle"
  /\ \E j \in Oldest({i \in table : Claimable(row[i])}) :
       /\ row' = [row EXCEPT ![j] = Claimed(@)]
       /\ job' = [job EXCEPT ![w] = j]
       /\ attempt' = [attempt EXCEPT ![w] = row[j].attempts + 1]
  /\ Move(w, "claimed")
  /\ UNCHANGED <<docVars, made, table, clientPc, copy, mem, seen>>

\* The refresh after the claim's commit, and the branch on its status.
Refresh(w) ==
  /\ pc[w] = "claimed"
  /\ job[w] \in table
  /\ copy' = [copy EXCEPT ![w] = row[job[w]]]
  /\ Move(w, IF row[job[w]].status = "failed" THEN "capped" ELSE "handed")
  /\ UNCHANGED <<docVars, jobVars, clientPc, job, attempt, mem, seen>>

\* A job past the attempt cap only marks the document, if it is still there.
LoadCapped(w) ==
  /\ pc[w] = "capped"
  /\ docStatus # "gone"
  /\ mem' = [mem EXCEPT ![w] = docStatus]
  /\ Move(w, "settingFailed")
  /\ UNCHANGED <<docVars, jobVars, clientPc, job, copy, attempt, seen>>

SkipCapped(w) ==
  /\ pc[w] = "capped"
  /\ docStatus = "gone"
  /\ LetGo(w, "idle")
  /\ UNCHANGED <<docVars, jobVars, clientPc>>

Load(w) ==
  /\ pc[w] = "handed"
  /\ docStatus # "gone"
  /\ mem' = [mem EXCEPT ![w] = docStatus]
  /\ Move(w, "ingesting")
  /\ UNCHANGED <<docVars, jobVars, clientPc, job, copy, attempt, seen>>

\* _ingest raises: mark_failed commits first, the document's status after it.
IngestFails(w) ==
  /\ pc[w] = "ingesting"
  /\ job[w] \in table
  /\ row' = [row EXCEPT ![job[w]] = Flush(@, copy[w], MarkFailed(copy[w]))]
  /\ Move(w, "settingFailed")
  /\ UNCHANGED <<docVars, made, table, clientPc, job, copy, attempt, mem, seen>>

\* Mutant of StageText: document_texts has no primary key to wait on.
StageTextFreely(w) ==
  /\ pc[w] = "ingesting"
  /\ docStatus # "gone"
  /\ Move(w, "textStaged")
  /\ UNCHANGED <<docVars, jobVars, clientPc, job, copy, attempt, mem, seen>>

\* document_texts.replace deletes the text row and inserts its own.  The row's
\* key is the document, so a second insert waits for the first one's outcome.
StageText(w) ==
  /\ pc[w] = "ingesting"
  /\ docStatus # "gone"
  /\ Move(w, IF Replacing = {} THEN "textStaged" ELSE "waiting")
  /\ UNCHANGED <<docVars, jobVars, clientPc, job, copy, attempt, mem, seen>>

\* The insert waited for was rolled back.
StopWaiting(w) ==
  /\ pc[w] = "waiting"
  /\ docStatus # "gone"
  /\ Replacing = {}
  /\ Move(w, "textStaged")
  /\ UNCHANGED <<docVars, jobVars, clientPc, job, copy, attempt, mem, seen>>

\* replace_with_embeddings deletes the chunks its statement sees.
StageChunks(w) ==
  /\ pc[w] = "textStaged"
  /\ seen' = [seen EXCEPT ![w] = chunks]
  /\ Move(w, "staged")
  /\ UNCHANGED <<docVars, jobVars, clientPc, job, copy, attempt, mem>>

\* The commit of text and chunks; inserts that waited for it violate the key.
CommitContent(w) ==
  /\ pc[w] = "staged"
  /\ text' = <<job[w], attempt[w]>>
  /\ chunks' = (chunks \ seen[w]) \cup {<<job[w], attempt[w]>>}
  /\ pc' = [v \in Workers |-> IF v = w THEN "stored"
                              ELSE IF pc[v] = "waiting" THEN "conflict" ELSE pc[v]]
  /\ UNCHANGED <<docStatus, jobVars, clientPc, job, copy, attempt, mem, seen>>

\* Mutant of MarkCompletedJob: the job is marked before its text is stored.
MarkCompletedFirst(w) ==
  /\ pc[w] \in {"ingesting", "stored"}
  /\ job[w] \in table
  /\ row' = [row EXCEPT ![job[w]] = Flush(@, copy[w], MarkCompleted(copy[w]))]
  /\ Move(w, "settingParsed")
  /\ UNCHANGED <<docVars, made, table, clientPc, job, copy, attempt, mem, seen>>

MarkCompletedJob(w) ==
  /\ pc[w] = "stored"
  /\ job[w] \in table
  /\ row' = [row EXCEPT ![job[w]] = Flush(@, copy[w], MarkCompleted(copy[w]))]
  /\ Move(w, "settingParsed")
  /\ UNCHANGED <<docVars, made, table, clientPc, job, copy, attempt, mem, seen>>

\* set_status emits an UPDATE only when the session's copy of the document says
\* something else, whatever the row says by now.
SetStatus(w, status) ==
  /\ docStatus # "gone"
  /\ docStatus' = IF mem[w] = status THEN docStatus ELSE status
  /\ LetGo(w, "idle")
  /\ UNCHANGED <<text, chunks, jobVars, clientPc>>

\* Mutant of SetFailed: the failing paths leave the document alone.
SetNothing(w) ==
  /\ pc[w] = "settingFailed"
  /\ LetGo(w, "idle")
  /\ UNCHANGED <<docVars, jobVars, clientPc>>

SetFailed(w) == pc[w] = "settingFailed" /\ SetStatus(w, "failed")
SetParsed(w) == pc[w] = "settingParsed" /\ SetStatus(w, "parsed")

\* Writes to deleted rows and the text key conflict are outside the handler's
\* try: they end the worker loop.
Raise(w) ==
  /\ \/ pc[w] = "conflict"
     \/ pc[w] \in {"claimed", "ingesting", "stored"} /\ job[w] \notin table
     \/ pc[w] \in {"handed", "waiting", "settingFailed", "settingParsed"}
          /\ docStatus = "gone"
  /\ LetGo(w, "raised")
  /\ UNCHANGED <<docVars, jobVars, clientPc>>

Crash(w) ==
  /\ pc[w] \notin {"idle", "down", "raised"}
  /\ LetGo(w, "down")
  /\ UNCHANGED <<docVars, jobVars, clientPc>>

Restart(w) ==
  /\ pc[w] \in {"down", "raised"}
  /\ Move(w, "idle")
  /\ UNCHANGED <<docVars, jobVars, clientPc, job, copy, attempt, mem, seen>>

LeaseLapses(j) ==
  /\ j \in table
  /\ row[j].status = "running"
  /\ row[j].lease = "live"
  /\ row' = [row EXCEPT ![j] = Lapsed(@)]
  /\ UNCHANGED <<docVars, made, table, clientPc, workerVars>>
-----------------------------------------------------------------------------
\* One step of a worker that is in the middle of a pass.
Proceed(w) ==
  \/ Refresh(w) \/ LoadCapped(w) \/ SkipCapped(w) \/ Load(w) \/ IngestFails(w)
  \/ StageText(w) \/ StopWaiting(w) \/ StageChunks(w) \/ CommitContent(w)
  \/ MarkCompletedJob(w) \/ SetFailed(w) \/ SetParsed(w) \/ Raise(w)

CrashFreeNext ==
  \/ \E c \in Clients : CheckActive(c) \/ CreateFails(c) \/ \E j \in Jobs : Create(c, j)
  \/ \E w \in Workers : Claim(w) \/ Proceed(w) \/ Restart(w)
  \/ \E j \in Jobs : LeaseLapses(j)
  \/ Delete

Next == CrashFreeNext \/ \E w \in Workers : Crash(w)

Spec == Init /\ [][Next]_vars

\* Workers poll and their passes end (every LLM call has a timeout), a worker
\* whose loop raised is restarted, time passes.  Requests owe nothing.
Fairness ==
  /\ \A j \in Jobs : WF_vars(LeaseLapses(j))
  /\ \A w \in Workers : WF_vars(Claim(w)) /\ WF_vars(Proceed(w)) /\ WF_vars(Restart(w))

CrashFreeSpec == Init /\ [][CrashFreeNext]_vars /\ Fairness
-----------------------------------------------------------------------------
\* The text and the chunks stored for a document come from one run of one job:
\* document_chunks has no key of its own, the key of document_texts serialises
\* the replacements.
ContentFromOneRun ==
  /\ text = None => chunks = {}
  /\ text # None => chunks = {text}

\* A `parsed` document (what extraction and change reports go by) has its text,
\* and so has the document of a completed job, whichever worker wrote last.
ParsedHasText ==
  docStatus # "gone" =>
    /\ docStatus = "parsed" => text # None
    /\ \A j \in table : row[j].status = "completed" => text # None

\* Late workers write nothing back for a document that was deleted.
NothingOutlivesDocument ==
  docStatus = "gone" => text = None /\ chunks = {} /\ table = {}

\* enqueue_ingestion promises "IngestionJobConflictError while a job for the document is
\* still queued or running (re-run is allowed only from a terminal state)".
\* What find_active looks at is not locked, so this needs one client at a time.
OneActiveJob ==
  \A i, j \in table : Active(row[i]) /\ Active(row[j]) => i = j

\* Without crashes a document does not stay `uploaded` once a job was enqueued
\* for it, whatever leases lapse and whichever worker gives up.
EventuallyTerminal == table # {} ~> docStatus # "uploaded"

\* ingestion.py: "the document must still land in a terminal status, never
\* stuck `uploaded`": so not once all its jobs are settled and no worker has
\* one in hand.
DocumentSettles ==
  /\ table # {}
  /\ \A j \in table : row[j].status \in Terminal
  /\ \A w \in Workers : job[w] = None
  => docStatus # "uploaded"
=============================================================================
