-------------------------- MODULE IngestionProofs --------------------------
(***************************************************************************)
(* What is stored for a document comes from one run, is there when the     *)
(* document or a job says so, and goes with the document: for any jobs,    *)
(* workers, requests and attempt cap.                                      *)
(***************************************************************************)
EXTENDS Ingestion, JobRowsProofs, TLAPS

Free   == {"idle", "raised", "down"}
Stored == {"stored", "settingParsed"}

\* A row that was never inserted, and one that may be claimed again.
RowsFit ==
  \A j \in Jobs : /\ j \notin made => row[j] = NewRow
                  /\ row[j].attempts <= MaxAttempts \/ row[j].status \in Terminal

HandsFit ==
  \A w \in Workers : /\ job[w] = None <=> pc[w] \in Free
                     /\ job[w] # None => attempt[w] >= 1

\* The key of document_texts lets one replacement in, which keeps the sweep out
\* and whose snapshot of the chunks is therefore the table.
ReplacingAlone ==
  /\ \A v, w \in Replacing : v = w
  /\ Replacing # {} => docStatus # "gone"
  /\ \A w \in Workers : pc[w] = "staged" => seen[w] = chunks

\* Only the sweep takes a text away that a worker has stored.
StoredHasText ==
  \A w \in Workers : pc[w] \in Stored => docStatus = "gone" \/ text # None

Inv == /\ TypeOK /\ RowsFit /\ HandsFit /\ ReplacingAlone /\ StoredHasText
       /\ ContentFromOneRun /\ ParsedHasText /\ NothingOutlivesDocument

-----------------------------------------------------------------------------
LEMMA InitInv == Init => Inv
<1> SUFFICES ASSUME Init PROVE Inv
  OBVIOUS
<1>1. TypeOK
  BY MaxAttemptsAssumption DEF Init, TypeOK, NewRow, Row, JobStatus, PC, Status
<1>2. RowsFit
  BY MaxAttemptsAssumption DEF Init, RowsFit, NewRow
<1>3. HandsFit /\ ReplacingAlone /\ StoredHasText
  BY DEF Init, HandsFit, ReplacingAlone, Replacing, StoredHasText, Free, Stored
<1>4. ContentFromOneRun /\ ParsedHasText /\ NothingOutlivesDocument
  BY DEF Init, ContentFromOneRun, ParsedHasText, NothingOutlivesDocument
<1> QED BY <1>1, <1>2, <1>3, <1>4 DEF Inv

-----------------------------------------------------------------------------
(* Requests                                                                *)

LEMMA RequestInv ==
  ASSUME Inv, NEW c \in Clients, CheckActive(c) \/ CreateFails(c)
  PROVE  Inv'
<1>1. /\ UNCHANGED <<docVars, jobVars, workerVars>>
      /\ clientPc' \in [Clients -> {"none", "cleared"}]
  BY DEF Inv, TypeOK, CheckActive, CreateFails
<1>2. TypeOK' /\ RowsFit' /\ HandsFit'
  BY <1>1 DEF Inv, TypeOK, RowsFit, HandsFit, docVars, jobVars, workerVars
<1>3. ReplacingAlone' /\ StoredHasText'
  BY <1>1 DEF Inv, ReplacingAlone, Replacing, StoredHasText, docVars, workerVars
<1>4. ContentFromOneRun' /\ ParsedHasText' /\ NothingOutlivesDocument'
  BY <1>1 DEF Inv, ContentFromOneRun, ParsedHasText, NothingOutlivesDocument, docVars, jobVars
<1> QED BY <1>2, <1>3, <1>4 DEF Inv

LEMMA CreateInv == ASSUME Inv, NEW c \in Clients, NEW j \in Jobs, Create(c, j) PROVE Inv'
<1>1. /\ docStatus # "gone" /\ row[j] = NewRow
      /\ made' = made \cup {j} /\ table' = table \cup {j}
      /\ clientPc' \in [Clients -> {"none", "cleared"}]
      /\ UNCHANGED <<docVars, row, workerVars>>
  BY DEF Create, Inv, TypeOK, RowsFit
<1>2. TypeOK' /\ RowsFit' /\ HandsFit'
  BY <1>1 DEF Inv, TypeOK, RowsFit, HandsFit, docVars, workerVars
<1>3. ReplacingAlone' /\ StoredHasText'
  BY <1>1 DEF Inv, ReplacingAlone, Replacing, StoredHasText, docVars, workerVars
<1>4. ContentFromOneRun' /\ ParsedHasText' /\ NothingOutlivesDocument'
  BY <1>1 DEF Inv, ContentFromOneRun, ParsedHasText, NothingOutlivesDocument, docVars, NewRow
<1> QED BY <1>2, <1>3, <1>4 DEF Inv

LEMMA DeleteInv == ASSUME Inv, Delete PROVE Inv'
<1>1. /\ Replacing = {} /\ docStatus' = "gone" /\ text' = None /\ chunks' = {} /\ table' = {}
      /\ UNCHANGED <<made, row, clientPc, workerVars>>
  BY DEF Delete
<1>2. TypeOK' /\ RowsFit' /\ HandsFit'
  BY <1>1 DEF Inv, TypeOK, RowsFit, HandsFit, workerVars, Status
<1>3. Replacing' = {} /\ \A w \in Workers : pc'[w] # "staged"
  BY <1>1 DEF Replacing, workerVars
<1>4. ReplacingAlone' /\ StoredHasText'
  BY <1>1, <1>3 DEF ReplacingAlone, StoredHasText
<1>5. ContentFromOneRun' /\ ParsedHasText' /\ NothingOutlivesDocument'
  BY <1>1 DEF ContentFromOneRun, ParsedHasText, NothingOutlivesDocument
<1> QED BY <1>2, <1>4, <1>5 DEF Inv

-----------------------------------------------------------------------------
(* Workers                                                                 *)

\* What holds of the rows, the text and the chunks as long as they stay.
LEMMA NothingElse ==
  ASSUME Inv, UNCHANGED <<docVars, jobVars>>
  PROVE  RowsFit' /\ ContentFromOneRun' /\ ParsedHasText' /\ NothingOutlivesDocument'
BY DEF Inv, RowsFit, ContentFromOneRun, ParsedHasText, NothingOutlivesDocument, docVars, jobVars

\* A worker between two steps of its pass.
LEMMA AdvanceInv ==
  ASSUME Inv, NEW w \in Workers, pc[w] \notin Free, NEW to \in PC \ Free, Move(w, to),
         UNCHANGED <<docVars, jobVars, clientPc, job, attempt>>,
         copy' \in [Workers -> Row], mem' \in [Workers -> Status \cup {None}],
         seen' \in [Workers -> SUBSET Batch], \A v \in Workers \ {w} : seen'[v] = seen[v],
         to \in {"textStaged", "staged"} => docStatus # "gone" /\ Replacing \subseteq {w},
         to = "staged" => seen'[w] = chunks,
         to \in Stored => pc[w] \in Stored
  PROVE  Inv'
<1>1. /\ pc' \in [Workers -> PC] /\ pc'[w] = to /\ \A v \in Workers \ {w} : pc'[v] = pc[v]
  BY DEF Inv, TypeOK, Move
<1>2. TypeOK'
  BY <1>1 DEF Inv, TypeOK, docVars, jobVars
<1>3. HandsFit'
  BY <1>1 DEF Inv, HandsFit
<1>4. ReplacingAlone'
  <2>1. Replacing' \subseteq Replacing \cup {w}
    BY <1>1 DEF Replacing
  <2>2. CASE to \in {"textStaged", "staged"}
    <3>1. Replacing' \subseteq {w}
      BY <2>1, <2>2
    <3>2. \A v \in Workers \ {w} : pc'[v] # "staged"
      BY <1>1, <2>2, <3>1 DEF Replacing
    <3> QED BY <1>1, <2>2, <3>1, <3>2 DEF ReplacingAlone, docVars
  <2>3. CASE to \notin {"textStaged", "staged"}
    <3>1. Replacing' \subseteq Replacing
      BY <1>1, <2>3 DEF Replacing
    <3> QED BY <1>1, <2>3, <3>1 DEF Inv, ReplacingAlone, docVars
  <2> QED BY <2>2, <2>3
<1>5. StoredHasText'
  BY <1>1 DEF Inv, StoredHasText, docVars
<1> QED BY <1>2, <1>3, <1>4, <1>5, NothingElse DEF Inv

LEMMA PrepareInv ==
  ASSUME Inv, NEW w \in Workers,
         \/ Refresh(w) \/ LoadCapped(w) \/ Load(w) \/ StageText(w) \/ StopWaiting(w) \/ StageChunks(w)
  PROVE  Inv'
<1>1. CASE Refresh(w)
  <2>1. copy' \in [Workers -> Row]
    BY <1>1 DEF Refresh, Inv, TypeOK
  <2> QED BY <1>1, <2>1, AdvanceInv DEF Refresh, Inv, TypeOK, Free, PC, Stored
<1>2. CASE LoadCapped(w) \/ Load(w)
  <2>1. mem' \in [Workers -> Status \cup {None}]
    BY <1>2 DEF LoadCapped, Load, Inv, TypeOK
  <2> QED BY <1>2, <2>1, AdvanceInv DEF LoadCapped, Load, Inv, TypeOK, Free, PC, Stored
<1>3. CASE StageText(w) \/ StopWaiting(w)
  BY <1>3, AdvanceInv DEF StageText, StopWaiting, Inv, TypeOK, Free, PC, Stored
<1>4. CASE StageChunks(w)
  <2>1. /\ seen' \in [Workers -> SUBSET Batch] /\ seen'[w] = chunks
        /\ \A v \in Workers \ {w} : seen'[v] = seen[v]
    BY <1>4 DEF StageChunks, Inv, TypeOK
  <2>2. w \in Replacing
    BY <1>4 DEF StageChunks, Replacing
  <2>3. docStatus # "gone" /\ Replacing \subseteq {w}
    BY <2>2 DEF Inv, ReplacingAlone
  <2> QED BY <1>4, <2>1, <2>3, AdvanceInv DEF StageChunks, Inv, TypeOK, Free, PC, Stored
<1> QED BY <1>1, <1>2, <1>3, <1>4

\* A worker that lets go of its job, after at most a word on the document.
LEMMA LetGoInv ==
  ASSUME Inv, NEW w \in Workers, NEW to \in Free, LetGo(w, to),
         UNCHANGED <<text, chunks, jobVars, clientPc>>,
         \/ docStatus' = docStatus
         \/ docStatus # "gone" /\ docStatus' = "failed"
         \/ docStatus # "gone" /\ docStatus' = "parsed" /\ text # None
  PROVE  Inv'
<1>1. /\ pc' \in [Workers -> PC] /\ job' \in [Workers -> Jobs \cup {None}]
      /\ copy' \in [Workers -> Row] /\ attempt' \in [Workers -> 0..(MaxAttempts + 1)]
      /\ mem' \in [Workers -> Status \cup {None}] /\ seen' \in [Workers -> SUBSET Batch]
  BY MaxAttemptsAssumption DEF Inv, TypeOK, LetGo, Move, Free, PC, NewRow, Row, JobStatus
<1>2. /\ pc'[w] \in Free /\ job'[w] = None
      /\ \A v \in Workers \ {w} : /\ pc'[v] = pc[v] /\ job'[v] = job[v]
                                  /\ attempt'[v] = attempt[v] /\ seen'[v] = seen[v]
  BY DEF Inv, TypeOK, LetGo, Move
<1>3. docStatus' \in Status /\ (docStatus' = "gone" <=> docStatus = "gone")
      /\ (docStatus' = "parsed" => docStatus = "parsed" \/ text # None)
  BY DEF Inv, TypeOK, Status
<1>4. TypeOK'
  BY <1>1, <1>3 DEF Inv, TypeOK, jobVars
<1>5. RowsFit' /\ HandsFit'
  BY <1>2 DEF Inv, RowsFit, HandsFit, jobVars
<1>6. ReplacingAlone' /\ StoredHasText'
  <2>1. Replacing' \subseteq Replacing
    BY <1>2 DEF Replacing, Free
  <2> QED BY <1>2, <1>3, <2>1 DEF Inv, ReplacingAlone, StoredHasText, Stored, Free
<1>7. ContentFromOneRun' /\ ParsedHasText' /\ NothingOutlivesDocument'
  BY <1>3 DEF Inv, ContentFromOneRun, ParsedHasText, NothingOutlivesDocument, jobVars
<1> QED BY <1>4, <1>5, <1>6, <1>7 DEF Inv

LEMMA EndInv ==
  ASSUME Inv, NEW w \in Workers,
         SkipCapped(w) \/ SetFailed(w) \/ SetParsed(w) \/ Raise(w) \/ Crash(w)
  PROVE  Inv'
<1>1. CASE SkipCapped(w) \/ Raise(w) \/ Crash(w)
  BY <1>1, LetGoInv DEF SkipCapped, Raise, Crash, Free, docVars
<1>2. CASE SetFailed(w)
  BY <1>2, LetGoInv DEF SetFailed, SetStatus, Free
<1>3. CASE SetParsed(w)
  <2>1. text # None
    BY <1>3 DEF SetParsed, SetStatus, Inv, StoredHasText, Stored
  <2> QED BY <1>3, <2>1, LetGoInv DEF SetParsed, SetStatus, Free
<1> QED BY <1>1, <1>2, <1>3

LEMMA ClaimInv == ASSUME Inv, NEW w \in Workers, Claim(w) PROVE Inv'
<1>1. PICK j \in table : /\ Claimable(row[j])
                         /\ row' = [row EXCEPT ![j] = Claimed(row[j])]
                         /\ job' = [job EXCEPT ![w] = j]
                         /\ attempt' = [attempt EXCEPT ![w] = row[j].attempts + 1]
  BY DEF Claim, Oldest
<1>2. /\ pc[w] = "idle" /\ pc' = [pc EXCEPT ![w] = "claimed"]
      /\ UNCHANGED <<docVars, made, table, clientPc, copy, mem, seen>>
  BY DEF Claim, Move
<1>3. /\ j \in Jobs /\ j \in made /\ row[j] \in Row
      /\ row[j].attempts \in 0..MaxAttempts /\ j # None
  BY <1>1, MaxAttemptsAssumption, IngestionAssumption
     DEF Inv, TypeOK, RowsFit, Claimable, Terminal, Row, JobStatus
<1>4. /\ row'[j] \in Row /\ row'[j].status \in {"running", "failed"}
      /\ row'[j].attempts <= MaxAttempts \/ row'[j].status \in Terminal
      /\ \A i \in Jobs \ {j} : row'[i] = row[i]
      /\ row' \in [Jobs -> Row]
  BY <1>1, <1>3, ClaimedFacts, MaxAttemptsAssumption DEF Inv, TypeOK, Terminal
<1>5. /\ pc' \in [Workers -> PC] /\ pc'[w] = "claimed" /\ job'[w] = j /\ attempt'[w] >= 1
      /\ \A v \in Workers \ {w} : pc'[v] = pc[v] /\ job'[v] = job[v] /\ attempt'[v] = attempt[v]
      /\ job' \in [Workers -> Jobs \cup {None}] /\ attempt' \in [Workers -> 0..(MaxAttempts + 1)]
  BY <1>1, <1>2, <1>3, MaxAttemptsAssumption DEF Inv, TypeOK, PC
<1>6. TypeOK'
  BY <1>2, <1>4, <1>5 DEF Inv, TypeOK, docVars
<1>7. RowsFit'
  BY <1>2, <1>3, <1>4 DEF Inv, RowsFit
<1>8. HandsFit'
  BY <1>3, <1>5 DEF Inv, HandsFit, Free
<1>9. ReplacingAlone' /\ StoredHasText'
  <2>1. Replacing' \subseteq Replacing
    BY <1>5 DEF Replacing
  <2> QED BY <1>2, <1>5, <2>1 DEF Inv, ReplacingAlone, StoredHasText, Stored, docVars
<1>10. ContentFromOneRun' /\ NothingOutlivesDocument'
  BY <1>2 DEF Inv, ContentFromOneRun, NothingOutlivesDocument, docVars
<1>11. ParsedHasText'
  BY <1>2, <1>3, <1>4 DEF Inv, TypeOK, ParsedHasText, docVars
<1> QED BY <1>6, <1>7, <1>8, <1>9, <1>10, <1>11 DEF Inv

\* The mark of a job says completed only where a text is stored.
LEMMA MarkInv == ASSUME Inv, NEW w \in Workers, IngestFails(w) \/ MarkCompletedJob(w) PROVE Inv'
<1>1. PICK m \in {MarkCompleted(copy[w]), MarkFailed(copy[w])}, to \in {"settingFailed", "settingParsed"} :
        /\ row' = [row EXCEPT ![job[w]] = Flush(row[job[w]], copy[w], m)]
        /\ Move(w, to)
        /\ to = "settingParsed" => pc[w] = "stored"
        /\ m.status = "completed" => pc[w] = "stored"
  BY DEF IngestFails, MarkCompletedJob, MarkFailed
<1>2. /\ job[w] \in table /\ job[w] \in Jobs /\ job[w] \in made /\ pc[w] \in {"ingesting", "stored"}
      /\ UNCHANGED <<docVars, made, table, clientPc, job, copy, attempt, mem, seen>>
  BY DEF IngestFails, MarkCompletedJob, Inv, TypeOK
<1>3. pc[w] = "stored" => docStatus = "gone" \/ text # None
  BY DEF Inv, StoredHasText, Stored
<1>4. /\ row' \in [Jobs -> Row]
      /\ \A i \in Jobs \ {job[w]} : row'[i] = row[i]
      /\ row'[job[w]].attempts = row[job[w]].attempts
      /\ row[job[w]].status \in Terminal => row'[job[w]].status \in Terminal
      /\ row'[job[w]].status = "completed" =>
           row[job[w]].status = "completed" \/ pc[w] = "stored"
  <2>1. /\ Flush(row[job[w]], copy[w], m) \in Row
        /\ Flush(row[job[w]], copy[w], m).attempts = row[job[w]].attempts
        /\ Flush(row[job[w]], copy[w], m).status \in {row[job[w]].status, m.status}
        /\ row[job[w]].status \in Terminal => Flush(row[job[w]], copy[w], m).status \in Terminal
    BY <1>1, <1>2, MarkFacts DEF Inv, TypeOK
  <2> QED BY <1>1, <1>2, <2>1 DEF Inv, TypeOK
<1>5. /\ pc' \in [Workers -> PC] /\ pc'[w] = to /\ \A v \in Workers \ {w} : pc'[v] = pc[v]
  BY <1>1 DEF Inv, TypeOK, Move, PC
<1>6. TypeOK'
  BY <1>2, <1>4, <1>5 DEF Inv, TypeOK, docVars
<1>7. RowsFit' /\ HandsFit'
  BY <1>2, <1>4, <1>5 DEF Inv, RowsFit, HandsFit, Free
<1>8. ReplacingAlone' /\ StoredHasText'
  <2>1. Replacing' \subseteq Replacing
    BY <1>5 DEF Replacing
  <2> QED BY <1>1, <1>2, <1>3, <1>5, <2>1 DEF Inv, ReplacingAlone, StoredHasText, Stored, docVars
<1>9. ContentFromOneRun' /\ NothingOutlivesDocument'
  BY <1>2 DEF Inv, ContentFromOneRun, NothingOutlivesDocument, docVars
<1>10. ParsedHasText'
  BY <1>2, <1>3, <1>4 DEF Inv, TypeOK, ParsedHasText, docVars
<1> QED BY <1>6, <1>7, <1>8, <1>9, <1>10 DEF Inv

\* The chunks of the run before are what the replacement deleted.
LEMMA CommitContentInv == ASSUME Inv, NEW w \in Workers, CommitContent(w) PROVE Inv'
<1> DEFINE mine == <<job[w], attempt[w]>>
<1>1. /\ pc[w] = "staged" /\ text' = mine /\ chunks' = (chunks \ seen[w]) \cup {mine}
      /\ pc' = [v \in Workers |-> IF v = w THEN "stored"
                                  ELSE IF pc[v] = "waiting" THEN "conflict" ELSE pc[v]]
      /\ UNCHANGED <<docStatus, jobVars, clientPc, job, copy, attempt, mem, seen>>
  BY DEF CommitContent
<1>2. mine \in Batch /\ mine # None
  BY <1>1, MaxAttemptsAssumption, BatchAssumption DEF Inv, TypeOK, HandsFit, Free, Batch
<1>3. w \in Replacing /\ Replacing = {w} /\ docStatus # "gone" /\ seen[w] = chunks
  BY <1>1 DEF Inv, ReplacingAlone, Replacing
<1>4. chunks' = {mine}
  BY <1>1, <1>3
<1>5. /\ \A v \in Workers : /\ pc'[v] \in PC /\ (pc'[v] \in Free <=> pc[v] \in Free)
                            /\ pc'[v] \notin {"textStaged", "staged"}
      /\ pc' \in [Workers -> PC]
  BY <1>1, <1>3 DEF Inv, TypeOK, PC, Free, Replacing
<1>6. TypeOK'
  BY <1>1, <1>2, <1>4, <1>5 DEF Inv, TypeOK, jobVars
<1>7. RowsFit' /\ HandsFit'
  BY <1>1, <1>5 DEF Inv, RowsFit, HandsFit, jobVars
<1>8. ReplacingAlone' /\ StoredHasText'
  BY <1>1, <1>2, <1>5 DEF ReplacingAlone, Replacing, StoredHasText
<1>9. ContentFromOneRun' /\ ParsedHasText' /\ NothingOutlivesDocument'
  BY <1>1, <1>2, <1>3, <1>4 DEF ContentFromOneRun, ParsedHasText, NothingOutlivesDocument
<1> QED BY <1>6, <1>7, <1>8, <1>9 DEF Inv

LEMMA RestartInv == ASSUME Inv, NEW w \in Workers, Restart(w) PROVE Inv'
<1>1. /\ pc[w] \in Free /\ pc' = [pc EXCEPT ![w] = "idle"]
      /\ UNCHANGED <<docVars, jobVars, clientPc, job, copy, attempt, mem, seen>>
  BY DEF Restart, Move, Free
<1>2. /\ pc' \in [Workers -> PC] /\ pc'[w] = "idle" /\ \A v \in Workers \ {w} : pc'[v] = pc[v]
  BY <1>1 DEF Inv, TypeOK, PC
<1>3. TypeOK' /\ HandsFit'
  BY <1>1, <1>2 DEF Inv, TypeOK, HandsFit, Free, docVars, jobVars
<1>4. ReplacingAlone' /\ StoredHasText'
  <2>1. Replacing' \subseteq Replacing
    BY <1>2 DEF Replacing
  <2> QED BY <1>1, <1>2, <2>1 DEF Inv, ReplacingAlone, StoredHasText, Stored, docVars
<1> QED BY <1>1, <1>3, <1>4, NothingElse DEF Inv

LEMMA LeaseLapsesInv == ASSUME Inv, NEW j \in Jobs, LeaseLapses(j) PROVE Inv'
<1>1. /\ j \in made /\ row' = [row EXCEPT ![j] = Lapsed(row[j])]
      /\ UNCHANGED <<docVars, made, table, clientPc, workerVars>>
  BY DEF LeaseLapses, Inv, TypeOK
<1>2. /\ row' \in [Jobs -> Row]
      /\ \A i \in Jobs : row'[i].status = row[i].status /\ row'[i].attempts = row[i].attempts
      /\ \A i \in Jobs \ {j} : row'[i] = row[i]
  BY <1>1, LapsedFacts DEF Inv, TypeOK
<1>3. TypeOK' /\ RowsFit' /\ HandsFit'
  BY <1>1, <1>2 DEF Inv, TypeOK, RowsFit, HandsFit, docVars, workerVars
<1>4. ReplacingAlone' /\ StoredHasText'
  BY <1>1 DEF Inv, ReplacingAlone, Replacing, StoredHasText, docVars, workerVars
<1>5. ContentFromOneRun' /\ ParsedHasText' /\ NothingOutlivesDocument'
  BY <1>1, <1>2 DEF Inv, TypeOK, ContentFromOneRun, ParsedHasText, NothingOutlivesDocument, docVars
<1> QED BY <1>3, <1>4, <1>5 DEF Inv

-----------------------------------------------------------------------------
LEMMA NextInv == Inv /\ [Next]_vars => Inv'
<1> SUFFICES ASSUME Inv, [Next]_vars PROVE Inv'
  OBVIOUS
<1>1. CASE UNCHANGED vars
  <2>1. UNCHANGED <<docVars, jobVars, clientPc, workerVars>>
    BY <1>1 DEF vars
  <2>2. TypeOK' /\ HandsFit'
    BY <2>1 DEF Inv, TypeOK, HandsFit, docVars, jobVars, workerVars
  <2>3. ReplacingAlone' /\ StoredHasText'
    BY <2>1 DEF Inv, ReplacingAlone, Replacing, StoredHasText, docVars, workerVars
  <2> QED BY <2>1, <2>2, <2>3, NothingElse DEF Inv
<1>2. ASSUME NEW c \in Clients,
             CheckActive(c) \/ CreateFails(c) \/ \E j \in Jobs : Create(c, j)
      PROVE  Inv'
  BY <1>2, RequestInv, CreateInv
<1>3. ASSUME NEW w \in Workers, Claim(w) \/ Proceed(w) \/ Restart(w) \/ Crash(w)
      PROVE  Inv'
  BY <1>3, ClaimInv, PrepareInv, EndInv, MarkInv, CommitContentInv, RestartInv DEF Proceed
<1>4. CASE \E j \in Jobs : LeaseLapses(j)
  BY <1>4, LeaseLapsesInv
<1>5. CASE Delete
  BY <1>5, DeleteInv
<1> QED BY <1>1, <1>2, <1>3, <1>4, <1>5 DEF Next, CrashFreeNext

-----------------------------------------------------------------------------
(* The promises                                                            *)

\* The inductive invariant holds throughout.
THEOREM Invariance == Spec => []Inv
BY InitInv, NextInv, PTL DEF Spec

\* Every variable of the document and its jobs keeps its type.
THEOREM TypeCorrect == Spec => []TypeOK
BY Invariance, PTL DEF Inv

\* document_texts.py, document_chunks.py: text and chunks are of one run, however
\* many workers replace them at once.
THEOREM OneRunStored == Spec => []ContentFromOneRun
BY Invariance, PTL DEF Inv

\* ingestion.py: a parsed document and a completed job have their text, whichever
\* worker spoke last.
THEOREM ParsedMeansStored == Spec => []ParsedHasText
BY Invariance, PTL DEF Inv

\* documents.py: late workers write nothing back for a deleted document.
THEOREM DeleteSweepsAll == Spec => []NothingOutlivesDocument
BY Invariance, PTL DEF Inv

-----------------------------------------------------------------------------
(* One client at a time                                                    *)

ActiveJobs == {j \in table : Active(row[j])}

\* What a client found is still so when it inserts its job.
ClientsFit ==
  /\ OneActiveJob
  /\ \A c \in Clients : clientPc[c] = "cleared" => ActiveJobs = {}

LEMMA ClientsInit == Init => ClientsFit
BY DEF Init, ClientsFit, OneActiveJob, ActiveJobs

\* No worker, sweep or lapsing lease makes a job unfinished that was not.
LEMMA WorkersSettleOnly ==
  ASSUME Inv, Next, ~ \E c \in Clients : CheckActive(c) \/ CreateFails(c) \/ \E j \in Jobs : Create(c, j)
  PROVE  ActiveJobs' \subseteq ActiveJobs /\ UNCHANGED clientPc
<1>1. ASSUME NEW w \in Workers, Claim(w)
      PROVE  ActiveJobs' \subseteq ActiveJobs /\ UNCHANGED clientPc
  <2>1. PICK j \in table : Claimable(row[j]) /\ row' = [row EXCEPT ![j] = Claimed(row[j])]
    BY <1>1 DEF Claim, Oldest
  <2> QED BY <1>1, <2>1 DEF Claim, Inv, TypeOK, ActiveJobs, Active, Claimable
<1>2. ASSUME NEW w \in Workers, IngestFails(w) \/ MarkCompletedJob(w)
      PROVE  ActiveJobs' \subseteq ActiveJobs /\ UNCHANGED clientPc
  <2>1. PICK m \in {MarkCompleted(copy[w]), MarkFailed(copy[w])} :
          row' = [row EXCEPT ![job[w]] = Flush(row[job[w]], copy[w], m)]
    BY <1>2 DEF IngestFails, MarkCompletedJob
  <2>2. job[w] \in table /\ job[w] \in Jobs /\ UNCHANGED <<table, clientPc>>
    BY <1>2 DEF IngestFails, MarkCompletedJob, Inv, TypeOK
  <2>3. Flush(row[job[w]], copy[w], m).status \in {row[job[w]].status} \cup Terminal
    <3>1. row[job[w]] \in Row /\ copy[w] \in Row
      BY <2>2 DEF Inv, TypeOK
    <3>2. m.status \in Terminal
      BY <3>1, MarkTypes
    <3>3. Flush(row[job[w]], copy[w], m).status \in {row[job[w]].status, m.status}
      BY <3>1, MarkFacts
    <3> QED BY <3>2, <3>3
  <2> QED BY <2>1, <2>2, <2>3 DEF Inv, TypeOK, ActiveJobs, Active, Terminal
<1>3. ASSUME NEW j \in Jobs, LeaseLapses(j)
      PROVE  ActiveJobs' \subseteq ActiveJobs /\ UNCHANGED clientPc
  <2>1. row' = [row EXCEPT ![j] = Lapsed(row[j])] /\ UNCHANGED <<table, clientPc>>
    BY <1>3 DEF LeaseLapses
  <2> QED BY <2>1, LapsedFacts DEF Inv, TypeOK, ActiveJobs, Active
<1>4. CASE Delete
  BY <1>4 DEF Delete, ActiveJobs
<1>5. ASSUME NEW w \in Workers,
             \/ Refresh(w) \/ LoadCapped(w) \/ SkipCapped(w) \/ Load(w)
             \/ StageText(w) \/ StopWaiting(w) \/ StageChunks(w) \/ CommitContent(w)
             \/ SetFailed(w) \/ SetParsed(w) \/ Raise(w) \/ Crash(w) \/ Restart(w)
      PROVE  ActiveJobs' \subseteq ActiveJobs /\ UNCHANGED clientPc
  <2>1. UNCHANGED <<jobVars, clientPc>>
    BY <1>5 DEF Refresh, LoadCapped, SkipCapped, Load, StageText, StopWaiting, StageChunks,
                CommitContent, SetFailed, SetParsed, SetStatus, Raise, Crash, Restart
  <2> QED BY <2>1 DEF jobVars, ActiveJobs
<1> QED BY <1>1, <1>2, <1>3, <1>4, <1>5 DEF Next, CrashFreeNext, Proceed

LEMMA ClientsNext ==
  ASSUME Inv, ClientsFit, [Next]_vars, \A c, d \in Clients : c = d
  PROVE  ClientsFit'
<1>1. CASE ActiveJobs' \subseteq ActiveJobs /\ UNCHANGED clientPc
  <2>1. \A i, j \in ActiveJobs : i = j
    BY DEF ClientsFit, OneActiveJob, ActiveJobs
  <2>2. OneActiveJob'
    BY <1>1, <2>1 DEF OneActiveJob, ActiveJobs
  <2> QED BY <1>1, <2>2 DEF ClientsFit
<1>2. ASSUME NEW c \in Clients, CheckActive(c) \/ CreateFails(c)
      PROVE  ClientsFit'
  <2>1. /\ UNCHANGED jobVars
        /\ clientPc'[c] = "cleared" => ActiveJobs = {}
    BY <1>2 DEF CheckActive, CreateFails, Inv, TypeOK, ActiveJobs
  <2> QED BY <2>1 DEF ClientsFit, OneActiveJob, ActiveJobs, jobVars
<1>3. ASSUME NEW c \in Clients, NEW j \in Jobs, Create(c, j)
      PROVE  ClientsFit'
  <2>1. /\ ActiveJobs = {} /\ table' = table \cup {j} /\ UNCHANGED row
        /\ clientPc' = [clientPc EXCEPT ![c] = "none"]
    BY <1>3 DEF Create, ClientsFit
  <2>2. \A d \in Clients : clientPc'[d] = "none"
    BY <2>1 DEF Inv, TypeOK
  <2>3. OneActiveJob'
    BY <2>1 DEF OneActiveJob, ActiveJobs
  <2> QED BY <2>2, <2>3 DEF ClientsFit
<1>4. CASE UNCHANGED vars
  BY <1>1, <1>4 DEF vars, jobVars, ActiveJobs
<1> QED BY <1>1, <1>2, <1>3, <1>4, WorkersSettleOnly

\* ingestion.py: with one client at a time, a document has at most one job that
\* is queued or running, whatever workers crash and whichever leases lapse.
THEOREM OneClientOneJob ==
  ASSUME \A c, d \in Clients : c = d
  PROVE  Spec => []OneActiveJob
<1>1. Inv /\ Inv' /\ ClientsFit /\ [Next]_vars => ClientsFit'
  BY ClientsNext
<1>2. ClientsFit => OneActiveJob
  BY DEF ClientsFit
<1> QED BY <1>1, <1>2, ClientsInit, Invariance, PTL DEF Spec
=============================================================================
