------------------------ MODULE ReviewRoutingProofs ------------------------
(***************************************************************************)
(* Jobs, review items and documents fit together, resolutions are final    *)
(* and audited, and spend is accounted for: for any jobs, workers,         *)
(* reviewers and attempt cap.                                              *)
(***************************************************************************)
EXTENDS ReviewRouting, JobRowsProofs, FiniteSetTheorems, TLAPS

Free    == {"idle", "raised", "down"}
Working == {"claimed", "handed", "failing", "answered"} \cup {"paid", "refused"}

\* A row that was never claimed, and one that may be claimed again.
RowsFit ==
  \A j \in Jobs : /\ j \notin made => row[j].attempts = 0
                  /\ row[j].attempts <= MaxAttempts \/ row[j].status \in Terminal

\* A worker holds a job under an attempt of its own.
HandsFit ==
  \A w \in Workers :
    /\ job[w] = None <=> pc[w] \in Free
    /\ job[w] # None => job[w] \in made /\ attempt[w] \in 1..row[job[w]].attempts
    /\ \A v \in Workers : job[w] # None /\ job[v] = job[w] /\ attempt[v] = attempt[w] => v = w

\* So its batch is not there before it routes it.
BatchesFresh ==
  /\ \A b \in Batch : items[b] # "none" => b[2] <= row[b[1]].attempts
  /\ \A w \in Workers : job[w] # None => items[<<job[w], attempt[w]>>] = "none"

\* What is yet to be audited is what the item says, as what has been.
ReviewsTold ==
  /\ \A v \in Reviewers : filing[v] # None => items[filing[v][1]] \in {filing[v][2], "deleted"}
  /\ ResolutionAudited

\* A report is swept with the amendment, which goes before the base.
DocumentsFit ==
  /\ "amended" \in docs => "base" \in docs
  /\ \A j \in Jobs : kind[j] = "report" => subject[j] = "amended"
  /\ request # None /\ request[1] = "report" => request[2] = "amended"
  /\ OwnersPresent

\* A job claimed once is running while its worker works, and completed when it
\* routes; whatever was settled when a worker loaded it is settled still.
RunsFit ==
  \A w \in Workers : job[w] # None =>
    /\ pc[w] \in Working /\ row[job[w]].attempts = 1 => row[job[w]].status = "running"
    /\ pc[w] # "claimed" /\ copy[w].status \in Terminal => row[job[w]].status \in Terminal
    /\ pc[w] = "routing" =>
         /\ row[job[w]].status \in Terminal
         /\ row[job[w]].attempts = 1 => row[job[w]].status = "completed"

Holders(j) == {w \in Workers : job[w] = j /\ pc[w] \in Holding}

Inv == /\ TypeOK /\ RowsFit /\ HandsFit /\ BatchesFresh /\ ReviewsTold
       /\ DocumentsFit /\ RunsFit /\ ItemsFitJob /\ SpendAccounted

-----------------------------------------------------------------------------
LEMMA NoneIsNoJob == None \notin Jobs /\ {1, 2} \subseteq Jobs
BY RoutingAssumption DEF Jobs

-----------------------------------------------------------------------------
(* Cardinalities                                                           *)

LEMMA HoldersFinite == ASSUME NEW j PROVE IsFiniteSet(Holders(j)) /\ Cardinality(Holders(j)) \in Nat
<1>1. Holders(j) \subseteq Workers
  BY DEF Holders
<1> QED BY <1>1, WorkersAssumption, FS_Subset, FS_CardinalityType

-----------------------------------------------------------------------------
LEMMA InitInv == Init => Inv
<1> SUFFICES ASSUME Init PROVE Inv
  OBVIOUS
<1>1. TypeOK
  BY NoneIsNoJob, MaxAttemptsAssumption
     DEF Init, TypeOK, NewRow, Extracted, Row, JobStatus, PC, Kinds, Documents, ItemStatus
<1>2. RowsFit
  <2>1. \A j \in Jobs : row[j] \in {Extracted, NewRow} /\ (j \notin made => row[j] = NewRow)
    BY DEF Init
  <2>2. NewRow.attempts = 0 /\ Extracted.status \in Terminal
    BY DEF NewRow, Extracted, Terminal
  <2> QED BY <2>1, <2>2, MaxAttemptsAssumption DEF RowsFit
<1>6. HandsFit /\ RunsFit
  BY DEF Init, HandsFit, RunsFit, Free
<1>3. BatchesFresh /\ ReviewsTold /\ ItemsFitJob
  BY DEF Init, BatchesFresh, ReviewsTold, ResolutionAudited, ItemsFitJob, Present, Resolved
<1>4. DocumentsFit
  <2>1. \A j \in Jobs : kind[j] = "extraction" /\ subject[j] \in docs
    BY DEF Init, Documents
  <2>2. \A b \in Batch : ~ Present(b)
    BY DEF Init, Present, Resolved
  <2>3. OwnersPresent
    BY <2>1, <2>2, NoneIsNoJob DEF Init, OwnersPresent, Anchor
  <2> QED BY <2>1, <2>3 DEF Init, DocumentsFit, Documents
<1>5. SpendAccounted
  <2>1. \A j \in Jobs : Holders(j) = {}
    BY DEF Init, Holders, Holding
  <2> QED BY <2>1, FS_EmptySet DEF Init, SpendAccounted, Holders
<1> QED BY <1>1, <1>2, <1>3, <1>4, <1>5, <1>6 DEF Inv

-----------------------------------------------------------------------------
(* Requests                                                                *)

LEMMA RequestInv ==
  ASSUME Inv, CheckReport \/ CreateFails \/ \E d \in Documents : CheckExtraction(d)
  PROVE  Inv'
<1>1. /\ UNCHANGED <<docs, jobVars, items, workerVars, reviewVars>>
      /\ request' \in (Kinds \X Documents) \cup {None}
      /\ request' # None /\ request'[1] = "report" => request'[2] = "amended"
  BY DEF CheckReport, CreateFails, CheckExtraction, Kinds, Documents
<1>2. TypeOK'
  BY <1>1 DEF Inv, TypeOK, jobVars, workerVars, reviewVars
<1>3. RowsFit' /\ HandsFit' /\ BatchesFresh' /\ ReviewsTold' /\ RunsFit'
  BY <1>1 DEF Inv, jobVars, workerVars, reviewVars, RowsFit, HandsFit, BatchesFresh, ReviewsTold,
              ResolutionAudited, RunsFit
<1>4. DocumentsFit'
  BY <1>1 DEF Inv, jobVars, DocumentsFit, OwnersPresent, Anchor, Present
<1>5. ItemsFitJob' /\ SpendAccounted'
  BY <1>1 DEF Inv, jobVars, workerVars, ItemsFitJob, Present, SpendAccounted
<1> QED BY <1>2, <1>3, <1>4, <1>5 DEF Inv

LEMMA CreateInv == ASSUME Inv, NEW j \in Jobs, Create(j) PROVE Inv'
<1>1. /\ request \in Kinds \X Documents /\ request[2] \in docs
      /\ request[1] = "report" => request[2] = "amended" /\ "base" \in docs
      /\ j \notin made /\ made' = made \cup {j} /\ table' = table \cup {j}
      /\ kind' = [kind EXCEPT ![j] = request[1]]
      /\ subject' = [subject EXCEPT ![j] = request[2]]
      /\ request' = None
      /\ UNCHANGED <<docs, row, items, workerVars, reviewVars>>
  BY DEF Create, Inv, TypeOK, DocumentsFit
<1>2. TypeOK'
  BY <1>1 DEF Inv, TypeOK, workerVars, reviewVars
<1>3. RowsFit' /\ HandsFit' /\ BatchesFresh' /\ ReviewsTold' /\ RunsFit'
  BY <1>1 DEF Inv, workerVars, reviewVars, RowsFit, HandsFit, BatchesFresh, ReviewsTold,
              ResolutionAudited, RunsFit
<1>4. ASSUME NEW b \in Batch, Present(b) PROVE b[1] # j
  BY <1>1, <1>4 DEF Inv, RowsFit, BatchesFresh, Present, Batch, Resolved
<1>5. kind'[j] = request[1] /\ subject'[j] = request[2]
      /\ \A i \in Jobs \ {j} : kind'[i] = kind[i] /\ subject'[i] = subject[i]
  BY <1>1 DEF Inv, TypeOK
<1>6. DocumentsFit'
  <2>1. \A i \in Jobs : kind'[i] = "report" => subject'[i] = "amended"
    BY <1>1, <1>5 DEF Inv, DocumentsFit
  <2>2. Anchor(j)' \in docs
    BY <1>1, <1>5 DEF Anchor
  <2>3. \A i \in Jobs \ {j} : Anchor(i)' = Anchor(i)
    BY <1>5 DEF Anchor
  <2>4. OwnersPresent'
    <3>1. ASSUME NEW i \in table' PROVE {subject'[i], Anchor(i)'} \subseteq docs'
      BY <1>1, <1>5, <2>2, <2>3 DEF Inv, TypeOK, DocumentsFit, OwnersPresent
    <3>2. ASSUME NEW b \in Batch, Present(b)' PROVE Anchor(b[1])' \in docs'
      <4>1. Present(b) /\ b[1] \in Jobs
        BY <1>1, <3>2 DEF Present, Batch
      <4> QED BY <1>1, <1>4, <2>3, <4>1 DEF Inv, DocumentsFit, OwnersPresent
    <3> QED BY <3>1, <3>2 DEF OwnersPresent
  <2> QED BY <1>1, <2>1, <2>4 DEF Inv, DocumentsFit
<1>7. ItemsFitJob'
  BY <1>1, <1>4 DEF Inv, ItemsFitJob, Present
<1>8. SpendAccounted'
  BY <1>1 DEF Inv, workerVars, SpendAccounted
<1> QED BY <1>2, <1>3, <1>6, <1>7, <1>8 DEF Inv

LEMMA DeleteInv == ASSUME Inv, NEW d \in Documents, Delete(d) PROVE Inv'
<1> DEFINE swept == {j \in table : subject[j] = d}
<1>1. /\ d \in docs /\ d = "base" => "amended" \notin docs
      /\ table' = table \ swept /\ docs' = docs \ {d}
      /\ items' = [b \in Batch |->
                     IF Present(b) /\ (Anchor(b[1]) = d \/ (b[1] \in swept /\ kind[b[1]] = "report"))
                     THEN "deleted" ELSE items[b]]
      /\ UNCHANGED <<made, kind, subject, row, request, workerVars, reviewVars>>
  BY DEF Delete
<1>2. TypeOK'
  BY <1>1 DEF Inv, TypeOK, workerVars, reviewVars, ItemStatus
<1>3. \A b \in Batch : /\ items'[b] \in {items[b], "deleted"}
                       /\ items[b] = "none" => items'[b] = "none"
                       /\ Present(b)' => Present(b) /\ Anchor(b[1]) # d
                       /\ items'[b] # "none" => items[b] # "none"
  BY <1>1 DEF Present, Resolved
<1>4. RowsFit' /\ HandsFit' /\ RunsFit'
  BY <1>1 DEF Inv, workerVars, RowsFit, HandsFit, RunsFit
<1>5. BatchesFresh'
  <2>1. \A w \in Workers : job[w] # None => <<job[w], attempt[w]>> \in Batch
    BY DEF Inv, TypeOK, HandsFit, Batch, Row
  <2> QED BY <1>1, <1>3, <2>1 DEF Inv, workerVars, BatchesFresh
<1>6. ReviewsTold'
  BY <1>1, <1>3 DEF Inv, TypeOK, reviewVars, ReviewsTold, ResolutionAudited
<1>7. DocumentsFit'
  <2>1. \A j \in Jobs : Anchor(j)' = Anchor(j)
    BY <1>1 DEF Anchor
  <2>2. ASSUME NEW j \in table' PROVE {subject'[j], Anchor(j)'} \subseteq docs'
    <3>1. j \in table /\ j \in Jobs /\ subject[j] # d /\ {subject[j], Anchor(j)} \subseteq docs
      BY <1>1 DEF Inv, TypeOK, DocumentsFit, OwnersPresent
    <3>2. Anchor(j) # d
      <4>1. CASE kind[j] = "report"
        BY <1>1, <3>1, <4>1 DEF Inv, DocumentsFit, Anchor
      <4>2. CASE kind[j] # "report"
        BY <3>1, <4>2 DEF Anchor
      <4> QED BY <4>1, <4>2
    <3> QED BY <1>1, <2>1, <3>1, <3>2
  <2>3. ASSUME NEW b \in Batch, Present(b)' PROVE Anchor(b[1])' \in docs'
    BY <1>1, <1>3, <2>1, <2>3 DEF Inv, DocumentsFit, OwnersPresent, Batch
  <2>4. OwnersPresent'
    BY <2>2, <2>3 DEF OwnersPresent
  <2> QED BY <1>1, <2>4 DEF Inv, DocumentsFit, Documents
<1>8. ItemsFitJob'
  BY <1>1, <1>3 DEF Inv, ItemsFitJob
<1>9. SpendAccounted'
  BY <1>1 DEF Inv, workerVars, SpendAccounted
<1> QED BY <1>2, <1>4, <1>5, <1>6, <1>7, <1>8, <1>9 DEF Inv

-----------------------------------------------------------------------------
(* Workers                                                                 *)

\* What holds of documents, reviews and items as long as nothing of theirs moves.
LEMMA NothingElse ==
  ASSUME Inv, UNCHANGED <<docs, made, table, kind, subject, request, items, reviewVars>>
  PROVE  /\ DocumentsFit' /\ ReviewsTold'
         /\ docs' \subseteq Documents /\ made' \subseteq Jobs /\ table' \subseteq made'
         /\ kind' \in [Jobs -> Kinds] /\ subject' \in [Jobs -> Documents]
         /\ request' \in (Kinds \X Documents) \cup {None} /\ items' \in [Batch -> ItemStatus]
         /\ reading' \in [Reviewers -> Batch \cup {None}]
         /\ filing' \in [Reviewers -> (Batch \X Resolved) \cup {None}]
         /\ audits' \in [Batch -> SUBSET Resolved]
         /\ \A b \in Batch : Present(b)' = Present(b)
BY DEF Inv, TypeOK, reviewVars, DocumentsFit, OwnersPresent, Anchor, Present, ReviewsTold,
       ResolutionAudited

LEMMA LetGoFacts ==
  ASSUME Inv, NEW w \in Workers, NEW to \in Free, LetGo(w, to)
  PROVE  /\ pc' \in [Workers -> PC] /\ job' \in [Workers -> Jobs \cup {None}]
         /\ copy' \in [Workers -> Row] /\ attempt' \in [Workers -> 0..(MaxAttempts + 1)]
         /\ step' \in [Workers -> Steps \cup {"none"}] /\ low' \in [Workers -> BOOLEAN]
         /\ pc'[w] \in Free /\ job'[w] = None
         /\ \A v \in Workers \ {w} : /\ pc'[v] = pc[v] /\ job'[v] = job[v]
                                     /\ copy'[v] = copy[v] /\ attempt'[v] = attempt[v]
BY MaxAttemptsAssumption
   DEF Inv, TypeOK, LetGo, Move, Free, PC, Holding, NewRow, Row, JobStatus

\* Who takes no usage leaves the sums alone.
LEMMA SameHolders ==
  ASSUME Inv, UNCHANGED owed, \A j \in Jobs : Holders(j)' = Holders(j)
  PROVE  owed' \in [Jobs -> Nat] /\ SpendAccounted'
BY DEF Inv, TypeOK, SpendAccounted, Holders

\* A usage comes into a worker's hands, or out of them.
LEMMA OneMoreHolder ==
  ASSUME Inv, NEW w \in Workers, job[w] \in Jobs, pc[w] \notin Holding, Owe(w, 1),
         job' = job, pc'[w] \in Holding, \A v \in Workers \ {w} : pc'[v] = pc[v]
  PROVE  owed' \in [Jobs -> Nat] /\ SpendAccounted'
<1>1. owed' = [owed EXCEPT ![job[w]] = owed[job[w]] + 1]
  BY DEF Owe
<1>2. ASSUME NEW j \in Jobs PROVE owed'[j] = Cardinality(Holders(j)') /\ owed'[j] \in Nat
  <2>1. owed[j] = Cardinality(Holders(j)) /\ owed[j] \in Nat
    BY DEF Inv, TypeOK, SpendAccounted, Holders
  <2>2. CASE j = job[w]
    <3>1. Holders(j)' = Holders(j) \cup {w} /\ w \notin Holders(j)
      BY <2>2 DEF Holders
    <3>2. Cardinality(Holders(j) \cup {w}) = Cardinality(Holders(j)) + 1
      BY <3>1, HoldersFinite, FS_AddElement
    <3> QED BY <1>1, <2>1, <2>2, <3>1, <3>2 DEF Inv, TypeOK
  <2>3. CASE j # job[w]
    <3>1. Holders(j)' = Holders(j)
      BY <2>3 DEF Holders
    <3> QED BY <1>1, <2>1, <2>3, <3>1 DEF Inv, TypeOK
  <2> QED BY <2>2, <2>3
<1> QED BY <1>1, <1>2 DEF Inv, TypeOK, SpendAccounted, Holders

LEMMA OneHolderLess ==
  ASSUME Inv, NEW w \in Workers, job[w] \in Jobs, pc[w] \in Holding, Owe(w, -1),
         job'[w] # job[w] \/ pc'[w] \notin Holding, job'[w] \in {job[w], None},
         \A v \in Workers \ {w} : pc'[v] = pc[v] /\ job'[v] = job[v]
  PROVE  owed' \in [Jobs -> Nat] /\ SpendAccounted'
<1>1. owed' = [owed EXCEPT ![job[w]] = owed[job[w]] + (-1)]
  BY DEF Owe
<1>2. ASSUME NEW j \in Jobs PROVE owed'[j] = Cardinality(Holders(j)') /\ owed'[j] \in Nat
  <2>1. owed[j] = Cardinality(Holders(j)) /\ owed[j] \in Nat
    BY DEF Inv, TypeOK, SpendAccounted, Holders
  <2>2. CASE j = job[w]
    <3>1. Holders(j)' = Holders(j) \ {w} /\ w \in Holders(j)
      BY <2>2, NoneIsNoJob DEF Holders
    <3>2. Cardinality(Holders(j) \ {w}) = Cardinality(Holders(j)) - 1
      BY <3>1, HoldersFinite, FS_RemoveElement
    <3>3. Cardinality(Holders(j)') \in Nat
      BY <3>1, HoldersFinite, FS_RemoveElement, FS_CardinalityType
    <3> QED BY <1>1, <2>1, <2>2, <3>1, <3>2, <3>3 DEF Inv, TypeOK
  <2>3. CASE j # job[w]
    <3>1. Holders(j)' = Holders(j)
      BY <2>3, NoneIsNoJob DEF Holders
    <3> QED BY <1>1, <2>1, <2>3, <3>1 DEF Inv, TypeOK
  <2> QED BY <2>2, <2>3
<1> QED BY <1>1, <1>2 DEF Inv, TypeOK, SpendAccounted, Holders

\* Whoever lets go of its job leaves everyone else as they are.
LEMMA LetGoInv ==
  ASSUME Inv, NEW w \in Workers, NEW to \in Free, LetGo(w, to),
         UNCHANGED <<docs, jobVars, request, items, reviewVars>>,
         owed' \in [Jobs -> Nat], SpendAccounted'
  PROVE  Inv'
<1>1. TypeOK'
  BY LetGoFacts, NothingElse DEF Inv, TypeOK, jobVars
<1>2. RowsFit'
  BY DEF Inv, RowsFit, jobVars
<1>3. HandsFit'
  BY LetGoFacts, NoneIsNoJob DEF Inv, HandsFit, jobVars
<1>4. BatchesFresh'
  BY LetGoFacts DEF Inv, BatchesFresh, jobVars
<1>5. RunsFit'
  BY LetGoFacts DEF Inv, RunsFit, jobVars
<1>6. ItemsFitJob'
  BY DEF Inv, ItemsFitJob, Present, jobVars
<1>7. ReviewsTold' /\ DocumentsFit'
  BY NothingElse DEF jobVars
<1> QED BY <1>1, <1>2, <1>3, <1>4, <1>5, <1>6, <1>7 DEF Inv

\* Nor does a worker between two steps of its run move anything but itself.
LEMMA AdvanceInv ==
  ASSUME Inv, NEW w \in Workers, pc[w] \in Working, NEW to \in Working, Move(w, to),
         UNCHANGED <<docs, jobVars, request, items, job, attempt, reviewVars>>,
         copy' \in [Workers -> Row], \A v \in Workers \ {w} : copy'[v] = copy[v],
         copy'[w].status \in Terminal => row[job[w]].status \in Terminal,
         step' \in [Workers -> Steps \cup {"none"}], low' \in [Workers -> BOOLEAN],
         owed' \in [Jobs -> Nat], SpendAccounted'
  PROVE  Inv'
<1>1. /\ pc' \in [Workers -> PC] /\ pc'[w] \in Working
      /\ \A v \in Workers \ {w} : pc'[v] = pc[v]
  BY DEF Inv, TypeOK, Move, Working, PC, Holding
<1>2. TypeOK'
  BY <1>1, NothingElse DEF Inv, TypeOK, jobVars
<1>3. RowsFit' /\ BatchesFresh'
  BY DEF Inv, RowsFit, BatchesFresh, jobVars
<1>4. HandsFit'
  BY <1>1 DEF Inv, HandsFit, jobVars, Working, Free
<1>5. RunsFit'
  <2>1. ASSUME NEW v \in Workers \ {w}, job'[v] # None
        PROVE  /\ pc'[v] \in Working /\ row'[job'[v]].attempts = 1 => row'[job'[v]].status = "running"
               /\ pc'[v] # "claimed" /\ copy'[v].status \in Terminal => row'[job'[v]].status \in Terminal
               /\ pc'[v] = "routing" =>
                    /\ row'[job'[v]].status \in Terminal
                    /\ row'[job'[v]].attempts = 1 => row'[job'[v]].status = "completed"
    BY <1>1, <2>1 DEF Inv, RunsFit, jobVars
  <2>2. /\ pc'[w] \in Working /\ row'[job'[w]].attempts = 1 => row'[job'[w]].status = "running"
        /\ copy'[w].status \in Terminal => row'[job'[w]].status \in Terminal
        /\ pc'[w] # "routing"
    BY <1>1 DEF Inv, RunsFit, HandsFit, Working, Free, jobVars
  <2> QED BY <2>1, <2>2 DEF RunsFit
<1>6. ItemsFitJob'
  BY DEF Inv, ItemsFitJob, Present, jobVars
<1>7. ReviewsTold' /\ DocumentsFit'
  BY NothingElse DEF jobVars
<1> QED BY <1>2, <1>3, <1>4, <1>5, <1>6, <1>7 DEF Inv

LEMMA ClaimInv == ASSUME Inv, NEW w \in Workers, NEW k \in Kinds, Claim(w, k) PROVE Inv'
<1>1. PICK j \in table : /\ Claimable(row[j])
                         /\ row' = [row EXCEPT ![j] = Claimed(row[j])]
                         /\ job' = [job EXCEPT ![w] = j]
                         /\ attempt' = [attempt EXCEPT ![w] = row[j].attempts + 1]
  BY DEF Claim, Oldest
<1>2. /\ pc[w] = "idle" /\ pc' = [pc EXCEPT ![w] = "claimed"]
      /\ UNCHANGED <<docs, made, table, kind, subject, request, items, copy, step, low, owed, reviewVars>>
  BY DEF Claim, Move
<1>3. /\ j \in Jobs /\ j \in made /\ row[j] \in Row /\ row[j].status \notin Terminal
      /\ row[j].attempts \in 0..MaxAttempts /\ job[w] = None
  BY <1>1, <1>2, MaxAttemptsAssumption
     DEF Inv, TypeOK, RowsFit, HandsFit, Free, Claimable, Terminal, Row, JobStatus
<1>4. /\ row'[j] \in Row /\ row'[j].attempts = row[j].attempts + 1
      /\ row'[j].attempts <= MaxAttempts \/ row'[j].status \in Terminal
      /\ row[j].attempts = 0 => row'[j].status = "running"
      /\ \A i \in Jobs \ {j} : row'[i] = row[i]
      /\ row' \in [Jobs -> Row]
  BY <1>1, <1>3, ClaimedFacts, MaxAttemptsAssumption DEF Inv, TypeOK, Terminal
<1>5. /\ pc'[w] = "claimed" /\ job'[w] = j /\ attempt'[w] = row[j].attempts + 1
      /\ \A v \in Workers \ {w} : pc'[v] = pc[v] /\ job'[v] = job[v] /\ attempt'[v] = attempt[v]
  BY <1>1, <1>2 DEF Inv, TypeOK
<1>6. TypeOK'
  <2>1. pc' \in [Workers -> PC] /\ job' \in [Workers -> Jobs \cup {None}]
    BY <1>1, <1>2, <1>3 DEF Inv, TypeOK, PC
  <2>2. attempt' \in [Workers -> 0..(MaxAttempts + 1)]
    BY <1>1, <1>3, MaxAttemptsAssumption DEF Inv, TypeOK
  <2> QED BY <1>2, <1>4, <2>1, <2>2, NothingElse DEF Inv, TypeOK
<1>7. RowsFit'
  BY <1>2, <1>3, <1>4 DEF Inv, RowsFit
<1>8. \A v \in Workers \ {w} : job[v] = j => attempt[v] \in 1..row[j].attempts
  BY <1>3, NoneIsNoJob DEF Inv, HandsFit
<1>9. HandsFit'
  <2>1. ASSUME NEW v \in Workers
        PROVE  /\ job'[v] = None <=> pc'[v] \in Free
               /\ job'[v] # None => job'[v] \in made' /\ attempt'[v] \in 1..row'[job'[v]].attempts
    <3>1. CASE v = w
      BY <1>2, <1>3, <1>4, <1>5, <3>1, NoneIsNoJob DEF Free
    <3>2. CASE v # w /\ job[v] = j
      BY <1>2, <1>3, <1>4, <1>5, <1>8, <3>2 DEF Inv, HandsFit
    <3>3. CASE v # w /\ job[v] # j
      BY <1>2, <1>3, <1>4, <1>5, <3>3 DEF Inv, TypeOK, HandsFit
    <3> QED BY <3>1, <3>2, <3>3
  <2>2. ASSUME NEW u \in Workers, NEW v \in Workers, job'[u] # None, job'[v] = job'[u],
               attempt'[v] = attempt'[u]
        PROVE  v = u
    BY <1>3, <1>5, <1>8, <2>2 DEF Inv, HandsFit
  <2> QED BY <2>1, <2>2 DEF HandsFit
<1>10. BatchesFresh'
  <2>1. ASSUME NEW b \in Batch, items'[b] # "none" PROVE b[2] <= row'[b[1]].attempts
    <3>1. b[1] \in Jobs /\ b[2] \in Nat /\ b[2] <= row[b[1]].attempts
      BY <1>2, <2>1 DEF Inv, BatchesFresh, Batch
    <3>2. CASE b[1] = j
      BY <1>3, <1>4, <3>1, <3>2
    <3>3. CASE b[1] # j
      BY <1>4, <3>1, <3>3
    <3> QED BY <3>2, <3>3
  <2>2. items[<<j, row[j].attempts + 1>>] = "none"
    <3>1. <<j, row[j].attempts + 1>> \in Batch
      BY <1>3, MaxAttemptsAssumption DEF Batch
    <3>2. ~ (row[j].attempts + 1 <= row[j].attempts)
      BY <1>3
    <3> QED BY <3>1, <3>2 DEF Inv, BatchesFresh
  <2> QED BY <1>2, <1>5, <2>1, <2>2 DEF Inv, BatchesFresh
<1>11. RunsFit'
  <2>1. ASSUME NEW v \in Workers, job'[v] # None
        PROVE  /\ pc'[v] \in Working /\ row'[job'[v]].attempts = 1 => row'[job'[v]].status = "running"
               /\ pc'[v] # "claimed" /\ copy'[v].status \in Terminal => row'[job'[v]].status \in Terminal
               /\ pc'[v] = "routing" =>
                    /\ row'[job'[v]].status \in Terminal
                    /\ row'[job'[v]].attempts = 1 => row'[job'[v]].status = "completed"
    <3>1. CASE v = w
      BY <1>3, <1>4, <1>5, <3>1
    <3>2. CASE v # w /\ job[v] = j
      <4>1. row'[j].attempts # 1
        BY <1>3, <1>4, <1>8, <3>2
      <4>2. pc[v] # "routing" /\ (pc[v] # "claimed" => copy[v].status \notin Terminal)
        BY <1>3, <3>2, NoneIsNoJob DEF Inv, RunsFit
      <4> QED BY <1>2, <1>5, <3>2, <4>1, <4>2
    <3>3. CASE v # w /\ job[v] # j
      <4>1. job[v] \in Jobs /\ job[v] # None
        BY <1>5, <2>1, <3>3 DEF Inv, TypeOK
      <4> QED BY <1>2, <1>4, <1>5, <3>3, <4>1 DEF Inv, RunsFit
    <3> QED BY <3>1, <3>2, <3>3
  <2> QED BY <2>1 DEF RunsFit
<1>12. ItemsFitJob'
  <2>1. \A b \in Batch : Present(b) /\ b[1] \in table => b[1] # j
    BY <1>3 DEF Inv, ItemsFitJob
  <2> QED BY <1>2, <1>4, <2>1 DEF Inv, ItemsFitJob, Present, Batch
<1>13. SpendAccounted'
  <2>1. \A i \in Jobs : Holders(i)' = Holders(i)
    BY <1>2, <1>5 DEF Holders, Holding
  <2> QED BY <1>2, <2>1, SameHolders
<1>14. ReviewsTold' /\ DocumentsFit'
  BY <1>2, NothingElse
<1> QED BY <1>6, <1>7, <1>9, <1>10, <1>11, <1>12, <1>13, <1>14 DEF Inv

LEMMA AtWork ==
  ASSUME Inv, NEW w \in Workers, pc[w] \notin Free
  PROVE  /\ job[w] \in Jobs /\ job[w] # None /\ job[w] \in made
         /\ row[job[w]] \in Row /\ copy[w] \in Row
         /\ attempt[w] \in 1..row[job[w]].attempts
         /\ <<job[w], attempt[w]>> \in Batch
BY NoneIsNoJob DEF Inv, TypeOK, HandsFit, Batch, Row

LEMMA TakeForCappedInv == ASSUME Inv, NEW w \in Workers, TakeForCapped(w) PROVE Inv'
<1>1. /\ pc[w] = "claimed" /\ LetGo(w, "idle")
      /\ UNCHANGED <<docs, jobVars, request, items, owed, reviewVars>>
  BY DEF TakeForCapped
<1>2. \A j \in Jobs : Holders(j)' = Holders(j)
  BY <1>1, LetGoFacts, NoneIsNoJob DEF Holders, Holding, Free
<1> QED BY <1>1, <1>2, SameHolders, LetGoInv DEF Free

LEMMA StartHandlerInv == ASSUME Inv, NEW w \in Workers, StartHandler(w) PROVE Inv'
<1>1. /\ pc[w] = "claimed" /\ Move(w, "handed")
      /\ copy' = [copy EXCEPT ![w] = row[job[w]]]
      /\ step' = [step EXCEPT ![w] = IF kind[job[w]] = "report" THEN "explain" ELSE "extract"]
      /\ UNCHANGED <<docs, jobVars, request, items, job, attempt, low, owed, reviewVars>>
  BY DEF StartHandler
<1>2. job[w] \in Jobs /\ row[job[w]] \in Row
  BY <1>1, AtWork DEF Free
<1>3. /\ copy' \in [Workers -> Row] /\ copy'[w] = row[job[w]]
      /\ \A v \in Workers \ {w} : copy'[v] = copy[v]
      /\ step' \in [Workers -> Steps \cup {"none"}] /\ low' \in [Workers -> BOOLEAN]
  BY <1>1, <1>2 DEF Inv, TypeOK, Steps
<1>4. \A j \in Jobs : Holders(j)' = Holders(j)
  BY <1>1 DEF Inv, TypeOK, Move, Holders, Holding
<1> QED BY <1>1, <1>3, <1>4, SameHolders, AdvanceInv DEF Working

\* An answer of the model, and what the run does with it.
LEMMA CallInv ==
  ASSUME Inv, NEW w \in Workers, Return(w) \/ Refuse(w) \/ NothingChanged(w)
  PROVE  Inv'
<1>1. /\ pc[w] = "handed"
      /\ UNCHANGED <<docs, jobVars, request, items, job, copy, attempt, step, low, reviewVars>>
      /\ \/ Move(w, "paid") /\ Owe(w, 1)
         \/ Move(w, "refused") /\ Owe(w, 1)
         \/ Move(w, "answered") /\ UNCHANGED owed
  BY DEF Return, Refuse, NothingChanged
<1>2. PICK to \in {"paid", "refused", "answered"} :
        Move(w, to) /\ (to # "answered" => Owe(w, 1)) /\ (to = "answered" => UNCHANGED owed)
  BY <1>1
<1>3. job[w] \in Jobs /\ job[w] # None
  BY <1>1, AtWork DEF Free
<1>4. pc'[w] = to /\ \A v \in Workers \ {w} : pc'[v] = pc[v]
  BY <1>2 DEF Inv, TypeOK, Move
<1>5. owed' \in [Jobs -> Nat] /\ SpendAccounted'
  <2>1. CASE to = "answered"
    <3>1. \A j \in Jobs : Holders(j)' = Holders(j)
      BY <1>1, <1>4, <2>1 DEF Holders, Holding
    <3> QED BY <1>2, <2>1, <3>1, SameHolders
  <2>2. CASE to # "answered"
    BY <1>1, <1>2, <1>3, <1>4, <2>2, OneMoreHolder DEF Holding
  <2> QED BY <2>1, <2>2
<1>6. copy[w].status \in Terminal => row[job[w]].status \in Terminal
  BY <1>1, <1>3 DEF Inv, RunsFit
<1>7. to \in Working /\ pc[w] \in Working
  BY <1>1, <1>2 DEF Working
<1>8. /\ copy' \in [Workers -> Row] /\ step' \in [Workers -> Steps \cup {"none"}]
      /\ low' \in [Workers -> BOOLEAN]
  BY <1>1 DEF Inv, TypeOK
<1> QED BY <1>1, <1>2, <1>5, <1>6, <1>7, <1>8, AdvanceInv

LEMMA RecordInv ==
  ASSUME Inv, NEW w \in Workers, NEW to \in Steps \cup {"answered", "failing"}, Record(w, to)
  PROVE  Inv'
<1>1. /\ pc[w] = "paid" /\ Owe(w, -1)
      /\ UNCHANGED <<docs, jobVars, request, items, job, copy, attempt, reviewVars>>
  BY DEF Record
<1>2. PICK found \in BOOLEAN : low' = [low EXCEPT ![w] = low[w] \/ found]
  BY DEF Record
<1>3. PICK next \in {"handed", "answered", "failing"} :
        Move(w, next) /\ step' \in [Workers -> Steps \cup {"none"}]
  <2>1. CASE to \in Steps
    BY <2>1 DEF Record, Inv, TypeOK
  <2>2. CASE to \notin Steps
    BY <2>2 DEF Record, Inv, TypeOK
  <2> QED BY <2>1, <2>2
<1>4. job[w] \in Jobs /\ job[w] # None
  BY <1>1, AtWork DEF Free
<1>5. pc'[w] = next /\ \A v \in Workers \ {w} : pc'[v] = pc[v]
  BY <1>3 DEF Inv, TypeOK, Move
<1>6. owed' \in [Jobs -> Nat] /\ SpendAccounted'
  <2>1. pc[w] \in Holding /\ pc'[w] \notin Holding
    BY <1>1, <1>3, <1>5 DEF Holding
  <2> QED BY <1>1, <1>4, <1>5, <2>1, OneHolderLess
<1>7. low' \in [Workers -> BOOLEAN]
  BY <1>2 DEF Inv, TypeOK
<1>8. copy[w].status \in Terminal => row[job[w]].status \in Terminal
  BY <1>1, <1>4 DEF Inv, RunsFit
<1>9. next \in Working /\ pc[w] \in Working
  BY <1>1, <1>3 DEF Working
<1>10. copy' \in [Workers -> Row]
  BY <1>1 DEF Inv, TypeOK
<1> QED BY <1>1, <1>3, <1>6, <1>7, <1>8, <1>9, <1>10, AdvanceInv

LEMMA AccountRejectedInv == ASSUME Inv, NEW w \in Workers, AccountRejected(w) PROVE Inv'
<1>1. /\ pc[w] = "owing" /\ Owe(w, -1) /\ LetGo(w, "idle")
      /\ UNCHANGED <<docs, jobVars, request, items, reviewVars>>
  BY DEF AccountRejected
<1>2. job[w] \in Jobs /\ job[w] # None
  BY <1>1, AtWork DEF Free
<1>3. owed' \in [Jobs -> Nat] /\ SpendAccounted'
  BY <1>1, <1>2, LetGoFacts, OneHolderLess DEF Holding, Free
<1> QED BY <1>1, <1>3, LetGoInv DEF Free

\* A worker that raises or dies takes the usage with it that it held.
LEMMA GoneInv == ASSUME Inv, NEW w \in Workers, Raise(w) \/ Crash(w) PROVE Inv'
<1>1. PICK to \in {"raised", "down"} :
        /\ LetGo(w, to) /\ Owe(w, IF pc[w] \in Holding THEN -1 ELSE 0)
        /\ UNCHANGED <<docs, jobVars, request, items, reviewVars>>
  BY DEF Raise, Crash
<1>2. pc[w] \notin Free
  BY DEF Raise, Crash, Free
<1>3. job[w] \in Jobs /\ job[w] # None
  BY <1>2, AtWork
<1>4. owed' \in [Jobs -> Nat] /\ SpendAccounted'
  <2>1. CASE pc[w] \in Holding
    BY <1>1, <1>3, <2>1, LetGoFacts, OneHolderLess DEF Free
  <2>2. CASE pc[w] \notin Holding
    <3>1. owed' = [owed EXCEPT ![job[w]] = owed[job[w]] + 0]
      BY <1>1, <2>2 DEF Owe
    <3>2. owed' = owed
      BY <1>3, <3>1 DEF Inv, TypeOK
    <3>3. \A j \in Jobs : Holders(j)' = Holders(j)
      BY <1>1, <2>2, LetGoFacts, NoneIsNoJob DEF Holders, Free
    <3> QED BY <3>2, <3>3, SameHolders
  <2> QED BY <2>1, <2>2
<1> QED BY <1>1, <1>4, LetGoInv DEF Free

\* mark_completed and mark_failed, and where the worker goes from there.
LEMMA MarkInv ==
  ASSUME Inv, NEW w \in Workers, pc[w] \in Working \ {"claimed"}, job[w] \in table,
         NEW m \in {MarkCompleted(copy[w]), MarkFailed(copy[w])},
         row' = [row EXCEPT ![job[w]] = Flush(row[job[w]], copy[w], m)],
         \/ LetGo(w, "idle")
         \/ Move(w, "owing") /\ UNCHANGED <<job, copy, attempt, step, low>>
         \/ /\ Move(w, "routing") /\ UNCHANGED <<job, copy, attempt, step, low>>
            /\ m.status = "completed",
         UNCHANGED <<docs, made, table, kind, subject, request, items, owed, reviewVars>>,
         pc[w] \in Holding <=> pc'[w] = "owing"
  PROVE  Inv'
<1> DEFINE j == job[w]
<1>1. /\ j \in Jobs /\ j # None /\ j \in made /\ row[j] \in Row /\ copy[w] \in Row
      /\ attempt[w] \in 1..row[j].attempts
  BY AtWork DEF Working, Free
<1>2. copy[w].status \in Terminal => row[j].status \in Terminal
  BY <1>1 DEF Inv, RunsFit
<1>3. row[j].attempts = 1 => row[j].status = "running" /\ copy[w].status \notin Terminal
  BY <1>1, <1>2 DEF Inv, RunsFit, Terminal
<1>4. /\ row'[j] \in Row /\ row'[j].attempts = row[j].attempts
      /\ row'[j].status \in Terminal
      /\ row[j].attempts = 1 => row'[j].status = m.status
      /\ \A i \in Jobs \ {j} : row'[i] = row[i]
      /\ row' \in [Jobs -> Row]
  <2>1. row'[j] = Flush(row[j], copy[w], m) /\ \A i \in Jobs \ {j} : row'[i] = row[i]
    BY <1>1 DEF Inv, TypeOK
  <2>2. /\ Flush(row[j], copy[w], m) \in Row
        /\ Flush(row[j], copy[w], m).attempts = row[j].attempts
        /\ row[j].status \in Terminal => Flush(row[j], copy[w], m).status \in Terminal
        /\ copy[w].status \notin Terminal => Flush(row[j], copy[w], m).status = m.status
        /\ m.status \in Terminal
    BY <1>1, MarkTypes, MarkFacts
  <2>3. row' \in [Jobs -> Row]
    BY <1>1, <2>2 DEF Inv, TypeOK
  <2> QED BY <1>2, <1>3, <2>1, <2>2, <2>3
<1>5. /\ pc' \in [Workers -> PC] /\ job' \in [Workers -> Jobs \cup {None}]
      /\ copy' \in [Workers -> Row] /\ attempt' \in [Workers -> 0..(MaxAttempts + 1)]
      /\ step' \in [Workers -> Steps \cup {"none"}] /\ low' \in [Workers -> BOOLEAN]
      /\ \A v \in Workers \ {w} : /\ pc'[v] = pc[v] /\ job'[v] = job[v]
                                  /\ copy'[v] = copy[v] /\ attempt'[v] = attempt[v]
      /\ \/ pc'[w] \in Free /\ job'[w] = None
         \/ /\ pc'[w] \in {"owing", "routing"} /\ job'[w] = j
            /\ copy'[w] = copy[w] /\ attempt'[w] = attempt[w]
            /\ pc'[w] = "routing" => m.status = "completed"
  <2>1. CASE LetGo(w, "idle")
    BY <2>1, LetGoFacts DEF Free
  <2>2. CASE Move(w, "owing") /\ UNCHANGED <<job, copy, attempt, step, low>>
    BY <2>2 DEF Inv, TypeOK, Move, PC, Holding
  <2>3. CASE /\ Move(w, "routing") /\ UNCHANGED <<job, copy, attempt, step, low>>
             /\ m.status = "completed"
    BY <2>3 DEF Inv, TypeOK, Move, PC, Holding
  <2> QED BY <2>1, <2>2, <2>3
<1>6. TypeOK'
  BY <1>4, <1>5, NothingElse DEF Inv, TypeOK
<1>7. RowsFit'
  BY <1>1, <1>4 DEF Inv, RowsFit
<1>8. \A i \in Jobs : row'[i].attempts = row[i].attempts
                     /\ (row[i].status \in Terminal => row'[i].status \in Terminal)
  BY <1>4
<1>9. HandsFit'
  <2>1. ASSUME NEW v \in Workers
        PROVE  /\ job'[v] = None <=> pc'[v] \in Free
               /\ job'[v] # None => job'[v] \in made' /\ attempt'[v] \in 1..row'[job'[v]].attempts
    <3>1. CASE v = w
      BY <1>1, <1>4, <1>5, <3>1 DEF Free
    <3>2. CASE v # w
      BY <1>5, <1>8, <3>2 DEF Inv, TypeOK, HandsFit
    <3> QED BY <3>1, <3>2
  <2>2. ASSUME NEW u \in Workers, NEW v \in Workers, job'[u] # None, job'[v] = job'[u],
               attempt'[v] = attempt'[u]
        PROVE  v = u
    BY <1>1, <1>5, <2>2 DEF Inv, HandsFit
  <2> QED BY <2>1, <2>2 DEF HandsFit
<1>10. BatchesFresh'
  BY <1>1, <1>5, <1>8 DEF Inv, BatchesFresh, Batch
<1>11. ASSUME NEW v \in Workers \ {w}, job[v] = j PROVE row[j].attempts # 1
  <2>1. attempt[v] \in 1..row[j].attempts /\ attempt[v] # attempt[w]
    BY <1>1, <1>11 DEF Inv, HandsFit
  <2> QED BY <1>1, <2>1
<1>12. RunsFit'
  <2>1. ASSUME NEW v \in Workers, job'[v] # None
        PROVE  /\ pc'[v] \in Working /\ row'[job'[v]].attempts = 1 => row'[job'[v]].status = "running"
               /\ pc'[v] # "claimed" /\ copy'[v].status \in Terminal => row'[job'[v]].status \in Terminal
               /\ pc'[v] = "routing" =>
                    /\ row'[job'[v]].status \in Terminal
                    /\ row'[job'[v]].attempts = 1 => row'[job'[v]].status = "completed"
    <3>1. CASE v = w
      BY <1>4, <1>5, <2>1, <3>1 DEF Working
    <3>2. CASE v # w /\ job[v] = j
      BY <1>1, <1>4, <1>5, <1>11, <3>2
    <3>3. CASE v # w /\ job[v] # j
      <4>1. job[v] \in Jobs /\ job[v] # None
        BY <1>5, <2>1, <3>3 DEF Inv, TypeOK
      <4> QED BY <1>4, <1>5, <3>3, <4>1 DEF Inv, RunsFit
    <3> QED BY <3>1, <3>2, <3>3
  <2> QED BY <2>1 DEF RunsFit
<1>13. ItemsFitJob'
  <2>1. ASSUME NEW b \in Batch, Present(b), b[1] \in table
        PROVE  /\ row'[b[1]].status \in Terminal
               /\ row'[b[1]].attempts = 1 => row'[b[1]].status = "completed" /\ b[2] = 1
    <3>1. CASE b[1] # j
      BY <1>4, <2>1, <3>1 DEF Inv, ItemsFitJob, Batch
    <3>2. CASE b[1] = j
      <4>1. row[j].attempts # 1
        <5>1. SUFFICES ASSUME row[j].attempts = 1 PROVE FALSE
          OBVIOUS
        <5>2. b[2] \in 1..(MaxAttempts + 1) /\ b[2] <= 1 /\ attempt[w] = 1
          BY <1>1, <2>1, <3>2, <5>1 DEF Inv, BatchesFresh, Present, Resolved, Batch
        <5>3. b = <<j, attempt[w]>>
          BY <3>2, <5>2 DEF Batch
        <5> QED BY <1>1, <2>1, <5>3 DEF Inv, BatchesFresh, Present, Resolved
      <4> QED BY <1>4, <3>2, <4>1
    <3> QED BY <3>1, <3>2
  <2> QED BY <2>1 DEF ItemsFitJob, Present
<1>14. SpendAccounted'
  <2>1. pc'[w] \in Holding <=> pc[w] \in Holding
    BY <1>5 DEF Holding, Free
  <2>2. pc[w] \in Holding => job'[w] = j
    BY <1>5 DEF Free
  <2>3. \A i \in Jobs : Holders(i)' = Holders(i)
    <3>1. \A i \in Jobs, v \in Workers :
            (job'[v] = i /\ pc'[v] \in Holding) <=> (job[v] = i /\ pc[v] \in Holding)
      BY <1>5, <2>1, <2>2
    <3> QED BY <3>1 DEF Holders
  <2> QED BY <2>3, SameHolders
<1>15. ReviewsTold' /\ DocumentsFit'
  BY NothingElse
<1> QED BY <1>6, <1>7, <1>9, <1>10, <1>12, <1>13, <1>14, <1>15 DEF Inv

LEMMA FinishInv ==
  ASSUME Inv, NEW w \in Workers, Fail(w) \/ FailRefused(w) \/ Complete(w)
  PROVE  Inv'
<1>1. pc[w] \notin Free /\ pc[w] \in Working \ {"claimed"} /\ job[w] \in table
  BY DEF Fail, FailRefused, Complete, Working, Free
<1>2. CASE Fail(w)
  <2>1. /\ row' = [row EXCEPT ![job[w]] = Flush(row[job[w]], copy[w], MarkFailed(copy[w]))]
        /\ LetGo(w, "idle")
        /\ UNCHANGED <<docs, made, table, kind, subject, request, items, owed, reviewVars>>
    BY <1>2 DEF Fail
  <2>2. pc[w] \notin Holding /\ pc'[w] # "owing"
    BY <1>2, <2>1, LetGoFacts DEF Fail, Holding, Free
  <2> QED BY <1>1, <2>1, <2>2, MarkInv
<1>3. CASE FailRefused(w)
  <2>1. /\ row' = [row EXCEPT ![job[w]] = Flush(row[job[w]], copy[w], MarkFailed(copy[w]))]
        /\ Move(w, "owing") /\ UNCHANGED <<job, copy, attempt, step, low>>
        /\ UNCHANGED <<docs, made, table, kind, subject, request, items, owed, reviewVars>>
    BY <1>3 DEF FailRefused
  <2>2. pc[w] \in Holding /\ pc'[w] = "owing"
    BY <1>3, <2>1 DEF FailRefused, Holding, Inv, TypeOK, Move
  <2> QED BY <1>1, <2>1, <2>2, MarkInv
<1>4. CASE Complete(w)
  <2>1. /\ row' = [row EXCEPT ![job[w]] = Flush(row[job[w]], copy[w], MarkCompleted(copy[w]))]
        /\ UNCHANGED <<docs, made, table, kind, subject, request, items, owed, reviewVars>>
        /\ \/ Move(w, "routing") /\ UNCHANGED <<job, copy, attempt, step, low>>
           \/ LetGo(w, "idle")
    BY <1>4 DEF Complete
  <2>2. pc[w] \notin Holding /\ pc'[w] # "owing"
    BY <1>4, <2>1, LetGoFacts DEF Complete, Holding, Free, Inv, TypeOK, Move
  <2>3. MarkCompleted(copy[w]).status = "completed"
    BY DEF MarkCompleted
  <2> QED BY <1>1, <2>1, <2>2, <2>3, MarkInv
<1> QED BY <1>2, <1>3, <1>4

LEMMA RouteInv == ASSUME Inv, NEW w \in Workers, Route(w) PROVE Inv'
<1> DEFINE mine == <<job[w], attempt[w]>>
<1>1. /\ pc[w] = "routing" /\ Anchor(job[w]) \in docs
      /\ items' = [items EXCEPT ![mine] = "pending"]
      /\ LetGo(w, "idle") /\ UNCHANGED <<docs, jobVars, request, owed, reviewVars>>
  BY DEF Route
<1>2. /\ job[w] \in Jobs /\ job[w] # None /\ mine \in Batch /\ row[job[w]] \in Row
      /\ attempt[w] \in 1..row[job[w]].attempts
  BY <1>1, AtWork DEF Free
<1>3. items[mine] = "none" /\ items'[mine] = "pending" /\ \A b \in Batch \ {mine} : items'[b] = items[b]
  BY <1>1, <1>2 DEF Inv, TypeOK, BatchesFresh
<1> HIDE DEF mine
<1>4. TypeOK'
  BY <1>1, <1>2, LetGoFacts DEF Inv, TypeOK, ItemStatus, jobVars, reviewVars, Free
<1>5. RowsFit' /\ HandsFit' /\ RunsFit'
  BY <1>1, LetGoFacts, NoneIsNoJob DEF Inv, RowsFit, HandsFit, RunsFit, jobVars, Free
<1>6. BatchesFresh'
  <2>1. \A b \in Batch : items'[b] # "none" => b[2] <= row'[b[1]].attempts
    BY <1>1, <1>2, <1>3 DEF Inv, BatchesFresh, jobVars, mine
  <2>2. ASSUME NEW v \in Workers, job'[v] # None
        PROVE  items'[<<job'[v], attempt'[v]>>] = "none"
    <3>1. v # w /\ job'[v] = job[v] /\ attempt'[v] = attempt[v] /\ job[v] # None
      BY <1>1, <2>2, LetGoFacts DEF Free
    <3>2. <<job[v], attempt[v]>> # mine
      BY <1>2, <3>1 DEF Inv, HandsFit, mine
    <3>3. <<job[v], attempt[v]>> \in Batch
      BY <3>1, AtWork DEF Inv, HandsFit
    <3> QED BY <1>3, <3>1, <3>2, <3>3 DEF Inv, BatchesFresh
  <2> QED BY <2>1, <2>2 DEF BatchesFresh
<1>7. ReviewsTold'
  <2>1. \A v \in Reviewers : filing[v] # None => filing[v][1] \in Batch /\ filing[v][2] \in Resolved
    BY DEF Inv, TypeOK
  <2>2. \A v \in Reviewers : filing[v] # None => filing[v][1] # mine
    BY <1>3, <2>1 DEF Inv, ReviewsTold, Resolved
  <2>3. audits[mine] = {}
    BY <1>2, <1>3 DEF Inv, TypeOK, ReviewsTold, ResolutionAudited, Resolved
  <2> QED BY <1>1, <1>3, <2>1, <2>2, <2>3 DEF Inv, ReviewsTold, ResolutionAudited, reviewVars
<1>8. DocumentsFit'
  <2>1. \A j \in Jobs : Anchor(j)' = Anchor(j)
    BY <1>1 DEF Anchor, jobVars
  <2>2. OwnersPresent'
    BY <1>1, <1>3, <2>1 DEF Inv, TypeOK, DocumentsFit, OwnersPresent, Present, Batch, jobVars, mine
  <2> QED BY <1>1, <2>2 DEF Inv, DocumentsFit, jobVars
<1>9. ItemsFitJob'
  <2>1. /\ row[job[w]].status \in Terminal
        /\ row[job[w]].attempts = 1 => row[job[w]].status = "completed" /\ attempt[w] = 1
    BY <1>1, <1>2 DEF Inv, RunsFit
  <2> QED BY <1>1, <1>3, <2>1 DEF Inv, ItemsFitJob, Present, jobVars, mine
<1>10. SpendAccounted'
  <2>1. \A j \in Jobs : Holders(j)' = Holders(j)
    BY <1>1, LetGoFacts, NoneIsNoJob DEF Holders, Holding, Free
  <2> QED BY <1>1, <2>1, SameHolders
<1> QED BY <1>4, <1>5, <1>6, <1>7, <1>8, <1>9, <1>10 DEF Inv

LEMMA RestartInv == ASSUME Inv, NEW w \in Workers, Restart(w) PROVE Inv'
<1>1. /\ pc[w] \in {"raised", "down"} /\ pc' = [pc EXCEPT ![w] = "idle"]
      /\ UNCHANGED <<docs, jobVars, request, items, job, copy, attempt, step, low, owed, reviewVars>>
  BY DEF Restart, Move
<1>2. pc'[w] = "idle" /\ \A v \in Workers \ {w} : pc'[v] = pc[v]
  BY <1>1 DEF Inv, TypeOK
<1>3. TypeOK'
  BY <1>1, NothingElse DEF Inv, TypeOK, PC, jobVars
<1>4. RowsFit' /\ BatchesFresh' /\ ItemsFitJob'
  BY <1>1 DEF Inv, RowsFit, BatchesFresh, ItemsFitJob, Present, jobVars
<1>5. HandsFit'
  BY <1>1, <1>2 DEF Inv, HandsFit, Free, jobVars
<1>6. RunsFit'
  BY <1>1, <1>2 DEF Inv, RunsFit, HandsFit, Free, jobVars
<1>7. \A j \in Jobs : Holders(j)' = Holders(j)
  BY <1>1, <1>2 DEF Holders, Holding
<1> QED BY <1>1, <1>3, <1>4, <1>5, <1>6, <1>7, SameHolders, NothingElse DEF Inv, jobVars

LEMMA LeaseLapsesInv == ASSUME Inv, NEW j \in Jobs, LeaseLapses(j) PROVE Inv'
<1>1. /\ row' = [row EXCEPT ![j] = Lapsed(row[j])]
      /\ UNCHANGED <<docs, made, table, kind, subject, request, items, workerVars, reviewVars>>
  BY DEF LeaseLapses
<1>2. /\ row' \in [Jobs -> Row]
      /\ \A i \in Jobs : row'[i].status = row[i].status /\ row'[i].attempts = row[i].attempts
  BY <1>1, LapsedFacts DEF Inv, TypeOK
<1>3. TypeOK'
  BY <1>1, <1>2, NothingElse DEF Inv, TypeOK, workerVars
<1>4. RowsFit'
  BY <1>1, <1>2 DEF Inv, RowsFit
<1>5. HandsFit' /\ BatchesFresh'
  BY <1>1, <1>2 DEF Inv, TypeOK, HandsFit, BatchesFresh, Batch, workerVars
<1>6. RunsFit'
  BY <1>1, <1>2 DEF Inv, TypeOK, RunsFit, workerVars
<1>7. ItemsFitJob'
  BY <1>1, <1>2 DEF Inv, ItemsFitJob, Present, Batch
<1>8. SpendAccounted'
  BY <1>1 DEF Inv, SpendAccounted, workerVars
<1> QED BY <1>1, <1>3, <1>4, <1>5, <1>6, <1>7, <1>8, NothingElse DEF Inv

-----------------------------------------------------------------------------
(* Reviewers                                                               *)

LEMMA FilingInv ==
  ASSUME Inv, NEW v \in Reviewers, Audit(v) \/ AuditLost(v) \/ \E b \in Batch : Fetch(v, b)
  PROVE  Inv'
<1>1. UNCHANGED <<docs, jobVars, request, items, workerVars>>
  BY DEF Audit, AuditLost, Fetch
<1>2. /\ reading' \in [Reviewers -> Batch \cup {None}]
      /\ filing' \in [Reviewers -> (Batch \X Resolved) \cup {None}]
      /\ audits' \in [Batch -> SUBSET Resolved]
      /\ ReviewsTold'
  <2>1. CASE Audit(v)
    <3>1. filing[v] \in Batch \X Resolved /\ items[filing[v][1]] \in {filing[v][2], "deleted"}
      BY <2>1 DEF Audit, Inv, TypeOK, ReviewsTold
    <3>2. /\ audits' = [audits EXCEPT ![filing[v][1]] = audits[filing[v][1]] \cup {filing[v][2]}]
          /\ filing' = [filing EXCEPT ![v] = None] /\ UNCHANGED <<reading, items>>
      BY <2>1 DEF Audit
    <3>3. audits' \in [Batch -> SUBSET Resolved]
      BY <3>1, <3>2 DEF Inv, TypeOK
    <3>4. ResolutionAudited'
      BY <3>1, <3>2 DEF Inv, TypeOK, ReviewsTold, ResolutionAudited
    <3> QED BY <3>2, <3>3, <3>4 DEF Inv, TypeOK, ReviewsTold
  <2>2. CASE AuditLost(v)
    BY <2>2 DEF AuditLost, Inv, TypeOK, ReviewsTold, ResolutionAudited
  <2>3. CASE \E b \in Batch : Fetch(v, b)
    <3>1. PICK b \in Batch : Fetch(v, b)
      BY <2>3
    <3> QED BY <3>1 DEF Fetch, Inv, TypeOK, ReviewsTold, ResolutionAudited
  <2> QED BY <2>1, <2>2, <2>3
<1>3. TypeOK'
  BY <1>1, <1>2 DEF Inv, TypeOK, jobVars, workerVars
<1>4. RowsFit' /\ HandsFit' /\ BatchesFresh' /\ RunsFit'
  BY <1>1 DEF Inv, RowsFit, HandsFit, BatchesFresh, RunsFit, jobVars, workerVars
<1>5. DocumentsFit' /\ ItemsFitJob' /\ SpendAccounted'
  BY <1>1 DEF Inv, DocumentsFit, OwnersPresent, Anchor, ItemsFitJob, Present, SpendAccounted,
              jobVars, workerVars
<1> QED BY <1>2, <1>3, <1>4, <1>5 DEF Inv

LEMMA ResolveInv ==
  ASSUME Inv, NEW v \in Reviewers, NEW disposition \in Resolved, Resolve(v, disposition)
  PROVE  Inv'
<1> DEFINE b == reading[v]
<1>1. /\ b \in Batch
      /\ items' = [items EXCEPT ![b] = IF items[b] = "pending" THEN disposition ELSE items[b]]
      /\ filing' = [filing EXCEPT ![v] = IF items[b] = "pending" THEN <<b, disposition>> ELSE None]
      /\ reading' = [reading EXCEPT ![v] = None]
      /\ UNCHANGED <<docs, jobVars, request, workerVars, audits>>
  BY DEF Resolve, Inv, TypeOK
<1> HIDE DEF b
<1>2. /\ items[b] = "pending" => items'[b] = disposition
      /\ items[b] # "pending" => items'[b] = items[b]
      /\ \A c \in Batch \ {b} : items'[c] = items[c]
  BY <1>1 DEF Inv, TypeOK
<1>3. \A c \in Batch : /\ items'[c] = "none" <=> items[c] = "none"
                       /\ Present(c)' = Present(c)
                       /\ items[c] # "pending" => items'[c] = items[c]
  BY <1>2 DEF Present, Resolved
<1>4. TypeOK'
  BY <1>1 DEF Inv, TypeOK, ItemStatus, jobVars, workerVars
<1>5. RowsFit' /\ HandsFit' /\ RunsFit' /\ SpendAccounted'
  BY <1>1 DEF Inv, RowsFit, HandsFit, RunsFit, SpendAccounted, jobVars, workerVars
<1>6. BatchesFresh'
  <2>1. \A w \in Workers : job[w] # None => <<job[w], attempt[w]>> \in Batch
    BY AtWork DEF Inv, HandsFit
  <2> QED BY <1>1, <1>3, <2>1 DEF Inv, BatchesFresh, jobVars, workerVars
<1>7. ReviewsTold'
  <2>1. ResolutionAudited'
    BY <1>1, <1>3 DEF Inv, TypeOK, ReviewsTold, ResolutionAudited, Resolved
  <2>2. ASSUME NEW u \in Reviewers, filing'[u] # None
        PROVE  items'[filing'[u][1]] \in {filing'[u][2], "deleted"}
    <3>1. CASE u = v
      BY <1>1, <1>2, <2>2, <3>1 DEF Inv, TypeOK
    <3>2. CASE u # v
      <4>1. filing'[u] = filing[u] /\ filing[u] \in Batch \X Resolved
        BY <1>1, <2>2, <3>2 DEF Inv, TypeOK
      <4>2. items[filing[u][1]] \in {filing[u][2], "deleted"} /\ items[filing[u][1]] # "pending"
        BY <2>2, <4>1 DEF Inv, ReviewsTold, Resolved
      <4> QED BY <1>3, <4>1, <4>2
    <3> QED BY <3>1, <3>2
  <2> QED BY <2>1, <2>2 DEF ReviewsTold
<1>8. DocumentsFit' /\ ItemsFitJob'
  BY <1>1, <1>3 DEF Inv, DocumentsFit, OwnersPresent, Anchor, ItemsFitJob, jobVars
<1> QED BY <1>4, <1>5, <1>6, <1>7, <1>8 DEF Inv

-----------------------------------------------------------------------------
LEMMA NextInv == Inv /\ [Next]_vars => Inv'
<1> SUFFICES ASSUME Inv, [Next]_vars PROVE Inv'
  OBVIOUS
<1>1. CASE UNCHANGED vars
  <2>1. UNCHANGED <<docs, jobVars, request, items, workerVars, reviewVars>>
    BY <1>1 DEF vars
  <2>2. TypeOK'
    BY <2>1 DEF Inv, TypeOK, jobVars, workerVars, reviewVars
  <2>3. RowsFit' /\ HandsFit' /\ BatchesFresh' /\ RunsFit' /\ ItemsFitJob' /\ SpendAccounted'
    BY <2>1 DEF Inv, RowsFit, HandsFit, BatchesFresh, RunsFit, ItemsFitJob, Present, SpendAccounted,
                jobVars, workerVars
  <2> QED BY <2>1, <2>2, <2>3, NothingElse DEF Inv, jobVars
<1>2. CASE CheckReport \/ CreateFails \/ \E d \in Documents : CheckExtraction(d)
  BY <1>2, RequestInv
<1>3. CASE \E d \in Documents : Delete(d)
  BY <1>3, DeleteInv
<1>4. CASE \E j \in Jobs : Create(j) \/ LeaseLapses(j)
  BY <1>4, CreateInv, LeaseLapsesInv
<1>5. ASSUME NEW w \in Workers,
             \/ \E k \in Kinds : Claim(w, k)
             \/ \E to \in Steps \cup {"answered", "failing"} : Record(w, to)
             \/ TakeForCapped(w) \/ StartHandler(w) \/ Return(w) \/ Refuse(w) \/ NothingChanged(w)
             \/ Fail(w) \/ FailRefused(w) \/ AccountRejected(w) \/ Complete(w)
             \/ Route(w) \/ Raise(w) \/ Crash(w) \/ Restart(w)
      PROVE  Inv'
  BY <1>5, ClaimInv, RecordInv, TakeForCappedInv, StartHandlerInv, CallInv, FinishInv,
     AccountRejectedInv, RouteInv, GoneInv, RestartInv
<1>6. ASSUME NEW v \in Reviewers,
             \/ \E b \in Batch : Fetch(v, b)
             \/ \E disposition \in Resolved : Resolve(v, disposition)
             \/ Audit(v) \/ AuditLost(v)
      PROVE  Inv'
  BY <1>6, FilingInv, ResolveInv
<1> QED BY <1>1, <1>2, <1>3, <1>4, <1>5, <1>6 DEF Next

-----------------------------------------------------------------------------
(* The promises                                                            *)

\* The inductive invariant holds throughout.
THEOREM Invariance == Spec => []Inv
BY InitInv, NextInv, PTL DEF Spec

\* Every variable keeps its type: no attempt beyond the cap and the claim that
\* notices it, no negative debt of usage rows.
THEOREM TypeCorrect == Spec => []TypeOK
BY Invariance, PTL DEF Inv

\* documents.py, change_report_jobs.py: jobs in their tables and items in the
\* queue have their documents.
THEOREM OwnersStay == Spec => []OwnersPresent
BY Invariance, PTL DEF Inv, DocumentsFit

\* extraction.py, change_report.py: items in the queue belong to a job that is
\* settled, and to the only run of a job that was claimed once.
THEOREM ItemsFollowOutcome == Spec => []ItemsFitJob
BY Invariance, PTL DEF Inv

\* usage.py: the spend of every answered call is in the table or in the hands of
\* the worker about to write it.
THEOREM SpendIsAccounted == Spec => []SpendAccounted
BY Invariance, PTL DEF Inv

\* review_queue.py: the audit log names no disposition but the item's.
THEOREM AuditTellsResolution == Spec => []ResolutionAudited
BY Invariance, PTL DEF Inv, ReviewsTold

LEMMA ResolutionStep ==
  ASSUME Inv, [Next]_vars, NEW b \in Batch, items[b] \in Resolved
  PROVE  items'[b] \in {items[b], "deleted"}
<1>1. ASSUME NEW d \in Documents, Delete(d)
      PROVE  items'[b] \in {items[b], "deleted"}
  BY <1>1 DEF Delete
<1>2. ASSUME NEW w \in Workers, Route(w)
      PROVE  items'[b] = items[b]
  <2>1. <<job[w], attempt[w]>> \in Batch /\ job[w] # None
    BY <1>2, AtWork DEF Route, Free
  <2>2. items[<<job[w], attempt[w]>>] = "none"
    BY <2>1 DEF Inv, BatchesFresh
  <2>3. b # <<job[w], attempt[w]>>
    BY <2>2 DEF Resolved
  <2> QED BY <1>2, <2>3 DEF Route, Inv, TypeOK
<1>3. ASSUME NEW v \in Reviewers, NEW disposition \in Resolved, Resolve(v, disposition)
      PROVE  items'[b] = items[b]
  BY <1>3 DEF Resolve, Resolved, Inv, TypeOK
<1>4. CASE UNCHANGED items
  BY <1>4
<1>5. CASE UNCHANGED vars
  BY <1>4, <1>5 DEF vars
<1>6. ASSUME NEW d \in Documents, CheckReport \/ CreateFails \/ CheckExtraction(d)
      PROVE  UNCHANGED items
  BY <1>6 DEF CheckReport, CreateFails, CheckExtraction
<1>7. ASSUME NEW j \in Jobs, Create(j) \/ LeaseLapses(j) PROVE UNCHANGED items
  BY <1>7 DEF Create, LeaseLapses
<1>8. ASSUME NEW w \in Workers,
             \/ \E k \in Kinds : Claim(w, k)
             \/ \E to \in Steps \cup {"answered", "failing"} : Record(w, to)
             \/ TakeForCapped(w) \/ StartHandler(w) \/ Return(w) \/ Refuse(w) \/ NothingChanged(w)
             \/ Fail(w) \/ FailRefused(w) \/ AccountRejected(w) \/ Complete(w)
             \/ Raise(w) \/ Crash(w) \/ Restart(w)
      PROVE  UNCHANGED items
  BY <1>8 DEF Claim, Record, TakeForCapped, StartHandler, Return, Refuse, NothingChanged, Fail,
              FailRefused, AccountRejected, Complete, Raise, Crash, Restart
<1>9. ASSUME NEW v \in Reviewers, Audit(v) \/ AuditLost(v) \/ \E c \in Batch : Fetch(v, c)
      PROVE  UNCHANGED items
  BY <1>9 DEF Audit, AuditLost, Fetch
<1>10. "base" \in Documents
  BY DEF Documents
<1> QED
  BY <1>1, <1>2, <1>3, <1>4, <1>5, <1>6, <1>7, <1>8, <1>9, <1>10 DEF Next

\* review_queue.py: a resolution is final, for any reviewers and workers.
THEOREM ResolutionIsFinal == Spec => ResolutionFinal
<1>1. Inv /\ [Next]_vars =>
        [\A b \in Batch : items[b] \in Resolved => items'[b] \in {items[b], "deleted"}]_vars
  BY ResolutionStep
<1> QED BY <1>1, Invariance, PTL DEF Spec, ResolutionFinal
=============================================================================
