--------------------------- MODULE JobLeaseProofs ---------------------------
(***************************************************************************)
(* Theorems about JobLease for every number of jobs, workers and attempts: *)
(* the inductive invariant Inv, the mutual exclusion of claims, the        *)
(* finality of an outcome under a single claim, and the implementation of  *)
(* JobTickets.                                                             *)
(***************************************************************************)
EXTENDS JobLease, JobRowsProofs, TLAPS

USE MaxAttemptsAssumption, JobsAssumption, NoJobAssumption

-----------------------------------------------------------------------------
\* Inv is inductive: it holds initially and every step preserves it.

LEMMA InitInv == Init => Inv
<1> SUFFICES ASSUME Init PROVE Inv
  OBVIOUS
<1>1. TypeOK
  BY DEF Init, TypeOK, NewRow, Row, JobStatus, PC
<1>2. /\ ClaimsExclusive /\ LockedRowsStable /\ CopiesFitRows /\ SoleClaimOpen
  BY DEF Init, ClaimsExclusive, LockedRowsStable, CopiesFitRows, SoleClaimOpen, Holds
<1>3. AttemptsFitStatus /\ AttemptsIssued
  BY DEF Init, AttemptsFitStatus, AttemptsIssued, Holds, NewRow
<1> QED BY <1>1, <1>2, <1>3 DEF Inv

\* A new row is the untouched NewRow of its id: no worker has it in hand.
LEMMA EnqueueInv == ASSUME Inv, NEW j \in Jobs, Enqueue(j) PROVE Inv'
<1>1. TypeOK'
  BY DEF Inv, TypeOK, Enqueue
<1>2. ClaimsExclusive' /\ AttemptsFitStatus' /\ CopiesFitRows' /\ SoleClaimOpen'
  BY DEF Inv, Enqueue, ClaimsExclusive, AttemptsFitStatus, CopiesFitRows, SoleClaimOpen,
         Holds
<1>3. LockedRowsStable'
  BY DEF Inv, Enqueue, LockedRowsStable
<1>4. AttemptsIssued'
  BY DEF Inv, Enqueue, AttemptsIssued, Holds
<1> QED BY <1>1, <1>2, <1>3, <1>4 DEF Inv

\* The selected row is locked by nobody, so the lock stays exclusive.
LEMMA SelectInv == ASSUME Inv, NEW w \in Workers, Select(w) PROVE Inv'
<1>1. PICK j \in table : /\ Claimable(row[j])
                         /\ ~Locked(j)
                         /\ job' = [job EXCEPT ![w] = j]
  BY DEF Select, Oldest
<1>2. j \in Jobs
  BY <1>1 DEF Inv, TypeOK
<1>3. TypeOK'
  BY <1>1, <1>2 DEF Inv, TypeOK, Select, PC
<1>4. ClaimsExclusive'
  BY <1>1 DEF Inv, TypeOK, Select, ClaimsExclusive, Holds, Locked
<1>5. LockedRowsStable'
  BY <1>1 DEF Inv, TypeOK, Select, LockedRowsStable
<1>6. AttemptsFitStatus'
  BY DEF Inv, Select, AttemptsFitStatus
<1>7. \A v \in Workers, i \in Jobs : Holds(v, i)' =>
        Holds(v, i) /\ pc'[v] = pc[v] /\ UNCHANGED <<attempt, copy, row, ran, made>>
  BY <1>1 DEF Inv, TypeOK, Select, Holds
<1>8. AttemptsIssued' /\ CopiesFitRows' /\ SoleClaimOpen'
  BY <1>7 DEF Inv, Select, AttemptsIssued, CopiesFitRows, SoleClaimOpen
<1> QED BY <1>3, <1>4, <1>5, <1>6, <1>8 DEF Inv

\* The committed attempt is one past every attempt issued before it.
LEMMA CommitClaimInv == ASSUME Inv, NEW w \in Workers, CommitClaim(w) PROVE Inv'
<1> DEFINE j == job[w]
<1>1. /\ j \in table /\ j \in Jobs /\ j \in made
      /\ row[j] \in Row
      /\ Claimable(row[j])
      /\ row[j].attempts \in 0..MaxAttempts
  <2>1. j \in table /\ Claimable(row[j])
    BY DEF Inv, CommitClaim, LockedRowsStable
  <2>2. j \in Jobs /\ j \in made /\ row[j] \in Row
    BY <2>1 DEF Inv, TypeOK
  <2>3. row[j].attempts \in 0..(MaxAttempts + 1)
    BY <2>2 DEF Row
  <2>4. row[j].status \notin Terminal
    BY <2>1 DEF Claimable, Terminal
  <2>5. ~ (row[j].attempts > MaxAttempts)
    BY <2>2, <2>4 DEF Inv, AttemptsFitStatus
  <2> QED BY <2>1, <2>2, <2>3, <2>5
<1>2. /\ Claimed(row[j]) \in Row
      /\ Claimed(row[j]).attempts = row[j].attempts + 1
      /\ Claimed(row[j]).status \in {"running", "failed"}
      /\ (Claimed(row[j]).status = "failed") <=> (row[j].attempts + 1 > MaxAttempts)
  BY <1>1, ClaimedFacts
<1>3. /\ row' = [row EXCEPT ![j] = Claimed(row[j])]
      /\ attempt' = [attempt EXCEPT ![w] = row[j].attempts + 1]
      /\ pc[w] = "locked" /\ pc' = [pc EXCEPT ![w] = "claimed"]
      /\ UNCHANGED <<made, table, job, copy, ran>>
  BY DEF CommitClaim
<1> HIDE DEF j
<1>4. TypeOK'
  BY <1>1, <1>2, <1>3 DEF Inv, TypeOK, PC
<1>5. \A v \in Workers, i \in Jobs : v # w =>
        /\ Holds(v, i)' <=> Holds(v, i)
        /\ pc'[v] = pc[v] /\ job'[v] = job[v] /\ attempt'[v] = attempt[v]
  BY <1>3 DEF Inv, TypeOK, Holds
<1>6. \A i \in Jobs : Holds(w, i)' => i = j
  BY <1>3 DEF Holds, j
<1>7. row'[j].attempts = row[j].attempts + 1 /\ attempt'[w] = row[j].attempts + 1
      /\ \A i \in Jobs : i # j => row'[i] = row[i]
  BY <1>1, <1>2, <1>3 DEF Inv, TypeOK
<1>8. \A v \in Workers : v # w => ~(pc[v] = "locked" /\ job[v] = j)
  BY <1>1, <1>3 DEF Inv, ClaimsExclusive, j
<1>9. ClaimsExclusive'
  <2>1. \A v \in Workers, i \in Jobs : v # w /\ i = j /\ Holds(v, i)' => attempt'[v] # attempt'[w]
    BY <1>1, <1>5, <1>7 DEF Inv, AttemptsIssued
  <2>2. pc'[w] # "locked"
    BY <1>3 DEF Inv, TypeOK
  <2> QED BY <1>5, <1>6, <2>1, <2>2 DEF Inv, ClaimsExclusive
<1>10. LockedRowsStable'
  BY <1>1, <1>3, <1>5, <1>7, <1>8 DEF Inv, TypeOK, LockedRowsStable
<1>11. AttemptsFitStatus'
  BY <1>1, <1>2, <1>3, <1>7 DEF Inv, TypeOK, AttemptsFitStatus, Terminal
<1>12. AttemptsIssued'
  <2>1. \A i \in Jobs : ran'[i] \subseteq 1..row'[i].attempts
    BY <1>1, <1>3, <1>7 DEF Inv, AttemptsIssued
  <2>2. ASSUME NEW v \in Workers, NEW i \in Jobs, v # w, Holds(v, i)
        PROVE  /\ i \in made' /\ attempt'[v] \in 1..row'[i].attempts
               /\ pc'[v] = "claimed" => attempt'[v] \notin ran'[i]
               /\ pc'[v] = "running" => attempt'[v] \in ran'[i]
    <3>1. i \in made /\ attempt[v] \in 1..row[i].attempts
      BY <2>2 DEF Inv, AttemptsIssued
    <3>2. row'[i].attempts \in {row[i].attempts, row[i].attempts + 1}
      BY <1>7
    <3>3. row[i].attempts \in Nat
      BY DEF Inv, TypeOK, Row
    <3>4. attempt[v] \in 1..row'[i].attempts
      BY <3>1, <3>2, <3>3
    <3> QED BY <1>3, <1>5, <2>2, <3>1, <3>4 DEF Inv, AttemptsIssued
  <2>3. /\ j \in made' /\ attempt'[w] \in 1..row'[j].attempts
        /\ attempt'[w] \notin ran'[j] /\ pc'[w] = "claimed"
    BY <1>1, <1>3, <1>7 DEF Inv, TypeOK, AttemptsIssued
  <2> QED BY <1>5, <1>6, <2>1, <2>2, <2>3 DEF AttemptsIssued
<1>13. CopiesFitRows'
  BY <1>1, <1>2, <1>3, <1>5, <1>6, <1>7 DEF Inv, TypeOK, CopiesFitRows, Claimable, Terminal
<1>14. SoleClaimOpen'
  <2>1. ASSUME NEW v \in Workers, v # w, Holds(v, j) PROVE row'[j].attempts # 1
    BY <1>1, <1>7, <2>1 DEF Inv, AttemptsIssued
  <2>2. row'[j].attempts = 1 => row'[j].status = "running"
    BY <1>1, <1>2, <1>3, <1>7, MaxAttemptsAssumption DEF Inv, TypeOK
  <2> QED BY <1>5, <1>6, <1>7, <2>1, <2>2 DEF Inv, SoleClaimOpen
<1> QED BY <1>4, <1>9, <1>10, <1>11, <1>12, <1>13, <1>14 DEF Inv
\* The refreshed copy is the row; the attempt is entered into ran only now.
LEMMA StartHandlerInv == ASSUME Inv, NEW w \in Workers, StartHandler(w) PROVE Inv'
<1> DEFINE j == job[w]
<1>1. /\ pc[w] = "claimed" /\ pc' = [pc EXCEPT ![w] = "running"]
      /\ j \in table /\ row[j].status # "failed"
      /\ copy' = [copy EXCEPT ![w] = row[j]]
      /\ ran' = [ran EXCEPT ![j] = @ \cup {attempt[w]}]
      /\ UNCHANGED <<made, table, row, job, attempt>>
  BY DEF StartHandler
<1>2. j \in Jobs /\ j \in made /\ row[j] \in Row /\ job[w] = j
  BY <1>1 DEF Inv, TypeOK
<1> HIDE DEF j
<1>3. Holds(w, j) /\ attempt[w] \in 1..row[j].attempts /\ row[j].attempts \in 0..(MaxAttempts + 1)
  BY <1>1, <1>2 DEF Inv, AttemptsIssued, Holds, Row
<1>4. TypeOK'
  BY <1>1, <1>2, <1>3 DEF Inv, TypeOK, PC
<1>5. \A v \in Workers, i \in Jobs : Holds(v, i)' <=> Holds(v, i)
  BY <1>1 DEF Inv, TypeOK, Holds
<1>6. ClaimsExclusive'
  BY <1>1, <1>5 DEF Inv, TypeOK, ClaimsExclusive
<1>7. LockedRowsStable'
  BY <1>1 DEF Inv, TypeOK, LockedRowsStable
<1>8. AttemptsFitStatus'
  BY <1>1 DEF Inv, AttemptsFitStatus
<1>9. AttemptsIssued'
  <2>1. \A i \in Jobs : ran'[i] \subseteq 1..row'[i].attempts
    BY <1>1, <1>2, <1>3 DEF Inv, TypeOK, AttemptsIssued
  <2>2. ASSUME NEW v \in Workers, NEW i \in Jobs, Holds(v, i)
        PROVE  /\ i \in made' /\ attempt'[v] \in 1..row'[i].attempts
               /\ pc'[v] = "claimed" => attempt'[v] \notin ran'[i]
               /\ pc'[v] = "running" => attempt'[v] \in ran'[i]
    <3>1. i \in made' /\ attempt'[v] \in 1..row'[i].attempts
      BY <1>1, <2>2 DEF Inv, AttemptsIssued
    <3>2. CASE v = w
      BY <1>1, <1>2, <2>2, <3>1, <3>2 DEF Inv, TypeOK, Holds
    <3>3. CASE v # w
      <4>1. i = j => attempt[v] # attempt[w]
        BY <1>3, <2>2, <3>3 DEF Inv, ClaimsExclusive
      <4> QED BY <1>1, <1>2, <2>2, <3>1, <3>3, <4>1 DEF Inv, TypeOK, AttemptsIssued
    <3> QED BY <3>2, <3>3
  <2> QED BY <1>5, <2>1, <2>2 DEF AttemptsIssued
<1>10. CopiesFitRows'
  <2>1. row[j].status = "running" \/ row[j].status \in Terminal
    <3>1. row[j].attempts # 0
      BY <1>3
    <3>2. row[j].status # "queued"
      BY <1>2, <3>1 DEF Inv, AttemptsFitStatus
    <3> QED BY <1>2, <3>2 DEF Row, JobStatus, Terminal
  <2>2. ASSUME NEW v \in Workers, NEW i \in Jobs, Holds(v, i), pc'[v] = "running"
        PROVE  copy'[v].status = "running" \/ row'[i].status \in Terminal
    <3>1. CASE v = w
      BY <1>1, <1>2, <2>1, <2>2, <3>1 DEF Inv, TypeOK, Holds
    <3>2. CASE v # w
      BY <1>1, <2>2, <3>2 DEF Inv, TypeOK, CopiesFitRows
    <3> QED BY <3>1, <3>2
  <2> QED BY <1>5, <2>2 DEF CopiesFitRows
<1>11. SoleClaimOpen'
  BY <1>1, <1>5 DEF Inv, SoleClaimOpen
<1> QED BY <1>4, <1>6, <1>7, <1>8, <1>9, <1>10, <1>11 DEF Inv

\* A worker that drops its job leaves every other worker's hold as it was.
LEMMA LetGoFacts ==
  ASSUME Inv, NEW w \in Workers, NEW where \in {"idle", "down", "raised"}, LetGo(w, where)
  PROVE  /\ pc' \in [Workers -> PC] /\ job' \in [Workers -> Jobs \cup {NoJob}]
         /\ copy' \in [Workers -> Row] /\ attempt' \in [Workers -> 0..(MaxAttempts + 1)]
         /\ pc'[w] = where
         /\ \A v \in Workers : v # w => /\ pc'[v] = pc[v] /\ job'[v] = job[v]
                                        /\ copy'[v] = copy[v] /\ attempt'[v] = attempt[v]
         /\ \A v \in Workers, i \in Jobs : Holds(v, i)' => v # w /\ Holds(v, i)
<1>1. NewRow \in Row
  BY DEF NewRow, Row, JobStatus
<1> QED BY <1>1 DEF Inv, TypeOK, LetGo, PC, Holds

LEMMA LetGoInv ==
  ASSUME Inv, NEW w \in Workers, NEW where \in {"idle", "down", "raised"}, LetGo(w, where),
         UNCHANGED <<made, table, row, ran>>
  PROVE  Inv'
<1>1. TypeOK'
  BY LetGoFacts DEF Inv, TypeOK
<1>2. ClaimsExclusive' /\ LockedRowsStable'
  BY LetGoFacts DEF Inv, ClaimsExclusive, LockedRowsStable
<1>3. AttemptsFitStatus' /\ SoleClaimOpen'
  BY LetGoFacts DEF Inv, AttemptsFitStatus, SoleClaimOpen
<1>4. AttemptsIssued' /\ CopiesFitRows'
  BY LetGoFacts DEF Inv, AttemptsIssued, CopiesFitRows
<1> QED BY <1>1, <1>2, <1>3, <1>4 DEF Inv

\* What Complete and Fail write: the row of the job in hand settles, keeps its
\* attempts, and was locked by nobody.
LEMMA FinishFacts ==
  ASSUME Inv, NEW w \in Workers, Complete(w) \/ Fail(w)
  PROVE  /\ Holds(w, job[w]) /\ pc[w] = "running"
         /\ job[w] \in table /\ job[w] \in Jobs /\ ~Locked(job[w])
         /\ \E r \in Row : /\ row' = [row EXCEPT ![job[w]] = r]
                           /\ r.attempts = row[job[w]].attempts
                           /\ r.status \in Terminal
         /\ LetGo(w, "idle") /\ UNCHANGED <<made, table, ran>>
<1> DEFINE j == job[w]
<1>1. /\ pc[w] = "running" /\ j \in table /\ ~Locked(j)
      /\ LetGo(w, "idle") /\ UNCHANGED <<made, table, ran>>
  BY DEF Complete, Fail, Finish
<1>2. j \in Jobs /\ row[j] \in Row /\ copy[w] \in Row /\ Holds(w, j)
  BY <1>1 DEF Inv, TypeOK, Holds
<1>3. PICK m \in {MarkCompleted(copy[w]), MarkFailed(copy[w])} :
        row' = [row EXCEPT ![j] = Flush(row[j], copy[w], m)]
  BY DEF Complete, Fail, Finish
<1>4. m \in Row /\ m.status \in Terminal
  BY <1>2, MarkTypes
<1>5. copy[w].status = "running" \/ row[j].status \in Terminal
  BY <1>1, <1>2 DEF Inv, CopiesFitRows
<1>6. /\ Flush(row[j], copy[w], m) \in Row
      /\ Flush(row[j], copy[w], m).attempts = row[j].attempts
      /\ Flush(row[j], copy[w], m).status \in Terminal
  BY <1>2, <1>4, <1>5, MarkFacts DEF Terminal
<1> QED BY <1>1, <1>2, <1>3, <1>6

LEMMA FinishInv == ASSUME Inv, NEW w \in Workers, Complete(w) \/ Fail(w) PROVE Inv'
<1> DEFINE j == job[w]
<1>1. /\ Holds(w, j) /\ pc[w] = "running" /\ j \in table /\ j \in Jobs /\ ~Locked(j)
      /\ LetGo(w, "idle") /\ UNCHANGED <<made, table, ran>>
  BY FinishFacts
<1>2. PICK r \in Row : /\ row' = [row EXCEPT ![j] = r]
                       /\ r.attempts = row[j].attempts /\ r.status \in Terminal
  BY FinishFacts
<1> HIDE DEF j
<1>3. /\ pc' \in [Workers -> PC] /\ job' \in [Workers -> Jobs \cup {NoJob}]
      /\ copy' \in [Workers -> Row] /\ attempt' \in [Workers -> 0..(MaxAttempts + 1)]
      /\ pc'[w] = "idle"
      /\ \A v \in Workers : v # w => /\ pc'[v] = pc[v] /\ job'[v] = job[v]
                                     /\ copy'[v] = copy[v] /\ attempt'[v] = attempt[v]
      /\ \A v \in Workers, i \in Jobs : Holds(v, i)' => v # w /\ Holds(v, i)
  BY <1>1, LetGoFacts
<1>11. TypeOK'
  BY <1>1, <1>2, <1>3 DEF Inv, TypeOK
<1>4. \A i \in Jobs : /\ row'[i].attempts = row[i].attempts
                      /\ row'[i].status \in Terminal \/ row'[i] = row[i]
                      /\ i # j => row'[i] = row[i]
  BY <1>1, <1>2 DEF Inv, TypeOK
<1>5. ClaimsExclusive'
  BY <1>3 DEF Inv, ClaimsExclusive
<1>6. LockedRowsStable'
  <2>1. ASSUME NEW v \in Workers, pc'[v] = "locked"
        PROVE  job'[v] \in table' /\ Claimable(row'[job'[v]])
    <3>1. v # w /\ pc[v] = "locked" /\ job'[v] = job[v]
      BY <1>3, <2>1
    <3>2. job[v] # j
      BY <1>1, <3>1 DEF Locked
    <3>3. job[v] \in table /\ job[v] \in Jobs /\ Claimable(row[job[v]])
      BY <3>1 DEF Inv, TypeOK, LockedRowsStable
    <3> QED BY <1>1, <1>4, <3>1, <3>2, <3>3
  <2> QED BY <2>1 DEF LockedRowsStable
<1>7. AttemptsFitStatus'
  <2>1. row[j].attempts # 0
    BY <1>1 DEF Inv, AttemptsIssued
  <2>2. row'[j].status \in Terminal /\ row'[j].status # "queued"
    BY <1>1, <1>2 DEF Inv, TypeOK, Terminal
  <2>3. \A i \in Jobs : i # j =>
          /\ row'[i].status = "queued" <=> row'[i].attempts = 0
          /\ row'[i].attempts > MaxAttempts => row'[i].status \in Terminal
    BY <1>4 DEF Inv, AttemptsFitStatus
  <2>4. \A i \in Jobs : i \notin made' => row'[i].attempts = 0
    BY <1>1, <1>4 DEF Inv, AttemptsFitStatus
  <2>5. row'[j].attempts # 0
    BY <1>1, <1>4, <2>1
  <2> QED BY <2>2, <2>3, <2>4, <2>5 DEF AttemptsFitStatus
<1>8. AttemptsIssued'
  BY <1>1, <1>4, <1>3 DEF Inv, AttemptsIssued
<1>9. CopiesFitRows'
  BY <1>1, <1>4, <1>3 DEF Inv, CopiesFitRows
<1>10. SoleClaimOpen'
  <2>1. ASSUME NEW v \in Workers, NEW i \in Jobs, Holds(v, i)', row'[i].attempts = 1
        PROVE  row'[i].status = "running"
    <3>1. v # w /\ Holds(v, i) /\ row[i].attempts = 1
      BY <1>3, <1>4, <2>1
    <3>2. attempt[v] \in 1..row[i].attempts
      BY <3>1 DEF Inv, AttemptsIssued
    <3>3. i = j => attempt[w] \in 1..row[i].attempts
      BY <1>1 DEF Inv, AttemptsIssued
    <3>4. i # j
      BY <1>1, <3>1, <3>2, <3>3 DEF Inv, ClaimsExclusive
    <3> QED BY <1>4, <3>1, <3>4 DEF Inv, SoleClaimOpen
  <2> QED BY <2>1 DEF SoleClaimOpen
<1> QED BY <1>5, <1>6, <1>7, <1>8, <1>9, <1>10, <1>11 DEF Inv

LEMMA RestartInv == ASSUME Inv, NEW w \in Workers, Restart(w) PROVE Inv'
<1>1. TypeOK'
  BY DEF Inv, TypeOK, Restart, PC
<1>2. \A v \in Workers, i \in Jobs : Holds(v, i)' => Holds(v, i) /\ pc'[v] = pc[v]
  BY DEF Inv, TypeOK, Restart, Holds
<1>3. ClaimsExclusive' /\ LockedRowsStable'
  BY <1>2 DEF Inv, TypeOK, Restart, ClaimsExclusive, LockedRowsStable
<1>4. AttemptsFitStatus' /\ AttemptsIssued' /\ CopiesFitRows' /\ SoleClaimOpen'
  BY <1>2 DEF Inv, Restart, AttemptsFitStatus, AttemptsIssued, CopiesFitRows, SoleClaimOpen
<1> QED BY <1>1, <1>3, <1>4 DEF Inv

\* A lapsed lease makes a row claimable; it settles and issues nothing.
LEMMA LeaseLapsesInv == ASSUME Inv, NEW j \in Jobs, LeaseLapses(j) PROVE Inv'
<1>1. /\ row[j] \in Row /\ row[j].status = "running" /\ row[j].lease = "live"
      /\ row' = [row EXCEPT ![j] = Lapsed(row[j])]
      /\ UNCHANGED <<made, table, pc, job, copy, attempt, ran>>
  BY DEF Inv, TypeOK, LeaseLapses
<1>2. /\ Lapsed(row[j]) \in Row /\ Lapsed(row[j]).attempts = row[j].attempts
      /\ Lapsed(row[j]).status = row[j].status
  BY <1>1, LapsedFacts
<1>3. TypeOK'
  BY <1>1, <1>2 DEF Inv, TypeOK
<1>4. \A i \in Jobs : /\ row'[i].attempts = row[i].attempts
                      /\ row'[i].status = row[i].status
                      /\ i # j => row'[i] = row[i]
  BY <1>1, <1>2 DEF Inv, TypeOK
<1>5. ~Claimable(row[j])
  BY <1>1 DEF Claimable
<1>6. LockedRowsStable'
  <2>1. \A v \in Workers : pc[v] = "locked" => job[v] # j
    BY <1>5 DEF Inv, LockedRowsStable
  <2> QED BY <1>1, <1>4, <2>1 DEF Inv, TypeOK, LockedRowsStable
<1>7. ClaimsExclusive' /\ AttemptsFitStatus' /\ AttemptsIssued' /\ CopiesFitRows'
      /\ SoleClaimOpen'
  BY <1>1, <1>4 DEF Inv, ClaimsExclusive, AttemptsFitStatus, AttemptsIssued,
                    CopiesFitRows, SoleClaimOpen, Holds
<1> QED BY <1>3, <1>6, <1>7 DEF Inv

\* A deleted row was locked by nobody; its last contents stay on record.
LEMMA SweepInv == ASSUME Inv, NEW j \in Jobs, Sweep(j) PROVE Inv'
<1>1. TypeOK'
  BY DEF Inv, TypeOK, Sweep
<1>2. LockedRowsStable'
  BY DEF Inv, Sweep, LockedRowsStable, Locked
<1>3. ClaimsExclusive' /\ AttemptsFitStatus' /\ AttemptsIssued' /\ CopiesFitRows'
      /\ SoleClaimOpen'
  BY DEF Inv, Sweep, ClaimsExclusive, AttemptsFitStatus, AttemptsIssued, CopiesFitRows,
         SoleClaimOpen, Holds
<1> QED BY <1>1, <1>2, <1>3 DEF Inv

LEMMA NextInv == Inv /\ [Next]_vars => Inv'
<1> SUFFICES ASSUME Inv, [Next]_vars PROVE Inv'
  OBVIOUS
<1>1. CASE UNCHANGED vars
  BY <1>1 DEF vars, Inv, TypeOK, ClaimsExclusive, LockedRowsStable, AttemptsFitStatus,
              AttemptsIssued, CopiesFitRows, SoleClaimOpen, Holds
<1>2. ASSUME NEW j \in Jobs, Enqueue(j) \/ LeaseLapses(j) \/ Sweep(j) PROVE Inv'
  BY <1>2, EnqueueInv, LeaseLapsesInv, SweepInv
<1>3. ASSUME NEW w \in Workers, Select(w) \/ CommitClaim(w) \/ StartHandler(w) \/ Restart(w)
      PROVE  Inv'
  BY <1>3, SelectInv, CommitClaimInv, StartHandlerInv, RestartInv
<1>4. ASSUME NEW w \in Workers, TakeForCapped(w) \/ Raise(w) \/ Crash(w) PROVE Inv'
  BY <1>4, LetGoInv DEF TakeForCapped, Raise, Crash
<1>5. ASSUME NEW w \in Workers, Complete(w) \/ Fail(w) PROVE Inv'
  BY <1>5, FinishInv
<1> QED BY <1>1, <1>2, <1>3, <1>4, <1>5 DEF Next
-----------------------------------------------------------------------------
\* The claim protocol of job_claims.py keeps Inv, whatever the workers do.
THEOREM Invariance == Spec => []Inv
  BY InitInv, NextInv, PTL DEF Spec

\* Rows, copies and attempt counters stay in their types; in particular no row
\* is claimed more than MaxAttempts + 1 times.
THEOREM TypeCorrect == Spec => []TypeOK
  BY Invariance, PTL DEF Inv

\* FOR UPDATE SKIP LOCKED excludes concurrent claims of one row, and two workers
\* that run the same job run it under different attempts.
THEOREM ClaimExclusion == Spec => []ClaimsExclusive
  BY Invariance, PTL DEF Inv

-----------------------------------------------------------------------------
\* The outcome of a job claimed only once is never written over.

LEMMA FirstClaimFinalStep ==
  ASSUME Inv, [Next]_vars, NEW j \in Jobs, row[j].status \in Terminal, row[j].attempts = 1
  PROVE  row'[j] = row[j]
<1>1. CASE UNCHANGED vars
  BY <1>1 DEF vars
<1>2. ASSUME NEW i \in Jobs, Enqueue(i) \/ Sweep(i) PROVE row'[j] = row[j]
  BY <1>2 DEF Enqueue, Sweep
<1>3. ASSUME NEW i \in Jobs, LeaseLapses(i) PROVE row'[j] = row[j]
  BY <1>3 DEF LeaseLapses, Inv, TypeOK, Terminal
<1>4. ASSUME NEW w \in Workers,
             \/ Select(w) \/ TakeForCapped(w) \/ StartHandler(w)
             \/ Raise(w) \/ Crash(w) \/ Restart(w)
      PROVE  row'[j] = row[j]
  BY <1>4 DEF Select, TakeForCapped, StartHandler, Raise, Crash, Restart
<1>5. ASSUME NEW w \in Workers, CommitClaim(w) PROVE row'[j] = row[j]
  <2>1. job[w] # j
    BY <1>5 DEF CommitClaim, Inv, LockedRowsStable, Claimable, Terminal
  <2> QED BY <1>5, <2>1 DEF CommitClaim, Inv, TypeOK
<1>6. ASSUME NEW w \in Workers, Complete(w) \/ Fail(w) PROVE row'[j] = row[j]
  <2>1. Holds(w, job[w])
    BY <1>6, FinishFacts
  <2>2. job[w] # j
    BY <2>1 DEF Inv, SoleClaimOpen, Terminal
  <2> QED BY <1>6, <2>2, FinishFacts DEF Inv, TypeOK
<1> QED BY <1>1, <1>2, <1>3, <1>4, <1>5, <1>6 DEF Next

\* mark_completed and mark_failed cannot rewrite the outcome of a single claim:
\* late writes need a second claim, which needs a lapsed lease.
THEOREM FirstClaimIsFinal == Spec => FirstClaimFinal
<1>1. Inv /\ [Next]_vars =>
        [\A j \in Jobs :
           row[j].status \in Terminal /\ row[j].attempts = 1 => row'[j] = row[j]]_vars
  BY FirstClaimFinalStep
<1> QED BY <1>1, Invariance, PTL DEF Spec, FirstClaimFinal

-----------------------------------------------------------------------------
\* The job table implements JobTickets: every step is a step of it or stutters.


LEMMA PhaseSet ==
  ASSUME NEW j \in Jobs, NEW x, Phase(j)' = x, \A i \in Jobs : i # j => Phase(i)' = Phase(i)
  PROVE  phaseBar' = [phaseBar EXCEPT ![j] = x]
  BY DEF phaseBar

LEMMA PhaseKept ==
  ASSUME \A i \in Jobs : Phase(i)' = Phase(i)
  PROVE  phaseBar' = phaseBar
  BY DEF phaseBar

LEMMA IssuedKept ==
  ASSUME \A i \in Jobs : row'[i].attempts = row[i].attempts
  PROVE  issuedBar' = issuedBar
  BY DEF issuedBar

\* Steps that touch neither the job's status class nor its attempts nor ran.
LEMMA Stutters ==
  ASSUME UNCHANGED <<made, table, row, ran>>
  PROVE  UNCHANGED Tickets!tickets
<1>1. phaseBar' = phaseBar
  BY PhaseKept DEF Phase
<1>2. issuedBar' = issuedBar
  BY IssuedKept
<1> QED BY <1>1, <1>2 DEF Tickets!tickets

LEMMA InitImplementsTickets == Init => Tickets!Init
  BY DEF Init, Tickets!Init, phaseBar, issuedBar, Phase, NewRow

LEMMA EnqueueSubmits == ASSUME Inv, NEW j \in Jobs, Enqueue(j) PROVE Tickets!Submit(j)
<1>1. phaseBar[j] = "none"
  BY DEF Enqueue, Phase, phaseBar
<1>2. row[j].status = "queued"
  BY DEF Inv, AttemptsFitStatus, Enqueue
<1>3. Phase(j)' = "open"
  BY <1>2 DEF Enqueue, Phase, Terminal
<1>4. \A i \in Jobs : i # j => Phase(i)' = Phase(i)
  BY DEF Enqueue, Phase
<1>5. phaseBar' = [phaseBar EXCEPT ![j] = "open"]
  BY <1>3, <1>4, PhaseSet
<1>6. issuedBar' = issuedBar /\ ran' = ran
  BY IssuedKept DEF Enqueue
<1> QED BY <1>1, <1>5, <1>6 DEF Tickets!Submit

LEMMA ClaimIssues == ASSUME Inv, NEW w \in Workers, CommitClaim(w) PROVE job[w] \in Jobs /\ Tickets!Issue(job[w])
<1>0. PICK j \in Jobs : j = job[w]
  BY DEF CommitClaim, Inv, LockedRowsStable, TypeOK
<1>1. /\ j \in table /\ j \in made /\ j \in Jobs /\ row[j] \in Row /\ Claimable(row[j])
      /\ row' = [row EXCEPT ![j] = Claimed(row[j])]
      /\ UNCHANGED <<made, table, ran>>
  BY <1>0 DEF CommitClaim, Inv, LockedRowsStable, TypeOK
<1>2. row[j].status \notin Terminal
  BY <1>1 DEF Claimable, Terminal
<1>3. row[j].attempts \in 0..(MaxAttempts + 1) /\ ~ (row[j].attempts > MaxAttempts)
  BY <1>1, <1>2 DEF Inv, AttemptsFitStatus, Row
<1>4. row[j].attempts \in 0..MaxAttempts
  BY <1>3
<1>5. /\ Claimed(row[j]).attempts = row[j].attempts + 1
      /\ Claimed(row[j]).status \in {"running", "failed"}
      /\ (Claimed(row[j]).status = "failed") <=> (row[j].attempts + 1 > MaxAttempts)
  BY <1>1, <1>4, ClaimedFacts
<1> DEFINE next == IF row[j].attempts + 1 > MaxAttempts THEN "settled" ELSE "open"
<1>6. phaseBar[j] = "open" /\ issuedBar[j] = row[j].attempts
  BY <1>1, <1>2 DEF phaseBar, issuedBar, Phase
<1>12. row'[j] = Claimed(row[j]) /\ \A i \in Jobs : i # j => row'[i] = row[i]
  BY <1>1 DEF Inv, TypeOK
<1>7. Phase(j)' = next
  <2>1. (row'[j].status \in Terminal) <=> (row[j].attempts + 1 > MaxAttempts)
    BY <1>5, <1>12 DEF Terminal
  <2> QED BY <1>1, <2>1 DEF Phase
<1>8. \A i \in Jobs : i # j => Phase(i)' = Phase(i)
  BY <1>1, <1>12 DEF Phase
<1>9. phaseBar' = [phaseBar EXCEPT ![j] = next]
  BY <1>1, <1>7, <1>8, PhaseSet
<1>10. issuedBar' = [issuedBar EXCEPT ![j] = row[j].attempts + 1]
  BY <1>1, <1>5 DEF issuedBar, Inv, TypeOK
<1>11. issuedBar' = [issuedBar EXCEPT ![j] = issuedBar[j] + 1]
  BY <1>6, <1>10
<1> QED BY <1>0, <1>1, <1>6, <1>9, <1>11 DEF Tickets!Issue

LEMMA HandlerStarts ==
  ASSUME Inv, NEW w \in Workers, StartHandler(w)
  PROVE  Tickets!Start(job[w], attempt[w]) /\ job[w] \in Jobs /\ attempt[w] \in 1..(MaxAttempts + 1)
<1> DEFINE j == job[w]
<1>1. /\ j \in table /\ j \in made /\ j \in Jobs /\ row[j] \in Row /\ Holds(w, j)
      /\ pc[w] = "claimed"
      /\ ran' = [ran EXCEPT ![j] = @ \cup {attempt[w]}]
      /\ UNCHANGED <<made, table, row>>
  BY DEF StartHandler, Inv, TypeOK, Holds
<1>2. attempt[w] \in 1..row[j].attempts /\ attempt[w] \notin ran[j]
  BY <1>1 DEF Inv, AttemptsIssued
<1>3. phaseBar[j] \in {"open", "settled"} /\ issuedBar[j] = row[j].attempts
  BY <1>1 DEF phaseBar, issuedBar, Phase
<1>4. phaseBar' = phaseBar
  BY <1>1, PhaseKept DEF Phase
<1>5. issuedBar' = issuedBar
  BY <1>1, IssuedKept
<1>6. row[j].attempts \in 0..(MaxAttempts + 1)
  BY <1>1 DEF Row
<1>7. attempt[w] \in 1..(MaxAttempts + 1)
  BY <1>2, <1>6
<1> QED BY <1>1, <1>2, <1>3, <1>4, <1>5, <1>7 DEF Tickets!Start

LEMMA FinishSettles ==
  ASSUME Inv, NEW w \in Workers, Complete(w) \/ Fail(w)
  PROVE  job[w] \in Jobs /\ (Tickets!Settle(job[w]) \/ UNCHANGED Tickets!tickets)
<1>0. PICK j \in Jobs : j = job[w]
  BY FinishFacts
<1>1. /\ Holds(w, j) /\ pc[w] = "running" /\ j \in table /\ j \in Jobs
      /\ UNCHANGED <<made, table, ran>>
  BY <1>0, FinishFacts
<1>2. PICK r \in Row : /\ row' = [row EXCEPT ![j] = r]
                       /\ r.attempts = row[j].attempts /\ r.status \in Terminal
  BY <1>0, FinishFacts
<1>3. j \in made /\ ran[j] # {}
  BY <1>1 DEF Inv, TypeOK, AttemptsIssued
<1>4. issuedBar' = issuedBar
  <2>1. \A i \in Jobs : row'[i].attempts = row[i].attempts
    BY <1>1, <1>2 DEF Inv, TypeOK
  <2> QED BY <2>1, IssuedKept
<1>12. row'[j] = r /\ \A i \in Jobs : i # j => row'[i] = row[i]
  BY <1>1, <1>2 DEF Inv, TypeOK
<1>5. Phase(j)' = "settled"
  BY <1>1, <1>2, <1>3, <1>12 DEF Phase
<1>6. \A i \in Jobs : i # j => Phase(i)' = Phase(i)
  BY <1>1, <1>12 DEF Phase
<1>7. phaseBar' = [phaseBar EXCEPT ![j] = "settled"]
  BY <1>1, <1>5, <1>6, PhaseSet
<1>8. phaseBar[j] = Phase(j) /\ phaseBar = [phaseBar EXCEPT ![j] = phaseBar[j]]
  BY <1>1 DEF phaseBar
<1>9. Phase(j) \in {"open", "settled"}
  BY <1>1, <1>3 DEF Phase
<1>10. CASE Phase(j) = "open"
  BY <1>0, <1>1, <1>3, <1>4, <1>7, <1>8, <1>10 DEF Tickets!Settle
<1>11. CASE Phase(j) = "settled"
  BY <1>0, <1>1, <1>4, <1>7, <1>8, <1>11 DEF Tickets!tickets
<1> QED BY <1>0, <1>9, <1>10, <1>11

LEMMA SweepRemoves == ASSUME Inv, NEW j \in Jobs, Sweep(j) PROVE Tickets!Remove(j)
<1>1. j \in table /\ j \in made /\ table' = table \ {j} /\ UNCHANGED <<made, row, ran>>
  BY DEF Sweep, Inv, TypeOK
<1>2. phaseBar[j] \in {"open", "settled"}
  BY <1>1 DEF phaseBar, Phase
<1>3. Phase(j)' = "gone" /\ \A i \in Jobs : i # j => Phase(i)' = Phase(i)
  BY <1>1 DEF Phase
<1>4. phaseBar' = [phaseBar EXCEPT ![j] = "gone"]
  BY <1>3, PhaseSet
<1>5. issuedBar' = issuedBar
  BY <1>1, IssuedKept
<1> QED BY <1>1, <1>2, <1>4, <1>5 DEF Tickets!Remove

LEMMA LapseStutters == ASSUME Inv, NEW j \in Jobs, LeaseLapses(j) PROVE UNCHANGED Tickets!tickets
<1>1. row[j] \in Row /\ row' = [row EXCEPT ![j] = Lapsed(row[j])] /\ UNCHANGED <<made, table, ran>>
  BY DEF LeaseLapses, Inv, TypeOK
<1>2. \A i \in Jobs : /\ row'[i].attempts = row[i].attempts /\ row'[i].status = row[i].status
  BY <1>1, LapsedFacts DEF Inv, TypeOK
<1>3. phaseBar' = phaseBar
  BY <1>1, <1>2, PhaseKept DEF Phase
<1>4. issuedBar' = issuedBar
  BY <1>2, IssuedKept
<1> QED BY <1>1, <1>3, <1>4 DEF Tickets!tickets

LEMMA StepImplementsTickets == Inv /\ [Next]_vars => [Tickets!Next]_(Tickets!tickets)
<1> SUFFICES ASSUME Inv, [Next]_vars PROVE Tickets!Next \/ UNCHANGED Tickets!tickets
  OBVIOUS
<1>1. CASE UNCHANGED vars
  BY <1>1, Stutters DEF vars
<1>2. ASSUME NEW j \in Jobs, Enqueue(j) \/ LeaseLapses(j) \/ Sweep(j)
      PROVE  Tickets!Next \/ UNCHANGED Tickets!tickets
  BY <1>2, EnqueueSubmits, LapseStutters, SweepRemoves DEF Tickets!Next
<1>3. ASSUME NEW w \in Workers, CommitClaim(w) PROVE Tickets!Next
  BY <1>3, ClaimIssues DEF Tickets!Next
<1>4. ASSUME NEW w \in Workers, StartHandler(w) PROVE Tickets!Next
  BY <1>4, HandlerStarts DEF Tickets!Next
<1>5. ASSUME NEW w \in Workers, Complete(w) \/ Fail(w)
      PROVE  Tickets!Next \/ UNCHANGED Tickets!tickets
  BY <1>5, FinishSettles DEF Tickets!Next
<1>6. ASSUME NEW w \in Workers,
             Select(w) \/ TakeForCapped(w) \/ Raise(w) \/ Crash(w) \/ Restart(w)
      PROVE  UNCHANGED Tickets!tickets
  BY <1>6, Stutters DEF Select, TakeForCapped, Raise, Crash, Restart
<1> QED BY <1>1, <1>2, <1>3, <1>4, <1>5, <1>6 DEF Next

\* The claims of job_claims.py with the marks of the job repositories implement
\* the tickets: bounded claims, one handler run per claim, no claim of a settled job.
THEOREM TicketsImplemented == Spec => ImplementsTickets
  BY InitImplementsTickets, StepImplementsTickets, Invariance, PTL
     DEF Spec, ImplementsTickets, Tickets!Spec
=============================================================================
