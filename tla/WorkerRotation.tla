--------------------------- MODULE WorkerRotation --------------------------
(***************************************************************************)
(* The order in which a worker looks at its queues (app/worker.py): each   *)
(* pass starts one queue further than the last, and ends at the first      *)
(* queue that had a job.  What the queues hold at a pass is up to the      *)
(* enqueuers and the other workers.                                        *)
(***************************************************************************)
EXTENDS Integers

CONSTANT Queues           \* _QUEUE_COUNT, 3: extraction, ingestion, reports

ASSUME QueuesAssumption == Queues \in Nat \ {0}

VARIABLES turn,           \* the queue the next pass starts at
          waited          \* for each queue, the passes in a row that found
                          \* a job in it or would have, and ran another's

workerVars == <<turn, waited>>

Queue == 0..(Queues - 1)
Idle  == Queues           \* a pass that found every queue empty

\* (first + offset) % _QUEUE_COUNT: both are below the count, so the sum wraps
\* around once at most.
Wrap(n) == IF n < Queues THEN n ELSE n - Queues

\* run_next_job: whose job a pass runs that starts at first, when the queues of
\* backlog have one.
RunNextJob(first, backlog) ==
  LET hits == {offset \in Queue : Wrap(first + offset) \in backlog}
  IN IF hits = {} THEN Idle
     ELSE Wrap(first + CHOOSE o \in hits : \A p \in hits : o <= p)

\* Mutant of NextTurn: the turn is kept while there is work.
NextTurnStuck(first, ran) == IF ran # Idle THEN first ELSE Wrap(first + 1)

\* main: rotates after every pass, whatever it ran.
NextTurn(first, ran) == Wrap(first + 1)

WorkerInit == turn = 0 /\ waited = [q \in Queue |-> 0]

\* One turn of main's loop.
Pass(backlog) ==
  LET ran == RunNextJob(turn, backlog) IN
    /\ turn' = NextTurn(turn, ran)
    /\ waited' = [q \in Queue |-> IF q \in backlog /\ ran # q THEN waited[q] + 1 ELSE 0]

WorkerNext == \E backlog \in SUBSET Queue : Pass(backlog)
WorkerSpec == WorkerInit /\ [][WorkerNext]_workerVars
-----------------------------------------------------------------------------
(* What it promises                                                        *)

\* The turn is a queue, and the counters count.
RotationTypeOK == turn \in Queue /\ waited \in [Queue -> Nat]

\* worker.py: "a backlog in one queue cannot starve the others": a queue that
\* has a job at every pass is served before it was passed over as often as there
\* are queues, whatever the others hold.
NoQueueStarves == \A q \in Queue : waited[q] < Queues

\* Why: how often q can have been passed over since a pass started at it.
Since(q) == IF turn > q THEN turn - q - 1 ELSE turn - q - 1 + Queues
RotationInv == RotationTypeOK /\ \A q \in Queue : waited[q] <= Since(q)
=============================================================================
