----------------------------- MODULE JobTickets -----------------------------
(***************************************************************************)
(* What a job table promises its users, told without rows, locks, leases   *)
(* or workers.  A job hands out tickets, one per claim, until it settles.  *)
(* A ticket starts the handler at most once, there are at most             *)
(* MaxAttempts + 1 of them (the last one settles the job), and a settled   *)
(* job never opens again, whatever happens to workers and leases.          *)
(***************************************************************************)
EXTENDS Naturals

CONSTANTS Jobs, MaxAttempts

VARIABLES
  phase,    \* "none", then "open", "settled", "gone"
  issued,   \* tickets handed out
  started   \* tickets whose handler was started

tickets == <<phase, issued, started>>

Init ==
  /\ phase = [j \in Jobs |-> "none"]
  /\ issued = [j \in Jobs |-> 0]
  /\ started = [j \in Jobs |-> {}]

Submit(j) ==
  /\ phase[j] = "none"
  /\ phase' = [phase EXCEPT ![j] = "open"]
  /\ UNCHANGED <<issued, started>>

Issue(j) ==
  /\ phase[j] = "open"
  /\ issued' = [issued EXCEPT ![j] = @ + 1]
  /\ phase' = [phase EXCEPT ![j] = IF issued[j] + 1 > MaxAttempts
                                   THEN "settled" ELSE "open"]
  /\ UNCHANGED started

Start(j, n) ==
  /\ phase[j] \in {"open", "settled"}
  /\ n \in 1..issued[j]
  /\ n \notin started[j]
  /\ started' = [started EXCEPT ![j] = @ \cup {n}]
  /\ UNCHANGED <<phase, issued>>

\* The outcome is written; a later one may replace it, the job stays settled.
Settle(j) ==
  /\ phase[j] = "open"
  /\ started[j] # {}
  /\ phase' = [phase EXCEPT ![j] = "settled"]
  /\ UNCHANGED <<issued, started>>

Remove(j) ==
  /\ phase[j] \in {"open", "settled"}
  /\ phase' = [phase EXCEPT ![j] = "gone"]
  /\ UNCHANGED <<issued, started>>

Next == \E j \in Jobs :
  \/ Submit(j)
  \/ Issue(j)
  \/ \E n \in 1..(MaxAttempts + 1) : Start(j, n)
  \/ Settle(j)
  \/ Remove(j)

Spec == Init /\ [][Next]_tickets
=============================================================================
