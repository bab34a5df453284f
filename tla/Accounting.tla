---------------------------- MODULE Accounting -----------------------------
(***************************************************************************)
(* What a tenant is told it spent (app/services/usage.py,                  *)
(* app/repositories/llm_usage.py): usage rows summed by group and in all,  *)
(* by two SELECTs between which a worker may commit another row.           *)
(*                                                                         *)
(* A row is the kind of its job, the job, or NoJob for a call of a         *)
(* request, and what it cost.                                              *)
(***************************************************************************)
EXTENDS Ordered, SequencesExt, FiniteSetsExt

NoJob == "none"

\* _SPEND_TOTALS and _spend_row: the sums of some rows, zero of none.
Totals(rows) ==
  [calls |-> Len(rows),
   cost  |-> SumFunction([i \in DOMAIN rows |-> rows[i].cost])]

Groups(rows, key(_)) ==
  {[group |-> k, sums |-> Totals(Selected(rows, {i \in DOMAIN rows : key(rows[i]) = k}))] :
     k \in {key(rows[i]) : i \in DOMAIN rows}}

SpendByJobType(rows) == Groups(rows, LAMBDA r : <<r.kind>>)
SpendByJob(rows)     == Groups(rows, LAMBDA r : <<r.kind, r.job>>)

\* Mutant of SpendTotal: calls made outside a job are left out.
SpendOfJobs(rows) == Totals(Selected(rows, {i \in DOMAIN rows : rows[i].job # NoJob}))

SpendTotal(rows) == Totals(rows)

\* spend: the groups of the rows there are, then the total of those and the
\* ones committed meanwhile.
Spend(rows, meanwhile, groupBy) ==
  [rows  |-> IF groupBy = "job" THEN SpendByJob(rows) ELSE SpendByJobType(rows),
   total |-> SpendTotal(rows \o meanwhile)]
-----------------------------------------------------------------------------
(* What it promises                                                        *)

\* usage.py: "grouped rows plus the tenant's whole spend": the total is that of
\* the groups and of what was committed between the two reads, never less, and
\* both groupings agree.
SpendReportAddsUp(rows, meanwhile) ==
  \A groupBy \in {"job", "job_type"} :
    LET report == Spend(rows, meanwhile, groupBy)
        sum(f(_)) == SumFunction([g \in report.rows |-> f(g.sums)])
        calls(s) == s.calls
        cost(s)  == s.cost
    IN /\ report.total.calls = sum(calls) + Len(meanwhile)
       /\ report.total.cost >= sum(cost)
       /\ meanwhile = <<>> => report.total.cost = sum(cost)
=============================================================================
