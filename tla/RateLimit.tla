----------------------------- MODULE RateLimit -----------------------------
(***************************************************************************)
(* The budget of enqueue requests (app/ratelimit.py) over a fixed window   *)
(* that begins with its first hit.  The storage is the library's:          *)
(* a counter per key that is dropped when its window is over.  A budget is *)
(* one kind of request of one tenant, with the amount of its tier.         *)
(***************************************************************************)
EXTENDS Integers, FiniteSetsExt

CONSTANTS Tenants, DemoTenants,   \* DemoTenants: demo_tenant_ids
          Standard, Demo,         \* requests in an hour, standard and demo tier
          Hour, Second            \* in ticks

ASSUME RateAssumption ==
  /\ DemoTenants \subseteq Tenants
  /\ Standard \in Nat \ {0} /\ Demo \in Nat \ {0}
  /\ Hour \in Nat \ {0} /\ Second \in Nat \ {0}

VARIABLES count,    \* for each tenant, the hits of its window
          left      \* ... and the time until the window ends; zero when none is open

rateVars == <<count, left>>

\* _amount_for
AmountFor(t) == IF t \in DemoTenants THEN Demo ELSE Standard

RateInit == count = [t \in Tenants |-> 0] /\ left = [t \in Tenants |-> 0]

Admits(t) == count[t] + 1 <= AmountFor(t)

\* _limiter.hit: the first hit opens the window; refused ones are counted too,
\* though no more than shows (the counter stops one above the amount here).
Hit(t) ==
  /\ left' = [left EXCEPT ![t] = IF @ = 0 THEN Hour ELSE @]
  /\ count' = [count EXCEPT ![t] = Min({@ + 1, AmountFor(t) + 1})]

\* Mutant of RetryAfter: the seconds are rounded down.
RetryAfterDown(ticks) == Max({1, ticks \div Second})

\* enforce: what a refused caller is told, in seconds, when so many ticks are
\* left of the window, or fewer than none; int() cuts towards zero.
RetryAfter(ticks) == Max({1, (IF ticks < 0 THEN 0 ELSE ticks \div Second) + 1})

\* Time passes; the storage drops a counter whose window is over.
RateTick ==
  LET over(t) == left[t] <= 1
  IN /\ left' = [t \in Tenants |-> Max({0, left[t] - 1})]
     /\ count' = [t \in Tenants |-> IF over(t) THEN 0 ELSE count[t]]
=============================================================================
