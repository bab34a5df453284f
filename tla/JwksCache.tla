----------------------------- MODULE JwksCache -----------------------------
(***************************************************************************)
(* The signing keys an API process knows (app/auth/jwks.py): fetched from  *)
(* the identity provider, kept for a while, asked for again when a token   *)
(* names a key that is not among them.                                     *)
(*                                                                         *)
(* Time is in ticks.  Instead of the times the code keeps, the model keeps *)
(* how long ago they were, up to the largest age that makes a difference.  *)
(***************************************************************************)
EXTENDS Integers, FiniteSetsExt

CONSTANTS Kids,        \* the keys the provider publishes and withdraws
          Requests,    \* requests in flight at once
          Refresh,     \* _UNKNOWN_KID_REFRESH_SECONDS, 30
          CacheTicks,  \* cache_seconds, 600
          Latency      \* the longest a fetch takes (the HTTP client's timeout)

ASSUME JwksAssumption ==
  Refresh \in Nat /\ CacheTicks \in Nat /\ Latency \in Nat /\ Refresh <= CacheTicks

VARIABLES keys,        \* _keys
          keysAge,     \* time.monotonic() - _fetched_at
          published,   \* the keys the provider serves
          since,       \* for each key, the time since it was published or withdrawn
          fetch        \* for each request, the fetch it waits for

jwksVars == <<keys, keysAge, published, since, fetch>>

MaxAge  == CacheTicks + Latency + 1
Older(age) == Min({age + 1, MaxAge})

NoFetch == [status |-> "none"]
Asked   == [status |-> "asked", age |-> 0]
InFlight(r) == fetch[r] # NoFetch

\* _fetched_at starts at minus infinity.
JwksInit ==
  /\ keys = {} /\ keysAge = MaxAge
  /\ published \in SUBSET Kids /\ since = [k \in Kids |-> MaxAge]
  /\ fetch = [r \in Requests |-> NoFetch]

\* Mutant of NeedsFetch: only an expired cache is fetched again.
NeedsFetchExpired(kid) == keysAge > CacheTicks

\* Mutant of NeedsFetch: a key that is known is good for ever.
NeedsFetchUnknown(kid) == kid \notin keys /\ keysAge > Refresh

\* get_key: expired, or unknown_kid_refresh.
NeedsFetch(kid) == \/ keysAge > CacheTicks
                   \/ kid \notin keys /\ keysAge > Refresh

\* _fetch, up to its await; nothing keeps two requests from fetching at once.
Ask(r) == /\ ~ InFlight(r)
          /\ fetch' = [fetch EXCEPT ![r] = Asked]
          /\ UNCHANGED <<keys, keysAge, published, since>>

\* The provider reads its keys for the answer.
Serve(r) == /\ fetch[r].status = "asked"
            /\ fetch' = [fetch EXCEPT ![r] =
                           [status |-> "served", age |-> @.age, answer |-> published]]
            /\ UNCHANGED <<keys, keysAge, published, since>>

\* The answer arrives, possibly after one that was asked for later.
Land(r) == /\ fetch[r].status = "served"
           /\ keys' = fetch[r].answer
           /\ keysAge' = 0
           /\ fetch' = [fetch EXCEPT ![r] = NoFetch]
           /\ UNCHANGED <<published, since>>

\* JwksUnavailableError: neither the keys nor their age change.
Fail(r) == /\ InFlight(r)
           /\ fetch' = [fetch EXCEPT ![r] = NoFetch]
           /\ UNCHANGED <<keys, keysAge, published, since>>

\* The provider publishes or withdraws a key.
Rotate(k) == /\ published' = (published \cup {k}) \ (published \cap {k})
             /\ since' = [since EXCEPT ![k] = 0]
             /\ UNCHANGED <<keys, keysAge, fetch>>

\* Time passes, not beyond what a fetch may take.
JwksTick == /\ \A r \in Requests : InFlight(r) => fetch[r].age < Latency
            /\ keysAge' = Older(keysAge)
            /\ since' = [k \in Kids |-> Older(since[k])]
            /\ fetch' = [r \in Requests |->
                 IF InFlight(r) THEN [fetch[r] EXCEPT !.age = @ + 1] ELSE NoFetch]
            /\ UNCHANGED <<keys, published>>
-----------------------------------------------------------------------------
\* How long a key has been out of use, and in use.
WithdrawnFor(k) == IF k \in published THEN 0 ELSE since[k]
PublishedFor(k) == IF k \in published THEN since[k] ELSE 0
=============================================================================
