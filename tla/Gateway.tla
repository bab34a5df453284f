------------------------------ MODULE Gateway ------------------------------
(***************************************************************************)
(* A request on its way to a service: its token's key (JwksCache), the     *)
(* token's claims (app/auth/verifier.py), the role, the tenant's budget    *)
(* (RateLimit, app/api/deps.py), then the service, and the status that     *)
(* each exception becomes (app/errors.py).                                 *)
(*                                                                         *)
(* The requests of a process share one event loop: between the waits for a *)
(* fetch and for the service, a request runs without interruption.         *)
(***************************************************************************)
EXTENDS JwksCache, RateLimit

CONSTANT Tokens       \* of a request: kid, claims, role, tenant and endpoint

ASSUME TokensAssumption ==
  \A token \in Tokens : token.tenant \in Tenants
                         /\ token.endpoint \in {"enqueue", "review", "read"}

VARIABLES req,        \* for each request, where it is
          passed      \* for each tenant, the requests let through in its window

vars == <<req, passed, jwksVars, rateVars>>

Idle     == [state |-> "idle"]
Endpoints == {"enqueue", "review", "read"}

\* require_role: AdminPrincipal, ReviewerPrincipal, PrincipalDep.
Allowed(endpoint) == CASE endpoint = "enqueue" -> {"admin"}
                       [] endpoint = "review"  -> {"admin", "reviewer"}
                       [] endpoint = "read"    -> {"admin", "reviewer"}

\* register_exception_handlers; what no handler takes is the server's fault.
StatusOf(outcome) ==
  CASE outcome = "done" -> 200
    [] outcome = "AuthenticationError" -> 401
    [] outcome = "AuthorizationError"  -> 403
    [] outcome \in {"DocumentNotFoundError", "ExtractionJobNotFoundError",
                    "IngestionJobNotFoundError", "ChangeReportJobNotFoundError",
                    "ReviewItemNotFoundError"} -> 404
    [] outcome \in {"DocumentAlreadyExistsError", "DocumentHasAmendmentsError",
                    "IngestionJobConflictError", "ExtractionJobConflictError",
                    "DocumentNotParsedError", "AmendmentMismatchError",
                    "PrerequisiteMissingError", "ReviewItemAlreadyResolvedError"} -> 409
    [] outcome = "UploadTooLargeError" -> 413
    [] outcome = "MimeNotAllowedError" -> 415
    [] outcome = "RateLimitExceededError" -> 429
    [] outcome \in {"JwksUnavailableError", "LlmCallError", "LlmOutputError"} -> 502
    [] outcome \in {"AuthNotConfiguredError", "LlmNotConfiguredError"} -> 503
    [] OTHER -> 500

\* What the service of an endpoint may raise.
Outcomes(endpoint) ==
  CASE endpoint = "enqueue" -> {"done", "DocumentNotFoundError", "ExtractionJobConflictError"}
    [] endpoint = "review"  -> {"done", "ReviewItemNotFoundError",
                                "ReviewItemAlreadyResolvedError"}
    [] endpoint = "read"    -> {"done", "ChangeReportJobNotFoundError", "LlmCallError"}

\* back: the ticks from a refusal until its caller may try again.
Answered(token, outcome, back) ==
  [state |-> "answered", token |-> token, status |-> StatusOf(outcome), back |-> back]
Answer(r, token, outcome) ==
  req' = [req EXCEPT ![r] = Answered(token, outcome, 0)] /\ UNCHANGED <<passed, rateVars>>
Enter(r, token) == req' = [req EXCEPT ![r] = [state |-> "service", token |-> token]]

\* llm_rate_limit; the time is read again after the hit, when a tick may have
\* passed.
Enforce(r, token) ==
  LET t == token.tenant IN
    /\ Hit(t)
    /\ IF Admits(t)
       THEN Enter(r, token) /\ passed' = [passed EXCEPT ![t] = @ + 1]
       ELSE /\ \E late \in {0, 1} : req' = [req EXCEPT ![r] =
                 Answered(token, "RateLimitExceededError",
                          late + Second * RetryAfter(left'[t] - late))]
            /\ UNCHANGED passed

\* Mutant of Decide: the budget is spent before the role is looked at.
DecideSpendFirst(r, token, known) ==
  CASE ~ known \/ ~ token.valid -> Answer(r, token, "AuthenticationError")
    [] known /\ token.valid /\ token.role \notin Allowed(token.endpoint) ->
         /\ Hit(token.tenant) /\ UNCHANGED passed
         /\ req' = [req EXCEPT ![r] = Answered(token, "AuthorizationError", 0)]
    [] known /\ token.valid /\ token.role \in Allowed(token.endpoint) ->
         IF token.endpoint = "enqueue" THEN Enforce(r, token)
         ELSE Enter(r, token) /\ UNCHANGED <<passed, rateVars>>

\* verify_token behind get_key, authorize, enforce: all that is decided once the
\* key is known or known to be missing.
Decide(r, token, known) ==
  CASE ~ known \/ ~ token.valid -> Answer(r, token, "AuthenticationError")
    [] known /\ token.valid /\ token.role \notin Allowed(token.endpoint) ->
         Answer(r, token, "AuthorizationError")
    [] known /\ token.valid /\ token.role \in Allowed(token.endpoint) ->
         IF token.endpoint = "enqueue" THEN Enforce(r, token)
         ELSE Enter(r, token) /\ UNCHANGED <<passed, rateVars>>
-----------------------------------------------------------------------------
Free(r) == req[r].state \in {"idle", "answered"}

\* get_principal, verify_token: no bearer token, or a malformed one.
Anonymous(r, token) == /\ Free(r) /\ ~ token.valid /\ Answer(r, token, "AuthenticationError")
                       /\ UNCHANGED jwksVars

\* get_principal, get_key without a fetch.
Arrive(r, token) == /\ Free(r) /\ ~ NeedsFetch(token.kid)
                    /\ Decide(r, token, token.kid \in keys)
                    /\ UNCHANGED jwksVars

\* get_key up to the await in _fetch.
ArriveAsking(r, token) ==
  /\ Free(r) /\ NeedsFetch(token.kid) /\ Ask(r)
  /\ req' = [req EXCEPT ![r] = [state |-> "verifying", token |-> token]]
  /\ UNCHANGED <<passed, rateVars>>

\* get_key from there: the keys are replaced and looked up in one go.
Verify(r) == /\ req[r].state = "verifying" /\ Land(r)
             /\ Decide(r, req[r].token, req[r].token.kid \in keys')

Unavailable(r) == /\ req[r].state = "verifying" /\ Fail(r)
                  /\ Answer(r, req[r].token, "JwksUnavailableError")

Service(r) == /\ req[r].state = "service"
              /\ \E outcome \in Outcomes(req[r].token.endpoint) :
                   Answer(r, req[r].token, outcome)
              /\ UNCHANGED jwksVars

Issuer == /\ (\E r \in Requests : Serve(r)) \/ (\E k \in Kids : Rotate(k))
          /\ UNCHANGED <<req, passed, rateVars>>

Tick == /\ JwksTick /\ RateTick
        /\ passed' = [t \in Tenants |-> IF left'[t] = 0 THEN 0 ELSE passed[t]]
        /\ UNCHANGED req

Init == /\ JwksInit /\ RateInit /\ passed = [t \in Tenants |-> 0]
        /\ req = [r \in Requests |-> Idle]

Next == \/ \E r \in Requests, token \in Tokens :
             Anonymous(r, token) \/ Arrive(r, token) \/ ArriveAsking(r, token)
        \/ \E r \in Requests : Verify(r) \/ Unavailable(r) \/ Service(r)
        \/ Issuer \/ Tick

Spec == Init /\ [][Next]_vars
-----------------------------------------------------------------------------
\* Steps that let a request into the service, and that answer it with a status.
Enters(r) == req'[r] # req[r] /\ req'[r].state = "service"
Rejects(r, status) ==
  req'[r] # req[r] /\ req'[r].state = "answered" /\ req'[r].status = status

\* jwks.py, cache_seconds: a token is let through only if its key was still
\* published within the cache's lifetime and the time of a fetch, whatever
\* fetches overtook each other or failed.
WithdrawnKeysExpire ==
  [][\A r \in Requests : Enters(r) =>
       WithdrawnFor(req'[r].token.kid) <= CacheTicks + Latency]_vars

\* jwks.py: "a freshly rotated key verifies within seconds instead of waiting
\* out the cache": no good token is turned away once its key has been published
\* for the refresh interval and the time of a fetch.
RotationIsPickedUp ==
  [][\A r \in Requests : Rejects(r, 401) /\ req'[r].token.valid =>
       PublishedFor(req'[r].token.kid) <= Refresh + Latency]_vars

\* ratelimit.py, deps.py: "the role check ahead of the spend": in a window a
\* tenant gets as many requests through as were counted, up to its amount;
\* nobody who is turned away for another reason costs it one.
BudgetKept == \A t \in Tenants : passed[t] = Min({count[t], AmountFor(t)})

\* errors.py: "retryable when the tenant's window resets": who comes back when
\* told finds the window over, and was not kept a second longer.
RefusalsOutlastWindow ==
  [][\A r \in Requests : Rejects(r, 429) =>
       LET ends == left'[req'[r].token.tenant]
       IN ends <= req'[r].back /\ req'[r].back <= ends + Second]_vars
=============================================================================
