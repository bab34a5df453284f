--------------------------- MODULE GatewayProofs ---------------------------
(***************************************************************************)
(* How long a key is trusted, how long a new one is refused, and whose     *)
(* requests a budget pays for, whatever the keys, the tokens, the tenants  *)
(* and the times.                                                          *)
(***************************************************************************)
EXTENDS Gateway, TLAPS

-----------------------------------------------------------------------------
(* The smaller and the larger of two                                       *)

LEMMA MinOfTwo ==
  ASSUME NEW a \in Int, NEW b \in Int
  PROVE  Min({a, b}) = IF a <= b THEN a ELSE b
<1> DEFINE least(x) == \A y \in {a, b} : x <= y
           m == IF a <= b THEN a ELSE b
<1>1. m \in {a, b} /\ least(m)
  OBVIOUS
<1>2. \A x \in {a, b} : least(x) => x = m
  OBVIOUS
<1> HIDE DEF least, m
<1>3. (CHOOSE x \in {a, b} : least(x)) = m
  BY <1>1, <1>2
<1> QED BY <1>3 DEF least, m, Min

LEMMA MaxOfTwo ==
  ASSUME NEW a \in Int, NEW b \in Int
  PROVE  Max({a, b}) = IF a >= b THEN a ELSE b
<1> DEFINE most(x) == \A y \in {a, b} : x >= y
           m == IF a >= b THEN a ELSE b
<1>1. m \in {a, b} /\ most(m)
  OBVIOUS
<1>2. \A x \in {a, b} : most(x) => x = m
  OBVIOUS
<1> HIDE DEF most, m
<1>3. (CHOOSE x \in {a, b} : most(x)) = m
  BY <1>1, <1>2
<1> QED BY <1>3 DEF most, m, Max

-----------------------------------------------------------------------------
(* The budget                                                              *)

\* A request that is under way carries one of the tokens.
Carries(q) == q.state \in {"verifying", "service"} => q.token \in Tokens

\* RateLimit counts, and what the counter shows is what was let through.
BudgetInv ==
  /\ count \in [Tenants -> Nat]
  /\ left \in [Tenants -> Nat]
  /\ passed \in [Tenants -> Nat]
  /\ \A r \in Requests : Carries(req[r])
  /\ req = [r \in Requests |-> req[r]]
  /\ BudgetKept

LEMMA AmountIsPositive == \A t \in Tenants : AmountFor(t) \in Nat \ {0}
BY RateAssumption DEF AmountFor

LEMMA BudgetStarts == Init => BudgetInv
<1> SUFFICES ASSUME Init PROVE BudgetInv
  OBVIOUS
<1>1. \A t \in Tenants : Min({0, AmountFor(t)}) = 0
  BY MinOfTwo, AmountIsPositive
<1> QED BY <1>1 DEF Init, RateInit, BudgetInv, BudgetKept, Idle, Carries

\* ratelimit.enforce: a hit that is admitted is passed, any other shows as one
\* too many.
LEMMA EnforceKeepsBudget ==
  ASSUME BudgetInv, NEW r \in Requests, NEW token \in Tokens, Enforce(r, token)
  PROVE  BudgetInv'
<1> DEFINE t == token.tenant
           shown == IF count[t] <= AmountFor(t) THEN count[t] + 1 ELSE AmountFor(t) + 1
           granted == IF count[t] + 1 <= AmountFor(t) THEN passed[t] + 1 ELSE passed[t]
<1>1. t \in Tenants
  BY TokensAssumption
<1>2. count[t] \in Nat /\ passed[t] \in Nat /\ AmountFor(t) \in Nat \ {0} /\ Hour \in Nat
  BY <1>1, AmountIsPositive, RateAssumption DEF BudgetInv
<1>3. passed[t] = IF count[t] <= AmountFor(t) THEN count[t] ELSE AmountFor(t)
  <2>1. passed[t] = Min({count[t], AmountFor(t)})
    BY <1>1 DEF BudgetInv, BudgetKept
  <2>2. Min({count[t], AmountFor(t)}) = IF count[t] <= AmountFor(t) THEN count[t] ELSE AmountFor(t)
    BY <1>2, MinOfTwo
  <2> QED BY <2>1, <2>2
<1>4. shown \in Nat /\ granted \in Nat
  BY <1>2
<1>5. granted = Min({shown, AmountFor(t)})
  <2>1. Min({shown, AmountFor(t)}) = IF shown <= AmountFor(t) THEN shown ELSE AmountFor(t)
    BY <1>2, <1>4, MinOfTwo
  <2> QED BY <1>2, <1>3, <2>1
<1>6. count' = [count EXCEPT ![t] = shown]
  <2>1. Min({count[t] + 1, AmountFor(t) + 1}) = shown
    <3>1. Min({count[t] + 1, AmountFor(t) + 1})
            = IF count[t] + 1 <= AmountFor(t) + 1 THEN count[t] + 1 ELSE AmountFor(t) + 1
      BY <1>2, MinOfTwo
    <3> QED BY <1>2, <3>1
  <2>2. count' = [count EXCEPT ![t] = Min({count[t] + 1, AmountFor(t) + 1})]
    BY DEF Enforce, Hit
  <2> HIDE DEF shown
  <2> QED BY <2>1, <2>2
<1>7. left' \in [Tenants -> Nat]
  BY <1>1, <1>2 DEF Enforce, Hit, BudgetInv
<1>8. passed' = [passed EXCEPT ![t] = granted]
  <2>1. CASE Admits(t)
    BY <2>1, <1>1, <1>2 DEF Enforce, Admits
  <2>2. CASE ~ Admits(t)
    BY <2>2, <1>1, <1>2 DEF Enforce, Admits, BudgetInv
  <2> QED BY <2>1, <2>2
<1>9. \E answer : req' = [req EXCEPT ![r] = answer] /\ Carries(answer)
  <2>1. CASE Admits(t)
    <3>1. req' = [req EXCEPT ![r] = [state |-> "service", token |-> token]]
      BY <2>1 DEF Enforce, Enter
    <3>2. Carries([state |-> "service", token |-> token])
      BY DEF Carries
    <3> QED BY <3>1, <3>2
  <2>2. CASE ~ Admits(t)
    <3>1. PICK late \in {0, 1} : req' = [req EXCEPT ![r] =
            Answered(token, "RateLimitExceededError", late + Second * RetryAfter(left'[t] - late))]
      BY <2>2 DEF Enforce
    <3>2. Carries(Answered(token, "RateLimitExceededError",
                           late + Second * RetryAfter(left'[t] - late)))
      BY DEF Answered, Carries
    <3> QED BY <3>1, <3>2
  <2> QED BY <2>1, <2>2
<1>10. /\ req' = [q \in Requests |-> req'[q]]
       /\ \A q \in Requests : Carries(req'[q])
  BY <1>9 DEF BudgetInv
<1> HIDE DEF shown, granted, t
<1>11. count' \in [Tenants -> Nat] /\ passed' \in [Tenants -> Nat]
  BY <1>1, <1>4, <1>6, <1>8 DEF BudgetInv
<1>12. ASSUME NEW u \in Tenants PROVE passed'[u] = Min({count'[u], AmountFor(u)})
  <2>1. CASE u = t
    <3>1. count'[u] = shown /\ passed'[u] = granted
      BY <2>1, <1>1, <1>6, <1>8 DEF BudgetInv
    <3> QED BY <2>1, <1>5, <3>1
  <2>2. CASE u # t
    <3>1. count'[u] = count[u] /\ passed'[u] = passed[u]
      BY <2>2, <1>6, <1>8 DEF BudgetInv
    <3> QED BY <3>1 DEF BudgetInv, BudgetKept
  <2> QED BY <2>1, <2>2
<1> QED BY <1>7, <1>10, <1>11, <1>12 DEF BudgetInv, BudgetKept, AmountFor

\* deps.py, the dependencies of an endpoint: nothing but enforce touches a
\* budget.
LEMMA DecideKeepsBudget ==
  ASSUME BudgetInv, NEW r \in Requests, NEW token \in Tokens, NEW known,
         Decide(r, token, known)
  PROVE  BudgetInv'
<1>1. CASE Enforce(r, token)
  BY <1>1, EnforceKeepsBudget
<1>2. CASE /\ UNCHANGED <<passed, rateVars>>
           /\ \E answer : req' = [req EXCEPT ![r] = answer] /\ Carries(answer)
  BY <1>2 DEF BudgetInv, BudgetKept, rateVars, AmountFor
<1>3. ASSUME NEW outcome, Answer(r, token, outcome)
      PROVE  /\ UNCHANGED <<passed, rateVars>>
             /\ \E answer : req' = [req EXCEPT ![r] = answer] /\ Carries(answer)
  <2>1. Carries(Answered(token, outcome, 0))
    BY DEF Answered, Carries
  <2> QED BY <1>3, <2>1 DEF Answer
<1>4. ASSUME Enter(r, token)
      PROVE  \E answer : req' = [req EXCEPT ![r] = answer] /\ Carries(answer)
  <2>1. Carries([state |-> "service", token |-> token])
    BY DEF Carries
  <2> QED BY <1>4, <2>1 DEF Enter
<1>5. CASE ~ known \/ ~ token.valid
  BY <1>2, <1>3, <1>5 DEF Decide
<1>6. CASE known /\ token.valid /\ token.role \notin Allowed(token.endpoint)
  BY <1>2, <1>3, <1>6 DEF Decide
<1>7. CASE known /\ token.valid /\ token.role \in Allowed(token.endpoint)
  <2>1. IF token.endpoint = "enqueue" THEN Enforce(r, token)
        ELSE Enter(r, token) /\ UNCHANGED <<passed, rateVars>>
    BY <1>7 DEF Decide
  <2> QED BY <1>1, <1>2, <1>4, <2>1
<1> QED BY <1>5, <1>6, <1>7

LEMMA BudgetPreserved == BudgetInv /\ [Next]_vars => BudgetInv'
<1> SUFFICES ASSUME BudgetInv, [Next]_vars PROVE BudgetInv'
  OBVIOUS
<1>1. ASSUME NEW r \in Requests, NEW token \in Tokens,
             Anonymous(r, token) \/ Arrive(r, token) \/ ArriveAsking(r, token)
      PROVE  BudgetInv'
  <2>1. CASE Anonymous(r, token)
    <3>1. Carries(Answered(token, "AuthenticationError", 0))
      BY DEF Answered, Carries
    <3>2. UNCHANGED <<passed, rateVars>>
          /\ req' = [req EXCEPT ![r] = Answered(token, "AuthenticationError", 0)]
      BY <2>1 DEF Anonymous, Answer
    <3> QED BY <3>1, <3>2 DEF BudgetInv, BudgetKept, rateVars, AmountFor
  <2>2. CASE Arrive(r, token)
    <3>1. Decide(r, token, token.kid \in keys)
      BY <2>2 DEF Arrive
    <3> QED BY <3>1, DecideKeepsBudget
  <2>3. CASE ArriveAsking(r, token)
    BY <2>3 DEF ArriveAsking, BudgetInv, BudgetKept, rateVars, AmountFor, Carries
  <2> QED BY <1>1, <2>1, <2>2, <2>3
<1>2. ASSUME NEW r \in Requests, Verify(r) \/ Unavailable(r) \/ Service(r)
      PROVE  BudgetInv'
  <2>1. CASE Verify(r)
    <3>1. req[r].token \in Tokens
      BY <2>1 DEF Verify, BudgetInv, Carries
    <3>2. \E known : Decide(r, req[r].token, known)
      BY <2>1 DEF Verify
    <3> QED BY <3>1, <3>2, DecideKeepsBudget
  <2>2. ASSUME NEW outcome, Answer(r, req[r].token, outcome) PROVE BudgetInv'
    <3>1. Carries(Answered(req[r].token, outcome, 0))
      BY DEF Answered, Carries
    <3> QED BY <2>2, <3>1 DEF Answer, BudgetInv, BudgetKept, rateVars, AmountFor
  <2>3. CASE Unavailable(r)
    BY <2>2, <2>3 DEF Unavailable
  <2>4. CASE Service(r)
    BY <2>2, <2>4 DEF Service
  <2> QED BY <1>2, <2>1, <2>3, <2>4
<1>3. CASE Issuer
  BY <1>3 DEF Issuer, BudgetInv, BudgetKept, rateVars, AmountFor
<1>4. CASE Tick
  <2>1. ASSUME NEW t \in Tenants
        PROVE  /\ left'[t] \in Nat /\ count'[t] \in Nat /\ passed'[t] \in Nat
               /\ passed'[t] = Min({count'[t], AmountFor(t)})
    <3>1. left[t] \in Nat /\ count[t] \in Nat /\ passed[t] \in Nat
      BY DEF BudgetInv
    <3>2. left'[t] = (IF left[t] <= 1 THEN 0 ELSE left[t] - 1)
      <4>1. left'[t] = Max({0, left[t] - 1})
        BY <1>4 DEF Tick, RateTick
      <4>2. Max({0, left[t] - 1}) = IF 0 >= left[t] - 1 THEN 0 ELSE left[t] - 1
        BY <3>1, MaxOfTwo
      <4> QED BY <3>1, <4>1, <4>2
    <3>3. count'[t] = (IF left[t] <= 1 THEN 0 ELSE count[t])
      BY <1>4 DEF Tick, RateTick
    <3>4. passed'[t] = (IF left'[t] = 0 THEN 0 ELSE passed[t])
      BY <1>4 DEF Tick
    <3>5. Min({0, AmountFor(t)}) = 0
      BY MinOfTwo, AmountIsPositive
    <3>6. passed[t] = Min({count[t], AmountFor(t)})
      BY DEF BudgetInv, BudgetKept
    <3>7. CASE left[t] <= 1
      <4>1. left'[t] = 0 /\ count'[t] = 0 /\ passed'[t] = 0
        BY <3>2, <3>3, <3>4, <3>7
      <4> QED BY <3>5, <4>1
    <3>8. CASE ~ (left[t] <= 1)
      <4>1. left'[t] = left[t] - 1 /\ left[t] - 1 # 0 /\ left[t] - 1 \in Nat
        BY <3>1, <3>2, <3>8
      <4>2. count'[t] = count[t] /\ passed'[t] = passed[t]
        BY <3>3, <3>4, <3>8, <4>1
      <4> QED BY <3>1, <3>6, <4>1, <4>2
    <3> QED BY <3>7, <3>8
  <2>2. /\ left' = [t \in Tenants |-> left'[t]]
        /\ count' = [t \in Tenants |-> count'[t]]
        /\ passed' = [t \in Tenants |-> passed'[t]]
    BY <1>4 DEF Tick, RateTick
  <2>3. req' = req
    BY <1>4 DEF Tick
  <2> QED BY <2>1, <2>2, <2>3 DEF BudgetInv, BudgetKept, AmountFor
<1>5. CASE UNCHANGED vars
  BY <1>5 DEF vars, rateVars, BudgetInv, BudgetKept, AmountFor
<1> QED BY <1>1, <1>2, <1>3, <1>4, <1>5 DEF Next

-----------------------------------------------------------------------------
(* The keys                                                                *)

\* Keys read so long ago that their publication may have changed at most since.
KeysCurrent(known, age) ==
  \A k \in Kids : /\ k \in known => WithdrawnFor(k) <= age
                  /\ k \notin known => PublishedFor(k) <= age

Fetches ==
  {NoFetch} \cup [status : {"asked"}, age : 0..Latency]
            \cup [status : {"served"}, age : 0..Latency, answer : SUBSET Kids]

\* What an answer says is as old as its fetch at most, and what the cache says
\* as old as the cache and the fetch that filled it.
KeysInv ==
  /\ keys \in SUBSET Kids /\ published \in SUBSET Kids
  /\ keysAge \in 0..MaxAge
  /\ since \in [Kids -> 0..MaxAge]
  /\ fetch \in [Requests -> Fetches]
  /\ KeysCurrent(keys, keysAge + Latency)
  /\ \A r \in Requests : fetch[r].status = "served" => KeysCurrent(fetch[r].answer, fetch[r].age)

LEMMA MaxAgeIsNat == MaxAge \in Nat /\ CacheTicks \in Nat /\ Refresh \in Nat /\ Latency \in Nat
BY JwksAssumption DEF MaxAge

LEMMA OlderByOne ==
  ASSUME NEW age \in 0..MaxAge
  PROVE  Older(age) = IF age + 1 <= MaxAge THEN age + 1 ELSE MaxAge
BY MaxAgeIsNat, MinOfTwo DEF Older

\* Of a fetch that is in none of its states nothing else can be said.
LEMMA FetchOf ==
  ASSUME NEW f \in Fetches
  PROVE  /\ f.status = "served" => f # NoFetch /\ f.answer \in SUBSET Kids
         /\ f # NoFetch => f.age \in 0..Latency
BY DEF Fetches, NoFetch

LEMMA KeysStart == Init => KeysInv
BY MaxAgeIsNat DEF Init, JwksInit, KeysInv, KeysCurrent, Fetches, NoFetch, WithdrawnFor, PublishedFor

LEMMA AskKeepsKeys ==
  ASSUME KeysInv, NEW r \in Requests, Ask(r)
  PROVE  KeysInv'
<1>1. Asked \in Fetches /\ Asked.status # "served"
  BY MaxAgeIsNat DEF Asked, Fetches
<1> QED BY <1>1 DEF Ask, KeysInv, KeysCurrent, WithdrawnFor, PublishedFor, Fetches, NoFetch, MaxAge

LEMMA ServeKeepsKeys ==
  ASSUME KeysInv, NEW r \in Requests, Serve(r)
  PROVE  KeysInv'
<1> DEFINE served == [status |-> "served", age |-> fetch[r].age, answer |-> published]
<1>1. fetch[r].age \in 0..Latency
  BY FetchOf DEF Serve, KeysInv, NoFetch
<1>2. served \in Fetches /\ served.answer = published /\ served.age = fetch[r].age
  BY <1>1 DEF Fetches, KeysInv
<1>3. KeysCurrent(published, fetch[r].age)
  BY <1>1, MaxAgeIsNat DEF KeysCurrent, WithdrawnFor, PublishedFor
<1>4. fetch' = [fetch EXCEPT ![r] = served] /\ UNCHANGED <<keys, keysAge, published, since>>
  BY DEF Serve
<1>5. fetch' \in [Requests -> Fetches]
  BY <1>2, <1>4 DEF KeysInv, Fetches, NoFetch
<1>6. ASSUME NEW q \in Requests, fetch'[q].status = "served"
      PROVE  KeysCurrent(fetch'[q].answer, fetch'[q].age)
  <2>1. CASE q = r
    BY <1>2, <1>3, <1>4, <2>1 DEF KeysInv
  <2>2. CASE q # r
    BY <1>4, <1>6, <2>2 DEF KeysInv
  <2> QED BY <2>1, <2>2
<1> HIDE DEF served
<1> QED BY <1>4, <1>5, <1>6 DEF KeysInv, KeysCurrent, WithdrawnFor, PublishedFor, Fetches, NoFetch, MaxAge

LEMMA LandKeepsKeys ==
  ASSUME KeysInv, NEW r \in Requests, Land(r)
  PROVE  KeysInv'
<1>1. fetch[r].answer \in SUBSET Kids /\ fetch[r].age \in 0..Latency
  BY FetchOf DEF Land, KeysInv
<1>2. KeysCurrent(fetch[r].answer, 0 + Latency)
  <2>1. KeysCurrent(fetch[r].answer, fetch[r].age)
    BY DEF Land, KeysInv
  <2>2. \A k \in Kids : WithdrawnFor(k) \in Nat /\ PublishedFor(k) \in Nat
    BY MaxAgeIsNat DEF KeysInv, WithdrawnFor, PublishedFor
  <2> QED BY <1>1, <2>1, <2>2, MaxAgeIsNat DEF KeysCurrent
<1>3. /\ keys' = fetch[r].answer /\ keysAge' = 0 /\ UNCHANGED <<published, since>>
      /\ fetch' = [fetch EXCEPT ![r] = NoFetch]
  BY DEF Land
<1>4. KeysCurrent(keys, keysAge + Latency)'
  BY <1>2, <1>3 DEF KeysCurrent, WithdrawnFor, PublishedFor
<1> QED
  BY <1>1, <1>3, <1>4, MaxAgeIsNat DEF KeysInv, KeysCurrent, WithdrawnFor, PublishedFor, Fetches, NoFetch, MaxAge

LEMMA FailKeepsKeys ==
  ASSUME KeysInv, NEW r \in Requests, Fail(r)
  PROVE  KeysInv'
BY DEF Fail, KeysInv, KeysCurrent, WithdrawnFor, PublishedFor, Fetches, NoFetch, MaxAge

LEMMA RotateKeepsKeys ==
  ASSUME KeysInv, NEW k \in Kids, Rotate(k)
  PROVE  KeysInv'
<1>1. ASSUME NEW j \in Kids
      PROVE  /\ WithdrawnFor(j)' \in Nat /\ PublishedFor(j)' \in Nat
             /\ WithdrawnFor(j) \in Nat /\ PublishedFor(j) \in Nat
             /\ WithdrawnFor(j)' <= WithdrawnFor(j) /\ PublishedFor(j)' <= PublishedFor(j)
  <2>1. CASE j = k
    BY <2>1, MaxAgeIsNat DEF Rotate, KeysInv, WithdrawnFor, PublishedFor
  <2>2. CASE j # k
    BY <2>2, MaxAgeIsNat DEF Rotate, KeysInv, WithdrawnFor, PublishedFor
  <2> QED BY <2>1, <2>2
<1>2. ASSUME NEW known, NEW age \in Nat, KeysCurrent(known, age)
      PROVE  \A j \in Kids : /\ j \in known => WithdrawnFor(j)' <= age
                             /\ j \notin known => PublishedFor(j)' <= age
  BY <1>1, <1>2 DEF KeysCurrent
<1>3. /\ UNCHANGED <<keys, keysAge, fetch>>
      /\ published' \in SUBSET Kids /\ since' \in [Kids -> 0..MaxAge]
  BY MaxAgeIsNat DEF Rotate, KeysInv
<1>4. KeysCurrent(keys, keysAge + Latency)'
  <2>1. keysAge + Latency \in Nat /\ KeysCurrent(keys, keysAge + Latency)
    BY MaxAgeIsNat DEF KeysInv
  <2> QED BY <1>2, <1>3, <2>1 DEF KeysCurrent
<1>5. ASSUME NEW r \in Requests, fetch[r].status = "served"
      PROVE  KeysCurrent(fetch[r].answer, fetch[r].age)'
  <2>1. fetch[r].age \in Nat /\ KeysCurrent(fetch[r].answer, fetch[r].age)
    BY <1>5, FetchOf, MaxAgeIsNat DEF KeysInv
  <2> QED BY <1>2, <1>3, <2>1 DEF KeysCurrent
<1> QED BY <1>3, <1>4, <1>5 DEF KeysInv, Fetches, NoFetch, MaxAge

LEMMA TickKeepsKeys ==
  ASSUME KeysInv, JwksTick
  PROVE  KeysInv'
<1>1. /\ keysAge' \in 0..MaxAge
      /\ keysAge' = IF keysAge + 1 <= MaxAge THEN keysAge + 1 ELSE MaxAge
  BY OlderByOne, MaxAgeIsNat DEF KeysInv, JwksTick
<1>2. since' \in [Kids -> 0..MaxAge]
      /\ \A k \in Kids : since'[k] <= since[k] + 1
  <2>1. ASSUME NEW k \in Kids
        PROVE  Older(since[k]) \in 0..MaxAge /\ Older(since[k]) <= since[k] + 1
    <3>1. since[k] \in 0..MaxAge
      BY DEF KeysInv
    <3>2. Older(since[k]) = IF since[k] + 1 <= MaxAge THEN since[k] + 1 ELSE MaxAge
      BY <3>1, OlderByOne
    <3> QED BY <3>1, <3>2, MaxAgeIsNat
  <2> QED BY <2>1 DEF JwksTick
<1>3. ASSUME NEW k \in Kids
      PROVE  /\ WithdrawnFor(k)' \in 0..MaxAge /\ PublishedFor(k)' \in 0..MaxAge
             /\ WithdrawnFor(k)' <= WithdrawnFor(k) + 1 /\ PublishedFor(k)' <= PublishedFor(k) + 1
             /\ WithdrawnFor(k) \in Nat /\ PublishedFor(k) \in Nat
  BY <1>2, MaxAgeIsNat DEF JwksTick, KeysInv, WithdrawnFor, PublishedFor
<1>4. UNCHANGED <<keys, published>>
  BY DEF JwksTick
<1>5. KeysCurrent(keys, keysAge + Latency)'
  <2>1. KeysCurrent(keys, keysAge + Latency) /\ keysAge \in 0..MaxAge
    BY DEF KeysInv
  <2>2. ASSUME NEW k \in Kids, k \in keys' PROVE WithdrawnFor(k)' <= keysAge' + Latency
    <3>1. WithdrawnFor(k) <= keysAge + Latency
      BY <1>4, <2>1, <2>2 DEF KeysCurrent
    <3> QED BY <1>1, <1>3, <2>1, <3>1, MaxAgeIsNat
  <2>3. ASSUME NEW k \in Kids, k \notin keys' PROVE PublishedFor(k)' <= keysAge' + Latency
    <3>1. PublishedFor(k) <= keysAge + Latency
      BY <1>4, <2>1, <2>3 DEF KeysCurrent
    <3> QED BY <1>1, <1>3, <2>1, <3>1, MaxAgeIsNat
  <2> QED BY <2>2, <2>3 DEF KeysCurrent
<1>6. ASSUME NEW r \in Requests
      PROVE  /\ fetch'[r] \in Fetches
             /\ fetch'[r].status = "served" => KeysCurrent(fetch[r].answer, fetch[r].age)
                                                /\ fetch[r].age \in 0..Latency
                                                /\ fetch'[r].answer = fetch[r].answer
                                                /\ fetch'[r].age = fetch[r].age + 1
  <2>1. fetch[r] \in Fetches
    BY DEF KeysInv
  <2>2. CASE ~ InFlight(r)
    BY <2>2 DEF JwksTick, NoFetch, Fetches
  <2>3. CASE InFlight(r)
    <3>1. fetch'[r] = [fetch[r] EXCEPT !.age = fetch[r].age + 1] /\ fetch[r].age < Latency
      BY <2>3 DEF JwksTick
    <3>2. CASE fetch[r] \in [status : {"asked"}, age : 0..Latency]
      BY <3>1, <3>2, MaxAgeIsNat DEF Fetches
    <3>3. CASE fetch[r] \in [status : {"served"}, age : 0..Latency, answer : SUBSET Kids]
      BY <3>1, <3>3, MaxAgeIsNat DEF Fetches, KeysInv
    <3> QED BY <2>1, <2>3, <3>2, <3>3 DEF Fetches, InFlight
  <2> QED BY <2>2, <2>3
<1>7. ASSUME NEW r \in Requests, fetch'[r].status = "served"
      PROVE  KeysCurrent(fetch[r].answer, fetch[r].age)'
  <2>1. KeysCurrent(fetch[r].answer, fetch[r].age) /\ fetch[r].age \in Nat
    BY <1>6, <1>7, MaxAgeIsNat
  <2>2. fetch'[r].answer = fetch[r].answer /\ fetch'[r].age = fetch[r].age + 1
    BY <1>6, <1>7
  <2>3. ASSUME NEW k \in Kids, k \in fetch'[r].answer PROVE WithdrawnFor(k)' <= fetch'[r].age
    <3>1. WithdrawnFor(k) <= fetch[r].age
      BY <2>1, <2>2, <2>3 DEF KeysCurrent
    <3> QED BY <1>3, <2>1, <2>2, <3>1, MaxAgeIsNat
  <2>4. ASSUME NEW k \in Kids, k \notin fetch'[r].answer PROVE PublishedFor(k)' <= fetch'[r].age
    <3>1. PublishedFor(k) <= fetch[r].age
      BY <2>1, <2>2, <2>4 DEF KeysCurrent
    <3> QED BY <1>3, <2>1, <2>2, <3>1, MaxAgeIsNat
  <2> QED BY <2>3, <2>4 DEF KeysCurrent
<1>8. fetch' \in [Requests -> Fetches]
  BY <1>6 DEF JwksTick
<1> QED
  BY <1>1, <1>2, <1>4, <1>5, <1>7, <1>8 DEF KeysInv, Fetches, NoFetch, MaxAge

LEMMA KeysPreserved == KeysInv /\ [Next]_vars => KeysInv'
<1> SUFFICES ASSUME KeysInv, [Next]_vars PROVE KeysInv'
  OBVIOUS
<1>1. CASE UNCHANGED jwksVars
  BY <1>1 DEF jwksVars, KeysInv, KeysCurrent, WithdrawnFor, PublishedFor, Fetches, NoFetch, MaxAge
<1>2. ASSUME NEW r \in Requests, NEW token \in Tokens,
             Anonymous(r, token) \/ Arrive(r, token) \/ ArriveAsking(r, token)
      PROVE  KeysInv'
  BY <1>1, <1>2, AskKeepsKeys DEF Anonymous, Arrive, ArriveAsking
<1>3. ASSUME NEW r \in Requests, Verify(r) \/ Unavailable(r) \/ Service(r)
      PROVE  KeysInv'
  BY <1>1, <1>3, LandKeepsKeys, FailKeepsKeys DEF Verify, Unavailable, Service
<1>4. CASE Issuer
  BY <1>4, ServeKeepsKeys, RotateKeepsKeys DEF Issuer
<1>5. CASE Tick
  BY <1>5, TickKeepsKeys DEF Tick
<1>6. CASE UNCHANGED vars
  BY <1>1, <1>6 DEF vars, jwksVars
<1> QED BY <1>2, <1>3, <1>4, <1>5, <1>6 DEF Next

-----------------------------------------------------------------------------
(* What a step may answer                                                  *)

\* The three action properties, of one request.
KeyNotExpired(q) == Enters(q) => WithdrawnFor(req'[q].token.kid) <= CacheTicks + Latency
KeyNotFresh(q)   == Rejects(q, 401) /\ req'[q].token.valid =>
                      PublishedFor(req'[q].token.kid) <= Refresh + Latency
WindowOver(q)    == Rejects(q, 429) =>
                      LET ends == left'[req'[q].token.tenant]
                      IN ends <= req'[q].back /\ req'[q].back <= ends + Second
Sound(q) == KeyNotExpired(q) /\ KeyNotFresh(q) /\ WindowOver(q)

LEMMA NobodyElse ==
  ASSUME req = [q \in Requests |-> req[q]], NEW r \in Requests, NEW answer,
         req' = [req EXCEPT ![r] = answer],
         NEW q \in Requests, q # r
  PROVE  Sound(q)
BY DEF Sound, KeyNotExpired, KeyNotFresh, WindowOver, Enters, Rejects

\* An answer other than 401 and 429 promises nothing about keys and windows.
LEMMA OtherAnswers ==
  ASSUME req = [q \in Requests |-> req[q]], NEW r \in Requests, NEW token, NEW outcome,
         NEW back, req' = [req EXCEPT ![r] = Answered(token, outcome, back)],
         StatusOf(outcome) # 429,
         StatusOf(outcome) # 401 \/ ~ token.valid
           \/ PublishedFor(token.kid) <= Refresh + Latency
  PROVE  \A q \in Requests : Sound(q)
<1>1. req'[r] = Answered(token, outcome, back)
  OBVIOUS
<1>2. /\ req'[r].state = "answered" /\ req'[r].status = StatusOf(outcome)
      /\ req'[r].token = token
  BY <1>1 DEF Answered
<1>3. Sound(r)
  BY <1>2 DEF Sound, KeyNotExpired, KeyNotFresh, WindowOver, Enters, Rejects
<1> QED BY <1>3, NobodyElse

LEMMA Statuses ==
  /\ StatusOf("AuthenticationError") = 401
  /\ StatusOf("AuthorizationError") = 403
  /\ StatusOf("RateLimitExceededError") = 429
  /\ StatusOf("JwksUnavailableError") = 502
  /\ \A endpoint \in Endpoints : \A outcome \in Outcomes(endpoint) :
       StatusOf(outcome) \in {200, 404, 409, 502}
<1>1. /\ StatusOf("AuthenticationError") = 401
      /\ StatusOf("AuthorizationError") = 403
      /\ StatusOf("RateLimitExceededError") = 429
      /\ StatusOf("JwksUnavailableError") = 502
  BY DEF StatusOf
<1>2. /\ StatusOf("done") = 200 /\ StatusOf("LlmCallError") = 502
      /\ StatusOf("DocumentNotFoundError") = 404 /\ StatusOf("ReviewItemNotFoundError") = 404
      /\ StatusOf("ChangeReportJobNotFoundError") = 404
      /\ StatusOf("ExtractionJobConflictError") = 409
      /\ StatusOf("ReviewItemAlreadyResolvedError") = 409
  BY DEF StatusOf
<1>3. Outcomes("enqueue") = {"done", "DocumentNotFoundError", "ExtractionJobConflictError"}
  BY DEF Outcomes
<1>4. Outcomes("review") = {"done", "ReviewItemNotFoundError", "ReviewItemAlreadyResolvedError"}
  BY DEF Outcomes
<1>5. Outcomes("read") = {"done", "ChangeReportJobNotFoundError", "LlmCallError"}
  BY DEF Outcomes
<1>6. ASSUME NEW endpoint \in Endpoints, NEW outcome \in Outcomes(endpoint)
      PROVE  StatusOf(outcome) \in {200, 404, 409, 502}
  BY <1>2, <1>3, <1>4, <1>5, <1>6 DEF Endpoints
<1> QED BY <1>1, <1>6

LEMMA Division ==
  ASSUME NEW n \in Nat, NEW d \in Nat \ {0}
  PROVE  d * (n \div d) <= n /\ n < d * (n \div d) + d
BY Z3T(30)

\* The wait told to a refused caller, in ticks.
LEMMA WaitInTicks ==
  ASSUME NEW ticks \in Nat
  PROVE  /\ Second * RetryAfter(ticks) \in Nat
         /\ ticks <= Second * RetryAfter(ticks)
         /\ Second * RetryAfter(ticks) <= ticks + Second
<1> DEFINE whole == ticks \div Second
<1>1. Second \in Nat \ {0}
  BY RateAssumption
<1>2. whole \in Nat
  BY <1>1
<1>3. Second * whole <= ticks /\ ticks < Second * whole + Second
  BY <1>1, Division, ZenonT(30)
<1>4. RetryAfter(ticks) = whole + 1
  <2>1. RetryAfter(ticks) = Max({1, whole + 1})
    <3>1. ~ (ticks < 0)
      OBVIOUS
    <3> QED BY <3>1, Zenon DEF RetryAfter
  <2>2. Max({1, whole + 1}) = IF 1 >= whole + 1 THEN 1 ELSE whole + 1
    BY <1>2, MaxOfTwo
  <2> QED BY <1>2, <2>1, <2>2
<1> HIDE DEF whole
<1>5. Second * (whole + 1) = Second * whole + Second
  BY <1>1, <1>2
<1> QED BY <1>1, <1>2, <1>3, <1>4, <1>5

LEMMA EnforceIsSound ==
  ASSUME BudgetInv, NEW r \in Requests, NEW token \in Tokens, Enforce(r, token),
         WithdrawnFor(token.kid) <= CacheTicks + Latency
  PROVE  \A q \in Requests : Sound(q)
<1> DEFINE t == token.tenant
<1>1. req = [q \in Requests |-> req[q]]
  BY DEF BudgetInv
<1>2. CASE Admits(t)
  <2>1. req' = [req EXCEPT ![r] = [state |-> "service", token |-> token]]
    BY <1>2 DEF Enforce, Enter
  <2>2. req'[r].state = "service" /\ req'[r].token = token
    BY <1>1, <2>1
  <2>3. Sound(r)
    BY <2>2 DEF Sound, KeyNotExpired, KeyNotFresh, WindowOver, Rejects
  <2> QED BY <1>1, <2>1, <2>3, NobodyElse
<1>3. CASE ~ Admits(t)
  <2>1. left'[t] \in Nat \ {0}
    <3>1. t \in Tenants /\ left \in [Tenants -> Nat] /\ Hour \in Nat \ {0}
      BY TokensAssumption, RateAssumption DEF BudgetInv
    <3>2. left' = [left EXCEPT ![t] = IF left[t] = 0 THEN Hour ELSE left[t]]
      BY DEF Enforce, Hit
    <3> QED BY <3>1, <3>2
  <2>2. PICK late \in {0, 1} : req' = [req EXCEPT ![r] =
          Answered(token, "RateLimitExceededError", late + Second * RetryAfter(left'[t] - late))]
    BY <1>3 DEF Enforce
  <2> DEFINE back == late + Second * RetryAfter(left'[t] - late)
  <2>3. left'[t] <= back /\ back <= left'[t] + Second
    <3>1. left'[t] - late \in Nat
      BY <2>1
    <3> QED BY <2>1, <3>1, WaitInTicks, RateAssumption
  <2> HIDE DEF back
  <2>4. req'[r] = Answered(token, "RateLimitExceededError", back)
    BY <1>1, <2>2 DEF back
  <2>5. /\ req'[r].state = "answered" /\ req'[r].status = 429
        /\ req'[r].token = token /\ req'[r].back = back
    BY <2>4, Statuses DEF Answered
  <2>6. Sound(r)
    BY <2>3, <2>5 DEF Sound, KeyNotExpired, KeyNotFresh, WindowOver, Enters, Rejects
  <2> QED BY <1>1, <2>2, <2>6, NobodyElse
<1> QED BY <1>2, <1>3

LEMMA DecideIsSound ==
  ASSUME BudgetInv, NEW r \in Requests, NEW token \in Tokens, NEW known, Decide(r, token, known),
         known => WithdrawnFor(token.kid) <= CacheTicks + Latency,
         ~ known => PublishedFor(token.kid) <= Refresh + Latency
  PROVE  \A q \in Requests : Sound(q)
<1>1. req = [q \in Requests |-> req[q]]
  BY DEF BudgetInv
<1>2. CASE ~ known \/ ~ token.valid
  <2>1. Answer(r, token, "AuthenticationError")
    BY <1>2 DEF Decide
  <2>2. req' = [req EXCEPT ![r] = Answered(token, "AuthenticationError", 0)]
    BY <2>1 DEF Answer
  <2> QED BY <1>1, <1>2, <2>2, Statuses, OtherAnswers
<1>3. CASE known /\ token.valid /\ token.role \notin Allowed(token.endpoint)
  <2>1. Answer(r, token, "AuthorizationError")
    BY <1>3 DEF Decide
  <2>2. req' = [req EXCEPT ![r] = Answered(token, "AuthorizationError", 0)]
    BY <2>1 DEF Answer
  <2> QED BY <1>1, <2>2, Statuses, OtherAnswers
<1>4. CASE known /\ token.valid /\ token.role \in Allowed(token.endpoint)
  <2>1. Enforce(r, token) \/ Enter(r, token)
    <3>1. IF token.endpoint = "enqueue" THEN Enforce(r, token)
          ELSE Enter(r, token) /\ UNCHANGED <<passed, rateVars>>
      BY <1>4 DEF Decide
    <3> QED BY <3>1
  <2>2. CASE Enforce(r, token)
    BY <1>4, <2>2, EnforceIsSound
  <2>3. CASE Enter(r, token)
    <3>1. req' = [req EXCEPT ![r] = [state |-> "service", token |-> token]]
      BY <2>3 DEF Enter
    <3>2. req'[r].state = "service" /\ req'[r].token = token
      BY <1>1, <3>1
    <3>3. Sound(r)
      BY <1>4, <3>2 DEF Sound, KeyNotExpired, KeyNotFresh, WindowOver, Rejects
    <3> QED BY <1>1, <3>1, <3>3, NobodyElse
  <2> QED BY <2>1, <2>2, <2>3
<1> QED BY <1>2, <1>3, <1>4

\* A key the provider does not have was not published for any time at all.
LEMMA UnknownKey == ASSUME KeysInv, NEW k, k \notin Kids PROVE PublishedFor(k) = 0
BY DEF KeysInv, PublishedFor

LEMMA StepIsSound ==
  ASSUME BudgetInv, KeysInv, [Next]_vars
  PROVE  \A q \in Requests : Sound(q)
<1>1. req = [q \in Requests |-> req[q]]
  BY DEF BudgetInv
<1>2. ASSUME NEW r \in Requests, NEW token \in Tokens, Anonymous(r, token)
      PROVE  \A q \in Requests : Sound(q)
  <2>1. req' = [req EXCEPT ![r] = Answered(token, "AuthenticationError", 0)] /\ ~ token.valid
    BY <1>2 DEF Anonymous, Answer
  <2> QED BY <1>1, <2>1, Statuses, OtherAnswers
<1>3. ASSUME NEW r \in Requests, NEW token \in Tokens, Arrive(r, token)
      PROVE  \A q \in Requests : Sound(q)
  <2>1. /\ keysAge \in Nat /\ keysAge <= CacheTicks
        /\ token.kid \notin keys => keysAge <= Refresh
    BY <1>3, MaxAgeIsNat DEF Arrive, NeedsFetch, KeysInv
  <2>2. token.kid \in keys => WithdrawnFor(token.kid) <= CacheTicks + Latency
    <3>1. \A k \in Kids : WithdrawnFor(k) \in Nat
      BY MaxAgeIsNat DEF KeysInv, WithdrawnFor
    <3>2. \A k \in keys : k \in Kids /\ WithdrawnFor(k) <= keysAge + Latency
      BY DEF KeysInv, KeysCurrent
    <3> QED BY <2>1, <3>1, <3>2, MaxAgeIsNat
  <2>3. token.kid \notin keys => PublishedFor(token.kid) <= Refresh + Latency
    <3>1. CASE token.kid \in Kids
      <4>1. PublishedFor(token.kid) \in Nat
        BY <3>1, MaxAgeIsNat DEF KeysInv, PublishedFor
      <4>2. token.kid \notin keys => PublishedFor(token.kid) <= keysAge + Latency
        BY <3>1 DEF KeysInv, KeysCurrent
      <4> QED BY <2>1, <4>1, <4>2, MaxAgeIsNat
    <3>2. CASE token.kid \notin Kids
      BY <3>2, UnknownKey, MaxAgeIsNat
    <3> QED BY <3>1, <3>2
  <2>4. Decide(r, token, token.kid \in keys)
    BY <1>3 DEF Arrive
  <2> QED BY <2>2, <2>3, <2>4, DecideIsSound
<1>4. ASSUME NEW r \in Requests, NEW token \in Tokens, ArriveAsking(r, token)
      PROVE  \A q \in Requests : Sound(q)
  <2>1. req' = [req EXCEPT ![r] = [state |-> "verifying", token |-> token]]
    BY <1>4 DEF ArriveAsking
  <2>2. req'[r].state = "verifying"
    BY <1>1, <2>1
  <2>3. Sound(r)
    BY <2>2 DEF Sound, KeyNotExpired, KeyNotFresh, WindowOver, Enters, Rejects
  <2> QED BY <1>1, <2>1, <2>3, NobodyElse
<1>5. ASSUME NEW r \in Requests, Verify(r)
      PROVE  \A q \in Requests : Sound(q)
  <2> DEFINE kid == req[r].token.kid
  <2>1. req[r].token \in Tokens
    BY <1>5 DEF Verify, BudgetInv, Carries
  <2>2. /\ keys' = fetch[r].answer /\ keys' \subseteq Kids /\ fetch[r].age \in 0..Latency
        /\ KeysCurrent(keys', fetch[r].age)
    BY <1>5, FetchOf DEF Verify, Land, KeysInv
  <2>3. \A k \in Kids : WithdrawnFor(k) \in Nat /\ PublishedFor(k) \in Nat
    BY MaxAgeIsNat DEF KeysInv, WithdrawnFor, PublishedFor
  <2>4. kid \in keys' => WithdrawnFor(kid) <= CacheTicks + Latency
    <3>1. kid \in keys' => kid \in Kids /\ WithdrawnFor(kid) <= fetch[r].age
      BY <2>2 DEF KeysCurrent
    <3> QED BY <2>2, <2>3, <3>1, MaxAgeIsNat
  <2>5. kid \notin keys' => PublishedFor(kid) <= Refresh + Latency
    <3>1. CASE kid \in Kids
      <4>1. kid \notin keys' => PublishedFor(kid) <= fetch[r].age
        BY <2>2, <3>1 DEF KeysCurrent
      <4> QED BY <2>2, <2>3, <3>1, <4>1, MaxAgeIsNat
    <3>2. CASE kid \notin Kids
      BY <3>2, UnknownKey, MaxAgeIsNat
    <3> QED BY <3>1, <3>2
  <2>6. Decide(r, req[r].token, kid \in keys')
    BY <1>5 DEF Verify
  <2> QED BY <2>1, <2>4, <2>5, <2>6, DecideIsSound
<1>6. ASSUME NEW r \in Requests, Unavailable(r)
      PROVE  \A q \in Requests : Sound(q)
  <2>1. req' = [req EXCEPT ![r] = Answered(req[r].token, "JwksUnavailableError", 0)]
    BY <1>6 DEF Unavailable, Answer
  <2> QED BY <1>1, <2>1, Statuses, OtherAnswers
<1>7. ASSUME NEW r \in Requests, Service(r)
      PROVE  \A q \in Requests : Sound(q)
  <2>1. req[r].token.endpoint \in Endpoints
    BY <1>7, TokensAssumption DEF Service, BudgetInv, Carries, Endpoints
  <2>2. PICK outcome \in Outcomes(req[r].token.endpoint) :
          req' = [req EXCEPT ![r] = Answered(req[r].token, outcome, 0)]
    BY <1>7 DEF Service, Answer
  <2>3. StatusOf(outcome) \in {200, 404, 409, 502}
    BY <2>1, Statuses
  <2> QED BY <1>1, <2>2, <2>3, OtherAnswers
<1>8. CASE UNCHANGED req
  BY <1>8 DEF Sound, KeyNotExpired, KeyNotFresh, WindowOver, Enters, Rejects
<1> QED
  BY <1>2, <1>3, <1>4, <1>5, <1>6, <1>7, <1>8 DEF Next, Issuer, Tick, vars

-----------------------------------------------------------------------------
(* The promises                                                            *)

LEMMA Invariance == Spec => [](BudgetInv /\ KeysInv)
<1>1. Init => BudgetInv /\ KeysInv
  BY BudgetStarts, KeysStart
<1>2. (BudgetInv /\ KeysInv) /\ [Next]_vars => (BudgetInv /\ KeysInv)'
  BY BudgetPreserved, KeysPreserved
<1> QED BY <1>1, <1>2, PTL DEF Spec

\* ratelimit.py, deps.py: for any tenants, tiers, tokens and lengths of a window,
\* a tenant gets as many requests through as its budget counts, and nobody who
\* is turned away for another reason costs it one.
THEOREM BudgetIsKept == Spec => []BudgetKept
<1>1. BudgetInv => BudgetKept
  BY DEF BudgetInv
<1> QED BY <1>1, Invariance, PTL

\* jwks.py: however many fetches overtake each other or fail, and however long
\* the cache lives, no withdrawn key outlives it by more than one fetch.
THEOREM NoWithdrawnKeyOutlivesCache == Spec => WithdrawnKeysExpire
<1>1. BudgetInv /\ KeysInv /\ [Next]_vars =>
        [\A r \in Requests : Enters(r) =>
           WithdrawnFor(req'[r].token.kid) <= CacheTicks + Latency]_vars
  BY StepIsSound DEF Sound, KeyNotExpired
<1> QED BY <1>1, Invariance, PTL DEF Spec, WithdrawnKeysExpire

\* jwks.py: nor is a valid token refused for its key once that was published for
\* the refresh interval and a fetch.
THEOREM NewKeysArePickedUp == Spec => RotationIsPickedUp
<1>1. BudgetInv /\ KeysInv /\ [Next]_vars =>
        [\A r \in Requests : Rejects(r, 401) /\ req'[r].token.valid =>
           PublishedFor(req'[r].token.kid) <= Refresh + Latency]_vars
  BY StepIsSound DEF Sound, KeyNotFresh
<1> QED BY <1>1, Invariance, PTL DEF Spec, RotationIsPickedUp

\* ratelimit.py: the seconds told to a refused caller end with its window or at
\* most one second after it, for any lengths of the hour and the second.
THEOREM RefusedCallersWaitEnough == Spec => RefusalsOutlastWindow
<1>1. BudgetInv /\ KeysInv /\ [Next]_vars =>
        [\A r \in Requests : Rejects(r, 429) =>
           LET ends == left'[req'[r].token.tenant]
           IN ends <= req'[r].back /\ req'[r].back <= ends + Second]_vars
  BY StepIsSound DEF Sound, WindowOver
<1> QED BY <1>1, Invariance, PTL DEF Spec, RefusalsOutlastWindow
=============================================================================
