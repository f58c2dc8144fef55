------------------------------- MODULE Gateway -------------------------------
(****************************************************************************)
(* The request path of the gateway, gateway/main.py: identify the caller,   *)
(* charge its allowance, route, read the body, forward, and hand what was   *)
(* answered to the observation that runs after the response.  Requests run  *)
(* at the same time on one event loop; the composition is with Proxy, whose *)
(* variables and actions this module adds to, and with the rate limits in   *)
(* the form RateLimit gives them (Registry implements it): an account is    *)
(* one client under one policy, and its allowance grows with every tick.    *)
(*                                                                          *)
(* The handler gives up the loop while it waits for the request's body and  *)
(* inside forward().  Everything in between is one action: identification,  *)
(* the check, the routing and add_task of a request that goes no further;   *)
(* the arrival of the body and the breaker's decision.                      *)
(*                                                                          *)
(* Paths, API keys and tiers are members of small sets.  Headers, bodies    *)
(* and latencies are left out.                                              *)
(****************************************************************************)
EXTENDS Proxy

CONSTANTS
    Callers,        \* [key, host, tier]: what identify() can read of a request
    Paths,          \* request paths
    Serves,         \* Serves[u]: the paths that start with upstream u's prefix
    PrefixLength,   \* len(prefix), per upstream
    Policies,       \* names of the limit policies, "default" among them
    Limit,          \* per policy: capacity, refill per tick, cost
    RouteTierPolicy, RoutePolicy, TierPolicy    \* the limiter's tables

Clients  == {caller.key : caller \in Callers} \cup {caller.host : caller \in Callers}
Accounts == Clients \X Policies

LimitOf(a) == Limit[a[2]]

\* The configured upstreams are finitely many: one matches longest.
ASSUME PathsAssumption ==
    /\ Serves \in [Upstreams -> SUBSET Paths]
    /\ PrefixLength \in [Upstreams -> Nat]
    /\ \A path \in Paths :
           LET matching == {u \in Upstreams : path \in Serves[u]}
           IN  matching # {} =>
                   \E u \in matching : \A v \in matching : PrefixLength[u] >= PrefixLength[v]

ASSUME PoliciesAssumption ==
    /\ "default" \in Policies
    /\ Limit \in [Policies -> [capacity : Nat, refill : Nat, cost : Nat]]
    /\ \A table \in {RouteTierPolicy, RoutePolicy, TierPolicy} :
           \A x \in DOMAIN table : table[x] \in Policies

VARIABLES
    level,      \* allowance of each account
    request     \* where each request is in gateway()

gatewayVars == <<vars, level, request>>

\* The account is kept until the answer, because retries are on its bill.
Places == [at      : {"none", "body", "forward", "answered"},
           account : Accounts \cup {None},
           up      : Upstreams \cup {None},
           method  : Methods \cup {None}]

Nobody   == [at |-> "none", account |-> None, up |-> None, method |-> None]
Answered == [Nobody EXCEPT !.at = "answered"]

GatewayTypeOK ==
    /\ level \in [Accounts -> Nat]
    /\ \A a \in Accounts : level[a] <= LimitOf(a).capacity
    /\ request \in [Requests -> Places]

GatewayInit ==
    /\ Init
    /\ level = [a \in Accounts |-> LimitOf(a).capacity]
    /\ request = [r \in Requests |-> Nobody]

-----------------------------------------------------------------------------
(****************************************************************************)
(* Who asks, under which limit, and for which upstream.                     *)
(****************************************************************************)

\* An API key is the identity; the peer's address stands in for it.
ClientOf(caller) == IF caller.key # None THEN caller.key ELSE caller.host

TierOf(caller) ==
    IF caller.tier # None THEN caller.tier
    ELSE IF caller.key # None THEN "free" ELSE "default"

\* Most specific first: route and tier, route, tier, default.
Resolve(path, tier) ==
    IF <<path, tier>> \in DOMAIN RouteTierPolicy THEN RouteTierPolicy[<<path, tier>>]
    ELSE IF path \in DOMAIN RoutePolicy THEN RoutePolicy[path]
    ELSE IF tier \in DOMAIN TierPolicy THEN TierPolicy[tier]
    ELSE "default"

AccountOf(caller, path) == <<ClientOf(caller), Resolve(path, TierOf(caller))>>

\* The upstream with the longest matching prefix; None if none matches.
UpstreamFor(path) ==
    LET matching == {u \in Upstreams : path \in Serves[u]}
    IN  IF matching = {} THEN None
        ELSE CHOOSE u \in matching :
                 \A v \in matching : PrefixLength[u] >= PrefixLength[v]

\* check(): the allowance covers the cost ...
Covered(a) == level[a] >= LimitOf(a).cost

\* Mutant of Charge: the cost of the policy is forgotten.
ChargeOne(a) == level' = [level EXCEPT ![a] = @ - 1]

\* ... and is charged with it.
Charge(a)  == level' = [level EXCEPT ![a] = @ - LimitOf(a).cost]

\* Mutant of Accrue: the burst is no limit.
AccrueUncapped ==
    level' = [a \in Accounts |-> Capped(level[a] + LimitOf(a).refill,
                                        LimitOf(a).capacity + 1)]

\* Refill of every account, never above the burst.
Accrue ==
    level' = [a \in Accounts |-> Capped(level[a] + LimitOf(a).refill, LimitOf(a).capacity)]

-----------------------------------------------------------------------------
(****************************************************************************)
(* The handler.                                                             *)
(****************************************************************************)

Enter(r, place) == request' = [request EXCEPT ![r] = place]

\* 429: nothing is charged and no upstream is looked for.
ArriveLimited(r, caller, path) ==
    /\ request[r].at = "none"
    /\ ~Covered(AccountOf(caller, path))
    /\ Enter(r, Answered)
    /\ UNCHANGED <<vars, level>>

\* 404: charged, but no prefix matches.
ArriveNoRoute(r, caller, path) ==
    /\ request[r].at = "none"
    /\ Covered(AccountOf(caller, path))
    /\ UpstreamFor(path) = None
    /\ Charge(AccountOf(caller, path))
    /\ Enter(r, Answered)
    /\ UNCHANGED vars

\* Charged and routed: wait for the body.
ArriveRouted(r, caller, path, m) ==
    /\ request[r].at = "none"
    /\ Covered(AccountOf(caller, path))
    /\ UpstreamFor(path) # None
    /\ Charge(AccountOf(caller, path))
    /\ Enter(r, [at |-> "body", account |-> AccountOf(caller, path),
                 up |-> UpstreamFor(path), method |-> m])
    /\ UNCHANGED vars

\* The client is gone before its body arrived: body() raises, and the request
\* is neither answered nor observed.
Disconnect(r) ==
    /\ request[r].at = "body"
    /\ Enter(r, Nobody)
    /\ UNCHANGED <<vars, level>>

\* Mutant of Admit: a request that waited for its body is let through.
AdmitUnasked(r) ==
    /\ request[r].at = "body"
    /\ Start(r, request[r].up, request[r].method, FALSE)
    /\ Enter(r, [Nobody EXCEPT !.at = "forward", !.account = request[r].account])
    /\ UNCHANGED <<breaker, around, level>>

\* The body is there; the breaker lets the call through ...
Admit(r) ==
    /\ request[r].at = "body"
    /\ \/ ForwardClosed(r, request[r].up, request[r].method)
       \/ ForwardProbe(r, request[r].up, request[r].method)
    /\ Enter(r, [Nobody EXCEPT !.at = "forward", !.account = request[r].account])
    /\ UNCHANGED level

\* ... or answers 503.
Refused(r) ==
    /\ request[r].at = "body"
    /\ ForwardRefused(r, request[r].up)
    /\ Enter(r, Answered)
    /\ UNCHANGED level

\* forward() goes on: an attempt has failed and will be repeated, or is sent.
KeepTrying(r) ==
    /\ \E outcome \in Outcomes : Retry(r, outcome)
    /\ UNCHANGED <<level, request>>

SendAgain(r) == Wake(r) /\ UNCHANGED <<level, request>>

\* forward() returns; the response and its background task are on their way.
Answer(r) ==
    /\ \E outcome \in Outcomes : Return(r, outcome)
    /\ Enter(r, Answered)
    /\ UNCHANGED level

\* An exception leaves forward() and the handler: 500, and no task.
Fail(r) == Raise(r) /\ Enter(r, Nobody) /\ UNCHANGED level

\* The response is sent and _observe runs.
Observe(r) ==
    /\ request[r].at = "answered"
    /\ Enter(r, Nobody)
    /\ UNCHANGED <<vars, level>>

GatewayTick == Tick /\ Accrue /\ UNCHANGED request

-----------------------------------------------------------------------------
Arrive(r, caller, path) ==
    \/ ArriveLimited(r, caller, path)
    \/ ArriveNoRoute(r, caller, path)
    \/ \E m \in Methods : ArriveRouted(r, caller, path, m)

ReadBody(r) == Admit(r) \/ Refused(r)

InForward(r) == KeepTrying(r) \/ Answer(r) \/ Fail(r)

GatewayNext ==
    \/ \E r \in Requests :
          \/ \E caller \in Callers, path \in Paths : Arrive(r, caller, path)
          \/ ReadBody(r) \/ Disconnect(r)
          \/ InForward(r) \/ SendAgain(r) \/ Observe(r)
    \/ GatewayTick
    \/ \E u \in Upstreams : (Degrade(u) \/ Recover(u)) /\ UNCHANGED <<level, request>>

GatewaySpec == GatewayInit /\ [][GatewayNext]_gatewayVars

\* Servers time out connections, httpx its attempts; sleeps end, tasks run
\* and time passes.
GatewayProgress ==
    /\ \A r \in Requests :
          /\ WF_gatewayVars(ReadBody(r) \/ Disconnect(r))
          /\ WF_gatewayVars(InForward(r))
          /\ WF_gatewayVars(SendAgain(r))
          /\ WF_gatewayVars(Observe(r))
    /\ WF_gatewayVars(GatewayTick)

RequestFor(r, u) ==
    \E caller \in Callers, path \in Paths, m \in Methods :
        UpstreamFor(path) = u /\ ArriveRouted(r, caller, path, m)

\* Clients come back, at times when their allowance covers it, for a path of
\* every upstream, and not all of them disconnect.
ClientsComeBack ==
    \A u \in Upstreams :
        /\ SF_gatewayVars(\E r \in Requests : RequestFor(r, u))
        /\ SF_gatewayVars(\E r \in Requests : request[r].up = u /\ ReadBody(r))

GatewayFairSpec == GatewaySpec /\ GatewayProgress /\ ClientsComeBack

-----------------------------------------------------------------------------
(****************************************************************************)
(* Properties.                                                              *)
(****************************************************************************)

\* Only a misbehaving upstream is taken out of rotation: no step but a failed
\* answer of that very upstream moves its breaker towards OPEN, whatever mix of
\* 429, 404, 4xx, exceptions and disconnects the requests end in
\* (CircuitBreaker.record; tests/test_gateway.py:88-96).
OnlyFailuresTrip ==
    [][\A u \in Upstreams :
          \/ consecutive_failures'[u] > consecutive_failures[u]
          \/ state[u] # "open" /\ state'[u] = "open"
          => ~healthy[u]]_gatewayVars

\* Attempts request r may still send: all of them while it waits for its
\* body, the unused retries once it is in forward().
AttemptsLeft(r) ==
    IF request[r].at = "body" THEN MaxRetries + 1
    ELSE IF request[r].at = "forward" THEN MaxRetries - call[r].attempt
    ELSE 0

\* Attempts of r that leave for the upstream in this step.
Sent(r) == IF call[r].pc # "calling" /\ call'[r].pc = "calling" THEN 1 ELSE 0

\* Every attempt an upstream sees was paid for by a charge of its request's
\* account, and one charge pays for no more than max_retries + 1 of them: what
\* a client can put on an upstream is its limit times the retries, also while
\* breakers trip and recover (main.py:218-254, Proxy.forward).
AttemptsArePaid ==
    [][\A r \in Requests :
          AttemptsLeft(r)' + Sent(r) > AttemptsLeft(r) =>
              /\ request[r].at = "none" /\ request'[r].at = "body"
              /\ LET a == request'[r].account
                 IN  level'[a] = level[a] - LimitOf(a).cost]_gatewayVars

\* Every request is answered and observed, or ends in an exception: none
\* stays in the gateway (gateway, Proxy.forward).
EveryRequestSettles ==
    \A r \in Requests : request[r].at # "none" ~> request[r].at = "none"

\* The request path uses the proxy as Proxy says: what is proved of it holds
\* in the gateway.
ImplementsProxy == Spec
=============================================================================
