---------------------------- MODULE GatewayProofs ----------------------------
(****************************************************************************)
(* Safety of Proxy, and of Gateway around it, for any upstreams, requests,  *)
(* callers, paths and limit policies, and any threshold, reset interval and *)
(* retry budget; and, in a part of its own, the arithmetic of the pricing   *)
(* service behind them.                                                     *)
(*                                                                          *)
(* The proxy's TypeOK needs the retry budget (a sleeping call has a retry   *)
(* left) to be inductive.  On top of the two, each property has one         *)
(* strengthening: the breaker's state follows the failure counter; an open  *)
(* breaker is younger than its last probe, so the interval allow() measures *)
(* from opened_at separates probes too; and while the breaker is HALF_OPEN  *)
(* its last probe is in flight, because whatever is recorded first ends     *)
(* HALF_OPEN.                                                               *)
(*                                                                          *)
(* The request path takes no step of the proxy the proxy itself could not   *)
(* take, so that every theorem about Spec holds of the gateway.  What is    *)
(* new, that attempts are paid for, needs the place of a request and its    *)
(* call to agree (InStep): a request is "forward" exactly while its call is *)
(* not idle.                                                                *)
(****************************************************************************)
EXTENDS Gateway, Pricing, TLAPS

USE ThresholdAssumption, ResetAssumption, RetriesAssumption, FailuresAssumption,
    NoneAssumption

-----------------------------------------------------------------------------
\* An attempt on its way again is a call of the right type.
LEMMA NextAttempt ==
    ASSUME NEW c \in Calls, NEW a \in 0..MaxRetries
    PROVE  [c EXCEPT !.pc = "calling", !.attempt = a] \in Calls
  BY DEF Calls

\* A sleeping call has a retry left: what types attempt + 1 in Wake.
RetryLeft == \A r \in Requests : call[r].pc = "sleeping" => call[r].attempt < MaxRetries

OnlyIdempotentRetry ==
    \A r \in Requests :
        call[r].pc = "sleeping" \/ call[r].attempt > 0 => call[r].method \in Idempotent

\* A call in flight has an upstream, and a probe is a call in flight.
Placed ==
    \A r \in Requests :
        /\ call[r].pc # "idle" => call[r].up \in Upstreams
        /\ call[r].probe => call[r].pc # "idle"

\* The calls: types, slots and retry budget, one inductive invariant.
CallInv == TypeOK /\ Placed /\ RetryLeft /\ OnlyIdempotentRetry

LEMMA CallInvInductive == CallInv /\ [Next]_vars => CallInv'
<1> SUFFICES ASSUME CallInv, [Next]_vars PROVE CallInv'
  OBVIOUS
<1> USE DEF CallInv, TypeOK, Calls, Idle, BreakerStates, Placed, RetryLeft,
         OnlyIdempotentRetry
<1>1. ASSUME NEW r \in Requests, NEW u \in Upstreams, NEW m \in Methods,
             ForwardClosed(r, u, m)
      PROVE  CallInv'
  BY <1>1 DEF ForwardClosed, Start, breaker, around
<1>2. ASSUME NEW r \in Requests, NEW u \in Upstreams, NEW m \in Methods,
             ForwardProbe(r, u, m)
      PROVE  CallInv'
  BY <1>2 DEF ForwardProbe, Start
<1>3. ASSUME NEW r \in Requests, NEW outcome \in Outcomes, Retry(r, outcome)
      PROVE  CallInv'
  BY <1>3 DEF Retry, WillRetry, Retryable, breaker, around
<1>4. ASSUME NEW r \in Requests, NEW outcome \in Outcomes, Return(r, outcome)
      PROVE  CallInv'
  <2>1. /\ call' \in [Requests -> Calls]
        /\ Placed' /\ RetryLeft' /\ OnlyIdempotentRetry'
        /\ UNCHANGED <<healthy, probe_age>> /\ lost' \subseteq Upstreams
    BY <1>4 DEF Return
  <2>2. CASE Succeeded(outcome)
    BY <1>4, <2>1, <2>2 DEF Return, Record, RecordSuccess
  <2>3. CASE ~Succeeded(outcome)
    <3>1. RecordFailure(call[r].up) /\ call[r].up \in Upstreams
      BY <1>4, <2>3 DEF Return, Record
    <3> HIDE DEF CallInv, Placed, RetryLeft, OnlyIdempotentRetry
    <3>2. consecutive_failures' \in [Upstreams -> 0..BreakerThreshold]
      BY <3>1 DEF CallInv, RecordFailure, Capped
    <3>3. state' \in [Upstreams -> BreakerStates] /\ open_age' \in [Upstreams -> 0..BreakerReset]
      BY <3>1 DEF CallInv, RecordFailure
    <3>4. QED
      BY <2>1, <3>2, <3>3 DEF CallInv
  <2>4. QED
    BY <2>2, <2>3
<1>5. ASSUME NEW r \in Requests, Raise(r) PROVE CallInv'
  BY <1>5 DEF Raise, breaker
<1>6. ASSUME NEW r \in Requests, Wake(r) PROVE CallInv'
  <2> DEFINE next == [call[r] EXCEPT !.pc = "calling", !.attempt = call[r].attempt + 1]
  <2>1. /\ call[r] \in Calls /\ call[r].up \in Upstreams
        /\ call[r].attempt + 1 \in 0..MaxRetries
        /\ call[r].method \in Idempotent
        /\ call' = [call EXCEPT ![r] = next]
        /\ UNCHANGED <<breaker, around>>
    BY <1>6 DEF Wake
  <2>2. /\ next \in Calls /\ next.pc = "calling"
        /\ next.method = call[r].method
        /\ next.up = call[r].up
        /\ next.probe = call[r].probe
    BY <2>1, NextAttempt
  <2> HIDE DEF next
  <2>3. call' \in [Requests -> Calls] /\ Placed' /\ RetryLeft' /\ OnlyIdempotentRetry'
    BY <2>1, <2>2
  <2>4. QED
    BY <2>1, <2>3 DEF breaker, around
<1>7. CASE Tick
  BY <1>7 DEF Tick, Capped
<1>8. ASSUME NEW u \in Upstreams, Degrade(u) \/ Recover(u) PROVE CallInv'
  BY <1>8 DEF Degrade, Recover, breaker
<1>9. CASE UNCHANGED vars
  BY <1>9 DEF vars
<1>10. QED
  BY <1>1, <1>2, <1>3, <1>4, <1>5, <1>6, <1>7, <1>8, <1>9
     DEF Next, Forward, Deliver, ForwardRefused

LEMMA CallInvStarts == Init => CallInv
  BY DEF Init, CallInv, TypeOK, Calls, Idle, BreakerStates, Placed, RetryLeft,
         OnlyIdempotentRetry

LEMMA CallInvHolds == Spec => []CallInv
  BY CallInvStarts, CallInvInductive, PTL DEF Spec

\* Every variable keeps its type; in particular no call ever starts more
\* than MaxRetries + 1 attempts (forward's loop).
THEOREM TypeCorrect == Spec => []TypeOK
<1>1. CallInv => TypeOK
  BY DEF CallInv
<1>2. QED
  BY <1>1, CallInvHolds, PTL

\* A method that is not idempotent is sent once (Proxy._retryable).
THEOREM RetriesSafe == Spec => []RetriesStayInBudget
<1>1. CallInv => RetriesStayInBudget
  BY DEF CallInv, RetryLeft, OnlyIdempotentRetry, RetriesStayInBudget
<1>2. QED
  BY <1>1, CallInvHolds, PTL

-----------------------------------------------------------------------------
(****************************************************************************)
(* The breaker.  Only ForwardProbe, Return and Tick touch one.              *)
(****************************************************************************)

\* An OPEN breaker opened no earlier than its last probe was admitted: a late
\* failure may push the next probe back, never bring it forward.
OpenedAfterProbe ==
    \A u \in Upstreams : state[u] = "open" => open_age[u] <= probe_age[u]

BreakerInv == TypeOK /\ BreakerTracksRun /\ OpenedAfterProbe

LEMMA BreakerInvInductive ==
    CallInv /\ CallInv' /\ BreakerInv /\ [Next]_vars => BreakerInv'
<1> SUFFICES ASSUME CallInv, CallInv', BreakerInv, [Next]_vars
             PROVE  BreakerTracksRun' /\ OpenedAfterProbe'
  BY DEF BreakerInv, CallInv
<1> USE DEF BreakerInv, TypeOK, BreakerStates, BreakerTracksRun, OpenedAfterProbe
<1>1. CASE UNCHANGED <<breaker, probe_age>>
  BY <1>1 DEF breaker
<1>2. ASSUME NEW r \in Requests, NEW u \in Upstreams, NEW m \in Methods,
             ForwardProbe(r, u, m)
      PROVE  BreakerTracksRun' /\ OpenedAfterProbe'
  BY <1>2 DEF ForwardProbe, AllowProbe
<1>3. ASSUME NEW u \in Upstreams, RecordSuccess(u), UNCHANGED probe_age
      PROVE  BreakerTracksRun' /\ OpenedAfterProbe'
  BY <1>3 DEF RecordSuccess
<1>4. ASSUME NEW u \in Upstreams, RecordFailure(u), UNCHANGED probe_age
      PROVE  BreakerTracksRun' /\ OpenedAfterProbe'
  <2>1. CASE Trips(u)
    <3>1. consecutive_failures'[u] = BreakerThreshold
      BY <1>4, <2>1 DEF RecordFailure, Trips, Capped
    <3>2. QED
      BY <1>4, <2>1, <3>1 DEF RecordFailure
  <2>2. CASE ~Trips(u)
    BY <1>4, <2>2 DEF RecordFailure, Trips, Capped
  <2>3. QED
    BY <2>1, <2>2
<1>5. ASSUME NEW r \in Requests, NEW outcome \in Outcomes, Return(r, outcome)
      PROVE  BreakerTracksRun' /\ OpenedAfterProbe'
  <2>1. call[r].up \in Upstreams /\ UNCHANGED probe_age
    BY <1>5 DEF CallInv, Placed, Return
  <2>2. RecordSuccess(call[r].up) \/ RecordFailure(call[r].up)
    BY <1>5 DEF Return, Record
  <2>3. QED
    BY <1>3, <1>4, <2>1, <2>2
<1>6. CASE Tick
  BY <1>6 DEF Tick, Capped
<1>7. QED
  BY <1>1, <1>2, <1>5, <1>6
     DEF Next, Forward, Deliver, ForwardRefused, ForwardClosed, Retry, Raise,
         Wake, Degrade, Recover, vars, breaker, around

LEMMA BreakerInvHolds == Spec => []BreakerInv
<1>1. Init => BreakerInv
  BY DEF Init, BreakerInv, TypeOK, Calls, Idle, BreakerStates, BreakerTracksRun,
         OpenedAfterProbe
<1>2. QED
  BY <1>1, CallInvHolds, BreakerInvInductive, PTL DEF Spec

\* CLOSED means fewer than breaker_threshold failures in a row, and nothing
\* else does (CircuitBreaker.record).
THEOREM BreakerTracks == Spec => []BreakerTracksRun
<1>1. BreakerInv => BreakerTracksRun
  BY DEF BreakerInv
<1>2. QED
  BY <1>1, BreakerInvHolds, PTL

\* Probes of one upstream are breaker_reset_sec apart (CircuitBreaker.allow).
THEOREM ProbesAreSpaced == Spec => ProbesSpaced
<1> DEFINE Spaced == \A u \in Upstreams :
               state[u] = "open" /\ state'[u] = "half_open" => probe_age[u] = BreakerReset
<1>1. ASSUME BreakerInv, [Next]_vars PROVE [Spaced]_vars
  <2> SUFFICES ASSUME NEW u \in Upstreams, state[u] = "open", state'[u] = "half_open"
               PROVE  probe_age[u] = BreakerReset
    OBVIOUS
  <2> USE DEF BreakerInv, TypeOK, BreakerStates, OpenedAfterProbe
  <2>1. ASSUME NEW r \in Requests, NEW v \in Upstreams, NEW m \in Methods,
               ForwardProbe(r, v, m)
        PROVE  probe_age[u] = BreakerReset
    BY <1>1, <2>1 DEF ForwardProbe, AllowProbe
  <2>2. QED
    BY <1>1, <2>1
       DEF Next, Forward, Deliver, ForwardRefused, ForwardClosed, Retry, Return, Raise,
           Wake, Tick, Degrade, Recover, Record, RecordSuccess, RecordFailure, vars,
           breaker, around
<1>2. QED
  BY <1>1, BreakerInvHolds, PTL DEF Spec, ProbesSpaced

-----------------------------------------------------------------------------
(****************************************************************************)
(* The probe.                                                               *)
(****************************************************************************)

\* HALF_OPEN keeps its probe in flight until some result is recorded, and
\* that ends HALF_OPEN; a probe that ends without one is lost.
LEMMA ProbeStays ==
    ASSUME CallInv, HalfOpenHasProbe, [Next]_vars
    PROVE  HalfOpenHasProbe'
<1> SUFFICES ASSUME NEW u \in Upstreams, state'[u] = "half_open"
             PROVE  (\E p \in Requests : call'[p].up = u /\ call'[p].probe) \/ u \in lost'
  BY DEF HalfOpenHasProbe, Probes
<1> USE DEF CallInv, TypeOK, Calls, BreakerStates, Placed, Idle
<1>1. ASSUME NEW r \in Requests, NEW m \in Methods, ForwardProbe(r, u, m)
      PROVE  call'[r].up = u /\ call'[r].probe
  BY <1>1 DEF ForwardProbe, Start
<1>2. ASSUME NEW r \in Requests, NEW outcome \in Outcomes, Return(r, outcome)
      PROVE  call[r].up # u
  BY <1>2 DEF Return, Record, RecordSuccess, RecordFailure, Trips
<1> DEFINE Kept ==
             /\ state[u] = "half_open"
             /\ u \in lost => u \in lost'
             /\ \A p \in Requests :
                    call[p].up = u /\ call[p].probe => call'[p].up = u /\ call'[p].probe
<1>3. ASSUME Kept
      PROVE  (\E p \in Requests : call'[p].up = u /\ call'[p].probe) \/ u \in lost'
  BY <1>3 DEF HalfOpenHasProbe, Probes
<1>4. ASSUME NEW r \in Requests, Raise(r)
      PROVE  Kept \/ u \in lost'
  BY <1>4 DEF Raise, breaker
<1>5. ASSUME NEW r \in Requests, NEW v \in Upstreams, NEW m \in Methods,
             ForwardClosed(r, v, m)
      PROVE  Kept
  BY <1>5 DEF ForwardClosed, Start, breaker, around
<1>6. ASSUME NEW r \in Requests, NEW v \in Upstreams, NEW m \in Methods,
             ForwardProbe(r, v, m), v # u
      PROVE  Kept
  BY <1>6 DEF ForwardProbe, Start
<1>7. ASSUME NEW r \in Requests, NEW outcome \in Outcomes, Retry(r, outcome)
      PROVE  Kept
  BY <1>7 DEF Retry, breaker, around
<1>8. ASSUME NEW r \in Requests, NEW outcome \in Outcomes, Return(r, outcome)
      PROVE  Kept
  <2>1. call[r].up \in Upstreams /\ call[r].up # u
    BY <1>2, <1>8 DEF Return
  <2>2. state[u] = "half_open"
    BY <1>8, <2>1 DEF Return, Record, RecordSuccess, RecordFailure
  <2>3. QED
    BY <1>8, <2>1, <2>2 DEF Return
<1>9. ASSUME NEW r \in Requests, Wake(r) PROVE Kept
  <2> DEFINE next == [call[r] EXCEPT !.pc = "calling", !.attempt = call[r].attempt + 1]
  <2>1. /\ call' = [call EXCEPT ![r] = next]
        /\ next.up = call[r].up /\ next.probe = call[r].probe
        /\ UNCHANGED <<breaker, around>>
    BY <1>9 DEF Wake
  <2> HIDE DEF next
  <2>2. QED
    BY <2>1 DEF breaker, around
<1>10. CASE UNCHANGED <<state, call, lost>>
  BY <1>3, <1>10
<1>11. QED
  BY <1>1, <1>3, <1>4, <1>5, <1>6, <1>7, <1>8, <1>9, <1>10
     DEF Next, Forward, Deliver, ForwardRefused, Tick, Degrade, Recover, vars, breaker

\* Nobody is held back by a HALF_OPEN breaker with no probe in flight, unless
\* an exception that forward() does not catch took the probe
\* (CircuitBreaker.allow).
THEOREM HalfOpenIsProbed == Spec => []HalfOpenHasProbe
<1>1. Init => HalfOpenHasProbe
  BY DEF Init, HalfOpenHasProbe
<1>2. CallInv /\ HalfOpenHasProbe /\ [Next]_vars => HalfOpenHasProbe'
  BY ProbeStays
<1>3. QED
  BY <1>1, <1>2, CallInvHolds, PTL DEF Spec

-----------------------------------------------------------------------------
(****************************************************************************)
(* The gateway.                                                             *)
(****************************************************************************)

\* A request waiting for its body knows where it will go and who pays.
BodyIsRouted ==
    \A r \in Requests :
        request[r].at = "body" =>
            /\ request[r].account \in Accounts
            /\ request[r].up \in Upstreams
            /\ request[r].method \in Methods

InStep == \A r \in Requests : request[r].at = "forward" <=> call[r].pc # "idle"

GatewayInv == GatewayTypeOK /\ BodyIsRouted /\ InStep

(****************************************************************************)
(* The tables.                                                              *)
(****************************************************************************)

\* Whatever the tables hold, a request is charged to an account there is.
LEMMA AccountExists ==
    ASSUME NEW caller \in Callers, NEW path \in Paths
    PROVE  AccountOf(caller, path) \in Accounts
<1>1. ASSUME NEW tier PROVE Resolve(path, tier) \in Policies
  BY PoliciesAssumption DEF Resolve
<1>2. ClientOf(caller) \in Clients
  BY DEF ClientOf, Clients
<1>3. QED
  BY <1>1, <1>2 DEF AccountOf, Accounts

\* An upstream that is found is one of the configured ones.
LEMMA FoundIsConfigured ==
    ASSUME NEW path \in Paths, UpstreamFor(path) # None
    PROVE  UpstreamFor(path) \in Upstreams
<1> DEFINE matching == {u \in Upstreams : path \in Serves[u]}
<1>1. matching # {}
  BY DEF UpstreamFor
<1>2. PICK u \in matching : \A v \in matching : PrefixLength[u] >= PrefixLength[v]
  BY <1>1, PathsAssumption
<1>3. QED
  BY <1>1, <1>2 DEF UpstreamFor

LEMMA LimitTyped ==
    ASSUME NEW a \in Accounts
    PROVE  LimitOf(a).capacity \in Nat /\ LimitOf(a).refill \in Nat /\ LimitOf(a).cost \in Nat
  BY PoliciesAssumption DEF Accounts, LimitOf

\* What a level is, before and after a charge and a tick.
Levels == level \in [Accounts -> Nat] /\ \A a \in Accounts : level[a] <= LimitOf(a).capacity

LEMMA ChargeKeepsLevels ==
    ASSUME Levels, NEW b \in Accounts, Covered(b), Charge(b)
    PROVE  Levels' /\ level'[b] = level[b] - LimitOf(b).cost
<1>1. /\ level[b] \in Nat /\ LimitOf(b).cost \in Nat /\ level[b] >= LimitOf(b).cost
      /\ level[b] <= LimitOf(b).capacity /\ LimitOf(b).capacity \in Nat
  BY LimitTyped DEF Levels, Covered
<1> DEFINE left == level[b] - LimitOf(b).cost
<1>2. left \in Nat /\ left <= LimitOf(b).capacity
  BY <1>1
<1>3. level' = [level EXCEPT ![b] = left]
  BY DEF Charge
<1>4. level'[b] = left
  BY <1>3 DEF Levels
<1> HIDE DEF left
<1>5. Levels'
  BY <1>2, <1>3 DEF Levels
<1>6. QED
  BY <1>4, <1>5 DEF left

LEMMA AccrueKeepsLevels ==
    ASSUME Levels, Accrue
    PROVE  Levels'
<1>1. ASSUME NEW a \in Accounts
      PROVE  /\ Capped(level[a] + LimitOf(a).refill, LimitOf(a).capacity) \in Nat
             /\ Capped(level[a] + LimitOf(a).refill, LimitOf(a).capacity) <= LimitOf(a).capacity
  BY LimitTyped DEF Levels, Capped
<1>2. QED
  BY <1>1 DEF Levels, Accrue

(****************************************************************************)
(* The invariant.                                                           *)
(****************************************************************************)

LEMMA GatewayInvStarts == GatewayInit => GatewayInv
  BY LimitTyped, NoneAssumption
     DEF GatewayInit, GatewayInv, GatewayTypeOK, Places, Nobody, BodyIsRouted, InStep,
         Init, Idle

\* A request at its place keeps the places typed.
LEMMA EnterTyped ==
    ASSUME request \in [Requests -> Places], NEW r \in Requests, NEW place \in Places,
           Enter(r, place)
    PROVE  /\ request' \in [Requests -> Places]
           /\ request'[r] = place
           /\ \A q \in Requests \ {r} : request'[q] = request[q]
  BY DEF Enter

LEMMA GatewayInvInductive ==
    GatewayInv /\ CallInv /\ [GatewayNext]_gatewayVars => GatewayInv'
<1> SUFFICES ASSUME GatewayInv, CallInv, [GatewayNext]_gatewayVars
             PROVE  GatewayInv'
  OBVIOUS
<1> USE DEF GatewayInv
<1>0. Levels /\ request \in [Requests -> Places] /\ Nobody \in Places /\ Answered \in Places
  BY DEF GatewayTypeOK, Levels, Places, Nobody, Answered
<1>a. Levels' /\ request' \in [Requests -> Places] => GatewayTypeOK'
  BY LimitTyped DEF GatewayTypeOK, Levels
<1>1. ASSUME NEW r \in Requests, NEW caller \in Callers, NEW path \in Paths,
             ArriveLimited(r, caller, path) \/ ArriveNoRoute(r, caller, path)
      PROVE  GatewayInv'
  <2>1. Levels'
    BY <1>0, <1>1, AccountExists, ChargeKeepsLevels DEF ArriveLimited, ArriveNoRoute, Levels
  <2>2. Enter(r, Answered) /\ request[r].at = "none" /\ UNCHANGED call
    BY <1>1 DEF ArriveLimited, ArriveNoRoute, vars
  <2>3. QED
    BY <1>0, <1>a, <2>1, <2>2, EnterTyped DEF BodyIsRouted, InStep, Answered, Nobody
<1>2. ASSUME NEW r \in Requests, NEW caller \in Callers, NEW path \in Paths,
             NEW m \in Methods, ArriveRouted(r, caller, path, m)
      PROVE  GatewayInv'
  <2> DEFINE place == [at |-> "body", account |-> AccountOf(caller, path),
                       up |-> UpstreamFor(path), method |-> m]
  <2>1. /\ AccountOf(caller, path) \in Accounts /\ UpstreamFor(path) \in Upstreams
        /\ place \in Places
    BY <1>2, AccountExists, FoundIsConfigured DEF ArriveRouted, Places
  <2>2. Levels'
    BY <1>0, <1>2, <2>1, ChargeKeepsLevels DEF ArriveRouted
  <2>3. Enter(r, place) /\ request[r].at = "none" /\ UNCHANGED call
    BY <1>2 DEF ArriveRouted, vars
  <2>4. QED
    BY <1>0, <1>a, <2>1, <2>2, <2>3, EnterTyped DEF BodyIsRouted, InStep
<1>3. ASSUME NEW r \in Requests, Disconnect(r) \/ Observe(r) PROVE GatewayInv'
  <2>1. /\ Enter(r, Nobody) /\ request[r].at \in {"body", "answered"}
        /\ UNCHANGED <<call, level>>
    BY <1>3 DEF Disconnect, Observe, vars
  <2>2. QED
    BY <1>0, <1>a, <2>1, EnterTyped DEF BodyIsRouted, InStep, Nobody, Levels
<1>4. ASSUME NEW r \in Requests, Admit(r) PROVE GatewayInv'
  <2> DEFINE place == [Nobody EXCEPT !.at = "forward", !.account = request[r].account]
  <2>1. /\ Enter(r, place) /\ request[r].at = "body" /\ UNCHANGED level
        /\ call[r].pc = "idle" /\ call'[r].pc = "calling"
        /\ \A q \in Requests \ {r} : call'[q] = call[q]
    BY <1>4 DEF Admit, ForwardClosed, ForwardProbe, Start, CallInv, TypeOK
  <2>2. place \in Places /\ place.at = "forward"
    BY <1>0, <2>1 DEF Places, Nobody, BodyIsRouted
  <2> HIDE DEF place
  <2>3. /\ request' \in [Requests -> Places] /\ request'[r].at = "forward"
        /\ \A q \in Requests \ {r} : request'[q] = request[q]
    BY <1>0, <2>1, <2>2, EnterTyped
  <2>4. BodyIsRouted' /\ InStep'
    BY <2>1, <2>3 DEF BodyIsRouted, InStep
  <2>5. QED
    BY <1>0, <1>a, <2>1, <2>3, <2>4 DEF Levels
<1>5. ASSUME NEW r \in Requests, Refused(r) PROVE GatewayInv'
  <2>1. /\ Enter(r, Answered) /\ request[r].at = "body" /\ UNCHANGED <<call, level>>
    BY <1>5 DEF Refused, ForwardRefused, vars
  <2>2. /\ request' \in [Requests -> Places] /\ request'[r].at = "answered"
        /\ \A q \in Requests \ {r} : request'[q] = request[q]
    BY <1>0, <2>1, EnterTyped DEF Answered, Nobody
  <2>3. BodyIsRouted' /\ InStep'
    BY <2>1, <2>2 DEF BodyIsRouted, InStep
  <2>4. QED
    BY <1>0, <1>a, <2>1, <2>2, <2>3 DEF Levels
<1>6. ASSUME NEW r \in Requests, KeepTrying(r) \/ SendAgain(r) PROVE GatewayInv'
  <2>0. call \in [Requests -> Calls]
    BY DEF CallInv, TypeOK
  <2>1. /\ UNCHANGED <<request, level>>
        /\ call[r].pc # "idle" /\ call'[r].pc # "idle"
        /\ \A q \in Requests \ {r} : call'[q] = call[q]
    <3>1. CASE KeepTrying(r)
      BY <2>0, <3>1 DEF KeepTrying, Retry, Calls
    <3>2. CASE SendAgain(r)
      BY <2>0, <3>2 DEF SendAgain, Wake, Calls
    <3>3. QED
      BY <1>6, <3>1, <3>2
  <2>2. QED
    BY <1>0, <1>a, <2>1 DEF BodyIsRouted, InStep, Levels
<1>7. ASSUME NEW r \in Requests, Answer(r) \/ Fail(r) PROVE GatewayInv'
  <2>1. /\ Enter(r, Answered) \/ Enter(r, Nobody)
        /\ call[r].pc = "calling" /\ call'[r].pc = "idle" /\ UNCHANGED level
        /\ \A q \in Requests \ {r} : call'[q] = call[q]
    BY <1>7 DEF Answer, Fail, Return, Raise, Idle, CallInv, TypeOK
  <2>2. /\ request' \in [Requests -> Places] /\ request'[r].at \in {"answered", "none"}
        /\ \A q \in Requests \ {r} : request'[q] = request[q]
    BY <1>0, <2>1, EnterTyped DEF Answered, Nobody
  <2>3. BodyIsRouted' /\ InStep'
    BY <2>1, <2>2 DEF BodyIsRouted, InStep
  <2>4. QED
    BY <1>0, <1>a, <2>1, <2>2, <2>3 DEF Levels
<1>8. ASSUME GatewayTick PROVE GatewayInv'
  <2>1. UNCHANGED <<request, call>> /\ Levels'
    BY <1>0, <1>8, AccrueKeepsLevels DEF GatewayTick, Tick
  <2>2. QED
    BY <1>0, <1>a, <2>1 DEF BodyIsRouted, InStep
<1>9. CASE UNCHANGED <<request, level, call>>
  BY <1>0, <1>9, <1>a DEF BodyIsRouted, InStep, Levels
<1>10. ASSUME NEW u \in Upstreams, Degrade(u) \/ Recover(u), UNCHANGED <<level, request>>
       PROVE  GatewayInv'
  BY <1>9, <1>10 DEF Degrade, Recover
<1>11. QED
  BY <1>1, <1>2, <1>3, <1>4, <1>5, <1>6, <1>7, <1>8, <1>9, <1>10
     DEF GatewayNext, Arrive, ReadBody, InForward, gatewayVars, vars

-----------------------------------------------------------------------------
(****************************************************************************)
(* Refinement, and what follows from it.                                    *)
(****************************************************************************)

\* With its places typed, a step of the gateway is a step of the proxy or
\* leaves the proxy alone.
LEMMA StepOfProxy == GatewayInv /\ [GatewayNext]_gatewayVars => [Next]_vars
<1> SUFFICES ASSUME GatewayInv, [GatewayNext]_gatewayVars PROVE [Next]_vars
  OBVIOUS
<1>1. ASSUME NEW r \in Requests, NEW caller \in Callers, NEW path \in Paths,
             Arrive(r, caller, path)
      PROVE  UNCHANGED vars
  BY <1>1 DEF Arrive, ArriveLimited, ArriveNoRoute, ArriveRouted
<1>2. ASSUME NEW r \in Requests, ReadBody(r) PROVE Next
  <2>1. request[r].up \in Upstreams /\ request[r].method \in Methods
    BY <1>2 DEF ReadBody, Admit, Refused, GatewayInv, BodyIsRouted
  <2>2. Forward(r, request[r].up, request[r].method)
    BY <1>2 DEF ReadBody, Admit, Refused, Forward
  <2>3. QED
    BY <2>1, <2>2 DEF Next
<1>3. ASSUME NEW r \in Requests, Disconnect(r) \/ Observe(r) PROVE UNCHANGED vars
  BY <1>3 DEF Disconnect, Observe
<1>4. ASSUME NEW r \in Requests, InForward(r) \/ SendAgain(r) PROVE Next
  <2>1. Deliver(r) \/ Wake(r)
    BY <1>4 DEF InForward, KeepTrying, Answer, Fail, SendAgain, Deliver
  <2>2. QED
    BY <2>1 DEF Next
<1>5. ASSUME GatewayTick PROVE Next
  BY <1>5 DEF GatewayTick, Next
<1>6. ASSUME NEW u \in Upstreams, Degrade(u) \/ Recover(u) PROVE Next
  BY <1>6 DEF Next
<1>7. CASE UNCHANGED gatewayVars
  BY <1>7 DEF gatewayVars
<1>8. QED
  BY <1>1, <1>2, <1>3, <1>4, <1>5, <1>6, <1>7 DEF GatewayNext

LEMMA GatewayInvHolds == GatewaySpec => [](GatewayInv /\ CallInv)
<1>1. GatewayInit => CallInv
  BY CallInvStarts DEF GatewayInit
<1>2. QED
  BY <1>1, GatewayInvStarts, GatewayInvInductive, StepOfProxy, CallInvInductive, PTL
     DEF GatewaySpec

\* No account exceeds its burst or goes below zero, and every request is at a
\* place of the handler (gateway, Limiter.check).
THEOREM GatewayTypeCorrect == GatewaySpec => []GatewayTypeOK
<1>1. GatewayInv => GatewayTypeOK
  BY DEF GatewayInv
<1>2. QED
  BY <1>1, GatewayInvHolds, PTL

\* The request path uses the proxy as Proxy says, so that what is proved
\* above of the breakers holds in the gateway (main.py:250-254).
THEOREM GatewayImplementsProxy == GatewaySpec => ImplementsProxy
<1>1. GatewayInit => Init
  BY DEF GatewayInit
<1>2. QED
  BY <1>1, GatewayInvHolds, StepOfProxy, PTL DEF GatewaySpec, Spec, ImplementsProxy

\* In the gateway a breaker trips at its threshold, whatever order answers
\* arrive in, probes of one upstream are an interval apart, and a HALF_OPEN
\* breaker has its probe in flight or has lost it to an exception that nothing
\* caught (CircuitBreaker, Proxy.forward).
COROLLARY GatewayBreakers ==
    GatewaySpec => []BreakerTracksRun /\ []HalfOpenHasProbe /\ ProbesSpaced
  BY GatewayImplementsProxy, BreakerTracks, HalfOpenIsProbed, ProbesAreSpaced, PTL
     DEF ImplementsProxy

-----------------------------------------------------------------------------
(****************************************************************************)
(* What trips a breaker.                                                    *)
(****************************************************************************)

\* A final answer that is a failure is one of an upstream that misbehaves.
LEMMA FailureIsUpstreams ==
    ASSUME CallInv, NEW r \in Requests, NEW outcome \in Outcomes, Return(r, outcome)
    PROVE  /\ call[r].up \in Upstreams
           /\ \/ RecordSuccess(call[r].up)
              \/ RecordFailure(call[r].up) /\ ~healthy[call[r].up]
<1>1. call[r].up \in Upstreams
  BY DEF Return, CallInv, Placed
<1>2. Succeeded(outcome) \/ ~healthy[call[r].up]
  BY DEF Return, Outcome, OwnFaults, Succeeded
<1>3. QED
  BY <1>1, <1>2 DEF Return, Record

LEMMA StepTrips ==
    ASSUME CallInv, [Next]_vars, NEW u \in Upstreams,
           \/ consecutive_failures'[u] > consecutive_failures[u]
           \/ state[u] # "open" /\ state'[u] = "open"
    PROVE  ~healthy[u]
<1>0. /\ consecutive_failures \in [Upstreams -> 0..BreakerThreshold]
      /\ state \in [Upstreams -> BreakerStates]
  BY DEF CallInv, TypeOK
<1>1. ASSUME NEW r \in Requests, NEW outcome \in Outcomes, Return(r, outcome)
      PROVE  ~healthy[u]
  <2>1. CASE RecordSuccess(call[r].up)
    BY <1>0, <2>1, ThresholdAssumption DEF RecordSuccess
  <2>2. CASE RecordFailure(call[r].up) /\ ~healthy[call[r].up]
    <3>1. CASE u = call[r].up
      BY <2>2, <3>1
    <3>2. CASE u # call[r].up
      BY <1>0, <1>1, <2>2, <3>2, FailureIsUpstreams DEF RecordFailure
    <3>3. QED
      BY <3>1, <3>2
  <2>3. QED
    BY <1>1, <2>1, <2>2, FailureIsUpstreams
<1>2. ASSUME NEW r \in Requests, NEW v \in Upstreams, NEW m \in Methods, Forward(r, v, m)
      PROVE  FALSE
  <2>1. /\ UNCHANGED consecutive_failures
        /\ state' = state \/ state' = [state EXCEPT ![v] = "half_open"]
    BY <1>2 DEF Forward, ForwardClosed, ForwardProbe, ForwardRefused, breaker, vars
  <2>2. consecutive_failures[u] \in Int /\ state'[u] \in {state[u], "half_open"}
    BY <1>0, <2>1, ThresholdAssumption
  <2>3. QED
    BY <2>1, <2>2
<1>3. CASE UNCHANGED <<state, consecutive_failures>>
  BY <1>0, <1>3, ThresholdAssumption
<1>4. QED
  BY <1>1, <1>2, <1>3
     DEF Next, Deliver, Retry, Raise, Wake, Tick, Degrade, Recover, breaker, vars

\* Whatever clients do, only failed answers of an upstream that misbehaves
\* take it out of rotation (CircuitBreaker.record, gateway).
THEOREM OnlyFailuresTripIt == GatewaySpec => OnlyFailuresTrip
<1>1. CallInv /\ [Next]_vars =>
          \A u \in Upstreams :
              \/ consecutive_failures'[u] > consecutive_failures[u]
              \/ state[u] # "open" /\ state'[u] = "open"
              => ~healthy[u]
  BY StepTrips
<1>2. QED
  BY <1>1, GatewayInvHolds, StepOfProxy, PTL DEF GatewaySpec, OnlyFailuresTrip

-----------------------------------------------------------------------------
(****************************************************************************)
(* Who pays for the attempts.                                               *)
(****************************************************************************)

\* The attempts of a request that a step leaves where it is.
LEMMA Elsewhere ==
    ASSUME GatewayInv, CallInv, NEW r \in Requests,
           request'[r] = request[r], call'[r] = call[r]
    PROVE  ~(AttemptsLeft(r)' + Sent(r) > AttemptsLeft(r))
<1>1. call[r].attempt \in Int
  BY DEF CallInv, TypeOK, Calls
<1>2. AttemptsLeft(r) \in Int /\ Sent(r) = 0 /\ AttemptsLeft(r)' = AttemptsLeft(r)
  BY <1>1, RetriesAssumption DEF AttemptsLeft, Sent
<1>3. QED
  BY <1>2

\* Nothing is left of a request once its handler is done with it.
LEMMA Done ==
    ASSUME GatewayInv, CallInv, NEW r \in Requests,
           request'[r].at \in {"none", "answered"}, call'[r].pc # "calling"
    PROVE  ~(AttemptsLeft(r)' + Sent(r) > AttemptsLeft(r))
<1>1. call[r].attempt \in 0..MaxRetries
  BY DEF CallInv, TypeOK, Calls
<1>2. AttemptsLeft(r) \in Nat /\ AttemptsLeft(r)' = 0 /\ Sent(r) = 0
  BY <1>1, RetriesAssumption DEF AttemptsLeft, Sent
<1>3. QED
  BY <1>2

\* A step of the handler of q touches the place and the call of q only.
LEMMA OneAtATime ==
    ASSUME GatewayInv, CallInv, NEW q \in Requests,
           \/ ReadBody(q) \/ Disconnect(q) \/ InForward(q) \/ SendAgain(q) \/ Observe(q)
           \/ \E caller \in Callers, path \in Paths : Arrive(q, caller, path),
           NEW r \in Requests \ {q}
    PROVE  request'[r] = request[r] /\ call'[r] = call[r]
<1>0. /\ request \in [Requests -> Places] /\ call \in [Requests -> Calls]
  BY DEF GatewayInv, GatewayTypeOK, CallInv, TypeOK
<1>1. request'[r] = request[r]
  BY <1>0 DEF ReadBody, Admit, Refused, Disconnect, InForward, KeepTrying, Answer, Fail,
              SendAgain, Observe, Arrive, ArriveLimited, ArriveNoRoute, ArriveRouted, Enter
<1>2. call'[r] = call[r]
  BY <1>0 DEF ReadBody, Admit, Refused, Disconnect, InForward, KeepTrying, Answer, Fail,
              SendAgain, Observe, Arrive, ArriveLimited, ArriveNoRoute, ArriveRouted,
              ForwardClosed, ForwardProbe, ForwardRefused, Start, Retry, Return, Raise,
              Wake, vars
<1>3. QED
  BY <1>1, <1>2

\* Admitted, the first of the attempts is sent at once.
LEMMA AdmitSpends ==
    ASSUME GatewayInv, CallInv, NEW r \in Requests, Admit(r)
    PROVE  ~(AttemptsLeft(r)' + Sent(r) > AttemptsLeft(r))
<1>1. /\ request \in [Requests -> Places] /\ call \in [Requests -> Calls]
  BY DEF GatewayInv, GatewayTypeOK, CallInv, TypeOK
<1>2. request[r].at = "body" /\ request'[r].at = "forward"
  BY <1>1 DEF Admit, Enter, Nobody
<1>3. call'[r].attempt = 0
  BY <1>1 DEF Admit, ForwardClosed, ForwardProbe, Start
<1>4. /\ AttemptsLeft(r) = MaxRetries + 1 /\ AttemptsLeft(r)' = MaxRetries
      /\ Sent(r) \in {0, 1}
  BY <1>2, <1>3, RetriesAssumption DEF AttemptsLeft, Sent
<1>5. QED
  BY <1>4, RetriesAssumption

\* A retry that is sent is one of those left.
LEMMA RetrySpends ==
    ASSUME GatewayInv, CallInv, NEW r \in Requests, KeepTrying(r) \/ SendAgain(r)
    PROVE  ~(AttemptsLeft(r)' + Sent(r) > AttemptsLeft(r))
<1>1. /\ request \in [Requests -> Places] /\ call \in [Requests -> Calls]
      /\ call[r].attempt \in 0..MaxRetries /\ UNCHANGED request
  BY DEF GatewayInv, GatewayTypeOK, CallInv, TypeOK, Calls, KeepTrying, SendAgain
<1>2. call[r].pc # "idle"
  BY DEF KeepTrying, Retry, SendAgain, Wake
<1>3. request[r].at = "forward" /\ request'[r].at = "forward"
  BY <1>1, <1>2 DEF GatewayInv, InStep
<1>4. CASE KeepTrying(r)
  <2>1. call'[r].pc = "sleeping" /\ call'[r].attempt = call[r].attempt
    BY <1>1, <1>4 DEF KeepTrying, Retry, Calls
  <2>2. AttemptsLeft(r)' = AttemptsLeft(r) /\ Sent(r) = 0 /\ AttemptsLeft(r) \in Int
    BY <1>1, <1>3, <2>1, RetriesAssumption DEF AttemptsLeft, Sent
  <2>3. QED
    BY <2>2
<1>5. CASE SendAgain(r)
  <2>1. call'[r].attempt = call[r].attempt + 1
    BY <1>1, <1>5 DEF SendAgain, Wake, Calls
  <2>2. /\ AttemptsLeft(r) = MaxRetries - call[r].attempt
        /\ AttemptsLeft(r)' = MaxRetries - (call[r].attempt + 1) /\ Sent(r) \in {0, 1}
    BY <1>3, <2>1 DEF AttemptsLeft, Sent
  <2>3. QED
    BY <1>1, <2>2, RetriesAssumption
<1>6. QED
  BY <1>4, <1>5

\* The charge that pays for the attempts of a request that is routed.
LEMMA RoutedIsCharged ==
    ASSUME GatewayInv, NEW r \in Requests, NEW caller \in Callers, NEW path \in Paths,
           NEW m \in Methods, ArriveRouted(r, caller, path, m)
    PROVE  /\ request[r].at = "none" /\ request'[r].at = "body"
           /\ LET a == request'[r].account
              IN  level'[a] = level[a] - LimitOf(a).cost
<1>1. request'[r].at = "body" /\ request'[r].account = AccountOf(caller, path)
  BY DEF ArriveRouted, Enter, GatewayInv, GatewayTypeOK
<1>2. AccountOf(caller, path) \in Accounts
  BY AccountExists
<1>3. Levels
  BY DEF GatewayInv, GatewayTypeOK, Levels
<1>4. QED
  BY <1>1, <1>2, <1>3, ChargeKeepsLevels DEF ArriveRouted

\* One charge of the account of a request pays for every attempt it makes
\* (main.py:218-254, the loop of Proxy.forward).
THEOREM AttemptsPaid == GatewaySpec => AttemptsArePaid
<1> DEFINE Paid(r) ==
      AttemptsLeft(r)' + Sent(r) > AttemptsLeft(r) =>
          /\ request[r].at = "none" /\ request'[r].at = "body"
          /\ LET a == request'[r].account
             IN  level'[a] = level[a] - LimitOf(a).cost
<1>1. ASSUME GatewayInv, CallInv, [GatewayNext]_gatewayVars, NEW r \in Requests
      PROVE  Paid(r)
  <2>0. /\ request \in [Requests -> Places] /\ call \in [Requests -> Calls]
    BY <1>1 DEF GatewayInv, GatewayTypeOK, CallInv, TypeOK
  <2>1. CASE request'[r] = request[r] /\ call'[r] = call[r]
    BY <1>1, <2>1, Elsewhere
  <2>2. ASSUME NEW caller \in Callers, NEW path \in Paths, Arrive(r, caller, path)
        PROVE  Paid(r)
    <3>1. CASE \E m \in Methods : ArriveRouted(r, caller, path, m)
      BY <1>1, <3>1, RoutedIsCharged
    <3>2. CASE ArriveLimited(r, caller, path) \/ ArriveNoRoute(r, caller, path)
      <4>1. request[r].at = "none" /\ request'[r].at = "answered" /\ UNCHANGED call
        BY <2>0, <3>2 DEF ArriveLimited, ArriveNoRoute, Enter, Answered, Nobody, vars
      <4>2. call[r].pc = "idle"
        BY <1>1, <2>0, <4>1 DEF GatewayInv, InStep, Calls
      <4>3. QED
        BY <1>1, <4>1, <4>2, Done
    <3>3. QED
      BY <2>2, <3>1, <3>2 DEF Arrive
  <2>3. ASSUME Disconnect(r) \/ Observe(r) \/ Refused(r) PROVE Paid(r)
    <3>1. /\ request[r].at \in {"body", "answered"} /\ UNCHANGED call
          /\ request'[r].at \in {"none", "answered"}
      BY <2>0, <2>3 DEF Disconnect, Observe, Refused, ForwardRefused, Enter, Answered,
                        Nobody, vars
    <3>2. call[r].pc = "idle"
      BY <1>1, <2>0, <3>1 DEF GatewayInv, InStep, Calls
    <3>3. QED
      BY <1>1, <3>1, <3>2, Done
  <2>4. ASSUME Answer(r) \/ Fail(r) PROVE Paid(r)
    <3>1. request'[r].at \in {"none", "answered"} /\ call'[r].pc = "idle"
      BY <2>0, <2>4 DEF Answer, Fail, Return, Raise, Enter, Answered, Nobody, Idle
    <3>2. QED
      BY <1>1, <3>1, Done
  <2>5. ASSUME Admit(r) PROVE Paid(r)
    BY <1>1, <2>5, AdmitSpends
  <2>6. ASSUME KeepTrying(r) \/ SendAgain(r) PROVE Paid(r)
    BY <1>1, <2>6, RetrySpends
  <2>7. CASE UNCHANGED <<request, call>>
    BY <2>1, <2>7
  <2>8. ASSUME NEW q \in Requests, q # r,
               \/ ReadBody(q) \/ Disconnect(q) \/ InForward(q) \/ SendAgain(q) \/ Observe(q)
               \/ \E caller \in Callers, path \in Paths : Arrive(q, caller, path)
        PROVE  Paid(r)
    BY <1>1, <2>1, <2>8, OneAtATime
  <2> HIDE DEF Paid
  <2>9. QED
    BY <1>1, <2>2, <2>3, <2>4, <2>5, <2>6, <2>7, <2>8
       DEF GatewayNext, ReadBody, InForward, GatewayTick, Tick, Degrade, Recover,
           gatewayVars, vars
<1>2. GatewayInv /\ CallInv /\ [GatewayNext]_gatewayVars =>
          [\A r \in Requests : Paid(r)]_gatewayVars
  <2> HIDE DEF Paid
  <2>1. QED
    BY <1>1
<1>3. QED
  BY <1>2, GatewayInvHolds, PTL DEF GatewaySpec, AttemptsArePaid

-----------------------------------------------------------------------------
(****************************************************************************)
(* The pricing service behind the gateway: what its rules promise for every *)
(* item, quantity and tier, in long arithmetic that is wide enough.  Half   *)
(* is 2^63 in the code, and what is used of it is that it is at least       *)
(* 4 * 10^18.                                                               *)
(****************************************************************************)

Wide == Half \in Nat /\ Half >= 2000000000 * 2000000000

Rates == {bps \in Nat : bps <= 2500}    \* in hundredths of a percent
Units == {n \in Nat : 0 < n /\ n <= 2147483647}    \* the positive ints

\* The amount, times any of the rates, is a long.
Fits(amount) == -Half < amount * 2500 /\ amount * 2500 < Half

LEMMA ModuloRange ==
    ASSUME NEW a \in Int, NEW m \in Int, m > 0
    PROVE  a % m \in 0..(m - 1)
  OBVIOUS

LEMMA ModuloSmall ==
    ASSUME NEW a \in Int, NEW m \in Int, 0 <= a, a < m
    PROVE  a % m = a
  OBVIOUS

LEMMA RemainderBounds ==
    ASSUME NEW a \in Int
    PROVE  /\ Remainder(a, 345000) \in Int
           /\ -345000 < Remainder(a, 345000) /\ Remainder(a, 345000) < 345000
           /\ a >= 0 => Remainder(a, 345000) >= 0
  BY DEF Remainder

LEMMA WrappedIsLong ==
    ASSUME Wide, NEW n \in Int
    PROVE  /\ Wrapped(n) \in -Half..(Half - 1)
           /\ n \in 0..(Half - 1) => Wrapped(n) = n
<1> DEFINE m == 2 * Half
           a == n + Half
<1>1. Half \in Int /\ m \in Int /\ a \in Int /\ m > 0 /\ m = 2 * Half /\ a = n + Half
  BY DEF Wide
<1>2. Wrapped(n) = (a % m) - Half
  BY DEF Wrapped
<1> HIDE DEF m, a
<1>3. a % m \in 0..(m - 1)
  BY <1>1, ModuloRange
<1>4. ASSUME n \in 0..(Half - 1) PROVE Wrapped(n) = n
  <2>1. 0 <= a /\ a < m
    BY <1>1, <1>4
  <2>2. a % m = a
    BY <1>1, <2>1, ModuloSmall
  <2>3. QED
    BY <1>1, <1>2, <2>2
<1>5. Wrapped(n) \in -Half..(Half - 1)
  <2> DEFINE r == a % m
  <2>1. r \in 0..(m - 1) /\ Wrapped(n) = r - Half
    BY <1>2, <1>3
  <2> HIDE DEF r
  <2>2. QED
    BY <1>1, <2>1
<1>6. QED
  BY <1>4, <1>5

\* An item whose number times 733 fits in a long costs between 49.00 and
\* 3498.99; any other long may cost less, and less than nothing, but never
\* more (PricingEngine.java:44).
THEOREM PriceInRange ==
    ASSUME Wide, NEW itemId \in Int
    PROVE  /\ UnitPrice(itemId) \in Int
           /\ -340100 < UnitPrice(itemId) /\ UnitPrice(itemId) < 349900
           /\ itemId * 733 \in 0..(Half - 1) => UnitPrice(itemId) >= 4900
<1> DEFINE product == Wrapped(itemId * 733)
           rest    == Remainder(product, 345000)
<1>1. itemId * 733 \in Int /\ Half \in Int
  BY SMT DEF Wide
<1>2. product \in Int /\ (itemId * 733 \in 0..(Half - 1) => product >= 0)
  BY SMT, <1>1, WrappedIsLong
<1>3. UnitPrice(itemId) = 4900 + rest
  BY SMT DEF UnitPrice
<1> HIDE DEF product
<1>4. /\ rest \in Int /\ -345000 < rest /\ rest < 345000
      /\ product >= 0 => rest >= 0
  BY SMT, <1>2, RemainderBounds
<1> HIDE DEF rest
<1>5. QED
  BY SMT, <1>2, <1>3, <1>4

LEMMA PartBounds ==
    ASSUME NEW a \in Int, NEW bps \in Rates
    PROVE  /\ Part(a, bps) \in Int
           /\ a >= 0 => 0 <= Part(a, bps) /\ 4 * Part(a, bps) <= a
           /\ a <= 0 => 0 >= Part(a, bps) /\ 4 * Part(a, bps) >= a
<1>1. ASSUME NEW b \in Nat
      PROVE  LET share == (b * bps) \div 10000
             IN  share \in Int /\ 0 <= share /\ 4 * share <= b
  <2> DEFINE p == b * bps
  <2>1. p \in Int /\ 0 <= p /\ p <= 2500 * b
    BY SMT, <1>1 DEF Rates
  <2> HIDE DEF p
  <2>2. /\ p \div 10000 \in Int /\ 0 <= p \div 10000
        /\ 10000 * (p \div 10000) <= p
    BY SMT, <2>1
  <2>3. QED
    BY SMT, <2>1, <2>2 DEF p
<1>2. CASE a >= 0
  <2>1. Part(a, bps) = (a * bps) \div 10000
    BY SMT, <1>2 DEF Part
  <2>2. a \in Nat
    BY SMT, <1>2
  <2> DEFINE share == (a * bps) \div 10000
  <2>3. share \in Int /\ 0 <= share /\ 4 * share <= a
    BY <1>1, <2>2
  <2>4. Part(a, bps) = share
    BY <2>1
  <2> HIDE DEF share
  <2>5. QED
    BY SMT, <1>2, <2>3, <2>4
<1>3. CASE a < 0
  <2>1. Part(a, bps) = -(((-a) * bps) \div 10000)
    BY SMT, <1>3 DEF Part
  <2>2. -a \in Nat
    BY SMT, <1>3
  <2> DEFINE share == ((-a) * bps) \div 10000
  <2>3. share \in Int /\ 0 <= share /\ 4 * share <= -a
    BY <1>1, <2>2
  <2>4. Part(a, bps) = -share
    BY <2>1
  <2> HIDE DEF share
  <2>5. QED
    BY SMT, <1>3, <2>3, <2>4
<1>4. QED
  BY SMT, <1>2, <1>3

\* Discounts shrink what is due and never turn its sign, however much the
\* volume and the tier take off together (PricingEngine.java:58-71).
LEMMA DiscountedBounds ==
    ASSUME NEW subtotal \in Int, NEW quantity \in Int, NEW tier
    PROVE  LET discounted == Discounted(subtotal, quantity, tier)
           IN  /\ discounted \in Int
               /\ subtotal >= 0 => 0 <= discounted /\ discounted <= subtotal
               /\ subtotal <= 0 => 0 >= discounted /\ discounted >= subtotal
<1> DEFINE v      == VolumeBps(quantity)
           t      == TierBps(tier)
           volume == Part(subtotal, v)
           left   == subtotal - volume
           more   == Part(left, t)
<1>v. v \in Rates
  BY SMT DEF Rates, VolumeBps
<1>t. t \in Rates
  BY SMT DEF Rates, TierBps
<1>1. Discounted(subtotal, quantity, tier) = subtotal - (volume + more)
  BY DEF Discounted
<1> HIDE DEF v, t
<1>d. volume = Part(subtotal, v) /\ left = subtotal - volume /\ more = Part(left, t)
  OBVIOUS
<1> HIDE DEF volume, left, more
<1>2. /\ volume \in Int
      /\ subtotal >= 0 => 0 <= volume /\ 4 * volume <= subtotal
      /\ subtotal <= 0 => 0 >= volume /\ 4 * volume >= subtotal
  BY Zenon, <1>d, <1>v, PartBounds
<1>3. left \in Int
  BY SMT, <1>d, <1>2
<1>4. /\ more \in Int
      /\ left >= 0 => 0 <= more /\ 4 * more <= left
      /\ left <= 0 => 0 >= more /\ 4 * more >= left
  BY Zenon, <1>d, <1>t, <1>3, PartBounds
<1>5. QED
  BY SMT, <1>d, <1>1, <1>2, <1>3, <1>4

\* The discounts together leave at least 63.75 percent of an order: each is
\* taken off what the other has left (PricingEngine.java:58-60).
THEOREM DiscountFloor ==
    ASSUME NEW subtotal \in Nat, NEW quantity \in Int, NEW tier
    PROVE  Discounted(subtotal, quantity, tier) * 10000 >= 6375 * subtotal
<1> DEFINE v      == VolumeBps(quantity)
           t      == TierBps(tier)
           volume == Part(subtotal, v)
           left   == subtotal - volume
           more   == Part(left, t)
<1>v. v \in Nat /\ v <= 1500
  BY SMT DEF VolumeBps
<1>t. t \in Rates
  BY SMT DEF Rates, TierBps
<1>1. Discounted(subtotal, quantity, tier) = subtotal - (volume + more)
  BY DEF Discounted
<1> HIDE DEF v, t
<1>d. volume = Part(subtotal, v) /\ left = subtotal - volume /\ more = Part(left, t)
  OBVIOUS
<1> HIDE DEF volume, left, more
<1>2. volume \in Int /\ 10000 * volume <= 1500 * subtotal
  <2> DEFINE p == subtotal * v
  <2>1. p \in Nat /\ p <= 1500 * subtotal
    BY SMT, <1>v
  <2>2. volume = p \div 10000
    BY SMT, <1>d DEF Part
  <2> HIDE DEF p
  <2>3. QED
    BY SMT, <2>1, <2>2
<1>3. left \in Int /\ left >= 0
  BY SMT, <1>d, <1>2
<1>4. more \in Int /\ 4 * more <= left
  BY Zenon, <1>d, <1>t, <1>3, PartBounds
<1>5. QED
  BY SMT, <1>d, <1>1, <1>2, <1>3, <1>4

\* Nothing else of a quote wraps: for any item and any quantity an int can
\* hold, neither an amount nor its product with a rate leaves the range of a
\* long (PricingEngine.java:47-76).
THEOREM NothingElseWraps ==
    ASSUME Wide, NEW itemId \in Int, NEW quantity \in Units, NEW tier
    PROVE  LET subtotal   == UnitPrice(itemId) * quantity
               discounted == Discounted(subtotal, quantity, tier)
           IN  Fits(subtotal) /\ Fits(discounted)
<1> DEFINE price      == UnitPrice(itemId)
           subtotal   == price * quantity
           discounted == Discounted(subtotal, quantity, tier)
<1>1. price \in Int /\ -349900 < price /\ price < 349900
  BY SMT, PriceInRange
<1> HIDE DEF price
<1>2. /\ subtotal \in Int
      /\ -(349900 * quantity) <= subtotal /\ subtotal <= 349900 * quantity
  BY SMT, <1>1 DEF Units
<1>3. quantity \in Int
  BY SMT DEF Units
<1>4. subtotal \in Int
  BY SMT, <1>2
<1> HIDE DEF subtotal
<1>5. /\ discounted \in Int
      /\ subtotal >= 0 => 0 <= discounted /\ discounted <= subtotal
      /\ subtotal <= 0 => 0 >= discounted /\ discounted >= subtotal
  BY Zenon, <1>3, <1>4, DiscountedBounds
<1> HIDE DEF discounted
<1>6. Fits(subtotal) /\ Fits(discounted)
  BY SMT, <1>2, <1>3, <1>5 DEF Wide, Fits, Units
<1>7. QED
  BY Zenon, <1>6 DEF subtotal, discounted, price
=============================================================================
