-------------------------------- MODULE Proxy --------------------------------
(****************************************************************************)
(* The forwarding half of the gateway, gateway/proxy.py: one circuit        *)
(* breaker per upstream, and Proxy.forward, a coroutine that any number of  *)
(* requests run at the same time on one event loop.                         *)
(*                                                                          *)
(* A coroutine gives up the loop only while it awaits the HTTP client or a  *)
(* backoff sleep; the breaker's asyncio.Lock guards code with no await in   *)
(* it and is therefore never contended.  Everything between two of those    *)
(* awaits is one action here.  What the interleaving of actions explores is *)
(* the thing the code never looks at again: the breaker a call was admitted *)
(* under may have tripped, probed or closed by the time its answer arrives. *)
(*                                                                          *)
(* Clock readings are kept as ages.  time.monotonic() - opened_at is        *)
(* open_age, counted in ticks and saturating at the only value it is ever   *)
(* compared with.  The failure counter saturates at its threshold for the   *)
(* same reason.  The statistic `trips`, headers, bodies and latencies are   *)
(* left out.                                                                *)
(****************************************************************************)
EXTENDS Integers, FiniteSets

CONSTANTS
    Upstreams,          \* names of the configured upstreams
    Requests,           \* coroutine slots: requests that may be in forward()
    Methods,            \* HTTP methods clients use
    BreakerThreshold,   \* breaker_threshold
    BreakerReset,       \* breaker_reset_sec, in ticks
    MaxRetries,         \* max_retries
    Failures,           \* the ways an attempt may go wrong, see Outcomes
    None                \* "no upstream", "no method"

\* "5xx" is an answer with status >= 500, "caught" one of the four exceptions
\* forward() handles, "uncaught" any other (ReadError, PoolTimeout, ...).
Outcomes == {"2xx", "4xx", "5xx", "caught", "uncaught"}
Answers  == {"2xx", "4xx"}

ASSUME ThresholdAssumption == BreakerThreshold \in Nat \ {0}
ASSUME ResetAssumption     == BreakerReset \in Nat
ASSUME RetriesAssumption   == MaxRetries \in Nat
ASSUME FailuresAssumption  == Failures \subseteq Outcomes \ Answers
ASSUME NoneAssumption      == None \notin Upstreams

VARIABLES
    state,                  \* CircuitBreaker.state, per upstream
    consecutive_failures,   \* CircuitBreaker.consecutive_failures
    open_age,               \* monotonic() - CircuitBreaker.opened_at
    call,                   \* where each request is inside forward()
    healthy,                \* environment: does the upstream answer properly?
    probe_age,              \* history: ticks since a probe was last admitted
    lost                    \* history: upstreams whose probe ended unrecorded

breaker == <<state, consecutive_failures, open_age>>
around  == <<healthy, probe_age, lost>>
vars    == <<state, consecutive_failures, open_age, call, healthy, probe_age, lost>>

BreakerStates == {"closed", "open", "half_open"}

\* `probe` is history: the call was admitted by the OPEN -> HALF_OPEN step.
Calls == [pc      : {"idle", "calling", "sleeping"},
          up      : Upstreams \cup {None},
          method  : Methods \cup {None},
          attempt : 0..MaxRetries,
          probe   : BOOLEAN]

Idle == [pc |-> "idle", up |-> None, method |-> None, attempt |-> 0, probe |-> FALSE]

TypeOK ==
    /\ state \in [Upstreams -> BreakerStates]
    /\ consecutive_failures \in [Upstreams -> 0..BreakerThreshold]
    /\ open_age \in [Upstreams -> 0..BreakerReset]
    /\ call \in [Requests -> Calls]
    /\ healthy \in [Upstreams -> BOOLEAN]
    /\ probe_age \in [Upstreams -> 0..BreakerReset]
    /\ lost \subseteq Upstreams

Capped(n, limit) == IF n < limit THEN n ELSE limit

Init ==
    /\ state = [u \in Upstreams |-> "closed"]
    /\ consecutive_failures = [u \in Upstreams |-> 0]
    /\ open_age = [u \in Upstreams |-> BreakerReset]
    /\ call = [r \in Requests |-> Idle]
    /\ healthy = [u \in Upstreams |-> TRUE]
    /\ probe_age = [u \in Upstreams |-> BreakerReset]
    /\ lost = {}

-----------------------------------------------------------------------------
(****************************************************************************)
(* CircuitBreaker.                                                          *)
(****************************************************************************)

\* allow(), the two ways it returns True, and the ways it returns False.
AllowClosed(u) == state[u] = "closed"
AllowProbe(u)  == state[u] = "open" /\ open_age[u] >= BreakerReset
Refuse(u)      == ~AllowClosed(u) /\ ~AllowProbe(u)

\* Mutant of Trips: only a CLOSED breaker opens; a failed probe is ignored.
TripsWhenClosed(u) ==
    state[u] = "closed" /\ consecutive_failures[u] + 1 >= BreakerThreshold

\* record(False): does this failure open the breaker?
Trips(u) ==
    \/ state[u] = "half_open"
    \/ consecutive_failures[u] + 1 >= BreakerThreshold

\* Mutant of RecordSuccess: a success does not end the run of failures.
RecordSuccessKeepsRun(u) ==
    /\ state' = [state EXCEPT ![u] = "closed"]
    /\ UNCHANGED <<consecutive_failures, open_age>>

RecordSuccess(u) ==
    /\ consecutive_failures' = [consecutive_failures EXCEPT ![u] = 0]
    /\ state' = [state EXCEPT ![u] = "closed"]
    /\ UNCHANGED open_age

\* Mutant of RecordFailure: opened_at is stamped only by the first trip.
RecordFailureKeepsStamp(u) ==
    /\ consecutive_failures' =
           [consecutive_failures EXCEPT ![u] = Capped(@ + 1, BreakerThreshold)]
    /\ state' = [state EXCEPT ![u] = IF Trips(u) THEN "open" ELSE @]
    /\ open_age' =
           [open_age EXCEPT ![u] = IF Trips(u) /\ state[u] = "closed" THEN 0 ELSE @]

RecordFailure(u) ==
    /\ consecutive_failures' =
           [consecutive_failures EXCEPT ![u] = Capped(@ + 1, BreakerThreshold)]
    /\ IF Trips(u)
       THEN /\ state' = [state EXCEPT ![u] = "open"]
            /\ open_age' = [open_age EXCEPT ![u] = 0]
       ELSE UNCHANGED <<state, open_age>>

Record(u, ok) == IF ok THEN RecordSuccess(u) ELSE RecordFailure(u)

-----------------------------------------------------------------------------
(****************************************************************************)
(* Proxy.forward.                                                           *)
(****************************************************************************)

Idempotent == {"GET", "HEAD", "OPTIONS", "PUT", "DELETE"}

\* Mutant of Retryable: forgets the idempotency rule.
RetryableAnyMethod(method, outcome) == outcome \in {"5xx", "caught"}

Retryable(method, outcome) ==
    method \in Idempotent /\ outcome \in {"5xx", "caught"}

\* Mutant of Succeeded: an error of the client counts against the upstream.
SucceededIf2xx(outcome) == outcome = "2xx"

\* What the breaker is told: status < 500.
Succeeded(outcome) == outcome \in Answers

\* What the gateway's own side may do to an attempt, whatever the upstream
\* does: PoolTimeout, InvalidURL and their like.
OwnFaults == Failures \cap {"uncaught"}

\* What one attempt on u may come back with; a healthy upstream answers.
Outcome(u) == Answers \cup (IF healthy[u] THEN OwnFaults ELSE Failures)

Start(r, u, m, isProbe) ==
    call' = [call EXCEPT ![r] = [pc |-> "calling", up |-> u, method |-> m,
                                 attempt |-> 0, probe |-> isProbe]]

\* Admitted by a CLOSED breaker: the first attempt is on its way.
ForwardClosed(r, u, m) ==
    /\ call[r].pc = "idle"
    /\ AllowClosed(u)
    /\ Start(r, u, m, FALSE)
    /\ UNCHANGED <<breaker, around>>

\* Admitted by an OPEN breaker whose reset interval is over.
ForwardProbe(r, u, m) ==
    /\ call[r].pc = "idle"
    /\ AllowProbe(u)
    /\ state' = [state EXCEPT ![u] = "half_open"]
    /\ probe_age' = [probe_age EXCEPT ![u] = 0]
    /\ Start(r, u, m, TRUE)
    /\ UNCHANGED <<consecutive_failures, open_age, healthy, lost>>

\* Refused: 503 circuit_open without touching the upstream.
ForwardRefused(r, u) ==
    /\ call[r].pc = "idle"
    /\ Refuse(u)
    /\ UNCHANGED vars

\* Mutant of WillRetry: off by one on the last attempt.
WillRetryOnceMore(r, outcome) ==
    Retryable(call[r].method, outcome) /\ call[r].attempt <= MaxRetries

WillRetry(r, outcome) ==
    Retryable(call[r].method, outcome) /\ call[r].attempt < MaxRetries

\* The attempt failed in a way that is safe to repeat: back off first.
Retry(r, outcome) ==
    /\ call[r].pc = "calling"
    /\ outcome \in Outcome(call[r].up)
    /\ WillRetry(r, outcome)
    /\ call' = [call EXCEPT ![r].pc = "sleeping"]
    /\ UNCHANGED <<breaker, around>>

\* The attempt is final: tell the breaker, answer the client.
Return(r, outcome) ==
    /\ call[r].pc = "calling"
    /\ outcome \in Outcome(call[r].up) \ {"uncaught"}
    /\ ~WillRetry(r, outcome)
    /\ Record(call[r].up, Succeeded(outcome))
    /\ lost' = lost \ {call[r].up}
    /\ call' = [call EXCEPT ![r] = Idle]
    /\ UNCHANGED <<healthy, probe_age>>

\* An exception that neither except clause names leaves forward(); nothing
\* is recorded.
Raise(r) ==
    /\ call[r].pc = "calling"
    /\ "uncaught" \in Outcome(call[r].up)
    /\ call' = [call EXCEPT ![r] = Idle]
    /\ lost' = IF call[r].probe THEN lost \cup {call[r].up} ELSE lost
    /\ UNCHANGED <<breaker, healthy, probe_age>>

\* Mutant of Wake: the attempt is not counted.
WakeUncounted(r) ==
    /\ call[r].pc = "sleeping"
    /\ call' = [call EXCEPT ![r].pc = "calling"]
    /\ UNCHANGED <<breaker, around>>

\* The backoff is over: the next attempt goes out.
Wake(r) ==
    /\ call[r].pc = "sleeping"
    /\ call' = [call EXCEPT ![r] = [@ EXCEPT !.pc = "calling",
                                        !.attempt = call[r].attempt + 1]]
    /\ UNCHANGED <<breaker, around>>

-----------------------------------------------------------------------------
(****************************************************************************)
(* The environment: time, and upstreams that fail and come back.            *)
(****************************************************************************)

Tick ==
    /\ open_age' = [u \in Upstreams |-> Capped(open_age[u] + 1, BreakerReset)]
    /\ probe_age' = [u \in Upstreams |-> Capped(probe_age[u] + 1, BreakerReset)]
    /\ UNCHANGED <<state, consecutive_failures, call, healthy, lost>>

Degrade(u) ==
    /\ healthy[u]
    /\ healthy' = [healthy EXCEPT ![u] = FALSE]
    /\ UNCHANGED <<breaker, call, probe_age, lost>>

Recover(u) ==
    /\ ~healthy[u]
    /\ healthy' = [healthy EXCEPT ![u] = TRUE]
    /\ UNCHANGED <<breaker, call, probe_age, lost>>

Forward(r, u, m) ==
    ForwardClosed(r, u, m) \/ ForwardProbe(r, u, m) \/ ForwardRefused(r, u)

Deliver(r) ==
    \/ \E outcome \in Outcomes : Retry(r, outcome) \/ Return(r, outcome)
    \/ Raise(r)

Next ==
    \/ \E r \in Requests, u \in Upstreams, m \in Methods : Forward(r, u, m)
    \/ \E r \in Requests : Deliver(r) \/ Wake(r)
    \/ Tick
    \/ \E u \in Upstreams : Degrade(u) \/ Recover(u)

Spec == Init /\ [][Next]_vars

\* Timeouts end every attempt and timers every sleep; time passes.
Progress ==
    /\ \A r \in Requests : WF_vars(Deliver(r)) /\ WF_vars(Wake(r))
    /\ WF_vars(Tick)

\* Clients keep asking for every upstream: a call the breaker would let
\* through, again and again, is eventually made.
ClientsKeepCalling ==
    \A u \in Upstreams : SF_vars(\E r \in Requests, m \in Methods : Forward(r, u, m))

FairSpec == Spec /\ Progress /\ ClientsKeepCalling

-----------------------------------------------------------------------------
(****************************************************************************)
(* Properties.                                                              *)
(****************************************************************************)

\* Calls in flight on u that hold its HALF_OPEN probe.
Probes(u) == {r \in Requests : call[r].up = u /\ call[r].probe}

\* The breaker is closed exactly while the run of failures is shorter than
\* the threshold, whatever order the answers of overlapping calls arrive in
\* (CircuitBreaker.record keeps the two apart).
BreakerTracksRun ==
    \A u \in Upstreams :
        state[u] = "closed" <=> consecutive_failures[u] < BreakerThreshold

\* Two probes of one upstream are admitted at least breaker_reset_sec apart,
\* although answers of older calls may close or reopen the breaker meanwhile
\* (CircuitBreaker.allow reads opened_at, record writes it).
ProbesSpaced ==
    [][\A u \in Upstreams :
          state[u] = "open" /\ state'[u] = "half_open" => probe_age[u] = BreakerReset]_vars

\* A breaker that holds everyone back does so for a probe that is really in
\* flight, unless that probe ended in an exception forward() does not catch
\* (CircuitBreaker.allow; ProbeDecides is about the exception).
HalfOpenHasProbe ==
    \A u \in Upstreams : state[u] = "half_open" => Probes(u) # {} \/ u \in lost

\* A call that is not idempotent reaches the upstream once, and no call
\* sleeps for a retry it is not allowed (Proxy._retryable and the loop bound).
RetriesStayInBudget ==
    \A r \in Requests :
        /\ call[r].pc = "sleeping" => call[r].attempt < MaxRetries
        /\ call[r].pc = "sleeping" \/ call[r].attempt > 0 => call[r].method \in Idempotent

\* An upstream that stays healthy is back in rotation for good: no order of
\* late failures, probes and exceptions keeps it out, save a lost probe.
Recovery ==
    \A u \in Upstreams : <>[](healthy[u] /\ u \notin lost) => <>[](state[u] = "closed")

(****************************************************************************)
(* What the repository says of the breaker, and the code does not do.       *)
(****************************************************************************)

\* proxy.py:13-16: after the reset interval one probe is allowed; "success
\* closes it, failure re-opens it".  So HALF_OPEN never lasts.
ProbeDecides ==
    \A u \in Upstreams : state[u] = "half_open" ~> state[u] # "half_open"
=============================================================================
