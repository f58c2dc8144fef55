--------------------------- MODULE PricingUpstream ---------------------------
(****************************************************************************)
(* The pricing service behind its circuit breaker: Proxy with an upstream   *)
(* that never fails, and whose status codes are those of Pricing.           *)
(****************************************************************************)
EXTENDS Proxy, Pricing

CONSTANTS
    Quantities,     \* quantities of GET /quote, a number or not
    Batches         \* bodies of POST /quote/batch

VARIABLE asked      \* what each request asks of the service, None if nothing

pricingVars == <<vars, asked>>

\* Spring itself answers 400 to a parameter that is not a number.
StatusOf(ask) ==
    IF ask.method = "POST" THEN BatchStatus(ask.lines)
    ELSE IF ask.quantity = Text THEN 400
    ELSE QuoteStatus(ask.quantity)

Asks == [method : {"POST"}, lines : Batches] \cup [method : {"GET"}, quantity : Quantities]

OutcomeOf(status) ==
    IF status >= 500 THEN "5xx" ELSE IF status >= 400 THEN "4xx" ELSE "2xx"

PricingInit == Init /\ asked = [r \in Requests |-> None]

Ask(r, u, ask) ==
    /\ ForwardClosed(r, u, ask.method) \/ ForwardProbe(r, u, ask.method)
    /\ asked' = [asked EXCEPT ![r] = ask]

\* The service answers, and forward() returns or backs off.
AnswerFinally(r, outcome) ==
    /\ ~WillRetry(r, outcome)
    /\ Record(call[r].up, Succeeded(outcome))
    /\ call' = [call EXCEPT ![r] = Idle]
    /\ asked' = [asked EXCEPT ![r] = None]
    /\ UNCHANGED around

BackOff(r, outcome) ==
    /\ WillRetry(r, outcome)
    /\ call' = [call EXCEPT ![r].pc = "sleeping"]
    /\ UNCHANGED <<breaker, around, asked>>

Serve(r) ==
    /\ call[r].pc = "calling"
    /\ LET outcome == OutcomeOf(StatusOf(asked[r]))
       IN  AnswerFinally(r, outcome) \/ BackOff(r, outcome)

PricingNext ==
    \/ \E r \in Requests, u \in Upstreams, ask \in Asks : Ask(r, u, ask)
    \/ \E r \in Requests : Serve(r) \/ (Wake(r) /\ UNCHANGED asked)
    \/ Tick /\ UNCHANGED asked

PricingSpec == PricingInit /\ [][PricingNext]_pricingVars

-----------------------------------------------------------------------------
\* GlobalExceptionHandler.java:9-14: a malformed request is answered with a
\* 4xx, the caller's problem, so that no number of them takes a healthy
\* service out of rotation.
HealthyStaysInRotation == \A u \in Upstreams : state[u] = "closed"
=============================================================================
