------------------------------ MODULE Telemetry ------------------------------
(****************************************************************************)
(* gateway/telemetry.py: what /metrics shows.  Threads of the pool record   *)
(* events while the event loop takes snapshots.  Recording one event takes  *)
(* the lock of Telemetry anew for the ring and for every counter, then the  *)
(* lock of each histogram; a snapshot keeps Telemetry's lock while it reads *)
(* the upstreams' histograms, and reads the overall one after it let go.    *)
(*                                                                          *)
(* A section under one lock is one step, except for the snapshot's, whose   *)
(* holder is `lock`.  The overall histogram is one of Histogram; of an      *)
(* upstream's the number of observations is kept.  Sums are left out, as    *)
(* are the ring of events, whose bound is its deque's, and the clock.       *)
(****************************************************************************)
EXTENDS Histogram, FiniteSets

CONSTANTS
    Recorders,      \* threads that call record()
    Upstreams,      \* upstream names
    Statuses,       \* classes of status codes, "4xx" among them
    Durations,      \* what a request may have taken
    Percents,       \* the percentiles /metrics shows
    MaxEvents,      \* bound: events recorded in all
    None            \* event.upstream is ""

\* Counters that are not of a status.
Totals == {"requests_total", "rate_limited_total", "flagged_total"}

\* Those a run sees.
ASSUME FiniteAssumption == /\ IsFiniteSet(Recorders) /\ IsFiniteSet(Upstreams)
                           /\ IsFiniteSet(Statuses) /\ IsFiniteSet(Durations)
ASSUME StatusAssumption == "4xx" \in Statuses /\ Statuses \cap Totals = {}
ASSUME SizeAssumption   == MaxEvents \in Nat
ASSUME TimesAssumption  == Durations \subseteq Nat /\ Percents \subseteq 1..100
ASSUME NoneAssumption   == None \notin Upstreams

VARIABLES
    counters,           \* counters, by name
    latency,            \* the overall histogram
    upstream_latency,   \* observations in each upstream's
    lock,               \* is the snapshot holding Telemetry._lock?
    recorder,           \* where each thread is in record(), and its event
    reader,             \* where the snapshot is, and what it has read so far
    recorded,           \* history: how many events record() was called with
    took                \* history: how many of the durations observed were d

vars == <<counters, latency, upstream_latency, lock, recorder, reader, recorded, took>>

\* What main.py records: a limited request has no upstream, and one without
\* an upstream was answered 429 or 404.
Events == {e \in [status : Statuses, limited : BOOLEAN, flagged : BOOLEAN,
                  upstream : Upstreams \cup {None}] :
             /\ e.limited => e.upstream = None
             /\ e.upstream = None => e.status = "4xx"}

Names == Totals \cup Statuses
Zero  == [n \in Names |-> 0]

Nothing == [counters |-> Zero, upstreams |-> [u \in Upstreams |-> 0]]
Snapshots == [counters : [Names -> 0..MaxEvents],
              upstreams : [Upstreams -> 0..MaxEvents]]

TypeOK ==
    /\ counters \in [Names -> 0..MaxEvents]
    /\ latency \in [counts : [1..Overflow -> 0..MaxEvents], max : Durations \cup {0}]
    /\ upstream_latency \in [Upstreams -> 0..MaxEvents]
    /\ lock \in BOOLEAN
    /\ recorder \in [Recorders -> [pc : {"idle", "total", "status", "limited", "flagged",
                                        "latency", "upstream", "found"},
                                  event : Events \cup {None}]]
    /\ reader \in [pc : {"idle", "upstreams", "latency"}, left : SUBSET Upstreams,
                   read : Snapshots]
    /\ recorded \in 0..MaxEvents
    /\ took \in [Durations -> 0..MaxEvents]

Init ==
    /\ counters = Zero
    /\ latency = NewHistogram
    /\ upstream_latency = [u \in Upstreams |-> 0]
    /\ lock = FALSE
    /\ recorder = [t \in Recorders |-> [pc |-> "idle", event |-> None]]
    /\ reader = [pc |-> "idle", left |-> {}, read |-> Nothing]
    /\ recorded = 0
    /\ took = [d \in Durations |-> 0]

-----------------------------------------------------------------------------
(****************************************************************************)
(* record(), one step for each time it takes a lock.                        *)
(****************************************************************************)

\* The event enters the ring; nothing is counted yet.
Record(t, e) ==
    /\ recorder[t].pc = "idle"
    /\ recorded < MaxEvents
    /\ ~lock
    /\ recorded' = recorded + 1
    /\ recorder' = [recorder EXCEPT ![t] = [pc |-> "total", event |-> e]]
    /\ UNCHANGED <<counters, latency, took, upstream_latency, lock, reader>>

\* Mutant of Incr: the counter is set, not added to.
IncrFromZero(t, pc, next, name, applies) ==
    /\ recorder[t].pc = pc
    /\ applies => ~lock
    /\ counters' = IF applies THEN [counters EXCEPT ![name] = 1] ELSE counters
    /\ recorder' = [recorder EXCEPT ![t].pc = next]
    /\ UNCHANGED <<latency, took, upstream_latency, lock, reader, recorded>>

\* One incr(): the thread is at `pc` and goes on to `next`.
Incr(t, pc, next, name, applies) ==
    /\ recorder[t].pc = pc
    /\ applies => ~lock
    /\ counters' = IF applies THEN [counters EXCEPT ![name] = @ + 1] ELSE counters
    /\ recorder' = [recorder EXCEPT ![t].pc = next]
    /\ UNCHANGED <<latency, took, upstream_latency, lock, reader, recorded>>

Count(t) ==
    LET e == recorder[t].event
    IN  \/ Incr(t, "total", "status", "requests_total", TRUE)
        \/ Incr(t, "status", "limited", e.status, TRUE)
        \/ Incr(t, "limited", "flagged", "rate_limited_total", e.limited)
        \/ Incr(t, "flagged", "latency", "flagged_total", e.flagged)

\* Mutant of ObserveLatency: an observation counts twice.
ObserveLatencyTwice(t) ==
    /\ recorder[t].pc = "latency"
    /\ \E d \in Durations : /\ latency' = Observed(Observed(latency, d), d)
                            /\ took' = [took EXCEPT ![d] = @ + 1]
    /\ recorder' = [recorder EXCEPT ![t] =
                        IF recorder[t].event.upstream = None THEN [pc |-> "idle", event |-> None]
                        ELSE [recorder[t] EXCEPT !.pc = "upstream"]]
    /\ UNCHANGED <<counters, upstream_latency, lock, reader, recorded>>

\* observe_latency(), the overall histogram.
ObserveLatency(t) ==
    /\ recorder[t].pc = "latency"
    /\ \E d \in Durations : /\ latency' = Observed(latency, d)
                            /\ took' = [took EXCEPT ![d] = @ + 1]
    /\ recorder' = [recorder EXCEPT ![t] =
                        IF recorder[t].event.upstream = None THEN [pc |-> "idle", event |-> None]
                        ELSE [recorder[t] EXCEPT !.pc = "upstream"]]
    /\ UNCHANGED <<counters, upstream_latency, lock, reader, recorded>>

\* Its own histogram is found, or made, under Telemetry's lock ...
FindUpstream(t) ==
    /\ recorder[t].pc = "upstream"
    /\ ~lock
    /\ recorder' = [recorder EXCEPT ![t].pc = "found"]
    /\ UNCHANGED <<counters, latency, took, upstream_latency, lock, reader, recorded>>

\* ... and written under the histogram's own, snapshot or not.
ObserveUpstream(t) ==
    /\ recorder[t].pc = "found"
    /\ upstream_latency' = [upstream_latency EXCEPT ![recorder[t].event.upstream] = @ + 1]
    /\ recorder' = [recorder EXCEPT ![t] = [pc |-> "idle", event |-> None]]
    /\ UNCHANGED <<counters, latency, took, lock, reader, recorded>>

-----------------------------------------------------------------------------
(****************************************************************************)
(* snapshot().                                                              *)
(****************************************************************************)

\* Mutant of CopyCounters: the lock covers the copy only.
CopyCountersOnly ==
    /\ reader.pc = "idle" /\ ~lock
    /\ reader' = [pc |-> "upstreams", left |-> Upstreams,
                  read |-> [Nothing EXCEPT !.counters = counters]]
    /\ UNCHANGED <<lock, counters, latency, took, upstream_latency, recorder, recorded>>

CopyCounters ==
    /\ reader.pc = "idle" /\ ~lock
    /\ lock' = TRUE
    /\ reader' = [pc |-> "upstreams", left |-> Upstreams,
                  read |-> [Nothing EXCEPT !.counters = counters]]
    /\ UNCHANGED <<counters, latency, took, upstream_latency, recorder, recorded>>

\* One upstream's histogram, in the order the dictionary has them.
ReadUpstream(u) ==
    /\ reader.pc = "upstreams"
    /\ u \in reader.left
    /\ reader' = [reader EXCEPT !.left = @ \ {u}, !.read = [reader.read EXCEPT !.upstreams =
                     [reader.read.upstreams EXCEPT ![u] = upstream_latency[u]]]]
    /\ UNCHANGED <<counters, latency, took, upstream_latency, lock, recorder, recorded>>

Release ==
    /\ reader.pc = "upstreams" /\ reader.left = {}
    /\ lock' = FALSE
    /\ reader' = [reader EXCEPT !.pc = "latency"]
    /\ UNCHANGED <<counters, latency, took, upstream_latency, recorder, recorded>>

\* The overall histogram, after the lock; the snapshot is served.
Show ==
    /\ reader.pc = "latency"
    /\ reader' = [pc |-> "idle", left |-> {}, read |-> Nothing]
    /\ UNCHANGED <<counters, latency, took, upstream_latency, lock, recorder, recorded>>

Step(t) ==
    \/ \E e \in Events : Record(t, e)
    \/ Count(t) \/ ObserveLatency(t) \/ FindUpstream(t) \/ ObserveUpstream(t)

Snapshot == CopyCounters \/ (\E u \in Upstreams : ReadUpstream(u)) \/ Release \/ Show

Next == (\E t \in Recorders : Step(t)) \/ Snapshot

Spec == Init /\ [][Next]_vars

-----------------------------------------------------------------------------
(****************************************************************************)
(* Properties.                                                              *)
(****************************************************************************)

\* No snapshot will show more limited, flagged, answered or forwarded requests
\* than requests, so no percentage passes 100, although one event is counted
\* under several holds of the lock (record, snapshot).  The histograms of the
\* upstreams go on moving while they are read, but only for events already counted.
SharesOfTotal ==
    /\ reader.read.counters["rate_limited_total"] <= reader.read.counters["requests_total"]
    /\ reader.read.counters["flagged_total"] <= reader.read.counters["requests_total"]
    /\ SumOver(reader.read.counters, Statuses) <= reader.read.counters["requests_total"]
    /\ SumOver(reader.read.upstreams, Upstreams) <= reader.read.counters["requests_total"]

\* What no thread is recording any more has been counted exactly once.
NothingLost ==
    (\A t \in Recorders : recorder[t].pc = "idle") =>
        /\ counters["requests_total"] = recorded
        /\ SumOver(counters, Statuses) = recorded
        /\ Total(latency) = recorded
        /\ SumOver(upstream_latency, Upstreams) <= recorded - counters["rate_limited_total"]

\* Each percentile that is read is an upper bound of the exact one, whatever mix
\* of values on and above the edges has come in, and also where the counts reach
\* the target exactly (Histogram.percentile; DECISIONS.md:97).
PercentilesBound ==
    Total(latency) > 0 =>
        \A p \in Percents : Percentile(latency, p) >= Quantile(took, p)
=============================================================================
