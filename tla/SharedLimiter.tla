---------------------------- MODULE SharedLimiter -----------------------------
(****************************************************************************)
(* The limiter under callers in parallel: threads that use gateway/         *)
(* ratelimit/limiter.py with the Python backend, or reach the native one    *)
(* through the entry points that release the interpreter's lock             *)
(* (native/src/bindings.cpp).  Registry models the gateway's own calls,     *)
(* which never overlap; here three things do:                               *)
(*   - a new policy's registry is built by whoever needs it first;          *)
(*   - a check reads the clock, then waits for its stripe's lock: what it   *)
(*     read is up to MaxDelay ticks old by the time it refills a bucket;    *)
(*   - a sweep locks one stripe after the other, with one clock reading.    *)
(*                                                                          *)
(* A section under a lock is one step.  A registry is named by the thread   *)
(* that built it.  Clock readings are ages, as in Registry: a bucket's is   *)
(* the ticks since last_refill_, a caller's lag the ticks since its `now`;  *)
(* an age saturates where the sweep is sure to drop its bucket.  The keys   *)
(* of a batch are checks of their own.  Counters of decisions are left out. *)
(****************************************************************************)
EXTENDS Integers

CONSTANTS
    Threads,        \* callers
    Clients,        \* client keys
    Stripes,        \* stripes of a registry
    StripeOf,       \* hasher_(key) % stripes_.size()
    Capacity,       \* capacity_
    Refill,         \* refill_per_sec_, in tokens per tick
    Cost,           \* the policy's cost
    MaxIdle,        \* max_idle_sec of evict_idle, in ticks
    MaxDelay,       \* bound: longest wait between a clock reading and a lock
    MaxWindow,      \* bound: longest window the history variable measures
    None

ASSUME StripesAssumption  == StripeOf \in [Clients -> Stripes]
ASSUME CapacityAssumption == Capacity \in Nat \ {0}
ASSUME RefillAssumption   == Refill \in Nat \ {0}
ASSUME CostAssumption     == Cost \in 1..Capacity
ASSUME TimeAssumption     == MaxIdle \in Nat /\ MaxDelay \in Nat /\ MaxWindow \in Nat
\* A bucket old enough to be dropped would be full again by the oldest clock
\* reading that may still be used.
ASSUME PatienceAssumption ==
    MaxDelay <= MaxIdle /\ (MaxIdle - MaxDelay) * Refill >= Capacity
ASSUME NoneAssumption ==
    None \notin Threads /\ None \notin [tokens : Int, age : Int]

VARIABLES
    registry,   \* Limiter._registries[key]: who built the registry in force
    buckets,    \* the buckets of each thread's registry
    caller,     \* where each thread is in check()
    sweep,      \* where evict_idle is
    window      \* history: cost granted to each client over some window

vars == <<registry, buckets, caller, sweep, window>>

MaxAge == MaxIdle + MaxDelay + 1

Bucket  == [tokens : 0..Capacity, age : 0..MaxAge]
Callers == [pc     : {"idle", "ensure", "enter", "stamped"},
            client : Clients \cup {None},
            reg    : Threads \cup {None},
            lag    : 0..MaxDelay]
Sweeps  == [reg : Threads \cup {None}, lag : 0..MaxDelay, left : SUBSET Stripes]

TypeOK ==
    /\ registry \in Threads \cup {None}
    /\ buckets \in [Threads -> [Clients -> Bucket \cup {None}]]
    /\ caller \in [Threads -> Callers]
    /\ sweep \in Sweeps
    /\ window \in [Clients -> [age : 0..MaxWindow, spent : Nat]]

Capped(n, limit) == IF n < limit THEN n ELSE limit

Empty    == [c \in Clients |-> None]
Idle     == [pc |-> "idle", client |-> None, reg |-> None, lag |-> 0]
NoSweep  == [reg |-> None, lag |-> 0, left |-> {}]
NoWindow == [age |-> 0, spent |-> 0]

Init ==
    /\ registry = None
    /\ buckets = [t \in Threads |-> Empty]
    /\ caller = [t \in Threads |-> Idle]
    /\ sweep = NoSweep
    /\ window = [c \in Clients |-> NoWindow]

-----------------------------------------------------------------------------
(****************************************************************************)
(* Limiter._ensure_registry.                                                *)
(****************************************************************************)

\* A check begins; the registry is looked up without the lock.
Begin(t, c) ==
    /\ caller[t].pc = "idle"
    /\ caller' = [caller EXCEPT ![t] =
                      [pc |-> IF registry = None THEN "ensure" ELSE "enter",
                       client |-> c, reg |-> registry, lag |-> 0]]
    /\ UNCHANGED <<registry, buckets, sweep, window>>

\* Mutant of Ensure: not looked up again under the lock.
EnsureUnchecked(t) ==
    /\ caller[t].pc = "ensure"
    /\ registry' = t
    /\ buckets' = [buckets EXCEPT ![t] = Empty]
    /\ caller' = [caller EXCEPT ![t] = [@ EXCEPT !.pc = "enter", !.reg = t]]
    /\ UNCHANGED <<sweep, window>>

\* Looked up once more, and built if it is still missing, under the lock.
Ensure(t) ==
    /\ caller[t].pc = "ensure"
    /\ IF registry = None
       THEN /\ registry' = t
            /\ buckets' = [buckets EXCEPT ![t] = Empty]
       ELSE UNCHANGED <<registry, buckets>>
    /\ caller' = [caller EXCEPT ![t] = [@ EXCEPT !.pc = "enter", !.reg = registry']]
    /\ UNCHANGED <<sweep, window>>

-----------------------------------------------------------------------------
(****************************************************************************)
(* Registry::check.                                                         *)
(****************************************************************************)

\* monotonic_now(), before the stripe's lock.
ReadClock(t) ==
    /\ caller[t].pc = "enter"
    /\ caller' = [caller EXCEPT ![t].pc = "stamped"]
    /\ UNCHANGED <<registry, buckets, sweep, window>>

\* Mutant of Elapsed: negative deltas are not clamped.
ElapsedUnclamped(b, lag) == b.age - lag

\* now - last_refill_ for a `now` read lag ticks ago, clamped at zero.
Elapsed(b, lag) == IF b.age > lag THEN b.age - lag ELSE 0

\* Mutant of Refilled: last_refill_ is set to `now` even if that moves it back.
RefilledAlways(b, lag) ==
    [tokens |-> Capped(b.tokens + Elapsed(b, lag) * Refill, Capacity), age |-> lag]

\* TokenBucket::refill
Refilled(b, lag) ==
    IF Elapsed(b, lag) = 0 THEN b
    ELSE [tokens |-> Capped(b.tokens + Elapsed(b, lag) * Refill, Capacity), age |-> lag]

\* The bucket the check works on: found or created, refilled as of `now`.
Found(t) ==
    LET b == buckets[caller[t].reg][caller[t].client]
    IN  IF b = None THEN [tokens |-> Capacity, age |-> caller[t].lag]
        ELSE Refilled(b, caller[t].lag)

\* The bucket goes back into the map of the caller's registry.
Put(t, b) ==
    /\ buckets' = [buckets EXCEPT ![caller[t].reg] =
                       [buckets[caller[t].reg] EXCEPT ![caller[t].client] = b]]
    /\ caller' = [caller EXCEPT ![t] = Idle]

Grant(t) ==
    /\ caller[t].pc = "stamped"
    /\ Found(t).tokens >= Cost
    /\ Put(t, [Found(t) EXCEPT !.tokens = @ - Cost])
    /\ window' = [window EXCEPT ![caller[t].client].spent = @ + Cost]
    /\ UNCHANGED <<registry, sweep>>

Deny(t) ==
    /\ caller[t].pc = "stamped"
    /\ Found(t).tokens < Cost
    /\ Put(t, Found(t))
    /\ UNCHANGED <<registry, sweep, window>>

-----------------------------------------------------------------------------
(****************************************************************************)
(* Registry::evict_idle.                                                    *)
(****************************************************************************)

SweepBegin ==
    /\ sweep.left = {}
    /\ registry # None
    /\ sweep' = [reg |-> registry, lag |-> 0, left |-> Stripes]
    /\ UNCHANGED <<registry, buckets, caller, window>>

\* last_seen() < cutoff, for a cutoff computed lag ticks ago.
Stale(b, lag) == b # None /\ b.age > MaxIdle + lag

\* What is left of the buckets held by a registry after stripe s was swept.
Swept(held, s) ==
    [c \in Clients |-> IF StripeOf[c] = s /\ Stale(held[c], sweep.lag)
                      THEN None ELSE held[c]]

SweepStripe(s) ==
    /\ s \in sweep.left
    /\ buckets' = [buckets EXCEPT ![sweep.reg] = Swept(buckets[sweep.reg], s)]
    /\ sweep' = IF sweep.left = {s} THEN NoSweep ELSE [sweep EXCEPT !.left = @ \ {s}]
    /\ UNCHANGED <<registry, caller, window>>

-----------------------------------------------------------------------------
Aged(b) == IF b = None THEN None ELSE [b EXCEPT !.age = Capped(@ + 1, MaxAge)]

Waiting(t) == caller[t].pc = "stamped"

\* Time passes; nobody has waited longer than MaxDelay with a reading.
Tick ==
    /\ \A t \in Threads : Waiting(t) => caller[t].lag < MaxDelay
    /\ sweep.left # {} => sweep.lag < MaxDelay
    /\ buckets' = [t \in Threads |-> [c \in Clients |-> Aged(buckets[t][c])]]
    /\ caller' = [t \in Threads |->
                    IF Waiting(t) THEN [caller[t] EXCEPT !.lag = @ + 1] ELSE caller[t]]
    /\ sweep' = IF sweep.left = {} THEN sweep ELSE [sweep EXCEPT !.lag = @ + 1]
    /\ window' = [c \in Clients |->
                    IF window[c].age = MaxWindow THEN NoWindow
                    ELSE [window[c] EXCEPT !.age = @ + 1]]
    /\ UNCHANGED registry

\* History only: start measuring a new window, at any moment.
Measure(c) ==
    /\ window' = [window EXCEPT ![c] = NoWindow]
    /\ UNCHANGED <<registry, buckets, caller, sweep>>

Step(t) ==
    \/ \E c \in Clients : Begin(t, c)
    \/ Ensure(t) \/ ReadClock(t) \/ Grant(t) \/ Deny(t)

Next ==
    \/ \E t \in Threads : Step(t)
    \/ SweepBegin
    \/ \E s \in Stripes : SweepStripe(s)
    \/ Tick
    \/ \E c \in Clients : Measure(c)

Spec == Init /\ [][Next]_vars

-----------------------------------------------------------------------------
(****************************************************************************)
(* Properties.                                                              *)
(****************************************************************************)

\* Nobody checks against, or sweeps, a registry that another one replaced:
\* "one set of buckets is orphaned and that client silently gets double its
\* allowance" (limiter.py:115-117).
OneRegistry ==
    /\ \A t \in Threads : caller[t].reg \in {None, registry}
    /\ sweep.reg \in {None, registry}

\* However checks and sweeps overlap and however stale their clock readings,
\* a client is granted no more than a burst plus the refill of the window and
\* of the longest wait for a lock.
WindowBound ==
    \A c \in Clients :
        window[c].spent <= Capacity + Refill * (window[c].age + MaxDelay)
=============================================================================
