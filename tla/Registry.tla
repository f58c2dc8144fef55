------------------------------ MODULE Registry -------------------------------
(****************************************************************************)
(* The token-bucket registry, native/src/token_bucket.cpp and its Python    *)
(* twin gateway/ratelimit/python_bucket.py, as the gateway uses it: check() *)
(* and evict_idle() run to completion on the event loop's thread, one after *)
(* the other, so each is one action.                                        *)
(*                                                                          *)
(* Buckets are refilled lazily: nothing happens to one until its client     *)
(* comes back or the sweep drops it.  A bucket holds the tokens it had when *)
(* it was last touched, and age, the ticks since (now - last_refill_); age  *)
(* saturates one tick after eviction becomes possible, which changes no     *)
(* level because by then the bucket is full (PatienceAssumption).  Tokens   *)
(* and times, doubles in the code, are integers here: rounding is outside   *)
(* the model.  The counters of allowed and denied requests are left out.    *)
(****************************************************************************)
EXTENDS Integers

CONSTANTS
    Clients,        \* client keys
    Capacity,       \* capacity_
    Refill,         \* refill_per_sec_, in tokens per tick
    Costs,          \* what requests may cost
    MaxIdle,        \* max_idle_sec of evict_idle, in ticks
    MaxWindow,      \* bound: longest window the history variable measures
    None

ASSUME CapacityAssumption == Capacity \in Nat \ {0}
ASSUME RefillAssumption   == Refill \in Nat \ {0}
\* Every configured policy costs no more than its burst (config.py).
ASSUME CostsAssumption    == Costs \subseteq 1..Capacity
ASSUME IdleAssumption     == MaxIdle \in Nat
\* A bucket old enough to be dropped is full again.  With the configured 300 s
\* this holds of every policy in config.py.
ASSUME PatienceAssumption == MaxIdle * Refill >= Capacity
ASSUME WindowAssumption   == MaxWindow \in Nat

VARIABLES
    buckets,    \* the map from a tracked client to its bucket
    verdict,    \* the last Decision: whose, and allowed or not
    promise,    \* the retry_after a client was last denied with
    window      \* history: cost granted to each client over some window

vars == <<buckets, verdict, promise, window>>

Tracked == DOMAIN buckets
Bucket  == [tokens : 0..Capacity, age : 0..(MaxIdle + 1)]

TypeOK ==
    /\ Tracked \subseteq Clients
    /\ buckets \in [Tracked -> Bucket]
    /\ verdict \in [client : Clients, allowed : BOOLEAN] \cup {None}
    /\ promise \in [Clients -> [cost : Costs, wait : 0..Capacity] \cup {None}]
    /\ window \in [Clients -> [age : 0..MaxWindow, spent : Nat]]

Capped(n, limit) == IF n < limit THEN n ELSE limit

NoWindow == [age |-> 0, spent |-> 0]

Init ==
    /\ buckets = [c \in {} |-> None]
    /\ verdict = None
    /\ promise = [c \in Clients |-> None]
    /\ window = [c \in Clients |-> NoWindow]

-----------------------------------------------------------------------------
(****************************************************************************)
(* TokenBucket.                                                             *)
(****************************************************************************)

\* Mutant of Refilled: credit is not clamped to the burst size.
RefilledUncapped(b) == b.tokens + b.age * Refill

\* TokenBucket::refill: the tokens a bucket is worth now.
Refilled(b) == Capped(b.tokens + b.age * Refill, Capacity)

\* What check() finds for c; a client without a bucket gets a full one.
Level(c) == IF c \in Tracked THEN Refilled(buckets[c]) ELSE Capacity

\* Mutant of RetryAfter: rounds down.
RetryAfterFloor(short) == short \div Refill

\* Ticks until a shortfall is refilled: retry_after, seen on the tick it ends.
RetryAfter(short) == (short + Refill - 1) \div Refill

-----------------------------------------------------------------------------
(****************************************************************************)
(* Registry.                                                                *)
(****************************************************************************)

\* Mutant of Touch: last_refill_ is set only when the bucket is created.
TouchKeepsStamp(c, n) ==
    buckets' = [d \in Tracked \cup {c} |->
                    IF d # c THEN buckets[d]
                    ELSE [tokens |-> n, age |-> IF c \in Tracked THEN buckets[c].age ELSE 0]]

\* The bucket of c is in the map, refilled as of now, holding n tokens.
Touch(c, n) ==
    buckets' = [d \in Tracked \cup {c} |->
                    IF d = c THEN [tokens |-> n, age |-> 0] ELSE buckets[d]]

CheckAllowed(c, k) ==
    /\ Level(c) >= k
    /\ Touch(c, Level(c) - k)
    /\ verdict' = [client |-> c, allowed |-> TRUE]
    /\ promise' = [promise EXCEPT ![c] = None]
    /\ window' = [window EXCEPT ![c].spent = @ + k]

\* Mutant of CheckDenied: a denied request is charged what is left.
CheckDeniedCharged(c, k) ==
    /\ Level(c) < k
    /\ Touch(c, 0)
    /\ verdict' = [client |-> c, allowed |-> FALSE]
    /\ promise' = [promise EXCEPT ![c] = [cost |-> k, wait |-> RetryAfter(k - Level(c))]]
    /\ UNCHANGED window

\* A denied request is not charged.
CheckDenied(c, k) ==
    /\ Level(c) < k
    /\ Touch(c, Level(c))
    /\ verdict' = [client |-> c, allowed |-> FALSE]
    /\ promise' = [promise EXCEPT ![c] = [cost |-> k, wait |-> RetryAfter(k - Level(c))]]
    /\ UNCHANGED window

Check(c, k) == CheckAllowed(c, k) \/ CheckDenied(c, k)

\* Mutant of Idle: the cutoff is not moved back by max_idle_sec.
IdleAtOnce(b) == b.age > 0

\* last_seen() < now - max_idle_sec
Idle(b) == b.age > MaxIdle

\* Mutant of EvictIdle: drops the busy buckets and keeps the idle ones.
EvictBusy ==
    /\ buckets' = [c \in {d \in Tracked : Idle(buckets[d])} |-> buckets[c]]
    /\ UNCHANGED <<verdict, promise, window>>

EvictIdle ==
    /\ buckets' = [c \in {d \in Tracked : ~Idle(buckets[d])} |-> buckets[c]]
    /\ UNCHANGED <<verdict, promise, window>>

-----------------------------------------------------------------------------
\* Time passes: everything ages, promised waits run down.
Tick ==
    /\ buckets' = [c \in Tracked |->
                     [buckets[c] EXCEPT !.age = Capped(@ + 1, MaxIdle + 1)]]
    /\ promise' = [c \in Clients |->
                     IF promise[c] = None \/ promise[c].wait = 0 THEN promise[c]
                     ELSE [promise[c] EXCEPT !.wait = @ - 1]]
    /\ window' = [c \in Clients |->
                    IF window[c].age = MaxWindow THEN NoWindow
                    ELSE [window[c] EXCEPT !.age = @ + 1]]
    /\ UNCHANGED verdict

\* History only: start measuring a new window, at any moment.
Measure(c) ==
    /\ window' = [window EXCEPT ![c] = NoWindow]
    /\ UNCHANGED <<buckets, verdict, promise>>

Next ==
    \/ \E c \in Clients, k \in Costs : Check(c, k)
    \/ EvictIdle
    \/ Tick
    \/ \E c \in Clients : Measure(c)

Spec == Init /\ [][Next]_vars

\* Time passes and the maintenance loop keeps sweeping.
FairSpec == Spec /\ WF_vars(Tick) /\ WF_vars(EvictIdle)

-----------------------------------------------------------------------------
(****************************************************************************)
(* Properties.                                                              *)
(****************************************************************************)

\* Over any window a client is granted at most one burst plus what the
\* refill rate yields, although dropping a bucket hands it a full one next
\* time (evict_idle, check).
WindowBound ==
    \A c \in Clients : window[c].spent <= Capacity + Refill * window[c].age

\* A denied client that waits retry_after is let through, not a tick earlier
\* and not a tick later, whether or not it keeps asking or is swept meanwhile.
RetryExact ==
    \A c \in Clients :
        promise[c] # None => (promise[c].wait = 0 <=> Level(c) >= promise[c].cost)

\* Lazy refill and eviction are invisible: every decision is the one an
\* allowance that grows at every tick would give.
Limit == INSTANCE RateLimit WITH level <- [c \in Clients |-> Level(c)]
ImplementsRateLimit == Limit!Spec

\* A client that keeps asking is not held over the limit by its own denied
\* requests (try_consume charges nothing for them).
DeniedIsServed ==
    \A c \in Clients :
        WF_vars(\E k \in Costs : Check(c, k)) =>
            (promise[c] # None ~> promise[c] = None)

\* A client that stops calling is forgotten (evict_idle).
IdleForgotten ==
    \A c \in Clients :
        []<>(c \notin Tracked) \/ []<><<\E k \in Costs : Check(c, k)>>_vars
=============================================================================
