---------------------------- MODULE SlidingWindow ----------------------------
(****************************************************************************)
(* The sliding-window counter of the registry, native/src/token_bucket.cpp  *)
(* (_Window in gateway/ratelimit/python_bucket.py), for one client key: the *)
(* count of the current fixed window plus the previous one, weighted by how *)
(* much of it the trailing window still covers.                             *)
(*                                                                          *)
(* check() reads the clock before it has the stripe's lock.  By the time it *)
(* holds it the reading is lag ticks old, other threads may have used the   *)
(* counter with newer readings, and roll() has no clamp against that.  What *)
(* waits for the lock has no other state, so the wait is the choice of lag. *)
(*                                                                          *)
(* A window lasts Length ticks.  The estimate, a double in the code, is     *)
(* kept exact by scaling it with Length.  age is the time since             *)
(* window_start_; it saturates one tick after every sweep may drop the      *)
(* counter, by which time both counts are out of view (PatienceAssumption). *)
(****************************************************************************)
EXTENDS Integers

CONSTANTS
    Limit,      \* limit_
    Length,     \* window_sec_, in ticks
    MaxIdle,    \* max_idle_sec of evict_idle, in ticks
    MaxDelay,   \* bound: the longest wait for the stripe's lock, in ticks
    None

ASSUME LimitAssumption    == Limit \in Nat \ {0}
ASSUME LengthAssumption   == Length \in Nat \ {0}
ASSUME DelayAssumption    == MaxDelay \in Nat /\ MaxDelay < Length
\* The configured 300 s against a window of 1 s.
ASSUME PatienceAssumption == MaxIdle \in Nat /\ MaxIdle >= 2 * Length

VARIABLES
    counter,    \* the client's counter, None while it has none
    wait,       \* ticks left of the retry_after of the last denial, or None
    carried,    \* history: did the previous window carry that denial?
    window      \* history: requests let through in a stretch that may start any time

vars == <<counter, wait, carried, window>>

Lags     == 0..MaxDelay
LastAge  == MaxIdle + MaxDelay + 1
Span     == Length - MaxDelay     \* ticks in the stretch that is measured
Counter  == [current : 0..Limit, previous : 0..Limit, age : 0..LastAge]

ASSUME NoneAssumption == None \notin Counter \cup Nat

TypeOK ==
    /\ counter \in Counter \cup {None}
    /\ wait \in Nat \cup {None}
    /\ carried \in BOOLEAN
    /\ window \in [age : 0..Span, passed : Nat]

NoWindow == [age |-> 0, passed |-> 0]

Init ==
    /\ counter = None
    /\ wait = None
    /\ carried = FALSE
    /\ window = NoWindow

-----------------------------------------------------------------------------
\* A new counter starts at the reading it is made with.
Fresh(lag) == [current |-> 0, previous |-> 0, age |-> lag]

\* now - window_start_ for a check whose reading is lag old; may be negative.
Elapsed(w, lag) == w.age - lag

\* Mutant of Roll: the count of the window just over is dropped.
RollForgets(w, lag) ==
    IF Elapsed(w, lag) < Length THEN w
    ELSE IF Elapsed(w, lag) < 2 * Length THEN [Fresh(lag) EXCEPT !.age = w.age - Length]
    ELSE Fresh(lag)

\* SlidingWindowCounter::roll
Roll(w, lag) ==
    IF Elapsed(w, lag) < Length THEN w
    ELSE IF Elapsed(w, lag) < 2 * Length
         THEN [current |-> 0, previous |-> w.current, age |-> w.age - Length]
    ELSE Fresh(lag)

\* SlidingWindowCounter::estimate of a counter just rolled, times Length.  The
\* overlap exceeds a whole window when the reading is older than the window.
Estimate(w, lag) == w.current * Length + w.previous * (Length - Elapsed(w, lag))

\* Mutant of Excess: tests est <= limit_ and forgets the request itself.
ExcessBefore(w, lag) == Estimate(w, lag) - Limit * Length

\* est + 1 - limit_, times Length: positive when one more is too many.
Excess(w, lag) == Estimate(w, lag) + Length - Limit * Length

CeilDiv(a, b) == (a + b - 1) \div b

\* Mutant of RetryAfter: assumes a full previous window.
RetryAfterFull(w, lag) ==
    IF w.previous > 0 THEN CeilDiv(Excess(w, lag), Limit) ELSE Length - Elapsed(w, lag)

\* retry_after in ticks; exact only when the previous window is not empty.
RetryAfter(w, lag) ==
    IF w.previous > 0 THEN CeilDiv(Excess(w, lag), w.previous)
    ELSE Length - Elapsed(w, lag)

-----------------------------------------------------------------------------
\* The counter check() works on: found or created, rolled to its reading.
Current(lag) == IF counter = None THEN Fresh(lag) ELSE Roll(counter, lag)

Allow(lag) ==
    /\ Excess(Current(lag), lag) <= 0
    /\ counter' = [Current(lag) EXCEPT !.current = @ + 1]
    /\ window' = IF window.age < Span THEN [window EXCEPT !.passed = @ + 1] ELSE window
    /\ wait' = None
    /\ UNCHANGED carried

\* Mutant of Deny: a denied request restarts the window.
DenyRestarts(lag) ==
    /\ Excess(Current(lag), lag) > 0
    /\ counter' = [Current(lag) EXCEPT !.age = lag]
    /\ wait' = RetryAfter(Current(lag), lag)
    /\ carried' = (Current(lag).previous > 0)
    /\ UNCHANGED window

Deny(lag) ==
    /\ Excess(Current(lag), lag) > 0
    /\ counter' = Current(lag)
    /\ wait' = RetryAfter(Current(lag), lag)
    /\ carried' = (Current(lag).previous > 0)
    /\ UNCHANGED window

\* The sweep's cutoff is as old as its wait for the stripe.
EvictIdle(lag) ==
    /\ counter # None
    /\ Elapsed(counter, lag) > MaxIdle
    /\ counter' = None
    /\ UNCHANGED <<wait, carried, window>>

Tick ==
    /\ counter' = IF counter = None THEN None
                  ELSE [counter EXCEPT !.age = IF @ < LastAge THEN @ + 1 ELSE @]
    /\ wait' = IF wait = None \/ wait = 0 THEN wait ELSE wait - 1
    /\ window' = IF window.age < Span THEN [window EXCEPT !.age = @ + 1] ELSE window
    /\ UNCHANGED carried

\* A stretch of Span ticks starts now.
Measure == window' = NoWindow /\ UNCHANGED <<counter, wait, carried>>

Next ==
    \/ \E lag \in Lags : Allow(lag) \/ Deny(lag) \/ EvictIdle(lag)
    \/ Tick
    \/ Measure

Spec == Init /\ [][Next]_vars

\* Time passes and the client keeps asking; now and then it gets the lock at once.
FairSpec == Spec /\ WF_vars(Tick) /\ WF_vars(Allow(0))

-----------------------------------------------------------------------------
(****************************************************************************)
(* Properties.                                                              *)
(****************************************************************************)

\* No stretch of Length - MaxDelay ticks ever sees twice the limit, wherever the
\* fixed windows' boundary falls and whatever order readings come in
\* (token_bucket.hpp:70-72 has the whole window: requests that waited for the
\* lock arrive later than the window they are counted in).
NoDoubleBurst == window.passed < 2 * Limit

WouldAllow == Excess(Current(0), 0) <= 0

\* A client denied because of the previous window's count is let through
\* once it has waited retry_after and its reading is not stale.
RetryHonestWhenCarried == wait = 0 /\ carried => WouldAllow

\* A denied client is not kept out for ever, whether it keeps asking or not.
DeniedIsServed == wait # None ~> wait = None
=============================================================================
