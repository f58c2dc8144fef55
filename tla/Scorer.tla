-------------------------------- MODULE Scorer -------------------------------
(****************************************************************************)
(* gateway/anomaly/scorer.py and its callers in gateway/main.py: workers of *)
(* the thread pool that observe a request after its response was sent, and  *)
(* the maintenance loop, all sharing one AnomalyScorer.                     *)
(*                                                                          *)
(* A caller of maybe_fit reads the population and the clock before it has   *)
(* the scorer's lock; each read is a step, and what was read may be stale   *)
(* when the lock is granted.  maybe_fit and _sustained hold the lock, score *)
(* does not: it reads _baseline to rank the features and later, to choose   *)
(* the detector, _model and _baseline again, and a fit may come between or  *)
(* be half done.  What a fit computes and what a score is are data: a       *)
(* baseline is its population's size, a score any member of Scores.         *)
(* Features appear as the number of observations a client has, which        *)
(* saturates at the only value it is compared with; _fitted_n is only       *)
(* reported and left out.                                                   *)
(*                                                                          *)
(* Times are ages in ticks.  fitted_age is time.time() - _fitted_at, and a  *)
(* caller's stamp the age of the clock value it read.                       *)
(****************************************************************************)
EXTENDS Integers, FiniteSets, Sequences

CONSTANTS
    Clients,            \* clients whose scores are followed
    Workers,            \* threads of the pool that run _observe
    MaxOthers,          \* bound: other clients that may be tracked
    MinClients,         \* min_clients
    MinObservations,    \* min_observations
    MinForest,          \* min_clients_for_forest
    RefitInterval,      \* refit_interval_sec, in ticks
    MaxDelay,           \* bound: longest time from reading the clock to the end of the fit
    SustainWindow,      \* sustain_window
    Scores,             \* the scores that are told apart
    Threshold,          \* threshold
    None

ASSUME CallersAssumption == IsFiniteSet(Clients) /\ IsFiniteSet(Workers)
ASSUME PopulationAssumption ==
    /\ MaxOthers \in Nat
    /\ MinClients \in Nat \ {0} /\ MinForest \in Nat /\ MinClients <= MinForest
ASSUME WindowAssumption == SustainWindow \in Nat \ {0} /\ MinObservations \in Nat
ASSUME TimeAssumption   == RefitInterval \in Nat /\ MaxDelay \in Nat
ASSUME ScoresAssumption == Scores \subseteq Nat /\ 0 \in Scores /\ Threshold \in Nat
ASSUME NoneAssumption   == None \notin Clients

VARIABLES
    others,         \* how many other clients have enough history
    observations,   \* FeatureExtractor: observations held of each client
    model,          \* is there a forest (_model is not None)?
    baseline,       \* clients _baseline was made of; 0 while it is empty
    fitted_age,     \* time.time() - _fitted_at
    recent,         \* _recent: each client's last scores, oldest first
    verdict,        \* what the latest request of each client was found to be
    caller,         \* where each worker and the maintenance loop are
    since_fit,      \* history: ticks since a fit last ran
    blind_scores    \* history: scores given without a baseline or a forest

fit   == <<model, baseline, fitted_age, since_fit>>
score == <<recent, verdict, blind_scores>>
vars  == <<others, observations, fit, score, caller>>

Maintenance == "maintenance"
Callers     == Workers \cup {Maintenance}
LongAgo     == RefitInterval + MaxDelay

Idle == [pc |-> "idle", client |-> None, population |-> 0, stamp |-> 0,
         blind |-> FALSE, value |-> 0]

Caller == [pc : {"idle", "observed", "collected", "stamped", "fitting", "fitted",
                 "extracted", "ranked", "scored"},
           client : Clients \cup {None},
           population : 0..(MaxOthers + Cardinality(Clients)),
           stamp : 0..MaxDelay,
           blind : BOOLEAN,     \* was _baseline empty when the features were ranked?
           value : Scores]

TypeOK ==
    /\ others \in 0..MaxOthers
    /\ observations \in [Clients -> 0..MinObservations]
    /\ model \in BOOLEAN
    /\ baseline \in 0..(MaxOthers + Cardinality(Clients))
    /\ fitted_age \in 0..LongAgo
    /\ recent \in [Clients -> Seq(Scores)]
    /\ \A c \in Clients : Len(recent[c]) <= SustainWindow
    /\ verdict \in [Clients -> {"cold_start", "normal", "flagged"}]
    /\ caller \in [Callers -> Caller]
    /\ since_fit \in 0..LongAgo
    /\ blind_scores \in 0..(Cardinality(Workers) + 1)

Init ==
    /\ others = 0
    /\ observations = [c \in Clients |-> 0]
    /\ model = FALSE /\ baseline = 0 /\ fitted_age = LongAgo /\ since_fit = LongAgo
    /\ recent = [c \in Clients |-> <<>>]
    /\ verdict = [c \in Clients |-> "cold_start"]
    /\ blind_scores = 0
    /\ caller = [w \in Callers |-> Idle]

Capped(n, limit) == IF n < limit THEN n ELSE limit

-----------------------------------------------------------------------------
(****************************************************************************)
(* AnomalyScorer.maybe_fit.                                                 *)
(****************************************************************************)

\* Clients all_vectors returns: those with min_observations observations.
Population == others + Cardinality({c \in Clients : observations[c] >= MinObservations})

\* now - self._fitted_at < self.refit_interval_sec, for a caller's `now`.
TooSoon(w) == fitted_age - caller[w].stamp < RefitInterval

\* Mutant of Declines: with a forest, the interval is not waited for either.
DeclinesNeverTooSoon(w) == caller[w].population < MinClients

Declines(w) ==
    \/ caller[w].population < MinClients
    \/ TooSoon(w) /\ model

\* Only the fit of a forest takes long enough for others to meet the lock.
Locked == \E w \in Callers : caller[w].pc = "fitting"

\* maybe_fit returns: the maintenance loop sleeps, a worker goes on to score.
Leave(w) ==
    caller' = [caller EXCEPT ![w] =
                   IF w = Maintenance THEN Idle
                   ELSE [Idle EXCEPT !.pc = "fitted", !.client = caller[w].client]]

Decline(w) == Declines(w) /\ Leave(w) /\ UNCHANGED fit

\* _fit_baseline has replaced _baseline, for all to see; the forest is next,
\* if there are clients enough for one.
FitBaseline(w) ==
    /\ ~Declines(w)
    /\ baseline' = caller[w].population
    /\ since_fit' = 0
    /\ IF caller[w].population >= MinForest
       THEN /\ caller' = [caller EXCEPT ![w].pc = "fitting"]
            /\ UNCHANGED <<model, fitted_age>>
       ELSE /\ fitted_age' = caller[w].stamp
            /\ Leave(w)
            /\ UNCHANGED model

MaybeFit(w) ==
    /\ caller[w].pc = "stamped"
    /\ ~Locked
    /\ Decline(w) \/ FitBaseline(w)
    /\ UNCHANGED <<others, observations, score>>

FitForest(w) ==
    /\ caller[w].pc = "fitting"
    /\ model' = TRUE
    /\ fitted_age' = caller[w].stamp
    /\ Leave(w)
    /\ UNCHANGED <<others, observations, baseline, since_fit, score>>

-----------------------------------------------------------------------------
(****************************************************************************)
(* AnomalyScorer.score.                                                     *)
(****************************************************************************)

\* Mutant of LastWindow: a deque without maxlen.
LastWindowUnbounded(s) == s

\* The last SustainWindow elements of s: deque(maxlen=sustain_window).
LastWindow(s) ==
    IF Len(s) <= SustainWindow THEN s ELSE SubSeq(s, Len(s) - SustainWindow + 1, Len(s))

\* sorted(s)[k - 1]
Smallest(s, k) ==
    CHOOSE v \in Scores : /\ Cardinality({i \in DOMAIN s : s[i] < v}) < k
                          /\ Cardinality({i \in DOMAIN s : s[i] <= v}) >= k

\* Twice the median of s, an integer whether Len(s) is odd or even.
TwiceMedian(s) ==
    LET half == Len(s) \div 2
    IN  IF Len(s) % 2 = 1 THEN 2 * Smallest(s, half + 1)
        ELSE Smallest(s, half) + Smallest(s, half + 1)

\* Mutant of Sustained: the window need not be full.
SustainedAtOnce(s) == TwiceMedian(s) >= 2 * Threshold

\* flagged: a full window, and a median that reaches the threshold.
Sustained(s) == Len(s) >= SustainWindow /\ TwiceMedian(s) >= 2 * Threshold

\* Not scored, and not remembered.
ScoreCold(w) ==
    /\ verdict' = [verdict EXCEPT ![caller[w].client] = "cold_start"]
    /\ caller' = [caller EXCEPT ![w] = Idle]
    /\ UNCHANGED <<others, observations, fit, recent, blind_scores>>

\* _contributors: the features' deviations from _baseline, as it is now.
Rank(w) ==
    /\ caller[w].pc = "extracted"
    /\ caller' = [caller EXCEPT ![w] = [caller[w] EXCEPT !.pc = "ranked", !.blind = (baseline = 0)]]
    /\ UNCHANGED <<others, observations, fit, score>>

\* Mutant of Ready: a detector is not asked for.
ReadyAlways == TRUE

\* A forest decides, or else the deviations, if there is a _baseline by now.
Ready == model \/ baseline # 0

\* The worst of no deviations is 0.
Values(w) == IF caller[w].blind /\ ~model THEN {0} ELSE Scores

\* score() goes on, without the lock.
Detect(w) ==
    /\ caller[w].pc = "ranked"
    /\ \/ ~Ready /\ ScoreCold(w)
       \/ /\ Ready
          /\ \E value \in Values(w) :
                caller' = [caller EXCEPT ![w] =
                               [caller[w] EXCEPT !.pc = "scored", !.value = value,
                                                 !.blind = caller[w].blind /\ ~model]]
          /\ UNCHANGED <<others, observations, fit, score>>

\* _sustained, which waits for the lock, and the verdict.
Sustain(w) ==
    LET c      == caller[w].client
        values == LastWindow(Append(recent[c], caller[w].value))
    IN  /\ caller[w].pc = "scored"
        /\ ~Locked
        /\ recent' = [recent EXCEPT ![c] = values]
        /\ verdict' = [verdict EXCEPT ![c] = IF Sustained(values) THEN "flagged"
                                             ELSE "normal"]
        /\ blind_scores' = Capped(blind_scores + (IF caller[w].blind THEN 1 ELSE 0),
                                  Cardinality(Workers) + 1)
        /\ caller' = [caller EXCEPT ![w] = Idle]
        /\ UNCHANGED <<others, observations, fit>>

-----------------------------------------------------------------------------
(****************************************************************************)
(* main._observe up to the scorer, step by step.                            *)
(****************************************************************************)

\* features.observe
Observe(w, c) ==
    /\ caller[w].pc = "idle"
    /\ observations' = [observations EXCEPT ![c] = Capped(@ + 1, MinObservations)]
    /\ caller' = [caller EXCEPT ![w] = [Idle EXCEPT !.pc = "observed", !.client = c]]
    /\ UNCHANGED <<others, fit, score>>

\* features.all_vectors
Collect(w) ==
    /\ caller[w].pc = "observed"
    /\ caller' = [caller EXCEPT ![w] = [caller[w] EXCEPT !.pc = "collected",
                                                         !.population = Population]]
    /\ UNCHANGED <<others, observations, fit, score>>

\* time.time() in maybe_fit, before the lock.
ReadClock(w) ==
    /\ caller[w].pc = "collected"
    /\ caller' = [caller EXCEPT ![w] = [caller[w] EXCEPT !.pc = "stamped"]]
    /\ UNCHANGED <<others, observations, fit, score>>

\* features.extract, and score() turns away a client with too few of them.
Extract(w) ==
    /\ caller[w].pc = "fitted"
    /\ IF observations[caller[w].client] < MinObservations
       THEN ScoreCold(w)
       ELSE /\ caller' = [caller EXCEPT ![w].pc = "extracted"]
            /\ UNCHANGED <<others, observations, fit, score>>

-----------------------------------------------------------------------------
(****************************************************************************)
(* maintenance_loop: read the clock, forget idle clients, collect, fit.     *)
(****************************************************************************)

\* A client nobody is observing now may have been idle for max_age_sec.
MayBeIdle(c) == \A w \in Workers : caller[w].client # c

Sweep(idle, gone) ==
    /\ caller[Maintenance].pc = "idle"
    /\ \A c \in idle : MayBeIdle(c)
    /\ observations' = [c \in Clients |-> IF c \in idle THEN 0 ELSE observations[c]]
    /\ others' = others - gone
    /\ caller' = [caller EXCEPT ![Maintenance] = [Idle EXCEPT !.pc = "observed"]]
    /\ UNCHANGED <<fit, score>>

MaintenanceCollect ==
    /\ caller[Maintenance].pc = "observed"
    /\ caller' = [caller EXCEPT ![Maintenance] =
                      [caller[Maintenance] EXCEPT !.pc = "stamped", !.population = Population]]
    /\ UNCHANGED <<others, observations, fit, score>>

-----------------------------------------------------------------------------
\* Another client reaches min_observations.
Join ==
    /\ others < MaxOthers
    /\ others' = others + 1
    /\ UNCHANGED <<observations, fit, score, caller>>

HoldsStamp(w) ==
    \/ caller[w].pc \in {"stamped", "fitting"}
    \/ w = Maintenance /\ caller[w].pc = "observed"

Tick ==
    /\ \A w \in Callers : HoldsStamp(w) => caller[w].stamp < MaxDelay
    /\ fitted_age' = Capped(fitted_age + 1, LongAgo)
    /\ since_fit' = Capped(since_fit + 1, LongAgo)
    /\ caller' = [w \in Callers |->
                    IF HoldsStamp(w) THEN [caller[w] EXCEPT !.stamp = @ + 1] ELSE caller[w]]
    /\ UNCHANGED <<others, observations, model, baseline, score>>

Step(w) ==
    \/ \E c \in Clients : Observe(w, c)
    \/ Collect(w) \/ ReadClock(w) \/ MaybeFit(w) \/ FitForest(w)
    \/ Extract(w) \/ Rank(w) \/ Detect(w) \/ Sustain(w)

Next ==
    \/ \E w \in Workers : Step(w)
    \/ \E idle \in SUBSET Clients, gone \in 0..others : Sweep(idle, gone)
    \/ MaintenanceCollect
    \/ MaybeFit(Maintenance) \/ FitForest(Maintenance)
    \/ Join
    \/ Tick

Spec == Init /\ [][Next]_vars

-----------------------------------------------------------------------------
(****************************************************************************)
(* Properties.                                                              *)
(****************************************************************************)

Elevated(c) == {i \in DOMAIN recent[c] : recent[c][i] >= Threshold}

\* A flag rests on a full window of scores, at least half of which reach the
\* threshold, however the workers scoring one client interleave: one spike
\* never flags.  And a client whose whole window reaches the threshold does
\* not pass as normal (scorer.py:236-239, 287-290).
FlagIsSustained ==
    \A c \in Clients :
        LET full == Len(recent[c]) = SustainWindow
        IN  /\ verdict[c] = "flagged" => full /\ 2 * Cardinality(Elevated(c)) >= SustainWindow
            /\ verdict[c] = "normal" => ~(full /\ Elevated(c) = DOMAIN recent[c])

\* Ranking before the first fit and choosing the detector after it makes a
\* score of 0 out of nothing, without a baseline or a forest; of those there is
\* at most one for each thread of the pool, however fits and scores overlap
\* (scorer.py:265-282, read without the lock).
BlindScoresAreFew == blind_scores <= Cardinality(Workers)

\* With a forest in place fits stay apart, although callers test the interval
\* against a clock they read before they had the lock (scorer.py:145-150).
ForestFitsApart ==
    [][\A w \in Callers :
          model /\ MaybeFit(w) /\ ~Declines(w) => since_fit >= RefitInterval - MaxDelay]_vars
=============================================================================
