----------------------------- MODULE ScorerProofs ------------------------------
(****************************************************************************)
(* Safety of Scorer for any clients, workers, populations, intervals and    *)
(* sets of scores.                                                          *)
(*                                                                          *)
(* Two facts carry it.  What a client's window says and what was concluded  *)
(* from it change in the same step, so a flag needs no more than what a     *)
(* median is (MedianReaches, MedianStays).  And once there is a baseline    *)
(* there always is one, so that a worker that ranked without one gives at   *)
(* most one score out of nothing: those given and those still to come are   *)
(* never more than the workers (BlindInv).                                  *)
(****************************************************************************)
EXTENDS Scorer, FiniteSetTheorems, WellFoundedInduction, TLAPS

USE PopulationAssumption, WindowAssumption, TimeAssumption, ScoresAssumption, NoneAssumption

-----------------------------------------------------------------------------
Blind == {w \in Workers : caller[w].blind}

BlindInv ==
    /\ model => baseline # 0
    /\ Locked => baseline # 0
    /\ \A w \in Workers : caller[w].pc = "scored" => baseline # 0
    /\ baseline = 0 => blind_scores = 0
    /\ blind_scores + Cardinality(Blind) <= Cardinality(Workers)

\* _fitted_at is a clock value read before the lock.  Unless a forest is being
\* fitted, its age exceeds that of the fit itself by no more than that wait.
AgeInv == ~Locked => fitted_age <= since_fit + MaxDelay

Inv == TypeOK /\ BlindInv /\ AgeInv /\ FlagIsSustained

-----------------------------------------------------------------------------
(****************************************************************************)
(* What a median is.                                                        *)
(****************************************************************************)

LEMMA LeastNatural ==
    ASSUME NEW T \in SUBSET Nat, T # {}
    PROVE  \E m \in T : \A k \in T : m <= k
<1>1. PICK m \in T : \A k \in T : ~(<<k, m>> \in OpToRel(<, Nat))
  BY NatLessThanWellFounded, WFMin, Zenon
<1>2. ASSUME NEW k \in T PROVE m <= k
  <2>1. <<k, m>> \in Nat \X Nat /\ ~(k < m)
    BY <1>1 DEF OpToRel
  <2>2. QED
    BY <2>1
<1>3. QED
  BY <1>2

UpTo(s, v)  == {i \in DOMAIN s : s[i] <= v}
Below(s, v) == {i \in DOMAIN s : s[i] < v}

LEMMA ScoreTypes ==
    ASSUME NEW s \in Seq(Scores)
    PROVE  /\ DOMAIN s = 1..Len(s) /\ Len(s) \in Nat
           /\ IsFiniteSet(DOMAIN s) /\ Cardinality(DOMAIN s) = Len(s)
           /\ \A i \in DOMAIN s : s[i] \in Scores /\ s[i] \in Nat
<1>1. DOMAIN s = 1..Len(s) /\ Len(s) \in Nat
  OBVIOUS
<1>2. IsFiniteSet(1..Len(s)) /\ Cardinality(1..Len(s)) = Len(s)
  <2>1. 1 \in Int /\ Len(s) \in Int /\ (1 > Len(s) => Len(s) = 0) /\ Len(s) - 1 + 1 = Len(s)
    BY <1>1
  <2>2. /\ IsFiniteSet(1..Len(s))
        /\ Cardinality(1..Len(s)) = IF 1 > Len(s) THEN 0 ELSE Len(s) - 1 + 1
    BY <2>1, FS_Interval, Zenon
  <2>3. QED
    BY <2>1, <2>2
<1>3. ASSUME NEW i \in DOMAIN s PROVE s[i] \in Scores /\ s[i] \in Nat
  <2>1. i \in 1..Len(s)
    BY <1>1
  <2>2. s[i] \in Scores
    BY <2>1
  <2>3. QED
    BY <2>2
<1>4. QED
  BY <1>1, <1>2, <1>3, Zenon

\* Sets of places in a window.
LEMMA Places ==
    ASSUME NEW s \in Seq(Scores), NEW A \in SUBSET (DOMAIN s)
    PROVE  /\ IsFiniteSet(A) /\ Cardinality(A) \in Nat /\ Cardinality(A) <= Len(s)
           /\ Cardinality((DOMAIN s) \ A) = Len(s) - Cardinality(A)
<1>1. IsFiniteSet(DOMAIN s) /\ Cardinality(DOMAIN s) = Len(s)
  BY ScoreTypes
<1>2. IsFiniteSet(A) /\ Cardinality(A) <= Len(s)
  BY <1>1, FS_Subset
<1>3. Cardinality(A) \in Nat
  BY <1>2, FS_CardinalityType
<1>4. Cardinality((DOMAIN s) \ A) = Cardinality(DOMAIN s) - Cardinality((DOMAIN s) \cap A)
  BY <1>1, FS_Difference, Zenon
<1>5. (DOMAIN s) \cap A = A
  OBVIOUS
<1>6. QED
  BY <1>1, <1>2, <1>3, <1>4, <1>5, Zenon

LEMMA PlacesWithin ==
    ASSUME NEW s \in Seq(Scores), NEW A \in SUBSET (DOMAIN s), NEW B \in SUBSET A
    PROVE  /\ Cardinality(A) \in Nat /\ Cardinality(B) \in Nat
           /\ Cardinality(B) <= Cardinality(A)
           /\ Cardinality(B) = Cardinality(A) => A = B
<1>1. IsFiniteSet(A) /\ IsFiniteSet(B) /\ Cardinality(A) \in Nat /\ Cardinality(B) \in Nat
  <2>1. B \in SUBSET (DOMAIN s)
    OBVIOUS
  <2>2. QED
    BY <2>1, Places
<1>2. Cardinality(B) <= Cardinality(A) /\ (Cardinality(B) = Cardinality(A) => B = A)
  BY <1>1, FS_Subset, Zenon
<1>3. QED
  BY <1>1, <1>2

\* A window has a largest score: the one with fewest above it.
LEMMA LargestExists ==
    ASSUME NEW s \in Seq(Scores), Len(s) > 0
    PROVE  \E m \in DOMAIN s : \A i \in DOMAIN s : s[i] <= s[m]
<1> DEFINE above(j) == {i \in DOMAIN s : s[i] > s[j]}
           T == {Cardinality(above(j)) : j \in DOMAIN s}
<1>1. DOMAIN s # {} /\ \A i \in DOMAIN s : s[i] \in Nat
  BY ScoreTypes
<1>2. \A j \in DOMAIN s : above(j) \in SUBSET (DOMAIN s) /\ Cardinality(above(j)) \in Nat
  BY Places
<1>3. T \in SUBSET Nat /\ T # {}
  BY <1>1, <1>2
<1>4. PICK m \in DOMAIN s : \A j \in DOMAIN s : Cardinality(above(m)) <= Cardinality(above(j))
  <2>1. PICK n \in T : \A k \in T : n <= k
    BY <1>3, LeastNatural
  <2>2. PICK m \in DOMAIN s : n = Cardinality(above(m))
    BY <2>1
  <2>3. ASSUME NEW j \in DOMAIN s PROVE Cardinality(above(m)) <= Cardinality(above(j))
    <3>1. Cardinality(above(j)) \in T
      OBVIOUS
    <3>2. QED
      BY <2>1, <2>2, <3>1, Zenon
  <2>4. QED
    BY <2>2, <2>3, Zenon
<1>5. ASSUME NEW i \in DOMAIN s, s[i] > s[m] PROVE FALSE
  <2>1. above(i) \in SUBSET above(m) /\ i \in above(m) /\ i \notin above(i)
    BY <1>1, <1>5
  <2>2. /\ Cardinality(above(i)) <= Cardinality(above(m))
        /\ Cardinality(above(i)) = Cardinality(above(m)) => above(m) = above(i)
    BY <1>2, <2>1, PlacesWithin, Zenon
  <2> HIDE DEF above
  <2>3. Cardinality(above(i)) = Cardinality(above(m))
    BY <1>2, <1>4, <2>2
  <2>4. QED
    BY <2>1, <2>2, <2>3
<1>6. QED
  BY <1>1, <1>5

LEMMA SmallestIs ==
    ASSUME NEW s \in Seq(Scores), NEW k \in 1..Len(s)
    PROVE  /\ Smallest(s, k) \in Scores /\ Smallest(s, k) \in Nat
           /\ Cardinality(Below(s, Smallest(s, k))) < k
           /\ Cardinality(UpTo(s, Smallest(s, k))) >= k
<1> DEFINE T == {v \in Nat : Cardinality(UpTo(s, v)) >= k}
<1>0. /\ \A i \in DOMAIN s : s[i] \in Scores /\ s[i] \in Nat
      /\ \A v : UpTo(s, v) \in SUBSET (DOMAIN s) /\ Below(s, v) \in SUBSET (DOMAIN s)
      /\ Len(s) > 0 /\ k \in Nat /\ k > 0 /\ k <= Len(s)
  BY ScoreTypes DEF UpTo, Below
<1>1. \A v : /\ Cardinality(UpTo(s, v)) \in Nat /\ Cardinality(Below(s, v)) \in Nat
  BY <1>0, Places
<1>2. T # {}
  <2>1. PICK m \in DOMAIN s : \A i \in DOMAIN s : s[i] <= s[m]
    BY <1>0, LargestExists
  <2>2. UpTo(s, s[m]) = DOMAIN s
    BY <2>1 DEF UpTo
  <2>3. Cardinality(DOMAIN s) = Len(s)
    BY ScoreTypes
  <2>4. QED
    BY <1>0, <2>2, <2>3
<1>3. PICK v \in T : \A u \in T : v <= u
  BY <1>2, LeastNatural
<1>4. Cardinality(Below(s, v)) < k
  <2>1. CASE v = 0
    <3>1. Below(s, v) = {}
      BY <1>0, <2>1 DEF Below
    <3>2. QED
      BY <1>0, <3>1, FS_EmptySet
  <2>2. CASE v > 0
    <3>1. v - 1 \in Nat /\ ~(v <= v - 1)
      BY <1>3, <2>2
    <3>2. ~(Cardinality(UpTo(s, v - 1)) >= k)
      BY <1>3, <3>1
    <3>3. Below(s, v) = UpTo(s, v - 1)
      BY <1>0, <1>3, <2>2 DEF Below, UpTo
    <3>4. QED
      BY <1>0, <1>1, <3>2, <3>3
  <2>3. QED
    BY <1>3, <2>1, <2>2
<1>5. Cardinality(UpTo(s, v)) >= k
  BY <1>3
<1>6. v \in Scores
  <2>1. UpTo(s, v) # Below(s, v)
    BY <1>0, <1>1, <1>4, <1>5
  <2>2. PICK i \in DOMAIN s : s[i] = v
    BY <1>0, <1>3, <2>1 DEF UpTo, Below
  <2>3. QED
    BY <1>0, <2>2
<1>7. Smallest(s, k) = CHOOSE u \in Scores : Cardinality(Below(s, u)) < k
                                             /\ Cardinality(UpTo(s, u)) >= k
  BY DEF Smallest, Below, UpTo
<1>8. QED
  BY <1>4, <1>5, <1>6, <1>7

\* What is known of the median of a window: its lower and its upper half meet.
LEMMA MedianIs ==
    ASSUME NEW s \in Seq(Scores), Len(s) > 0
    PROVE  \E lower, upper \in Nat :
              /\ lower <= upper /\ TwiceMedian(s) = lower + upper
              /\ Cardinality(UpTo(s, lower)) > 0
              /\ 2 * Cardinality(Below(s, upper)) <= Len(s)
<1> DEFINE half == Len(s) \div 2
           upper == Smallest(s, half + 1)
           lower == IF Len(s) % 2 = 1 THEN upper ELSE Smallest(s, half)
<1>1. /\ half \in Nat /\ half + 1 \in 1..Len(s) /\ 2 * half <= Len(s)
      /\ Len(s) % 2 # 1 => half \in 1..Len(s) /\ 2 * half = Len(s)
  OBVIOUS
<1> HIDE DEF half
<1>2. \A v : /\ UpTo(s, v) \in SUBSET (DOMAIN s) /\ Below(s, v) \in SUBSET (DOMAIN s)
             /\ Cardinality(UpTo(s, v)) \in Nat /\ Cardinality(Below(s, v)) \in Nat
  BY Places DEF UpTo, Below
<1>3. /\ upper \in Nat /\ Cardinality(Below(s, upper)) < half + 1
      /\ Cardinality(UpTo(s, upper)) >= half + 1
  BY <1>1, SmallestIs
<1>4. 2 * Cardinality(Below(s, upper)) <= Len(s)
  BY <1>1, <1>2, <1>3
<1>5. TwiceMedian(s) = lower + upper
  BY <1>1, <1>3 DEF TwiceMedian, half
<1>6. lower \in Nat /\ lower <= upper /\ Cardinality(UpTo(s, lower)) > 0
  <2>1. CASE Len(s) % 2 = 1
    BY <1>1, <1>2, <1>3, <2>1
  <2>2. CASE Len(s) % 2 # 1
    <3>1. /\ lower \in Nat /\ Cardinality(Below(s, lower)) < half
          /\ Cardinality(UpTo(s, lower)) >= half
      BY <1>1, <2>2, SmallestIs
    <3>2. ASSUME lower > upper PROVE FALSE
      <4>1. \A i \in DOMAIN s : s[i] \in Nat
        BY ScoreTypes
      <4>2. UpTo(s, upper) \in SUBSET Below(s, lower)
        BY <1>3, <3>1, <3>2, <4>1 DEF UpTo, Below
      <4>3. Cardinality(UpTo(s, upper)) <= Cardinality(Below(s, lower))
        BY <1>2, <4>2, PlacesWithin, Zenon
      <4>4. Cardinality(UpTo(s, upper)) \in Nat /\ Cardinality(Below(s, lower)) \in Nat
        BY <1>2, Zenon
      <4> HIDE DEF lower, upper
      <4>5. QED
        BY <1>1, <1>3, <3>1, <4>3, <4>4
    <3>3. QED
      BY <1>1, <1>2, <1>3, <2>2, <3>1, <3>2
  <2>3. QED
    BY <2>1, <2>2
<1>7. QED
  BY <1>3, <1>4, <1>5, <1>6

\* A median that reaches the threshold: so does half of the window.
LEMMA MedianReaches ==
    ASSUME NEW s \in Seq(Scores), Len(s) > 0, TwiceMedian(s) >= 2 * Threshold
    PROVE  2 * Cardinality({i \in DOMAIN s : s[i] >= Threshold}) >= Len(s)
<1> DEFINE high == {i \in DOMAIN s : s[i] >= Threshold}
<1>1. PICK lower, upper \in Nat : /\ lower <= upper /\ TwiceMedian(s) = lower + upper
                                  /\ 2 * Cardinality(Below(s, upper)) <= Len(s)
  BY MedianIs
<1>2. upper >= Threshold
  BY <1>1
<1>3. (DOMAIN s) \ high \in SUBSET Below(s, upper)
  BY <1>1, <1>2, ScoreTypes DEF Below
<1>4. Below(s, upper) \in SUBSET (DOMAIN s) /\ high \in SUBSET (DOMAIN s)
  BY DEF Below
<1>5. Cardinality((DOMAIN s) \ high) <= Cardinality(Below(s, upper))
  BY <1>3, <1>4, PlacesWithin, Zenon
<1>6. Cardinality((DOMAIN s) \ high) = Len(s) - Cardinality(high)
  BY <1>4, Places
<1>7. Cardinality(high) \in Nat /\ Cardinality(Below(s, upper)) \in Nat /\ Len(s) \in Nat
  BY <1>4, Places, ScoreTypes
<1> HIDE DEF high
<1>8. 2 * Cardinality(high) >= Len(s)
  BY <1>1, <1>5, <1>6, <1>7
<1>9. QED
  BY <1>8 DEF high

\* A window that reaches the threshold: so does its median.
LEMMA MedianStays ==
    ASSUME NEW s \in Seq(Scores), Len(s) > 0, \A i \in DOMAIN s : s[i] >= Threshold
    PROVE  TwiceMedian(s) >= 2 * Threshold
<1>1. PICK lower, upper \in Nat : /\ lower <= upper /\ TwiceMedian(s) = lower + upper
                                  /\ Cardinality(UpTo(s, lower)) > 0
  BY MedianIs
<1>2. UpTo(s, lower) # {}
  <2>1. Cardinality({}) = 0
    BY FS_EmptySet
  <2>2. ASSUME UpTo(s, lower) = {} PROVE FALSE
    BY <1>1, <2>1, <2>2
  <2>3. QED
    BY <2>2
<1>3. PICK i \in DOMAIN s : s[i] <= lower
  BY <1>2 DEF UpTo
<1>4. s[i] \in Nat /\ s[i] >= Threshold
  BY <1>3, ScoreTypes
<1>5. QED
  BY <1>1, <1>3, <1>4

-----------------------------------------------------------------------------
(****************************************************************************)
(* The types.                                                               *)
(****************************************************************************)

LEMMA Clipped ==
    ASSUME NEW n \in Nat, NEW limit \in Nat
    PROVE  Capped(n, limit) \in 0..limit
BY DEF Capped

LEMMA PopulationType ==
    ASSUME TypeOK
    PROVE  Population \in 0..(MaxOthers + Cardinality(Clients))
<1> DEFINE tracked == {c \in Clients : observations[c] >= MinObservations}
<1>1. /\ Cardinality(Clients) \in Nat /\ Cardinality(tracked) \in Nat
      /\ Cardinality(tracked) <= Cardinality(Clients)
  <2>1. tracked \in SUBSET Clients
    OBVIOUS
  <2>2. IsFiniteSet(tracked) /\ Cardinality(tracked) <= Cardinality(Clients)
    BY <2>1, CallersAssumption, FS_Subset
  <2>3. QED
    BY <2>2, CallersAssumption, FS_CardinalityType
<1>2. Population = others + Cardinality(tracked)
  BY DEF Population
<1>3. others \in 0..MaxOthers
  BY DEF TypeOK
<1> HIDE DEF tracked
<1>4. QED
  BY <1>1, <1>2, <1>3

LEMMA Finite == Cardinality(Clients) \in Nat /\ Cardinality(Workers) \in Nat
BY CallersAssumption, FS_CardinalityType

LEMMA IdleType == Idle \in Caller
BY Finite DEF Idle, Caller

LEMMA LastWindowType ==
    ASSUME NEW s \in Seq(Scores), Len(s) > 0
    PROVE  /\ LastWindow(s) \in Seq(Scores)
           /\ Len(LastWindow(s)) > 0 /\ Len(LastWindow(s)) <= SustainWindow
<1>1. CASE Len(s) <= SustainWindow
  BY <1>1 DEF LastWindow
<1>2. CASE Len(s) > SustainWindow
  <2> DEFINE first == Len(s) - SustainWindow + 1
  <2>1. Len(s) \in Nat /\ first \in 1..Len(s) /\ Len(s) - first + 1 = SustainWindow
    BY <1>2
  <2>2. LastWindow(s) = SubSeq(s, first, Len(s))
    BY <1>2 DEF LastWindow
  <2> HIDE DEF first
  <2>3. LastWindow(s) \in Seq(Scores) /\ Len(LastWindow(s)) = SustainWindow
    BY <2>1, <2>2
  <2>4. QED
    BY <2>3
<1>3. QED
  BY <1>1, <1>2

LEMMA LeaveType ==
    ASSUME TypeOK, NEW w \in Callers, Leave(w)
    PROVE  caller' \in [Callers -> Caller]
<1>1. [Idle EXCEPT !.pc = "fitted", !.client = caller[w].client] \in Caller
  BY IdleType DEF TypeOK, Caller, Idle
<1>2. QED
  BY <1>1, IdleType DEF TypeOK, Leave

LEMMA ScoreColdType ==
    ASSUME TypeOK, NEW w \in Callers, ScoreCold(w)
    PROVE  TypeOK'
<1>1. caller' \in [Callers -> Caller]
  BY IdleType DEF TypeOK, ScoreCold
<1>2. verdict' \in [Clients -> {"cold_start", "normal", "flagged"}]
  BY DEF TypeOK, ScoreCold
<1>3. QED
  BY <1>1, <1>2 DEF TypeOK, ScoreCold, fit

LEMMA MaybeFitType ==
    ASSUME TypeOK, NEW w \in Callers, MaybeFit(w)
    PROVE  TypeOK'
<1>1. /\ caller[w] \in Caller /\ 0 \in 0..LongAgo
      /\ caller[w].stamp \in 0..LongAgo
      /\ caller[w].population \in 0..(MaxOthers + Cardinality(Clients))
  BY DEF TypeOK, Caller, LongAgo
<1>2. CASE Decline(w)
  BY <1>2, LeaveType DEF TypeOK, MaybeFit, Decline, fit, score
<1>3. CASE FitBaseline(w) /\ caller[w].population >= MinForest
  <2>1. [caller[w] EXCEPT !.pc = "fitting"] \in Caller
    BY <1>1 DEF Caller
  <2>2. caller' = [caller EXCEPT ![w] = [caller[w] EXCEPT !.pc = "fitting"]]
    BY <1>3 DEF FitBaseline
  <2>3. caller' \in [Callers -> Caller]
    BY <2>1, <2>2 DEF TypeOK
  <2>4. QED
    BY <1>1, <1>3, <2>3 DEF TypeOK, MaybeFit, FitBaseline, score
<1>4. CASE FitBaseline(w) /\ ~(caller[w].population >= MinForest)
  <2>1. caller' \in [Callers -> Caller]
    BY <1>4, LeaveType DEF FitBaseline
  <2>2. QED
    BY <1>1, <1>4, <2>1 DEF TypeOK, MaybeFit, FitBaseline, score
<1>5. QED
  BY <1>2, <1>3, <1>4 DEF MaybeFit

LEMMA SustainType ==
    ASSUME TypeOK, NEW w \in Callers, Sustain(w)
    PROVE  TypeOK'
<1> DEFINE c == caller[w].client
           values == LastWindow(Append(recent[c], caller[w].value))
<1>1. caller[w] \in Caller /\ caller[w].value \in Scores
  BY DEF TypeOK, Caller
<1>2. caller' \in [Callers -> Caller]
  BY IdleType DEF TypeOK, Sustain
<1>3. verdict' \in [Clients -> {"cold_start", "normal", "flagged"}]
  BY DEF TypeOK, Sustain
<1>4. blind_scores' \in 0..(Cardinality(Workers) + 1)
  <2>1. blind_scores + (IF caller[w].blind THEN 1 ELSE 0) \in Nat /\ Cardinality(Workers) + 1 \in Nat
    BY Finite DEF TypeOK
  <2>2. QED
    BY <2>1, Clipped DEF Sustain
<1>5. recent' = [recent EXCEPT ![c] = values]
  BY DEF Sustain
<1>6. CASE c \in Clients
  <2>1. recent[c] \in Seq(Scores)
    BY <1>6 DEF TypeOK
  <2>2. Append(recent[c], caller[w].value) \in Seq(Scores)
        /\ Len(Append(recent[c], caller[w].value)) > 0
    BY <1>1, <2>1
  <2>3. values \in Seq(Scores) /\ Len(values) <= SustainWindow
    BY <2>2, LastWindowType
  <2> HIDE DEF c, values
  <2>4. recent' \in [Clients -> Seq(Scores)] /\ \A d \in Clients : Len(recent'[d]) <= SustainWindow
    BY <1>5, <1>6, <2>3 DEF TypeOK
  <2>5. QED
    BY <1>2, <1>3, <1>4, <2>4 DEF TypeOK, Sustain, fit
<1>7. CASE c \notin Clients
  <2> HIDE DEF c, values
  <2>1. recent' = recent
    BY <1>5, <1>7 DEF TypeOK
  <2>2. QED
    BY <1>2, <1>3, <1>4, <2>1 DEF TypeOK, Sustain, fit
<1>8. QED
  BY <1>6, <1>7

LEMMA TypeInit == Init => TypeOK
<1> SUFFICES ASSUME Init PROVE TypeOK
  OBVIOUS
<1>1. caller \in [Callers -> Caller]
  BY IdleType DEF Init
<1>2. recent \in [Clients -> Seq(Scores)] /\ \A c \in Clients : Len(recent[c]) <= SustainWindow
  BY DEF Init
<1>3. others \in 0..MaxOthers /\ observations \in [Clients -> 0..MinObservations]
  BY DEF Init
<1>4. /\ baseline \in 0..(MaxOthers + Cardinality(Clients))
      /\ blind_scores \in 0..(Cardinality(Workers) + 1)
      /\ fitted_age \in 0..LongAgo /\ since_fit \in 0..LongAgo
  <2>1. baseline = 0 /\ blind_scores = 0 /\ fitted_age = LongAgo /\ since_fit = LongAgo
    BY DEF Init
  <2>2. LongAgo \in Nat
    BY DEF LongAgo
  <2>3. QED
    BY <2>1, <2>2, Finite
<1>5. verdict \in [Clients -> {"cold_start", "normal", "flagged"}] /\ model \in BOOLEAN
  BY DEF Init
<1>6. QED
  BY <1>1, <1>2, <1>3, <1>4, <1>5 DEF TypeOK

LEMMA TypeNext ==
    ASSUME TypeOK, [Next]_vars
    PROVE  TypeOK'
<1>1. ASSUME NEW w \in Callers, NEW c \in Clients, Observe(w, c) PROVE TypeOK'
  <2>1. [Idle EXCEPT !.pc = "observed", !.client = c] \in Caller
    BY IdleType DEF Caller, Idle
  <2>2. caller' \in [Callers -> Caller]
    BY <1>1, <2>1 DEF TypeOK, Observe
  <2>3. Capped(observations[c] + 1, MinObservations) \in 0..MinObservations
    <3>1. observations[c] + 1 \in Nat /\ MinObservations \in Nat
      BY DEF TypeOK
    <3>2. QED
      BY <3>1, Clipped
  <2>4. observations' \in [Clients -> 0..MinObservations]
    BY <1>1, <2>3 DEF TypeOK, Observe
  <2>5. QED
    BY <1>1, <2>2, <2>4 DEF TypeOK, Observe, fit, score
<1>2. ASSUME NEW w \in Callers, Collect(w) PROVE TypeOK'
  <2>1. [caller[w] EXCEPT !.pc = "collected", !.population = Population] \in Caller
    BY PopulationType DEF TypeOK, Caller
  <2>2. caller' \in [Callers -> Caller]
    BY <1>2, <2>1 DEF TypeOK, Collect
  <2>3. QED
    BY <1>2, <2>2 DEF TypeOK, Collect, fit, score
<1>3. ASSUME NEW w \in Callers, ReadClock(w) PROVE TypeOK'
  <2>1. [caller[w] EXCEPT !.pc = "stamped"] \in Caller
    BY DEF TypeOK, Caller
  <2>2. caller' \in [Callers -> Caller]
    BY <1>3, <2>1 DEF TypeOK, ReadClock
  <2>3. QED
    BY <1>3, <2>2 DEF TypeOK, ReadClock, fit, score
<1>4. ASSUME NEW w \in Callers, FitForest(w) PROVE TypeOK'
  <2>1. caller[w].stamp \in 0..LongAgo
    BY DEF TypeOK, Caller, LongAgo
  <2>2. caller' \in [Callers -> Caller]
    BY <1>4, LeaveType DEF FitForest
  <2>3. QED
    BY <1>4, <2>1, <2>2 DEF TypeOK, FitForest, score
<1>5. ASSUME NEW w \in Callers, Extract(w) PROVE TypeOK'
  <2>1. CASE ScoreCold(w)
    BY <2>1, ScoreColdType
  <2>2. CASE ~ScoreCold(w)
    <3>1. [caller[w] EXCEPT !.pc = "extracted"] \in Caller
      BY DEF TypeOK, Caller
    <3>2. caller' = [caller EXCEPT ![w] = [caller[w] EXCEPT !.pc = "extracted"]]
      BY <1>5, <2>2 DEF Extract
    <3>3. caller' \in [Callers -> Caller]
      BY <3>1, <3>2 DEF TypeOK
    <3>4. QED
      BY <1>5, <2>2, <3>3 DEF TypeOK, Extract, fit, score
  <2>3. QED
    BY <2>1, <2>2
<1>6. ASSUME NEW w \in Callers, Rank(w) PROVE TypeOK'
  <2>1. [caller[w] EXCEPT !.pc = "ranked", !.blind = (baseline = 0)] \in Caller
    <3>1. caller[w] \in Caller /\ (baseline = 0) \in BOOLEAN
      BY DEF TypeOK
    <3>2. QED
      BY <3>1 DEF Caller
  <2>2. caller' \in [Callers -> Caller]
    BY <1>6, <2>1 DEF TypeOK, Rank
  <2>3. QED
    BY <1>6, <2>2 DEF TypeOK, Rank, fit, score
<1>7. ASSUME NEW w \in Callers, Detect(w) PROVE TypeOK'
  <2>1. CASE ~Ready /\ ScoreCold(w)
    BY <2>1, ScoreColdType
  <2>2. CASE ~(~Ready /\ ScoreCold(w))
    <3>1. PICK value \in Values(w) :
             caller' = [caller EXCEPT ![w] =
                            [caller[w] EXCEPT !.pc = "scored", !.value = value,
                                              !.blind = caller[w].blind /\ ~model]]
      BY <1>7, <2>2 DEF Detect
    <3>2. value \in Scores
      BY DEF Values
    <3>3. (caller[w].blind /\ ~model) \in BOOLEAN
      OBVIOUS
    <3>4. [caller[w] EXCEPT !.pc = "scored", !.value = value,
                            !.blind = caller[w].blind /\ ~model] \in Caller
      <4>1. caller[w] \in Caller
        BY DEF TypeOK
      <4>2. QED
        BY <3>2, <3>3, <4>1 DEF Caller
    <3>5. caller' \in [Callers -> Caller]
      BY <3>1, <3>4 DEF TypeOK
    <3>6. QED
      BY <1>7, <2>2, <3>5 DEF TypeOK, Detect, fit, score
  <2>3. QED
    BY <2>1, <2>2
<1>8. ASSUME NEW idle \in SUBSET Clients, NEW gone \in 0..others, Sweep(idle, gone) PROVE TypeOK'
  <2>1. [Idle EXCEPT !.pc = "observed"] \in Caller
    BY IdleType DEF Caller, Idle
  <2>2. caller' \in [Callers -> Caller]
    BY <1>8, <2>1 DEF TypeOK, Sweep
  <2>3. observations' \in [Clients -> 0..MinObservations]
    BY <1>8 DEF TypeOK, Sweep
  <2>4. others' \in 0..MaxOthers
    <3>1. others' = others - gone /\ others \in 0..MaxOthers
      BY <1>8 DEF TypeOK, Sweep
    <3>2. QED
      BY <3>1
  <2>5. QED
    BY <1>8, <2>2, <2>3, <2>4 DEF TypeOK, Sweep, fit, score
<1>9. CASE MaintenanceCollect
  <2>1. Maintenance \in Callers
    BY DEF Callers
  <2>2. [caller[Maintenance] EXCEPT !.pc = "stamped", !.population = Population] \in Caller
    BY <2>1, PopulationType DEF TypeOK, Caller
  <2>3. caller' \in [Callers -> Caller]
    BY <1>9, <2>2 DEF TypeOK, MaintenanceCollect
  <2>4. QED
    BY <1>9, <2>3 DEF TypeOK, MaintenanceCollect, fit, score
<1>10. CASE Join
  BY <1>10 DEF TypeOK, Join, fit, score
<1>11. CASE Tick
  <2>1. ASSUME NEW w \in Callers, HoldsStamp(w)
        PROVE  [caller[w] EXCEPT !.stamp = caller[w].stamp + 1] \in Caller
    <3>1. caller[w].stamp < MaxDelay
      BY <1>11, <2>1 DEF Tick
    <3>2. caller[w] \in Caller /\ caller[w].stamp \in 0..MaxDelay
      BY DEF TypeOK, Caller
    <3>3. caller[w].stamp + 1 \in 0..MaxDelay
      BY <3>1, <3>2
    <3>4. QED
      BY <3>2, <3>3 DEF Caller
  <2>2. caller' \in [Callers -> Caller]
    BY <1>11, <2>1 DEF TypeOK, Tick
  <2>3. fitted_age' \in 0..LongAgo /\ since_fit' \in 0..LongAgo
    <3>1. fitted_age + 1 \in Nat /\ since_fit + 1 \in Nat /\ LongAgo \in Nat
      BY DEF TypeOK, LongAgo
    <3>2. QED
      BY <1>11, <3>1, Clipped DEF Tick
  <2>4. QED
    BY <1>11, <2>2, <2>3 DEF TypeOK, Tick, score
<1>12. CASE UNCHANGED vars
  BY <1>12 DEF TypeOK, vars, fit, score
<1>13. Workers \in SUBSET Callers /\ Maintenance \in Callers
  BY DEF Callers
<1>14. QED
  BY <1>1, <1>2, <1>3, <1>4, <1>5, <1>6, <1>7, <1>8, <1>9, <1>10, <1>11, <1>12, <1>13,
     MaybeFitType, SustainType DEF Next, Step

-----------------------------------------------------------------------------
(****************************************************************************)
(* Fits and their ages.                                                     *)
(****************************************************************************)

\* A step of a caller that does not fit leaves the forest's fit where it is.
LEMMA AgeKept ==
    ASSUME TypeOK, AgeInv, NEW w \in Callers, NEW r,
           caller[w].pc # "fitting", caller' = [caller EXCEPT ![w] = r],
           UNCHANGED <<fitted_age, since_fit>>
    PROVE  AgeInv'
<1>1. Locked => Locked'
  <2>1. SUFFICES ASSUME NEW v \in Callers, caller[v].pc = "fitting" PROVE Locked'
    BY DEF Locked
  <2>2. v # w /\ caller'[v] = caller[v]
    BY <2>1 DEF TypeOK
  <2>3. QED
    BY <2>1, <2>2 DEF Locked
<1>2. QED
  BY <1>1 DEF AgeInv

LEMMA AgeNext ==
    ASSUME TypeOK, AgeInv, [Next]_vars
    PROVE  AgeInv'
<1>1. ASSUME NEW w \in Callers, NEW c \in Clients, Observe(w, c) PROVE AgeInv'
  BY <1>1, AgeKept DEF Observe, fit
<1>2. ASSUME NEW w \in Callers, Collect(w) PROVE AgeInv'
  BY <1>2, AgeKept DEF Collect, fit
<1>3. ASSUME NEW w \in Callers, ReadClock(w) PROVE AgeInv'
  BY <1>3, AgeKept DEF ReadClock, fit
<1>4. ASSUME NEW w \in Callers, MaybeFit(w) PROVE AgeInv'
  <2>1. CASE Decline(w)
    BY <1>4, <2>1, AgeKept DEF MaybeFit, Decline, Leave, fit
  <2>2. CASE FitBaseline(w) /\ caller[w].population >= MinForest
    <3>1. caller' = [caller EXCEPT ![w] = [caller[w] EXCEPT !.pc = "fitting"]]
      BY <2>2 DEF FitBaseline
    <3>2. caller'[w].pc = "fitting"
      BY <3>1 DEF TypeOK, Caller
    <3>3. QED
      BY <3>2 DEF AgeInv, Locked
  <2>3. CASE FitBaseline(w) /\ ~(caller[w].population >= MinForest)
    <3>1. fitted_age' = caller[w].stamp /\ since_fit' = 0
      BY <2>3 DEF FitBaseline
    <3>2. caller[w].stamp \in 0..MaxDelay
      BY DEF TypeOK, Caller
    <3>3. QED
      BY <3>1, <3>2 DEF AgeInv
  <2>4. QED
    BY <1>4, <2>1, <2>2, <2>3 DEF MaybeFit
<1>5. ASSUME NEW w \in Callers, FitForest(w) PROVE AgeInv'
  BY <1>5 DEF FitForest, AgeInv, TypeOK, Caller
<1>6. ASSUME NEW w \in Callers, Extract(w) PROVE AgeInv'
  <2>1. CASE ScoreCold(w)
    BY <1>6, <2>1, AgeKept DEF Extract, ScoreCold, fit
  <2>2. CASE ~ScoreCold(w)
    <3>1. caller' = [caller EXCEPT ![w] = [caller[w] EXCEPT !.pc = "extracted"]]
      BY <1>6, <2>2 DEF Extract
    <3>2. QED
      BY <1>6, <2>2, <3>1, AgeKept DEF Extract, fit
  <2>3. QED
    BY <2>1, <2>2
<1>7. ASSUME NEW w \in Callers, Rank(w) PROVE AgeInv'
  BY <1>7, AgeKept DEF Rank, fit
<1>8. ASSUME NEW w \in Callers, Detect(w) PROVE AgeInv'
  BY <1>8, AgeKept DEF Detect, ScoreCold, fit
<1>9. ASSUME NEW w \in Callers, Sustain(w) PROVE AgeInv'
  BY <1>9, AgeKept DEF Sustain, fit
<1>10. Maintenance \in Callers /\ Workers \in SUBSET Callers
  BY DEF Callers
<1>11. ASSUME NEW idle \in SUBSET Clients, NEW gone \in 0..others, Sweep(idle, gone) PROVE AgeInv'
  BY <1>10, <1>11, AgeKept DEF Sweep, fit
<1>12. CASE MaintenanceCollect
  BY <1>10, <1>12, AgeKept DEF MaintenanceCollect, fit
<1>13. CASE Tick
  <2>1. \A w \in Callers : caller'[w].pc = caller[w].pc
    BY <1>13 DEF Tick, TypeOK, Caller
  <2>2. Locked' <=> Locked
    BY <2>1 DEF Locked
  <2>3. fitted_age \in Nat /\ since_fit \in Nat /\ LongAgo \in Nat
    BY DEF TypeOK, LongAgo
  <2>4. QED
    BY <1>13, <2>2, <2>3 DEF AgeInv, Tick, Capped
<1>14. CASE Join \/ UNCHANGED vars
  BY <1>14 DEF Join, vars, fit, AgeInv, Locked
<1>15. QED
  BY <1>1, <1>2, <1>3, <1>4, <1>5, <1>6, <1>7, <1>8, <1>9, <1>10, <1>11, <1>12, <1>13, <1>14
  DEF Next, Step

-----------------------------------------------------------------------------
(****************************************************************************)
(* Scores out of nothing.                                                   *)
(****************************************************************************)

LEMMA BlindFinite ==
    ASSUME NEW S \in SUBSET Workers
    PROVE  IsFiniteSet(S) /\ Cardinality(S) \in Nat /\ Cardinality(S) <= Cardinality(Workers)
BY CallersAssumption, FS_Subset, FS_CardinalityType

\* No more workers are blind, and no more scores were given blind.
LEMMA FewKept ==
    ASSUME BlindInv, blind_scores \in Nat, Blind' \subseteq Blind, blind_scores' = blind_scores
    PROVE  blind_scores' + Cardinality(Blind') <= Cardinality(Workers)
<1>1. Blind \in SUBSET Workers
  BY DEF Blind
<1>2. IsFiniteSet(Blind) /\ Cardinality(Blind) \in Nat
  BY <1>1, BlindFinite
<1>3. Blind' \in SUBSET Workers
  BY <1>1
<1>4. Cardinality(Blind') \in Nat
  BY <1>3, BlindFinite
<1>5. Cardinality(Blind') <= Cardinality(Blind)
  BY <1>2, FS_Subset
<1>6. QED
  BY <1>2, <1>4, <1>5, Finite DEF BlindInv

\* A step of a caller that neither fits nor chooses a detector.
LEMMA BlindKept ==
    ASSUME TypeOK, BlindInv, NEW w \in Callers, NEW r, caller' = [caller EXCEPT ![w] = r],
           r.pc \notin {"fitting", "scored"}, r.blind => caller[w].blind,
           UNCHANGED <<model, baseline, blind_scores>>
    PROVE  BlindInv'
<1>1. \A v \in Callers : caller'[v] = IF v = w THEN r ELSE caller[v]
  BY DEF TypeOK
<1>2. Workers \subseteq Callers
  BY DEF Callers
<1>3. Locked' => Locked
  BY <1>1 DEF Locked
<1>4. \A v \in Workers : caller'[v].pc = "scored" => caller[v].pc = "scored"
  BY <1>1, <1>2
<1>5. Blind' \subseteq Blind
  BY <1>1, <1>2 DEF Blind
<1>6. blind_scores' + Cardinality(Blind') <= Cardinality(Workers)
  BY <1>5, FewKept DEF TypeOK
<1>7. QED
  BY <1>3, <1>4, <1>6 DEF BlindInv

LEMMA LeaveBlind ==
    ASSUME TypeOK, NEW w \in Callers, Leave(w)
    PROVE  \E r : /\ caller' = [caller EXCEPT ![w] = r]
                  /\ r.pc \notin {"fitting", "scored"} /\ ~r.blind
<1>1. /\ Idle.pc = "idle" /\ ~Idle.blind
      /\ [Idle EXCEPT !.pc = "fitted", !.client = caller[w].client].pc = "fitted"
      /\ ~[Idle EXCEPT !.pc = "fitted", !.client = caller[w].client].blind
  BY DEF Idle
<1>2. CASE w = Maintenance
  BY <1>1, <1>2 DEF Leave
<1>3. CASE w # Maintenance
  BY <1>1, <1>3 DEF Leave
<1>4. QED
  BY <1>2, <1>3

LEMMA ColdBlind ==
    ASSUME TypeOK, BlindInv, NEW w \in Callers, ScoreCold(w)
    PROVE  BlindInv'
<1>1. Idle.pc = "idle" /\ ~Idle.blind
  BY DEF Idle
<1>2. QED
  BY <1>1, BlindKept DEF ScoreCold, fit

\* With a baseline in place nobody is blind anew.
LEMMA BlindBaseline ==
    ASSUME TypeOK, BlindInv, baseline' # 0, NEW w \in Callers, NEW r,
           caller' = [caller EXCEPT ![w] = r], r.blind => caller[w].blind,
           blind_scores' = blind_scores
    PROVE  BlindInv'
<1>1. \A v \in Callers : caller'[v] = IF v = w THEN r ELSE caller[v]
  BY DEF TypeOK
<1>2. Blind' \subseteq Blind
  BY <1>1 DEF Blind, Callers
<1>3. blind_scores' + Cardinality(Blind') <= Cardinality(Workers)
  BY <1>2, FewKept DEF TypeOK
<1>4. QED
  BY <1>3 DEF BlindInv

LEMMA SustainBlind ==
    ASSUME TypeOK, BlindInv, NEW w \in Workers, Sustain(w)
    PROVE  BlindInv'
<1>1. Idle.pc = "idle" /\ ~Idle.blind
  BY DEF Idle
<1>2. w \in Callers /\ Workers \subseteq Callers
  BY DEF Callers
<1>3. \A v \in Callers : caller'[v] = IF v = w THEN Idle ELSE caller[v]
  BY DEF TypeOK, Sustain
<1>4. baseline # 0 /\ baseline' = baseline
  BY DEF BlindInv, Sustain, fit
<1>5. Blind' = Blind \ {w}
  BY <1>1, <1>2, <1>3 DEF Blind
<1>6. IsFiniteSet(Blind) /\ Cardinality(Blind) \in Nat
  <2>1. Blind \in SUBSET Workers
    BY DEF Blind
  <2>2. QED
    BY <2>1, BlindFinite
<1>7. Cardinality(Blind') = IF caller[w].blind THEN Cardinality(Blind) - 1 ELSE Cardinality(Blind)
  <2>1. w \in Blind <=> caller[w].blind
    BY DEF Blind
  <2>2. Cardinality(Blind \ {w}) = IF w \in Blind THEN Cardinality(Blind) - 1 ELSE Cardinality(Blind)
    BY <1>6, FS_RemoveElement, Zenon
  <2>3. QED
    BY <1>5, <2>1, <2>2, Zenon
<1>8. blind_scores' <= blind_scores + (IF caller[w].blind THEN 1 ELSE 0)
  BY Finite DEF TypeOK, Sustain, Capped
<1>9. blind_scores' \in Nat /\ blind_scores \in Nat
  <2>1. TypeOK'
    BY <1>2, SustainType
  <2>2. QED
    BY <2>1, Finite DEF TypeOK
<1>10. blind_scores' + Cardinality(Blind') <= Cardinality(Workers)
  BY <1>6, <1>7, <1>8, <1>9, Finite DEF BlindInv
<1>11. QED
  BY <1>4, <1>10 DEF BlindInv

LEMMA BlindNext ==
    ASSUME TypeOK, BlindInv, [Next]_vars
    PROVE  BlindInv'
<1>1. ASSUME NEW w \in Callers, NEW c \in Clients, Observe(w, c) PROVE BlindInv'
  <2>1. [Idle EXCEPT !.pc = "observed", !.client = c].pc = "observed"
        /\ ~[Idle EXCEPT !.pc = "observed", !.client = c].blind
    BY DEF Idle
  <2>2. QED
    BY <1>1, <2>1, BlindKept DEF Observe, fit, score
<1>2. ASSUME NEW w \in Callers, Collect(w) PROVE BlindInv'
  <2> DEFINE r == [caller[w] EXCEPT !.pc = "collected", !.population = Population]
  <2>1. r.pc = "collected" /\ r.blind = caller[w].blind
    BY DEF TypeOK, Caller
  <2>2. caller' = [caller EXCEPT ![w] = r] /\ UNCHANGED <<model, baseline, blind_scores>>
    BY <1>2 DEF Collect, fit, score
  <2> HIDE DEF r
  <2>3. QED
    BY <2>1, <2>2, BlindKept
<1>3. ASSUME NEW w \in Callers, ReadClock(w) PROVE BlindInv'
  <2> DEFINE r == [caller[w] EXCEPT !.pc = "stamped"]
  <2>1. r.pc = "stamped" /\ r.blind = caller[w].blind
    BY DEF TypeOK, Caller
  <2>2. caller' = [caller EXCEPT ![w] = r] /\ UNCHANGED <<model, baseline, blind_scores>>
    BY <1>3 DEF ReadClock, fit, score
  <2> HIDE DEF r
  <2>3. QED
    BY <2>1, <2>2, BlindKept
<1>4. ASSUME NEW w \in Callers, MaybeFit(w) PROVE BlindInv'
  <2>1. blind_scores' = blind_scores
    BY <1>4 DEF MaybeFit, score
  <2>2. CASE Decline(w)
    <3>1. PICK r : caller' = [caller EXCEPT ![w] = r] /\ r.pc \notin {"fitting", "scored"} /\ ~r.blind
      BY <2>2, LeaveBlind DEF Decline
    <3>2. UNCHANGED <<model, baseline>>
      BY <2>2 DEF Decline, fit
    <3>3. QED
      BY <2>1, <3>1, <3>2, BlindKept
  <2>3. CASE FitBaseline(w)
    <3>1. baseline' # 0
      BY <2>3 DEF FitBaseline, Declines, TypeOK, Caller
    <3>2. CASE caller[w].population >= MinForest
      <4> DEFINE r == [caller[w] EXCEPT !.pc = "fitting"]
      <4>1. caller' = [caller EXCEPT ![w] = r] /\ r.blind = caller[w].blind
        BY <2>3, <3>2 DEF FitBaseline, TypeOK, Caller
      <4> HIDE DEF r
      <4>2. QED
        BY <2>1, <3>1, <4>1, BlindBaseline
    <3>3. CASE ~(caller[w].population >= MinForest)
      <4>1. Leave(w)
        BY <2>3, <3>3 DEF FitBaseline
      <4>2. PICK r : caller' = [caller EXCEPT ![w] = r] /\ ~r.blind
        BY <4>1, LeaveBlind
      <4>3. QED
        BY <2>1, <3>1, <4>2, BlindBaseline
    <3>4. QED
      BY <3>2, <3>3
  <2>4. QED
    BY <1>4, <2>2, <2>3 DEF MaybeFit
<1>5. ASSUME NEW w \in Callers, FitForest(w) PROVE BlindInv'
  <2>1. baseline # 0 /\ baseline' = baseline /\ blind_scores' = blind_scores
    BY <1>5 DEF FitForest, BlindInv, Locked, score
  <2>2. PICK r : caller' = [caller EXCEPT ![w] = r] /\ ~r.blind
    BY <1>5, LeaveBlind DEF FitForest
  <2>3. QED
    BY <2>1, <2>2, BlindBaseline
<1>6. ASSUME NEW w \in Callers, Extract(w) PROVE BlindInv'
  <2>1. CASE ScoreCold(w)
    BY <2>1, ColdBlind
  <2>2. CASE ~ScoreCold(w)
    <3> DEFINE r == [caller[w] EXCEPT !.pc = "extracted"]
    <3>1. r.pc = "extracted" /\ r.blind = caller[w].blind
      BY DEF TypeOK, Caller
    <3>2. caller' = [caller EXCEPT ![w] = r] /\ UNCHANGED <<model, baseline, blind_scores>>
      BY <1>6, <2>2 DEF Extract, fit, score
    <3> HIDE DEF r
    <3>3. QED
      BY <3>1, <3>2, BlindKept
  <2>3. QED
    BY <2>1, <2>2
<1>7. ASSUME NEW w \in Callers, Rank(w) PROVE BlindInv'
  <2> DEFINE r == [caller[w] EXCEPT !.pc = "ranked", !.blind = (baseline = 0)]
  <2>1. r.pc = "ranked" /\ (r.blind => baseline = 0)
    BY DEF TypeOK, Caller
  <2>2. caller' = [caller EXCEPT ![w] = r] /\ UNCHANGED <<model, baseline, blind_scores>>
    BY <1>7 DEF Rank, fit, score
  <2> HIDE DEF r
  <2>3. CASE baseline # 0
    BY <2>1, <2>2, <2>3, BlindBaseline
  <2>4. CASE baseline = 0
    <3>1. \A v \in Callers : caller'[v] = IF v = w THEN r ELSE caller[v]
      BY <2>2 DEF TypeOK
    <3>2. Locked' => Locked
      BY <2>1, <3>1 DEF Locked
    <3>3. \A v \in Workers : caller'[v].pc = "scored" => caller[v].pc = "scored"
      BY <2>1, <3>1 DEF Callers
    <3>4. Cardinality(Blind') \in Nat /\ Cardinality(Blind') <= Cardinality(Workers)
      <4>1. Blind' \in SUBSET Workers
        BY DEF Blind
      <4>2. QED
        BY <4>1, BlindFinite
    <3>5. blind_scores' = 0
      BY <2>2, <2>4 DEF BlindInv
    <3>6. blind_scores' + Cardinality(Blind') <= Cardinality(Workers)
      BY <3>4, <3>5
    <3>7. QED
      BY <2>2, <3>2, <3>3, <3>5, <3>6 DEF BlindInv
  <2>5. QED
    BY <2>3, <2>4
<1>8. ASSUME NEW w \in Callers, Detect(w) PROVE BlindInv'
  <2>1. CASE ~Ready /\ ScoreCold(w)
    BY <2>1, ColdBlind
  <2>2. CASE ~(~Ready /\ ScoreCold(w))
    <3>1. Ready /\ UNCHANGED <<baseline, blind_scores>>
      BY <1>8, <2>2 DEF Detect, fit, score
    <3>2. baseline' # 0
      BY <3>1 DEF Ready, BlindInv
    <3>3. PICK value \in Values(w) :
             caller' = [caller EXCEPT ![w] =
                            [caller[w] EXCEPT !.pc = "scored", !.value = value,
                                              !.blind = caller[w].blind /\ ~model]]
      BY <1>8, <2>2 DEF Detect
    <3> DEFINE r == [caller[w] EXCEPT !.pc = "scored", !.value = value,
                                      !.blind = caller[w].blind /\ ~model]
    <3>4. r.blind => caller[w].blind
      BY DEF TypeOK, Caller
    <3>5. caller' = [caller EXCEPT ![w] = r]
      BY <3>3
    <3> HIDE DEF r
    <3>6. QED
      BY <3>1, <3>2, <3>4, <3>5, BlindBaseline
  <2>3. QED
    BY <2>1, <2>2
<1>9. Maintenance \in Callers /\ Workers \in SUBSET Callers
  BY DEF Callers
<1>10. ASSUME NEW idle \in SUBSET Clients, NEW gone \in 0..others, Sweep(idle, gone) PROVE BlindInv'
  <2> DEFINE r == [Idle EXCEPT !.pc = "observed"]
  <2>1. r.pc = "observed" /\ ~r.blind
    BY DEF Idle
  <2>2. caller' = [caller EXCEPT ![Maintenance] = r] /\ UNCHANGED <<model, baseline, blind_scores>>
    BY <1>10 DEF Sweep, fit, score
  <2> HIDE DEF r
  <2>3. QED
    BY <1>9, <2>1, <2>2, BlindKept
<1>11. CASE MaintenanceCollect
  <2> DEFINE r == [caller[Maintenance] EXCEPT !.pc = "stamped", !.population = Population]
  <2>1. r.pc = "stamped" /\ r.blind = caller[Maintenance].blind
    BY <1>9 DEF TypeOK, Caller
  <2>2. caller' = [caller EXCEPT ![Maintenance] = r] /\ UNCHANGED <<model, baseline, blind_scores>>
    BY <1>11 DEF MaintenanceCollect, fit, score
  <2> HIDE DEF r
  <2>3. QED
    BY <1>9, <2>1, <2>2, BlindKept
<1>12. CASE Tick
  <2>1. \A w \in Callers : caller'[w].pc = caller[w].pc /\ caller'[w].blind = caller[w].blind
    BY <1>12 DEF Tick, TypeOK, Caller
  <2>2. (Locked' <=> Locked) /\ Blind' \subseteq Blind
    BY <2>1 DEF Locked, Blind, Callers
  <2>3. UNCHANGED <<model, baseline, blind_scores>>
    BY <1>12 DEF Tick, score
  <2>4. blind_scores' + Cardinality(Blind') <= Cardinality(Workers)
    BY <2>2, <2>3, FewKept DEF TypeOK
  <2>5. QED
    BY <1>9, <2>1, <2>2, <2>3, <2>4 DEF BlindInv
<1>13. CASE Join \/ UNCHANGED vars
  <2>1. UNCHANGED <<model, baseline, blind_scores, caller>>
    BY <1>13 DEF Join, vars, fit, score
  <2>2. Blind' = Blind /\ (Locked' <=> Locked)
    BY <2>1 DEF Blind, Locked
  <2>3. QED
    BY <2>1, <2>2 DEF BlindInv
<1>14. QED
  BY <1>1, <1>2, <1>3, <1>4, <1>5, <1>6, <1>7, <1>8, <1>9, <1>10, <1>11, <1>12, <1>13,
     SustainBlind DEF Next, Step

-----------------------------------------------------------------------------
(****************************************************************************)
(* Verdicts.                                                                *)
(****************************************************************************)

\* A verdict drawn from the window it is drawn with.
LEMMA VerdictIs ==
    ASSUME NEW s \in Seq(Scores), Len(s) > 0, Len(s) <= SustainWindow
    PROVE  LET full == Len(s) = SustainWindow
               high == {i \in DOMAIN s : s[i] >= Threshold}
           IN  /\ Sustained(s) => full /\ 2 * Cardinality(high) >= SustainWindow
               /\ ~Sustained(s) => ~(full /\ high = DOMAIN s)
<1> DEFINE high == {i \in DOMAIN s : s[i] >= Threshold}
<1>1. ASSUME Sustained(s) PROVE Len(s) = SustainWindow /\ 2 * Cardinality(high) >= SustainWindow
  <2>1. Len(s) = SustainWindow /\ TwiceMedian(s) >= 2 * Threshold
    BY <1>1 DEF Sustained
  <2>2. QED
    BY <2>1, MedianReaches
<1>2. ASSUME Len(s) = SustainWindow, high = DOMAIN s PROVE Sustained(s)
  <2>1. \A i \in DOMAIN s : s[i] >= Threshold
    BY <1>2
  <2>2. TwiceMedian(s) >= 2 * Threshold
    BY <2>1, MedianStays
  <2>3. QED
    BY <1>2, <2>2 DEF Sustained
<1>3. QED
  BY <1>1, <1>2

LEMMA FlagKept ==
    ASSUME FlagIsSustained, UNCHANGED <<recent, verdict>>
    PROVE  FlagIsSustained'
BY DEF FlagIsSustained, Elevated

LEMMA ColdFlag ==
    ASSUME TypeOK, FlagIsSustained, NEW w \in Callers, ScoreCold(w)
    PROVE  FlagIsSustained'
<1>1. recent' = recent
  BY DEF ScoreCold
<1>2. \A d \in Clients : verdict'[d] = verdict[d] \/ verdict'[d] = "cold_start"
  BY DEF ScoreCold, TypeOK
<1>3. QED
  BY <1>1, <1>2 DEF FlagIsSustained, Elevated

LEMMA SustainFlag ==
    ASSUME TypeOK, FlagIsSustained, NEW w \in Callers, Sustain(w)
    PROVE  FlagIsSustained'
<1> DEFINE c == caller[w].client
           values == LastWindow(Append(recent[c], caller[w].value))
<1>1. /\ recent' = [recent EXCEPT ![c] = values]
      /\ verdict' = [verdict EXCEPT ![c] = IF Sustained(values) THEN "flagged" ELSE "normal"]
  BY DEF Sustain
<1>2. \A d \in Clients : d # c => recent'[d] = recent[d] /\ verdict'[d] = verdict[d]
  BY <1>1 DEF TypeOK
<1>3. ASSUME NEW d \in Clients
      PROVE  LET full == Len(recent'[d]) = SustainWindow
             IN  /\ verdict'[d] = "flagged" =>
                      full /\ 2 * Cardinality(Elevated(d)') >= SustainWindow
                 /\ verdict'[d] = "normal" => ~(full /\ Elevated(d)' = DOMAIN recent'[d])
  <2>1. CASE d = c
    <3>1. recent[d] \in Seq(Scores) /\ caller[w].value \in Scores
      BY DEF TypeOK, Caller
    <3>2. Append(recent[d], caller[w].value) \in Seq(Scores)
          /\ Len(Append(recent[d], caller[w].value)) > 0
      BY <3>1
    <3>3. values \in Seq(Scores) /\ Len(values) > 0 /\ Len(values) <= SustainWindow
      BY <2>1, <3>2, LastWindowType
    <3>4. recent'[d] = values /\ verdict'[d] = IF Sustained(values) THEN "flagged" ELSE "normal"
      BY <1>1, <2>1 DEF TypeOK
    <3> HIDE DEF values
    <3> DEFINE high == {i \in DOMAIN values : values[i] >= Threshold}
    <3>5. Elevated(d)' = high
      BY <3>4 DEF Elevated
    <3>6. /\ Sustained(values) => Len(values) = SustainWindow
                                  /\ 2 * Cardinality(high) >= SustainWindow
          /\ ~Sustained(values) => ~(Len(values) = SustainWindow /\ high = DOMAIN values)
      BY <3>3, VerdictIs
    <3>7. "flagged" # "normal"
      OBVIOUS
    <3> HIDE DEF high
    <3>8. QED
      BY <3>4, <3>5, <3>6, <3>7
  <2>2. CASE d # c
    <3>1. recent'[d] = recent[d] /\ verdict'[d] = verdict[d]
      BY <1>2, <2>2
    <3>2. Elevated(d)' = Elevated(d)
      BY <3>1 DEF Elevated
    <3>3. QED
      BY <3>1, <3>2 DEF FlagIsSustained
  <2>3. QED
    BY <2>1, <2>2
<1>4. QED
  BY <1>3 DEF FlagIsSustained

LEMMA FlagNext ==
    ASSUME TypeOK, FlagIsSustained, [Next]_vars
    PROVE  FlagIsSustained'
<1>1. ASSUME NEW w \in Callers, NEW c \in Clients, Observe(w, c) PROVE FlagIsSustained'
  BY <1>1, FlagKept DEF Observe, score
<1>2. ASSUME NEW w \in Callers,
             Collect(w) \/ ReadClock(w) \/ MaybeFit(w) \/ FitForest(w) \/ Rank(w)
      PROVE  FlagIsSustained'
  BY <1>2, FlagKept DEF Collect, ReadClock, MaybeFit, FitForest, Rank, score
<1>3. ASSUME NEW w \in Callers, Extract(w) PROVE FlagIsSustained'
  BY <1>3, FlagKept, ColdFlag DEF Extract, score
<1>4. ASSUME NEW w \in Callers, Detect(w) PROVE FlagIsSustained'
  BY <1>4, FlagKept, ColdFlag DEF Detect, score
<1>5. ASSUME NEW idle \in SUBSET Clients, NEW gone \in 0..others, Sweep(idle, gone)
      PROVE  FlagIsSustained'
  BY <1>5, FlagKept DEF Sweep, score
<1>6. CASE MaintenanceCollect \/ Join \/ Tick \/ UNCHANGED vars
  BY <1>6, FlagKept DEF MaintenanceCollect, Join, Tick, vars, score
<1>7. Maintenance \in Callers /\ Workers \in SUBSET Callers
  BY DEF Callers
<1>8. QED
  BY <1>1, <1>2, <1>3, <1>4, <1>5, <1>6, <1>7, SustainFlag DEF Next, Step

-----------------------------------------------------------------------------
(****************************************************************************)
(* The inductive invariant, and what follows from it.                       *)
(****************************************************************************)

LEMMA InvInit == Init => Inv
<1> SUFFICES ASSUME Init PROVE Inv
  OBVIOUS
<1>1. TypeOK
  BY TypeInit
<1>2. /\ \A w \in Callers : caller[w].pc = "idle" /\ ~caller[w].blind
      /\ model = FALSE /\ blind_scores = 0 /\ fitted_age = since_fit
  BY DEF Init, Idle
<1>3. ~Locked /\ Blind = {} /\ \A w \in Workers : caller[w].pc # "scored"
  BY <1>2 DEF Locked, Blind, Callers
<1>4. BlindInv
  <2>1. Cardinality(Blind) = 0
    BY <1>3, FS_EmptySet
  <2>2. QED
    BY <1>2, <1>3, <2>1, Finite DEF BlindInv
<1>5. AgeInv
  BY <1>1, <1>2 DEF AgeInv, TypeOK
<1>6. FlagIsSustained
  BY DEF FlagIsSustained, Init
<1>7. QED
  BY <1>1, <1>4, <1>5, <1>6 DEF Inv

LEMMA Invariant == Spec => []Inv
<1>1. Inv /\ [Next]_vars => Inv'
  BY TypeNext, BlindNext, AgeNext, FlagNext DEF Inv
<1>2. QED
  BY InvInit, <1>1, PTL DEF Spec

\* Every variable keeps its type, although a caller may come to any step with
\* what it read before others took theirs.
THEOREM TypeCorrect == Spec => []TypeOK
<1>1. Inv => TypeOK
  BY DEF Inv
<1>2. QED
  BY Invariant, <1>1, PTL

\* A flag always rests on a full window of which half reaches the threshold,
\* whatever the window's length, odd or even, and however the workers scoring
\* one client interleave (scorer.py:236-251).
THEOREM FlagsAreSustained == Spec => []FlagIsSustained
<1>1. Inv => FlagIsSustained
  BY DEF Inv
<1>2. QED
  BY Invariant, <1>1, PTL

\* Ranking and choosing the detector at different times gives each worker at
\* most one score out of nothing, in all of a run (scorer.py:265-282).
THEOREM BlindScoresBounded == Spec => []BlindScoresAreFew
<1>1. Inv => BlindScoresAreFew
  <2>1. SUFFICES ASSUME Inv PROVE BlindScoresAreFew
    OBVIOUS
  <2>2. Blind \in SUBSET Workers
    BY DEF Blind
  <2>3. Cardinality(Blind) \in Nat
    BY <2>2, BlindFinite
  <2>4. blind_scores \in Nat /\ blind_scores + Cardinality(Blind) <= Cardinality(Workers)
    BY <2>1 DEF Inv, TypeOK, BlindInv
  <2>5. QED
    BY <2>3, <2>4, Finite DEF BlindScoresAreFew
<1>2. QED
  BY Invariant, <1>1, PTL

\* A forest is not fitted again before the interval has passed, but for what a
\* caller may wait between the clock and the lock (scorer.py:145-150).
THEOREM ForestFitsStayApart == Spec => ForestFitsApart
<1> DEFINE Apart == \A w \in Callers :
                       model /\ MaybeFit(w) /\ ~Declines(w) => since_fit >= RefitInterval - MaxDelay
<1>1. Inv => Apart
  <2>1. SUFFICES ASSUME Inv, NEW w \in Callers, model, MaybeFit(w), ~Declines(w)
                 PROVE  since_fit >= RefitInterval - MaxDelay
    OBVIOUS
  <2>2. ~Locked /\ ~TooSoon(w)
    BY <2>1 DEF MaybeFit, Declines
  <2>3. fitted_age <= since_fit + MaxDelay /\ fitted_age - caller[w].stamp >= RefitInterval
    BY <2>1, <2>2 DEF Inv, AgeInv, TooSoon, TypeOK, Caller
  <2>4. QED
    BY <2>1, <2>3 DEF Inv, TypeOK, Caller
<1>2. Inv => [Apart]_vars
  BY <1>1
<1>3. QED
  BY Invariant, <1>2, PTL DEF ForestFitsApart
=============================================================================
