---------------------------- MODULE TelemetryProofs ----------------------------
(****************************************************************************)
(* Safety of Telemetry, and of the histogram's percentiles, for any         *)
(* recorders, upstreams, statuses, durations and bucket edges.              *)
(*                                                                          *)
(* Events between two of their sections are counted along with the          *)
(* counters (CountInv): every counter is short of what was recorded by the  *)
(* recorders that have not come to it yet.  The histogram's buckets partition *)
(* the durations observed (LatencyInv), and a percentile's bucket ends      *)
(* where enough of them do.                                                 *)
(****************************************************************************)
EXTENDS Telemetry, FiniteSetTheorems, WellFoundedInduction, TLAPS

-----------------------------------------------------------------------------
(****************************************************************************)
(* Sums over finite sets.  What MapThenSumSet computes is defined by        *)
(* recursion over the set; each law is proved from a smallest set without it. *)
(****************************************************************************)

LEMMA LeastNatural ==
    ASSUME NEW T \in SUBSET Nat, T # {}
    PROVE  \E m \in T : \A k \in T : m <= k
<1>1. PICK m \in T : \A k \in T : ~(<<k, m>> \in OpToRel(<, Nat))
  BY NatLessThanWellFounded, WFMin, Zenon
<1>2. ASSUME NEW k \in T PROVE m <= k
  <2>1. <<k, m>> \in Nat \X Nat /\ ~(k < m)
    BY <1>1 DEF OpToRel
  <2>2. QED
    BY <2>1
<1>3. QED
  BY <1>2

\* A set of finite sets that is not empty has a smallest member.
LEMMA SmallestSet ==
    ASSUME NEW C, C # {}, \A s \in C : IsFiniteSet(s)
    PROVE  \E s \in C : \A r \in C : ~(r \subseteq s /\ r # s)
<1> DEFINE T == {Cardinality(s) : s \in C}
<1>1. T \in SUBSET Nat /\ T # {}
  BY FS_CardinalityType
<1>2. PICK m \in T : \A k \in T : m <= k
  BY <1>1, LeastNatural
<1>3. PICK s \in C : m = Cardinality(s)
  BY <1>2
<1>4. ASSUME NEW r \in C, r \subseteq s, r # s PROVE FALSE
  <2>1. IsFiniteSet(s) /\ r \in SUBSET s
    BY <1>4
  <2>2. Cardinality(r) <= Cardinality(s) /\ (Cardinality(s) = Cardinality(r) => s = r)
    BY <2>1, FS_Subset, Zenon
  <2>3. Cardinality(s) <= Cardinality(r)
    BY <1>2, <1>3
  <2>4. Cardinality(s) \in Nat /\ Cardinality(r) \in Nat
    BY FS_CardinalityType
  <2>5. QED
    BY <1>4, <2>2, <2>3, <2>4
<1>5. QED
  BY <1>4

First(s) == CHOOSE x \in s : TRUE

\* The recursive function that a sum over S is a value of.
Folds(g, f, S) == g = [s \in SUBSET S |-> IF s = {} THEN 0 ELSE f[First(s)] + g[s \ {First(s)}]]

LEMMA FirstIn == \A s : s # {} => First(s) \in s
  BY DEF First

LEMMA SumIsFold ==
    ASSUME NEW f, NEW S
    PROVE  SumOver(f, S) = (CHOOSE g : Folds(g, f, S))[S]
  BY SMT DEF SumOver, MapThenSumSet, MapThenFoldSet, Folds, First

LEMMA FoldValue ==
    ASSUME NEW f, NEW S, NEW g, Folds(g, f, S), NEW s \in SUBSET S
    PROVE  g[s] = IF s = {} THEN 0 ELSE f[First(s)] + g[s \ {First(s)}]
  BY DEF Folds

LEMMA FoldsAgree ==
    ASSUME NEW f, NEW A, NEW B, IsFiniteSet(A), NEW g, NEW h, Folds(g, f, A), Folds(h, f, B)
    PROVE  \A s \in SUBSET (A \cap B) : g[s] = h[s]
<1> SUFFICES ASSUME ~ \A s \in SUBSET (A \cap B) : g[s] = h[s] PROVE FALSE
  OBVIOUS
<1> DEFINE C == {s \in SUBSET (A \cap B) : g[s] # h[s]}
<1>1. C # {} /\ \A s \in C : IsFiniteSet(s)
  <2>1. \A s \in C : s \in SUBSET A
    OBVIOUS
  <2>2. QED
    BY <2>1, FS_Subset
<1>2. PICK s \in C : \A r \in C : ~(r \subseteq s /\ r # s)
  <2> HIDE DEF C
  <2>1. QED
    BY <1>1, SmallestSet
<1>3. s \in SUBSET A /\ s \in SUBSET B /\ g[s] # h[s]
  OBVIOUS
<1>4. s # {}
  <2>1. {} \in SUBSET A /\ {} \in SUBSET B
    OBVIOUS
  <2>2. g[{}] = 0 /\ h[{}] = 0
    BY <2>1, FoldValue
  <2>3. QED
    BY <1>3, <2>1, <2>2
<1>5. First(s) \in s
  BY <1>4, FirstIn
<1> DEFINE r == s \ {First(s)}
<1>6. g[s] = f[First(s)] + g[r] /\ h[s] = f[First(s)] + h[r]
  BY <1>3, <1>4, FoldValue
<1>7. r \in SUBSET (A \cap B) /\ r \subseteq s /\ r # s
  BY <1>5
<1>8. r \notin C
  BY <1>2, <1>7
<1>9. g[r] = h[r]
  BY <1>7, <1>8
<1>10. QED
  BY <1>3, <1>6, <1>9

LEMMA FoldsExist ==
    ASSUME NEW f, NEW S, IsFiniteSet(S)
    PROVE  \E g : Folds(g, f, S)
<1> SUFFICES ASSUME ~ \E g : Folds(g, f, S) PROVE FALSE
  OBVIOUS
<1> DEFINE C == {s \in SUBSET S : ~ \E g : Folds(g, f, s)}
<1>1. C # {} /\ \A s \in C : IsFiniteSet(s)
  <2>1. S \in C
    OBVIOUS
  <2>2. \A s \in C : s \in SUBSET S
    OBVIOUS
  <2>3. QED
    BY <2>1, <2>2, FS_Subset
<1>2. PICK s \in C : \A r \in C : ~(r \subseteq s /\ r # s)
  <2> HIDE DEF C
  <2>1. QED
    BY <1>1, SmallestSet
<1>3. s \in SUBSET S /\ IsFiniteSet(s) /\ ~ \E g : Folds(g, f, s)
  BY <1>1
<1> DEFINE sub(t) == CHOOSE g : Folds(g, f, t)
           value(t) == IF t = {} THEN 0 ELSE f[First(t)] + sub(t \ {First(t)})[t \ {First(t)}]
           whole == [t \in SUBSET s |-> value(t)]
<1>4. ASSUME NEW t \in SUBSET s, t # s PROVE Folds(sub(t), f, t)
  <2>1. t \in SUBSET S /\ t \notin C
    BY <1>2, <1>3, <1>4
  <2>2. \E g : Folds(g, f, t)
    BY <2>1
  <2>3. QED
    BY <2>2
<1>5. ASSUME NEW t \in SUBSET s, t # s PROVE sub(t)[t] = value(t)
  <2>1. CASE t = {}
    BY <1>4, <1>5, <2>1, FoldValue
  <2>2. CASE t # {}
    <3> DEFINE r == t \ {First(t)}
    <3>1. First(t) \in t
      BY <2>2, FirstIn
    <3>2. r \in SUBSET s /\ r # s /\ r \in SUBSET t
      BY <3>1
    <3>3. Folds(sub(t), f, t) /\ Folds(sub(r), f, r)
      BY <1>4, <1>5, <3>2
    <3>4. sub(t)[t] = f[First(t)] + sub(t)[r]
      BY <2>2, <3>3, FoldValue
    <3>5. IsFiniteSet(t)
      BY <1>3, FS_Subset
    <3>6. r \in SUBSET (t \cap r)
      OBVIOUS
    <3> HIDE DEF sub
    <3>7. sub(t)[r] = sub(r)[r]
      BY <3>3, <3>5, <3>6, FoldsAgree
    <3>8. QED
      BY <2>2, <3>4, <3>7
  <2>3. QED
    BY <2>1, <2>2
<1>6. ASSUME NEW t \in SUBSET s, t # {}
      PROVE  whole[t \ {First(t)}] = sub(t \ {First(t)})[t \ {First(t)}]
  <2> DEFINE r == t \ {First(t)}
  <2>1. First(t) \in t
    BY <1>6, FirstIn
  <2>2. r \in SUBSET s /\ r # s
    BY <2>1
  <2>3. whole[r] = value(r)
    BY <2>2
  <2>4. sub(r)[r] = value(r)
    BY <1>5, <2>2
  <2>5. QED
    BY <2>3, <2>4
<1> HIDE DEF sub
<1>7. \A t \in SUBSET s : value(t) = IF t = {} THEN 0 ELSE f[First(t)] + whole[t \ {First(t)}]
  BY <1>6
<1>8. Folds(whole, f, s)
  BY <1>7 DEF Folds
<1>9. QED
  BY <1>3, <1>8

LEMMA SumEmpty == \A f : SumOver(f, {}) = 0
<1> SUFFICES ASSUME NEW f PROVE SumOver(f, {}) = 0
  OBVIOUS
<1>1. Folds(CHOOSE g : Folds(g, f, {}), f, {})
  BY FoldsExist, FS_EmptySet
<1>2. QED
  BY <1>1, SumIsFold, FoldValue

LEMMA SumFirst ==
    ASSUME NEW f, NEW S, IsFiniteSet(S), S # {}
    PROVE  SumOver(f, S) = f[First(S)] + SumOver(f, S \ {First(S)})
<1> DEFINE R == S \ {First(S)}
           g == CHOOSE k : Folds(k, f, S)
           h == CHOOSE k : Folds(k, f, R)
<1>1. IsFiniteSet(R) /\ R \in SUBSET S
  BY FS_Subset
<1>2. Folds(g, f, S) /\ Folds(h, f, R)
  BY <1>1, FoldsExist
<1>3. SumOver(f, S) = g[S] /\ SumOver(f, R) = h[R]
  BY SumIsFold
<1>4. R \in SUBSET (S \cap R)
  OBVIOUS
<1> HIDE DEF g, h
<1>5. g[R] = h[R]
  BY <1>2, <1>4, FoldsAgree
<1>6. g[S] = f[First(S)] + g[R]
  BY <1>2, FoldValue
<1>7. QED
  BY <1>3, <1>5, <1>6

Counts(f, S) == IsFiniteSet(S) /\ \A x \in S : f[x] \in Nat

LEMMA SubCounts ==
    ASSUME NEW f, NEW S, Counts(f, S), NEW T \in SUBSET S
    PROVE  Counts(f, T)
  BY FS_Subset DEF Counts

LEMMA SumType ==
    ASSUME NEW f, NEW S, Counts(f, S)
    PROVE  SumOver(f, S) \in Nat
<1> SUFFICES ASSUME SumOver(f, S) \notin Nat PROVE FALSE
  OBVIOUS
<1> DEFINE C == {s \in SUBSET S : SumOver(f, s) \notin Nat}
<1>1. C # {} /\ \A s \in C : IsFiniteSet(s)
  <2>1. S \in C
    OBVIOUS
  <2>2. \A s \in C : Counts(f, s)
    BY SubCounts
  <2>3. QED
    BY <2>1, <2>2 DEF Counts
<1>2. PICK s \in C : \A r \in C : ~(r \subseteq s /\ r # s)
  <2> HIDE DEF C
  <2>1. QED
    BY <1>1, SmallestSet
<1>3. s \in SUBSET S /\ SumOver(f, s) \notin Nat /\ IsFiniteSet(s)
  BY <1>1
<1>4. s # {}
  BY <1>3, SumEmpty
<1>5. First(s) \in s /\ f[First(s)] \in Nat
  BY <1>3, <1>4, FirstIn DEF Counts
<1> DEFINE r == s \ {First(s)}
<1>6. r \in SUBSET S /\ r \subseteq s /\ r # s
  BY <1>3, <1>5
<1>7. SumOver(f, r) \in Nat
  BY <1>2, <1>6
<1>8. SumOver(f, s) = f[First(s)] + SumOver(f, r)
  BY <1>3, <1>4, SumFirst
<1> HIDE DEF r
<1>9. QED
  BY <1>3, <1>5, <1>7, <1>8

\* Any element may be taken first.
LEMMA SumRemove ==
    ASSUME NEW f, NEW S, Counts(f, S), NEW e \in S
    PROVE  SumOver(f, S) = f[e] + SumOver(f, S \ {e})
<1> DEFINE Splits(s) == \A x \in s : SumOver(f, s) = f[x] + SumOver(f, s \ {x})
<1> SUFFICES ASSUME ~Splits(S) PROVE FALSE
  OBVIOUS
<1> DEFINE C == {s \in SUBSET S : ~Splits(s)}
<1>1. C # {} /\ \A s \in C : IsFiniteSet(s)
  <2>1. S \in C
    OBVIOUS
  <2>2. \A s \in C : Counts(f, s)
    BY SubCounts
  <2>3. QED
    BY <2>1, <2>2 DEF Counts
<1>2. PICK s \in C : \A r \in C : ~(r \subseteq s /\ r # s)
  <2> HIDE DEF C
  <2>1. QED
    BY <1>1, SmallestSet
<1>3. s \in SUBSET S /\ IsFiniteSet(s) /\ ~Splits(s)
  BY <1>1
<1>4. PICK x \in s : SumOver(f, s) # f[x] + SumOver(f, s \ {x})
  BY <1>3
<1> DEFINE y == First(s)
           r == (s \ {x}) \ {y}
<1>5. y \in s /\ SumOver(f, s) = f[y] + SumOver(f, s \ {y})
  BY <1>3, FirstIn, SumFirst
<1> HIDE DEF y
<1>6. x # y
  BY <1>4, <1>5
<1>7. /\ s \ {x} \in SUBSET S /\ s \ {x} \subseteq s /\ s \ {x} # s /\ y \in s \ {x}
      /\ s \ {y} \in SUBSET S /\ s \ {y} \subseteq s /\ s \ {y} # s /\ x \in s \ {y}
  BY <1>3, <1>5, <1>6
<1>8. Splits(s \ {x}) /\ Splits(s \ {y})
  <2>1. s \ {x} \notin C /\ s \ {y} \notin C
    BY <1>2, <1>7
  <2>2. QED
    BY <1>7, <2>1
<1>9. (s \ {y}) \ {x} = r
  OBVIOUS
<1>10. SumOver(f, s \ {x}) = f[y] + SumOver(f, r) /\ SumOver(f, s \ {y}) = f[x] + SumOver(f, r)
  BY <1>7, <1>8, <1>9
<1>11. f[x] \in Nat /\ f[y] \in Nat /\ SumOver(f, r) \in Nat
  <2>1. r \in SUBSET S
    BY <1>3
  <2>2. SumOver(f, r) \in Nat
    BY <2>1, SubCounts, SumType
  <2>3. QED
    BY <1>3, <1>4, <1>5, <2>2 DEF Counts
<1> HIDE DEF r
<1>12. QED
  BY <1>4, <1>5, <1>10, <1>11

LEMMA SumMember ==
    ASSUME NEW f, NEW S, Counts(f, S), NEW e \in S
    PROVE  f[e] <= SumOver(f, S)
<1>1. SumOver(f, S) = f[e] + SumOver(f, S \ {e})
  BY SumRemove
<1>2. S \ {e} \in SUBSET S
  OBVIOUS
<1>3. SumOver(f, S \ {e}) \in Nat
  BY <1>2, SubCounts, SumType
<1>4. f[e] \in Nat
  BY DEF Counts
<1>5. QED
  BY <1>1, <1>3, <1>4

LEMMA SumMonotonic ==
    ASSUME NEW f, NEW g, NEW S, Counts(f, S), Counts(g, S), \A x \in S : f[x] <= g[x]
    PROVE  SumOver(f, S) <= SumOver(g, S)
<1> DEFINE Less(s) == SumOver(f, s) <= SumOver(g, s)
<1> SUFFICES ASSUME ~Less(S) PROVE FALSE
  OBVIOUS
<1> DEFINE C == {s \in SUBSET S : ~Less(s)}
<1>1. C # {} /\ \A s \in C : IsFiniteSet(s)
  <2>1. S \in C
    OBVIOUS
  <2>2. \A s \in C : Counts(f, s)
    BY SubCounts
  <2>3. QED
    BY <2>1, <2>2 DEF Counts
<1>2. PICK s \in C : \A r \in C : ~(r \subseteq s /\ r # s)
  <2> HIDE DEF C
  <2>1. QED
    BY <1>1, SmallestSet
<1>3. s \in SUBSET S /\ ~Less(s) /\ Counts(f, s) /\ Counts(g, s)
  BY SubCounts
<1>4. s # {}
  <2>1. SumOver(f, {}) = 0 /\ SumOver(g, {}) = 0
    BY SumEmpty
  <2>2. QED
    BY <1>3, <2>1
<1>5. PICK x : x \in s
  BY <1>4
<1> DEFINE r == s \ {x}
<1>6. r \in SUBSET S /\ r \subseteq s /\ r # s /\ r \in SUBSET s
  BY <1>3, <1>5
<1>7. Less(r)
  BY <1>2, <1>6
<1>8. SumOver(f, s) = f[x] + SumOver(f, r) /\ SumOver(g, s) = g[x] + SumOver(g, r)
  BY <1>3, <1>5, SumRemove
<1>9. SumOver(f, r) \in Nat /\ SumOver(g, r) \in Nat
  BY <1>3, <1>6, SubCounts, SumType
<1>10. f[x] \in Nat /\ g[x] \in Nat /\ f[x] <= g[x]
  BY <1>3, <1>5 DEF Counts
<1> HIDE DEF r
<1>11. QED
  BY <1>3, <1>7, <1>8, <1>9, <1>10

LEMMA SumSame ==
    ASSUME NEW f, NEW g, NEW S, Counts(f, S), \A x \in S : g[x] = f[x]
    PROVE  SumOver(g, S) = SumOver(f, S)
<1>1. Counts(g, S) /\ (\A x \in S : f[x] <= g[x]) /\ (\A x \in S : g[x] <= f[x])
  BY DEF Counts
<1>2. SumOver(f, S) <= SumOver(g, S) /\ SumOver(g, S) <= SumOver(f, S)
  BY <1>1, SumMonotonic
<1>3. SumOver(f, S) \in Nat /\ SumOver(g, S) \in Nat
  BY <1>1, SumType
<1>4. QED
  BY <1>2, <1>3

\* One more at e.
LEMMA SumIncremented ==
    ASSUME NEW f, NEW g, NEW S, Counts(f, S), NEW e,
           \A x \in S : g[x] = IF x = e THEN f[x] + 1 ELSE f[x]
    PROVE  SumOver(g, S) = IF e \in S THEN SumOver(f, S) + 1 ELSE SumOver(f, S)
<1>1. CASE e \in S
  <2>1. Counts(g, S) /\ g[e] = f[e] + 1 /\ f[e] \in Nat
    BY <1>1 DEF Counts
  <2>2. SumOver(g, S) = g[e] + SumOver(g, S \ {e}) /\ SumOver(f, S) = f[e] + SumOver(f, S \ {e})
    BY <1>1, <2>1, SumRemove
  <2>3. S \ {e} \in SUBSET S
    OBVIOUS
  <2>4. Counts(f, S \ {e}) /\ \A x \in S \ {e} : g[x] = f[x]
    BY <2>3, SubCounts
  <2>5. SumOver(g, S \ {e}) = SumOver(f, S \ {e}) /\ SumOver(f, S \ {e}) \in Nat
    BY <2>4, SumSame, SumType
  <2>6. QED
    BY <1>1, <2>1, <2>2, <2>5
<1>2. CASE e \notin S
  BY <1>2, SumSame
<1>3. QED
  BY <1>1, <1>2

\* What is zero outside T adds nothing to its sum over T.
LEMMA SumSupport ==
    ASSUME NEW f, NEW S, Counts(f, S), NEW T \in SUBSET S, \A x \in S \ T : f[x] = 0
    PROVE  SumOver(f, S) = SumOver(f, T)
<1> DEFINE Same(s) == SumOver(f, s) = SumOver(f, T)
<1> SUFFICES ASSUME ~Same(S) PROVE FALSE
  OBVIOUS
<1> DEFINE C == {s \in SUBSET S : T \subseteq s /\ ~Same(s)}
<1>1. C # {} /\ \A s \in C : IsFiniteSet(s)
  <2>1. S \in C
    OBVIOUS
  <2>2. \A s \in C : Counts(f, s)
    BY SubCounts
  <2>3. QED
    BY <2>1, <2>2 DEF Counts
<1>2. PICK s \in C : \A r \in C : ~(r \subseteq s /\ r # s)
  <2> HIDE DEF C
  <2>1. QED
    BY <1>1, SmallestSet
<1>3. s \in SUBSET S /\ T \subseteq s /\ ~Same(s) /\ Counts(f, s)
  BY SubCounts
<1>4. PICK x \in s : x \notin T
  BY <1>3
<1> DEFINE r == s \ {x}
<1>5. r \in SUBSET S /\ T \subseteq r /\ r \subseteq s /\ r # s
  BY <1>3, <1>4
<1>6. Same(r)
  BY <1>2, <1>5
<1>7. SumOver(f, s) = f[x] + SumOver(f, r)
  BY <1>3, SumRemove
<1>8. f[x] = 0 /\ SumOver(f, r) \in Nat
  BY <1>3, <1>4, <1>5, SubCounts, SumType
<1> HIDE DEF r
<1>9. QED
  BY <1>3, <1>6, <1>7, <1>8

LEMMA SumZero ==
    ASSUME NEW f, NEW S, IsFiniteSet(S), \A x \in S : f[x] = 0
    PROVE  SumOver(f, S) = 0
<1>1. Counts(f, S) /\ {} \in SUBSET S /\ \A x \in S \ {} : f[x] = 0
  BY DEF Counts
<1>2. SumOver(f, S) = SumOver(f, {})
  BY <1>1, SumSupport
<1>3. QED
  BY <1>2, SumEmpty

-----------------------------------------------------------------------------
(****************************************************************************)
(* The invariant.                                                           *)
(****************************************************************************)

Pcs == {"idle", "total", "status", "limited", "flagged", "latency", "upstream", "found"}
Recording == [pc : Pcs, event : Events \cup {None}]
Read      == [counters : [Names -> Nat], upstreams : [Upstreams -> Nat]]
Reading   == [pc : {"idle", "upstreams", "latency"}, left : SUBSET Upstreams, read : Read]

HistogramOK(h) == h \in [counts : [1..Overflow -> Nat], max : Nat]

\* TypeOK but for the bounds, which follow from what is counted.
NumbersOK ==
    /\ counters \in [Names -> Nat]
    /\ HistogramOK(latency) /\ latency.max \in Durations \cup {0}
    /\ upstream_latency \in [Upstreams -> Nat]
    /\ lock \in BOOLEAN
    /\ recorder \in [Recorders -> Recording]
    /\ reader \in Reading
    /\ recorded \in 0..MaxEvents
    /\ took \in [Durations -> Nat]

EventOK(r) == /\ r.pc # "idle" => r.event \in Events
              /\ r.pc \in {"upstream", "found"} => r.event.upstream # None

EventInv == \A t \in Recorders : EventOK(recorder[t])

Waiting(pcs) == {t \in Recorders : recorder[t].pc \in pcs}

\* An event that may yet count as limited or at an upstream.
MayCount(r) ==
    \/ r.pc \in {"total", "status", "limited"}
    \/ r.pc \in {"flagged", "latency", "upstream", "found"} /\ ~r.event.limited

Pending == {t \in Recorders : MayCount(recorder[t])}

BeforeTotal   == {"total"}
BeforeStatus  == {"total", "status"}
BeforeFlagged == {"total", "status", "limited", "flagged"}
BeforeLatency == {"total", "status", "limited", "flagged", "latency"}

CountInv ==
    /\ counters["requests_total"] + Cardinality(Waiting(BeforeTotal)) = recorded
    /\ SumOver(counters, Statuses) + Cardinality(Waiting(BeforeStatus)) = recorded
    /\ counters["flagged_total"] + Cardinality(Waiting(BeforeFlagged)) <= recorded
    /\ Total(latency) + Cardinality(Waiting(BeforeLatency)) = recorded
    /\ SumOver(upstream_latency, Upstreams) + counters["rate_limited_total"]
          + Cardinality(Pending) <= recorded

\* What a snapshot has read was so at some moment, and counters do not fall.
ReadInv ==
    /\ lock <=> reader.pc = "upstreams"
    /\ lock => reader.read.counters["requests_total"] = counters["requests_total"]
    /\ \A n \in Names : reader.read.counters[n] <= counters[n]
    /\ \A u \in Upstreams : reader.read.upstreams[u] <= upstream_latency[u]

\* The buckets up to the i-th have the durations up to their edges.
LatencyInv ==
    /\ \A i \in 1..Overflow :
          UpTo(latency, i) = SumOver(took, {d \in Durations : BucketOf(d) <= i})
    /\ \A d \in Durations : took[d] > 0 => d <= latency.max

Inv == NumbersOK /\ EventInv /\ CountInv /\ ReadInv /\ LatencyInv /\ SharesOfTotal

-----------------------------------------------------------------------------
(****************************************************************************)
(* Recorders that have not come to a counter.                               *)
(****************************************************************************)

One(b) == IF b THEN 1 ELSE 0

LEMMA CountMoves ==
    ASSUME NEW A \in SUBSET Recorders, NEW B \in SUBSET Recorders, NEW t \in Recorders,
           \A s \in Recorders \ {t} : s \in A <=> s \in B
    PROVE  /\ Cardinality(A) \in Nat /\ Cardinality(B) \in Nat
           /\ Cardinality(B) + One(t \in A) = Cardinality(A) + One(t \in B)
<1> DEFINE D == A \ {t}
<1>1. IsFiniteSet(A) /\ IsFiniteSet(B) /\ IsFiniteSet(D)
  BY FiniteAssumption, FS_Subset
<1>2. Cardinality(A) \in Nat /\ Cardinality(B) \in Nat /\ Cardinality(D) \in Nat
  BY <1>1, FS_CardinalityType
<1>3. t \notin D /\ D = B \ {t}
  OBVIOUS
<1>4. ASSUME NEW S \in {A, B} PROVE Cardinality(S) = Cardinality(D) + One(t \in S)
  <2>1. CASE t \in S
    <3>1. S = D \cup {t}
      BY <2>1, <1>3
    <3>2. Cardinality(D \cup {t}) = Cardinality(D) + 1
      BY <1>1, <1>3, FS_AddElement
    <3>3. QED
      BY <2>1, <3>1, <3>2 DEF One
  <2>2. CASE t \notin S
    BY <2>2, <1>2, <1>3 DEF One
  <2>3. QED
    BY <2>1, <2>2
<1>5. Cardinality(A) = Cardinality(D) + One(t \in A) /\ Cardinality(B) = Cardinality(D) + One(t \in B)
  BY <1>4
<1>6. QED
  BY <1>2, <1>5 DEF One

OthersStay(t) == \A s \in Recorders \ {t} : recorder'[s] = recorder[s]

LEMMA WaitingMoves ==
    ASSUME NEW t \in Recorders, OthersStay(t), NEW P
    PROVE  /\ Cardinality(Waiting(P)) \in Nat /\ Cardinality(Waiting(P)') \in Nat
           /\ Cardinality(Waiting(P)') + One(recorder[t].pc \in P)
                = Cardinality(Waiting(P)) + One(recorder'[t].pc \in P)
<1> DEFINE A == Waiting(P)
           B == Waiting(P)'
<1>1. A \in SUBSET Recorders /\ B \in SUBSET Recorders
  BY DEF Waiting
<1>2. \A s \in Recorders \ {t} : s \in A <=> s \in B
  BY DEF Waiting, OthersStay
<1>3. (t \in A <=> recorder[t].pc \in P) /\ (t \in B <=> recorder'[t].pc \in P)
  BY DEF Waiting
<1> HIDE DEF A, B
<1>4. /\ Cardinality(A) \in Nat /\ Cardinality(B) \in Nat
      /\ Cardinality(B) + One(t \in A) = Cardinality(A) + One(t \in B)
  BY <1>1, <1>2, CountMoves
<1>5. QED
  BY <1>3, <1>4 DEF A, B, One

LEMMA PendingMoves ==
    ASSUME NEW t \in Recorders, OthersStay(t)
    PROVE  /\ Cardinality(Pending) \in Nat /\ Cardinality(Pending') \in Nat
           /\ Cardinality(Pending') + One(MayCount(recorder[t]))
                = Cardinality(Pending) + One(MayCount(recorder'[t]))
<1> DEFINE A == Pending
           B == Pending'
<1>1. A \in SUBSET Recorders /\ B \in SUBSET Recorders
  BY DEF Pending
<1>2. \A s \in Recorders \ {t} : s \in A <=> s \in B
  BY DEF Pending, OthersStay
<1>3. (t \in A <=> MayCount(recorder[t])) /\ (t \in B <=> MayCount(recorder'[t]))
  BY DEF Pending
<1> HIDE DEF A, B
<1>4. /\ Cardinality(A) \in Nat /\ Cardinality(B) \in Nat
      /\ Cardinality(B) + One(t \in A) = Cardinality(A) + One(t \in B)
  BY <1>1, <1>2, CountMoves
<1>5. QED
  BY <1>3, <1>4 DEF A, B, One

-----------------------------------------------------------------------------
(****************************************************************************)
(* The histogram.                                                           *)
(****************************************************************************)

LEMMA MinOf ==
    ASSUME NEW T \in SUBSET Nat, T # {}
    PROVE  Min(T) \in T /\ \A k \in T : Min(T) <= k
<1>1. \E m \in T : \A k \in T : m <= k
  BY LeastNatural
<1>2. QED
  BY <1>1 DEF Min

LEMMA MaxOfTwo ==
    ASSUME NEW a \in Nat, NEW b \in Nat
    PROVE  Max({a, b}) \in {a, b} /\ a <= Max({a, b}) /\ b <= Max({a, b})
<1>1. \E m \in {a, b} : \A k \in {a, b} : m >= k
  <2>1. a >= b \/ b >= a
    OBVIOUS
  <2>2. QED
    BY <2>1
<1>2. Max({a, b}) \in {a, b} /\ \A k \in {a, b} : Max({a, b}) >= k
  BY <1>1 DEF Max
<1>3. QED
  BY <1>2

LEMMA EdgesType ==
    /\ Len(Edges) \in Nat /\ Overflow = Len(Edges) + 1 /\ Overflow \in Nat
    /\ \A i \in 1..Len(Edges) : Edges[i] \in Nat
    /\ \A i, j \in 1..Len(Edges) : i < j => Edges[i] < Edges[j]
  BY EdgesAssumption DEF Overflow

\* A value goes to the first bucket whose edge it does not pass.
LEMMA BucketBounds ==
    ASSUME NEW v \in Nat
    PROVE  /\ BucketOf(v) \in 1..Overflow
           /\ \A i \in 1..Len(Edges) : BucketOf(v) <= i <=> v <= Edges[i]
<1> DEFINE T == {i \in 1..Len(Edges) : v <= Edges[i]} \cup {Overflow}
           b == BucketOf(v)
<1>1. T \in SUBSET Nat /\ T # {} /\ T \subseteq 1..Overflow
  BY EdgesType
<1>2. b = Min(T)
  BY DEF BucketOf
<1> HIDE DEF b
<1>3. b \in T /\ \A k \in T : b <= k
  <2> HIDE DEF T
  <2>1. QED
    BY <1>1, <1>2, MinOf
<1>4. b \in 1..Overflow
  BY <1>1, <1>3
<1>5. ASSUME NEW i \in 1..Len(Edges) PROVE b <= i <=> v <= Edges[i]
  <2>1. ASSUME v <= Edges[i] PROVE b <= i
    BY <1>3, <2>1
  <2>2. ASSUME b <= i PROVE v <= Edges[i]
    <3>1. b \in 1..Len(Edges) /\ v <= Edges[b]
      BY <1>3, <1>4, <2>2, EdgesType
    <3>2. CASE b = i
      BY <3>1, <3>2
    <3>3. CASE b < i
      <4>1. Edges[b] < Edges[i] /\ Edges[b] \in Nat /\ Edges[i] \in Nat
        BY <3>1, <3>3, EdgesType
      <4>2. QED
        BY <3>1, <4>1
    <3>4. QED
      BY <1>4, <2>2, <3>2, <3>3
  <2>3. QED
    BY <2>1, <2>2
<1>6. QED
  BY <1>4, <1>5 DEF b

LEMMA HistogramCounts ==
    ASSUME NEW h, HistogramOK(h), NEW i \in 1..Overflow
    PROVE  Counts(h.counts, 1..i) /\ UpTo(h, i) \in Nat
<1>1. IsFiniteSet(1..i)
  <2>1. 1 \in Int /\ i \in Int
    BY EdgesType
  <2>2. QED
    BY <2>1, FS_Interval
<1>2. \A j \in 1..Overflow : h.counts[j] \in Nat
  BY DEF HistogramOK
<1>3. Counts(h.counts, 1..i)
  BY <1>1, <1>2, EdgesType DEF Counts
<1>4. UpTo(h, i) \in Nat
  BY <1>3, SumType DEF UpTo
<1>5. QED
  BY <1>3, <1>4

LEMMA ObservedHistogram ==
    ASSUME NEW h, HistogramOK(h), NEW v \in Nat
    PROVE  /\ HistogramOK(Observed(h, v))
           /\ Observed(h, v).max \in {v, h.max}
           /\ v <= Observed(h, v).max /\ h.max <= Observed(h, v).max
           /\ \A i \in 1..Overflow :
                 UpTo(Observed(h, v), i) = UpTo(h, i) + One(BucketOf(v) <= i)
<1> DEFINE b == BucketOf(v)
           o == Observed(h, v)
<1>1. b \in 1..Overflow
  BY BucketBounds
<1> HIDE DEF b
<1>2. h.counts \in [1..Overflow -> Nat] /\ h.max \in Nat
  BY DEF HistogramOK
<1>3. /\ o.counts = [h.counts EXCEPT ![b] = h.counts[b] + 1]
      /\ o.max = Max({v, h.max})
      /\ o = [counts |-> o.counts, max |-> o.max]
  BY DEF Observed, b
<1> HIDE DEF o
<1>4. o.max \in {v, h.max} /\ v <= o.max /\ h.max <= o.max
  BY <1>2, <1>3, MaxOfTwo
<1>5. /\ \A x \in 1..Overflow : o.counts[x] = IF x = b THEN h.counts[x] + 1 ELSE h.counts[x]
      /\ o.counts \in [1..Overflow -> Nat]
  <2> DEFINE f == h.counts
             g == o.counts
  <2>1. f \in [1..Overflow -> Nat] /\ g = [f EXCEPT ![b] = f[b] + 1]
    BY <1>2, <1>3
  <2> HIDE DEF f, g
  <2>2. f[b] + 1 \in Nat
    BY <1>1, <2>1
  <2>3. g \in [1..Overflow -> Nat]
    BY <2>1, <2>2
  <2>4. \A x \in 1..Overflow : g[x] = IF x = b THEN f[x] + 1 ELSE f[x]
    BY <2>1
  <2>5. QED
    BY <2>3, <2>4 DEF f, g
<1>6. HistogramOK(o)
  BY <1>2, <1>3, <1>4, <1>5 DEF HistogramOK
<1>7. ASSUME NEW i \in 1..Overflow PROVE UpTo(o, i) = UpTo(h, i) + One(b <= i)
  <2>1. Counts(h.counts, 1..i) /\ UpTo(h, i) \in Nat
    BY HistogramCounts
  <2>2. \A x \in 1..i : o.counts[x] = IF x = b THEN h.counts[x] + 1 ELSE h.counts[x]
    BY <1>5, EdgesType
  <2>3. UpTo(o, i) = IF b \in 1..i THEN UpTo(h, i) + 1 ELSE UpTo(h, i)
    BY <2>1, <2>2, SumIncremented DEF UpTo
  <2>4. b \in 1..i <=> b <= i
    BY <1>1, EdgesType
  <2>5. QED
    BY <2>1, <2>3, <2>4 DEF One
<1>8. QED
  BY <1>4, <1>6, <1>7 DEF o, b

-----------------------------------------------------------------------------
(****************************************************************************)
(* Types, and what a step moves.                                            *)
(****************************************************************************)

LEMMA NamesType ==
    /\ "requests_total" \in Names /\ "rate_limited_total" \in Names /\ "flagged_total" \in Names
    /\ Statuses \subseteq Names
    /\ \A n \in Totals : n \notin Statuses
  BY StatusAssumption DEF Names, Totals

LEMMA EventTypes ==
    ASSUME NEW e \in Events
    PROVE  /\ e.status \in Statuses /\ e.limited \in BOOLEAN /\ e.flagged \in BOOLEAN
           /\ e.upstream \in Upstreams \cup {None}
           /\ e.limited => e.upstream = None
  BY DEF Events

LEMMA RecordingTypes ==
    ASSUME NEW r \in Recording, EventOK(r), r.pc # "idle"
    PROVE  /\ r.pc \in Pcs /\ r.event \in Events
           /\ \A pc \in Pcs \ {"idle", "upstream", "found"} :
                 [r EXCEPT !.pc = pc] \in Recording /\ EventOK([r EXCEPT !.pc = pc])
           /\ r.event.upstream # None => \A pc \in {"upstream", "found"} :
                 [r EXCEPT !.pc = pc] \in Recording /\ EventOK([r EXCEPT !.pc = pc])
<1>1. r.pc \in Pcs /\ r.event \in Events /\ r.event \in Events \cup {None}
  BY DEF Recording, EventOK
<1>2. ASSUME NEW pc \in Pcs
      PROVE  /\ [r EXCEPT !.pc = pc] \in Recording
             /\ [r EXCEPT !.pc = pc].pc = pc /\ [r EXCEPT !.pc = pc].event = r.event
  BY DEF Recording
<1>3. "upstream" \in Pcs /\ "found" \in Pcs
  BY DEF Pcs
<1>4. QED
  BY <1>1, <1>2, <1>3 DEF EventOK

\* One recorder goes on; the others stay where they are.
LEMMA RecorderMoves ==
    ASSUME NumbersOK, EventInv, NEW t \in Recorders, NEW r \in Recording, EventOK(r),
           recorder' = [recorder EXCEPT ![t] = r]
    PROVE  /\ recorder' \in [Recorders -> Recording] /\ EventInv'
           /\ recorder'[t] = r /\ OthersStay(t)
<1>1. recorder \in [Recorders -> Recording]
  BY DEF NumbersOK
<1>2. recorder'[t] = r /\ \A s \in Recorders \ {t} : recorder'[s] = recorder[s]
  BY <1>1
<1>3. recorder' \in [Recorders -> Recording]
  BY <1>1
<1>4. \A s \in Recorders : EventOK(recorder'[s])
  BY <1>2 DEF EventInv
<1>5. QED
  BY <1>2, <1>3, <1>4 DEF EventInv, OthersStay

LEMMA SumTypes ==
    ASSUME NumbersOK
    PROVE  /\ Counts(counters, Statuses) /\ SumOver(counters, Statuses) \in Nat
           /\ Counts(upstream_latency, Upstreams) /\ SumOver(upstream_latency, Upstreams) \in Nat
           /\ Counts(took, Durations)
           /\ counters["requests_total"] \in Nat /\ counters["rate_limited_total"] \in Nat
           /\ counters["flagged_total"] \in Nat
<1>1. /\ \A n \in Names : counters[n] \in Nat
      /\ \A u \in Upstreams : upstream_latency[u] \in Nat
      /\ \A d \in Durations : took[d] \in Nat
  BY DEF NumbersOK
<1>2. Counts(counters, Statuses) /\ Counts(upstream_latency, Upstreams) /\ Counts(took, Durations)
  BY <1>1, NamesType, FiniteAssumption DEF Counts
<1>3. QED
  BY <1>1, <1>2, NamesType, SumType

LEMMA CounterMoves ==
    ASSUME NumbersOK, NEW name \in Names,
           counters' = [counters EXCEPT ![name] = counters[name] + 1]
    PROVE  /\ counters' \in [Names -> Nat]
           /\ \A n \in Names : counters'[n] = counters[n] + One(n = name)
           /\ SumOver(counters', Statuses) = SumOver(counters, Statuses) + One(name \in Statuses)
<1>1. counters \in [Names -> Nat] /\ counters[name] + 1 \in Nat
  BY DEF NumbersOK
<1>2. counters' \in [Names -> Nat]
  BY <1>1
<1>3. \A n \in Names : counters'[n] = IF n = name THEN counters[n] + 1 ELSE counters[n]
  BY <1>1
<1>4. SumOver(counters', Statuses)
        = IF name \in Statuses THEN SumOver(counters, Statuses) + 1 ELSE SumOver(counters, Statuses)
  <2> DEFINE after == counters'
  <2>1. Counts(counters, Statuses)
    BY SumTypes
  <2>2. \A n \in Statuses : after[n] = IF n = name THEN counters[n] + 1 ELSE counters[n]
    BY <1>3, NamesType
  <2> HIDE DEF after
  <2>3. SumOver(after, Statuses) = IF name \in Statuses THEN SumOver(counters, Statuses) + 1
                                   ELSE SumOver(counters, Statuses)
    BY <2>1, <2>2, SumIncremented
  <2>4. QED
    BY <2>3 DEF after
<1>5. \A n \in Names : counters[n] \in Nat
  BY <1>1
<1>6. QED
  BY <1>2, <1>3, <1>4, <1>5, SumTypes DEF One

LEMMA AllMove ==
    ASSUME NEW t \in Recorders, OthersStay(t)
    PROVE  /\ Cardinality(Waiting(BeforeTotal)') + One(recorder[t].pc \in BeforeTotal)
                = Cardinality(Waiting(BeforeTotal)) + One(recorder'[t].pc \in BeforeTotal)
           /\ Cardinality(Waiting(BeforeStatus)') + One(recorder[t].pc \in BeforeStatus)
                = Cardinality(Waiting(BeforeStatus)) + One(recorder'[t].pc \in BeforeStatus)
           /\ Cardinality(Waiting(BeforeFlagged)') + One(recorder[t].pc \in BeforeFlagged)
                = Cardinality(Waiting(BeforeFlagged)) + One(recorder'[t].pc \in BeforeFlagged)
           /\ Cardinality(Waiting(BeforeLatency)') + One(recorder[t].pc \in BeforeLatency)
                = Cardinality(Waiting(BeforeLatency)) + One(recorder'[t].pc \in BeforeLatency)
           /\ \A P : Cardinality(Waiting(P)) \in Nat /\ Cardinality(Waiting(P)') \in Nat
  BY WaitingMoves

-----------------------------------------------------------------------------
(****************************************************************************)
(* Each step of record() keeps the invariant.                               *)
(****************************************************************************)

LEMMA RecordKeeps ==
    ASSUME Inv, NEW t \in Recorders, NEW e \in Events, Record(t, e)
    PROVE  Inv'
<1> DEFINE r == [pc |-> "total", event |-> e]
<1>1. r \in Recording /\ EventOK(r) /\ MayCount(r) /\ r.pc = "total"
  BY DEF Recording, Pcs, EventOK, MayCount
<1>2. /\ recorder[t].pc = "idle" /\ recorded < MaxEvents
      /\ recorded' = recorded + 1
      /\ recorder' = [recorder EXCEPT ![t] = r]
      /\ UNCHANGED <<counters, latency, took, upstream_latency, lock, reader>>
  BY DEF Record
<1> HIDE DEF r
<1>3. NumbersOK /\ EventInv /\ CountInv
  BY DEF Inv
<1>4. /\ recorder' \in [Recorders -> Recording] /\ EventInv'
      /\ recorder'[t] = r /\ OthersStay(t)
  BY <1>1, <1>2, <1>3, RecorderMoves
<1>5. NumbersOK'
  <2>1. recorded' \in 0..MaxEvents
    BY <1>2, <1>3, SizeAssumption DEF NumbersOK
  <2>2. QED
    BY <1>2, <1>3, <1>4, <2>1 DEF NumbersOK, HistogramOK
<1>6. CountInv'
  <2>1. ~MayCount(recorder[t])
    BY <1>2 DEF MayCount
  <2>2. /\ Cardinality(Waiting(BeforeTotal)') = Cardinality(Waiting(BeforeTotal)) + 1
        /\ Cardinality(Waiting(BeforeStatus)') = Cardinality(Waiting(BeforeStatus)) + 1
        /\ Cardinality(Waiting(BeforeFlagged)') = Cardinality(Waiting(BeforeFlagged)) + 1
        /\ Cardinality(Waiting(BeforeLatency)') = Cardinality(Waiting(BeforeLatency)) + 1
        /\ \A P : Cardinality(Waiting(P)) \in Nat
    BY <1>1, <1>2, <1>4, AllMove DEF One, BeforeTotal, BeforeStatus, BeforeFlagged, BeforeLatency
  <2>3. Cardinality(Pending') = Cardinality(Pending) + 1 /\ Cardinality(Pending) \in Nat
    BY <1>1, <1>4, <2>1, PendingMoves DEF One
  <2>4. recorded \in Nat /\ Total(latency) \in Nat /\ Total(latency') = Total(latency)
    BY <1>2, <1>3, EdgesType, HistogramCounts, SizeAssumption DEF NumbersOK, Total
  <2>5. QED
    BY <1>2, <1>3, <2>2, <2>3, <2>4, SumTypes DEF CountInv
<1>7. (ReadInv /\ LatencyInv /\ SharesOfTotal)'
  BY <1>2 DEF Inv, ReadInv, LatencyInv, SharesOfTotal
<1>8. QED
  BY <1>4, <1>5, <1>6, <1>7 DEF Inv

\* What any of the incr() does.
LEMMA IncrMoves ==
    ASSUME Inv, NEW t \in Recorders, NEW pc \in BeforeFlagged,
           NEW next \in {"status", "limited", "flagged", "latency"},
           NEW name \in Names, NEW applies \in BOOLEAN, Incr(t, pc, next, name, applies)
    PROVE  /\ NumbersOK' /\ EventInv' /\ (ReadInv /\ LatencyInv /\ SharesOfTotal)'
           /\ recorder[t].pc = pc /\ recorder'[t].pc = next
           /\ recorder'[t].event = recorder[t].event /\ recorder[t].event \in Events
           /\ OthersStay(t)
           /\ \A n \in Names : counters'[n] = counters[n] + One(applies /\ n = name)
           /\ SumOver(counters', Statuses)
                = SumOver(counters, Statuses) + One(applies /\ name \in Statuses)
           /\ UNCHANGED <<latency, upstream_latency, recorded>>
<1> DEFINE r == [recorder[t] EXCEPT !.pc = next]
<1>1. NumbersOK /\ EventInv /\ ReadInv
  BY DEF Inv
<1>2. /\ recorder[t].pc = pc
      /\ applies => ~lock
      /\ applies => counters' = [counters EXCEPT ![name] = counters[name] + 1]
      /\ ~applies => counters' = counters
      /\ UNCHANGED <<latency, took, upstream_latency, lock, reader, recorded>>
  BY DEF Incr
<1>3. recorder \in [Recorders -> Recording] /\ recorder[t] \in Recording /\ EventOK(recorder[t])
  BY <1>1 DEF NumbersOK, EventInv
<1>4. recorder' = [recorder EXCEPT ![t] = r]
  BY <1>3 DEF Incr
<1>5. recorder[t].pc # "idle" /\ next \in Pcs \ {"idle", "upstream", "found"}
  BY <1>2 DEF BeforeFlagged, Pcs
<1>6. r \in Recording /\ EventOK(r) /\ recorder[t].event \in Events
  BY <1>3, <1>5, RecordingTypes
<1>7. r.pc = next /\ r.event = recorder[t].event
  BY <1>3 DEF Recording
<1> HIDE DEF r
<1>8. /\ recorder' \in [Recorders -> Recording] /\ EventInv'
      /\ recorder'[t] = r /\ OthersStay(t)
  BY <1>1, <1>4, <1>6, RecorderMoves
<1>9. /\ counters' \in [Names -> Nat]
      /\ \A n \in Names : counters'[n] = counters[n] + One(applies /\ n = name)
      /\ SumOver(counters', Statuses)
           = SumOver(counters, Statuses) + One(applies /\ name \in Statuses)
  <2>1. CASE applies
    BY <1>1, <1>2, <2>1, CounterMoves
  <2>2. CASE ~applies
    <3>1. counters' = counters /\ counters \in [Names -> Nat]
      BY <1>1, <1>2, <2>2 DEF NumbersOK
    <3>2. (\A n \in Names : counters[n] \in Nat) /\ SumOver(counters, Statuses) \in Nat
      BY <1>1, <3>1, SumTypes
    <3>3. QED
      BY <2>2, <3>1, <3>2 DEF One
  <2>3. QED
    BY <2>1, <2>2
<1>10. NumbersOK'
  BY <1>1, <1>2, <1>8, <1>9 DEF NumbersOK, HistogramOK
<1>11. ReadInv'
  <2>1. lock => counters' = counters
    BY <1>2
  <2>2. \A n \in Names : reader.read.counters[n] <= counters'[n]
    <3>1. \A n \in Names : counters[n] \in Nat /\ reader.read.counters[n] \in Nat
      BY <1>1 DEF NumbersOK, Reading, Read
    <3>2. QED
      BY <1>1, <1>9, <3>1 DEF ReadInv, One
  <2>3. QED
    BY <1>1, <1>2, <2>1, <2>2 DEF ReadInv
<1>12. (LatencyInv /\ SharesOfTotal)'
  BY <1>2 DEF Inv, LatencyInv, SharesOfTotal
<1>13. QED
  BY <1>2, <1>6, <1>7, <1>8, <1>9, <1>10, <1>11, <1>12

LEMMA CountKeeps ==
    ASSUME Inv, NEW t \in Recorders, Count(t)
    PROVE  Inv'
<1> DEFINE e == recorder[t].event
<1>0. NumbersOK /\ EventInv /\ CountInv
  BY DEF Inv
<1>t. /\ recorded \in Nat /\ Total(latency) \in Nat
      /\ counters["requests_total"] \in Nat /\ counters["rate_limited_total"] \in Nat
      /\ counters["flagged_total"] \in Nat /\ SumOver(counters, Statuses) \in Nat
      /\ SumOver(upstream_latency, Upstreams) \in Nat
  BY <1>0, EdgesType, HistogramCounts, SizeAssumption, SumTypes DEF NumbersOK, Total
<1>1. CASE Incr(t, "total", "status", "requests_total", TRUE)
  <2>1. /\ NumbersOK' /\ EventInv' /\ (ReadInv /\ LatencyInv /\ SharesOfTotal)'
        /\ recorder[t].pc = "total" /\ recorder'[t].pc = "status" /\ OthersStay(t)
        /\ \A n \in Names : counters'[n] = counters[n] + One(TRUE /\ n = "requests_total")
        /\ SumOver(counters', Statuses)
             = SumOver(counters, Statuses) + One(TRUE /\ "requests_total" \in Statuses)
        /\ UNCHANGED <<latency, upstream_latency, recorded>>
    BY <1>1, NamesType, IncrMoves DEF BeforeFlagged
  <2>2. /\ counters'["requests_total"] = counters["requests_total"] + 1
        /\ counters'["rate_limited_total"] = counters["rate_limited_total"]
        /\ counters'["flagged_total"] = counters["flagged_total"]
        /\ SumOver(counters', Statuses) = SumOver(counters, Statuses)
    BY <1>t, <2>1, NamesType DEF One, Totals
  <2>3. /\ Cardinality(Waiting(BeforeTotal)') + 1 = Cardinality(Waiting(BeforeTotal))
        /\ Cardinality(Waiting(BeforeStatus)') = Cardinality(Waiting(BeforeStatus))
        /\ Cardinality(Waiting(BeforeFlagged)') = Cardinality(Waiting(BeforeFlagged))
        /\ Cardinality(Waiting(BeforeLatency)') = Cardinality(Waiting(BeforeLatency))
        /\ \A P : Cardinality(Waiting(P)) \in Nat /\ Cardinality(Waiting(P)') \in Nat
    BY <2>1, AllMove DEF One, BeforeTotal, BeforeStatus, BeforeFlagged, BeforeLatency
  <2>4. MayCount(recorder[t]) /\ MayCount(recorder'[t])
    BY <2>1 DEF MayCount
  <2>5. Cardinality(Pending') = Cardinality(Pending) /\ Cardinality(Pending) \in Nat
    BY <2>1, <2>4, PendingMoves DEF One
  <2>6. CountInv'
    BY <1>0, <1>t, <2>1, <2>2, <2>3, <2>5 DEF CountInv
  <2>7. QED
    BY <2>1, <2>6 DEF Inv
<1>2. CASE Incr(t, "status", "limited", e.status, TRUE)
  <2>0. e \in Events /\ e.status \in Statuses /\ e.status \in Names
    <3>1. recorder[t].pc = "status"
      BY <1>2 DEF Incr
    <3>2. QED
      BY <1>0, <3>1, EventTypes, NamesType DEF EventInv, EventOK
  <2>1. /\ NumbersOK' /\ EventInv' /\ (ReadInv /\ LatencyInv /\ SharesOfTotal)'
        /\ recorder[t].pc = "status" /\ recorder'[t].pc = "limited" /\ OthersStay(t)
        /\ \A n \in Names : counters'[n] = counters[n] + One(TRUE /\ n = e.status)
        /\ SumOver(counters', Statuses)
             = SumOver(counters, Statuses) + One(TRUE /\ e.status \in Statuses)
        /\ UNCHANGED <<latency, upstream_latency, recorded>>
    BY <1>2, <2>0, NamesType, IncrMoves DEF BeforeFlagged
  <2>2. /\ counters'["requests_total"] = counters["requests_total"]
        /\ counters'["rate_limited_total"] = counters["rate_limited_total"]
        /\ counters'["flagged_total"] = counters["flagged_total"]
        /\ SumOver(counters', Statuses) = SumOver(counters, Statuses) + 1
    BY <1>t, <2>0, <2>1, NamesType DEF One, Totals
  <2>3. /\ Cardinality(Waiting(BeforeTotal)') = Cardinality(Waiting(BeforeTotal))
        /\ Cardinality(Waiting(BeforeStatus)') + 1 = Cardinality(Waiting(BeforeStatus))
        /\ Cardinality(Waiting(BeforeFlagged)') = Cardinality(Waiting(BeforeFlagged))
        /\ Cardinality(Waiting(BeforeLatency)') = Cardinality(Waiting(BeforeLatency))
        /\ \A P : Cardinality(Waiting(P)) \in Nat /\ Cardinality(Waiting(P)') \in Nat
    BY <2>1, AllMove DEF One, BeforeTotal, BeforeStatus, BeforeFlagged, BeforeLatency
  <2>4. MayCount(recorder[t]) /\ MayCount(recorder'[t])
    BY <2>1 DEF MayCount
  <2>5. Cardinality(Pending') = Cardinality(Pending) /\ Cardinality(Pending) \in Nat
    BY <2>1, <2>4, PendingMoves DEF One
  <2>6. CountInv'
    BY <1>0, <1>t, <2>1, <2>2, <2>3, <2>5 DEF CountInv
  <2>7. QED
    BY <2>1, <2>6 DEF Inv
<1>3. CASE Incr(t, "limited", "flagged", "rate_limited_total", e.limited)
  <2>0. e \in Events /\ e.limited \in BOOLEAN
    <3>1. recorder[t].pc = "limited"
      BY <1>3 DEF Incr
    <3>2. QED
      BY <1>0, <3>1, EventTypes DEF EventInv, EventOK
  <2>1. /\ NumbersOK' /\ EventInv' /\ (ReadInv /\ LatencyInv /\ SharesOfTotal)'
        /\ recorder[t].pc = "limited" /\ recorder'[t].pc = "flagged" /\ OthersStay(t)
        /\ recorder'[t].event = e
        /\ \A n \in Names : counters'[n] = counters[n] + One(e.limited /\ n = "rate_limited_total")
        /\ SumOver(counters', Statuses)
             = SumOver(counters, Statuses) + One(e.limited /\ "rate_limited_total" \in Statuses)
        /\ UNCHANGED <<latency, upstream_latency, recorded>>
    BY <1>3, <2>0, NamesType, IncrMoves DEF BeforeFlagged
  <2>2. /\ counters'["requests_total"] = counters["requests_total"]
        /\ counters'["rate_limited_total"] = counters["rate_limited_total"] + One(e.limited)
        /\ counters'["flagged_total"] = counters["flagged_total"]
        /\ SumOver(counters', Statuses) = SumOver(counters, Statuses)
    BY <1>t, <2>1, NamesType DEF One, Totals
  <2>3. /\ Cardinality(Waiting(BeforeTotal)') = Cardinality(Waiting(BeforeTotal))
        /\ Cardinality(Waiting(BeforeStatus)') = Cardinality(Waiting(BeforeStatus))
        /\ Cardinality(Waiting(BeforeFlagged)') = Cardinality(Waiting(BeforeFlagged))
        /\ Cardinality(Waiting(BeforeLatency)') = Cardinality(Waiting(BeforeLatency))
        /\ \A P : Cardinality(Waiting(P)) \in Nat /\ Cardinality(Waiting(P)') \in Nat
    BY <2>1, AllMove DEF One, BeforeTotal, BeforeStatus, BeforeFlagged, BeforeLatency
  <2>4. MayCount(recorder[t]) /\ (MayCount(recorder'[t]) <=> ~e.limited)
    BY <2>1 DEF MayCount
  <2>5. /\ Cardinality(Pending') + One(e.limited) = Cardinality(Pending)
        /\ Cardinality(Pending) \in Nat /\ Cardinality(Pending') \in Nat
    BY <2>0, <2>1, <2>4, PendingMoves DEF One
  <2>6. CountInv'
    <3>1. One(e.limited) \in Nat
      BY DEF One
    <3>2. QED
      BY <1>0, <1>t, <2>1, <2>2, <2>3, <2>5, <3>1 DEF CountInv
  <2>7. QED
    BY <2>1, <2>6 DEF Inv
<1>4. CASE Incr(t, "flagged", "latency", "flagged_total", e.flagged)
  <2>0. e \in Events /\ e.flagged \in BOOLEAN
    <3>1. recorder[t].pc = "flagged"
      BY <1>4 DEF Incr
    <3>2. QED
      BY <1>0, <3>1, EventTypes DEF EventInv, EventOK
  <2>1. /\ NumbersOK' /\ EventInv' /\ (ReadInv /\ LatencyInv /\ SharesOfTotal)'
        /\ recorder[t].pc = "flagged" /\ recorder'[t].pc = "latency" /\ OthersStay(t)
        /\ recorder'[t].event = e
        /\ \A n \in Names : counters'[n] = counters[n] + One(e.flagged /\ n = "flagged_total")
        /\ SumOver(counters', Statuses)
             = SumOver(counters, Statuses) + One(e.flagged /\ "flagged_total" \in Statuses)
        /\ UNCHANGED <<latency, upstream_latency, recorded>>
    BY <1>4, <2>0, NamesType, IncrMoves DEF BeforeFlagged
  <2>2. /\ counters'["requests_total"] = counters["requests_total"]
        /\ counters'["rate_limited_total"] = counters["rate_limited_total"]
        /\ counters'["flagged_total"] = counters["flagged_total"] + One(e.flagged)
        /\ SumOver(counters', Statuses) = SumOver(counters, Statuses)
    BY <1>t, <2>1, NamesType DEF One, Totals
  <2>3. /\ Cardinality(Waiting(BeforeTotal)') = Cardinality(Waiting(BeforeTotal))
        /\ Cardinality(Waiting(BeforeStatus)') = Cardinality(Waiting(BeforeStatus))
        /\ Cardinality(Waiting(BeforeFlagged)') + 1 = Cardinality(Waiting(BeforeFlagged))
        /\ Cardinality(Waiting(BeforeLatency)') = Cardinality(Waiting(BeforeLatency))
        /\ \A P : Cardinality(Waiting(P)) \in Nat /\ Cardinality(Waiting(P)') \in Nat
    BY <2>1, AllMove DEF One, BeforeTotal, BeforeStatus, BeforeFlagged, BeforeLatency
  <2>4. MayCount(recorder[t]) <=> MayCount(recorder'[t])
    BY <2>1 DEF MayCount
  <2>5. Cardinality(Pending') = Cardinality(Pending) /\ Cardinality(Pending) \in Nat
    BY <2>1, <2>4, PendingMoves DEF One
  <2>6. CountInv'
    <3>1. One(e.flagged) \in {0, 1}
      BY DEF One
    <3>2. QED
      BY <1>0, <1>t, <2>1, <2>2, <2>3, <2>5, <3>1 DEF CountInv
  <2>7. QED
    BY <2>1, <2>6 DEF Inv
<1>5. QED
  BY <1>1, <1>2, <1>3, <1>4 DEF Count

LEMMA ObserveLatencyKeeps ==
    ASSUME Inv, NEW t \in Recorders, ObserveLatency(t)
    PROVE  Inv'
<1> DEFINE e == recorder[t].event
           r == IF e.upstream = None THEN [pc |-> "idle", event |-> None]
                ELSE [recorder[t] EXCEPT !.pc = "upstream"]
<1>0. NumbersOK /\ EventInv /\ CountInv /\ ReadInv /\ LatencyInv
  BY DEF Inv
<1>1. PICK d \in Durations : latency' = Observed(latency, d)
                             /\ took' = [took EXCEPT ![d] = took[d] + 1]
  BY DEF ObserveLatency
<1>2. /\ recorder[t].pc = "latency"
      /\ recorder' = [recorder EXCEPT ![t] = r]
      /\ UNCHANGED <<counters, upstream_latency, lock, reader, recorded>>
  BY DEF ObserveLatency
<1>3. recorder[t] \in Recording /\ EventOK(recorder[t])
  BY <1>0 DEF NumbersOK, EventInv
<1>4. e \in Events /\ (e.limited => e.upstream = None)
  BY <1>2, <1>3, EventTypes DEF EventOK
<1>5. r \in Recording /\ EventOK(r) /\ r.pc \in {"idle", "upstream"}
      /\ (r.pc = "upstream" => r.event = e)
  <2>1. CASE e.upstream = None
    BY <2>1 DEF Recording, Pcs, EventOK
  <2>2. CASE e.upstream # None
    <3>1. /\ [recorder[t] EXCEPT !.pc = "upstream"] \in Recording
          /\ EventOK([recorder[t] EXCEPT !.pc = "upstream"])
      BY <1>2, <1>3, <2>2, RecordingTypes
    <3>2. /\ [recorder[t] EXCEPT !.pc = "upstream"].pc = "upstream"
          /\ [recorder[t] EXCEPT !.pc = "upstream"].event = e
      BY <1>3 DEF Recording
    <3>3. QED
      BY <2>2, <3>1, <3>2
  <2>3. QED
    BY <2>1, <2>2
<1> HIDE DEF r
<1>6. /\ recorder' \in [Recorders -> Recording] /\ EventInv'
      /\ recorder'[t] = r /\ OthersStay(t)
  BY <1>0, <1>2, <1>5, RecorderMoves
<1>7. d \in Nat /\ HistogramOK(latency) /\ took \in [Durations -> Nat]
  BY <1>0, TimesAssumption DEF NumbersOK
<1>8. /\ HistogramOK(latency') /\ latency'.max \in {d, latency.max}
      /\ d <= latency'.max /\ latency.max <= latency'.max
      /\ \A i \in 1..Overflow : UpTo(latency', i) = UpTo(latency, i) + One(BucketOf(d) <= i)
  BY <1>1, <1>7, ObservedHistogram
<1>9. /\ took' \in [Durations -> Nat]
      /\ \A x \in Durations : took'[x] = IF x = d THEN took[x] + 1 ELSE took[x]
  BY <1>1, <1>7
<1>10. NumbersOK'
  <2>1. latency'.max \in Durations \cup {0}
    BY <1>0, <1>8 DEF NumbersOK
  <2>2. QED
    BY <1>0, <1>2, <1>6, <1>8, <1>9, <2>1 DEF NumbersOK
<1>11. LatencyInv'
  <2>1. ASSUME NEW i \in 1..Overflow
        PROVE  UpTo(latency', i) = SumOver(took', {x \in Durations : BucketOf(x) <= i})
    <3> DEFINE S == {x \in Durations : BucketOf(x) <= i}
               after == took'
    <3>1. Counts(took, S) /\ (\A x \in S : after[x] = IF x = d THEN took[x] + 1 ELSE took[x])
      <4>1. Counts(took, Durations) /\ S \in SUBSET Durations
        BY <1>0, SumTypes
      <4>2. Counts(took, S)
        BY <4>1, SubCounts
      <4>3. QED
        BY <1>9, <4>2
    <3>2. d \in S <=> BucketOf(d) <= i
      OBVIOUS
    <3>3. SumOver(took, S) = UpTo(latency, i)
      BY <1>0 DEF LatencyInv
    <3> HIDE DEF S, after
    <3>4. SumOver(after, S) = IF d \in S THEN SumOver(took, S) + 1 ELSE SumOver(took, S)
      BY <3>1, SumIncremented
    <3>5. SumOver(took, S) \in Nat
      BY <3>1, SumType
    <3>6. UpTo(latency', i) = UpTo(latency, i) + One(BucketOf(d) <= i)
      BY <1>8
    <3>7. UpTo(latency', i) = SumOver(after, S)
      BY <3>2, <3>3, <3>4, <3>5, <3>6 DEF One
    <3>8. QED
      BY <3>7 DEF after, S
  <2>2. ASSUME NEW x \in Durations, took'[x] > 0 PROVE x <= latency'.max
    <3>1. x \in Nat /\ latency.max \in Nat /\ latency'.max \in Nat
      BY <1>7, <1>8, TimesAssumption DEF HistogramOK
    <3>2. x = d \/ took[x] > 0
      BY <1>9, <2>2
    <3>3. took[x] > 0 => x <= latency.max
      BY <1>0 DEF LatencyInv
    <3>4. QED
      BY <1>8, <3>1, <3>2, <3>3
  <2>3. QED
    BY <2>1, <2>2 DEF LatencyInv
<1>12. CountInv'
  <2>1. /\ Cardinality(Waiting(BeforeTotal)') = Cardinality(Waiting(BeforeTotal))
        /\ Cardinality(Waiting(BeforeStatus)') = Cardinality(Waiting(BeforeStatus))
        /\ Cardinality(Waiting(BeforeFlagged)') = Cardinality(Waiting(BeforeFlagged))
        /\ Cardinality(Waiting(BeforeLatency)') + 1 = Cardinality(Waiting(BeforeLatency))
        /\ \A P : Cardinality(Waiting(P)) \in Nat /\ Cardinality(Waiting(P)') \in Nat
    BY <1>2, <1>5, <1>6, AllMove DEF One, BeforeTotal, BeforeStatus, BeforeFlagged, BeforeLatency
  <2>2. MayCount(recorder'[t]) => MayCount(recorder[t])
    BY <1>2, <1>5, <1>6 DEF MayCount
  <2>3. /\ Cardinality(Pending') <= Cardinality(Pending)
        /\ Cardinality(Pending) \in Nat /\ Cardinality(Pending') \in Nat
    BY <1>6, <2>2, PendingMoves DEF One
  <2>4. /\ Total(latency) \in Nat /\ Total(latency') = Total(latency) + 1 /\ recorded \in Nat
    <3>1. Overflow \in 1..Overflow
      BY EdgesType
    <3>2. BucketOf(d) \in 1..Overflow
      BY <1>7, BucketBounds
    <3>3. Total(latency') = Total(latency) + 1
      BY <1>8, <3>1, <3>2 DEF Total, One
    <3>4. QED
      BY <1>0, <1>7, <3>1, <3>3, HistogramCounts, SizeAssumption DEF Total, NumbersOK
  <2>5. /\ counters["requests_total"] \in Nat /\ counters["rate_limited_total"] \in Nat
        /\ counters["flagged_total"] \in Nat /\ SumOver(counters, Statuses) \in Nat
        /\ SumOver(upstream_latency, Upstreams) \in Nat
    BY <1>0, SumTypes
  <2>6. QED
    BY <1>0, <1>2, <2>1, <2>3, <2>4, <2>5 DEF CountInv
<1>13. (ReadInv /\ SharesOfTotal)'
  BY <1>2 DEF Inv, ReadInv, SharesOfTotal
<1>14. QED
  BY <1>6, <1>10, <1>11, <1>12, <1>13 DEF Inv

LEMMA FindUpstreamKeeps ==
    ASSUME Inv, NEW t \in Recorders, FindUpstream(t)
    PROVE  Inv'
<1> DEFINE r == [recorder[t] EXCEPT !.pc = "found"]
<1>0. NumbersOK /\ EventInv /\ CountInv
  BY DEF Inv
<1>1. /\ recorder[t].pc = "upstream"
      /\ UNCHANGED <<counters, latency, took, upstream_latency, lock, reader, recorded>>
  BY DEF FindUpstream
<1>2. recorder[t] \in Recording /\ EventOK(recorder[t]) /\ recorder \in [Recorders -> Recording]
  BY <1>0 DEF NumbersOK, EventInv
<1>3. recorder' = [recorder EXCEPT ![t] = r]
  BY <1>2 DEF FindUpstream
<1>4. recorder[t].event.upstream # None
  BY <1>1, <1>2 DEF EventOK
<1>5. r \in Recording /\ EventOK(r)
  BY <1>1, <1>2, <1>4, RecordingTypes
<1>6. r.pc = "found" /\ r.event = recorder[t].event
  BY <1>2 DEF Recording
<1> HIDE DEF r
<1>7. /\ recorder' \in [Recorders -> Recording] /\ EventInv'
      /\ recorder'[t] = r /\ OthersStay(t)
  BY <1>0, <1>3, <1>5, RecorderMoves
<1>8. NumbersOK'
  BY <1>0, <1>1, <1>7 DEF NumbersOK, HistogramOK
<1>9. CountInv'
  <2>1. /\ Cardinality(Waiting(BeforeTotal)') = Cardinality(Waiting(BeforeTotal))
        /\ Cardinality(Waiting(BeforeStatus)') = Cardinality(Waiting(BeforeStatus))
        /\ Cardinality(Waiting(BeforeFlagged)') = Cardinality(Waiting(BeforeFlagged))
        /\ Cardinality(Waiting(BeforeLatency)') = Cardinality(Waiting(BeforeLatency))
    BY <1>1, <1>6, <1>7, AllMove DEF One, BeforeTotal, BeforeStatus, BeforeFlagged, BeforeLatency
  <2>2. MayCount(recorder'[t]) <=> MayCount(recorder[t])
    BY <1>1, <1>6, <1>7 DEF MayCount
  <2>3. Cardinality(Pending') = Cardinality(Pending)
    BY <1>7, <2>2, PendingMoves DEF One
  <2>4. QED
    BY <1>0, <1>1, <2>1, <2>3 DEF CountInv
<1>10. (ReadInv /\ LatencyInv /\ SharesOfTotal)'
  BY <1>1 DEF Inv, ReadInv, LatencyInv, SharesOfTotal
<1>11. QED
  BY <1>7, <1>8, <1>9, <1>10 DEF Inv

LEMMA ObserveUpstreamKeeps ==
    ASSUME Inv, NEW t \in Recorders, ObserveUpstream(t)
    PROVE  Inv'
<1> DEFINE u == recorder[t].event.upstream
           r == [pc |-> "idle", event |-> None]
           after == upstream_latency'
<1>0. NumbersOK /\ EventInv /\ CountInv /\ ReadInv
  BY DEF Inv
<1>1. /\ recorder[t].pc = "found"
      /\ after = [upstream_latency EXCEPT ![u] = upstream_latency[u] + 1]
      /\ recorder' = [recorder EXCEPT ![t] = r]
      /\ UNCHANGED <<counters, latency, took, lock, reader, recorded>>
  BY DEF ObserveUpstream
<1>2. EventOK(recorder[t])
  BY <1>0 DEF EventInv
<1>3. u \in Upstreams /\ ~recorder[t].event.limited
  BY <1>1, <1>2, EventTypes DEF EventOK
<1>4. r \in Recording /\ EventOK(r) /\ r.pc = "idle" /\ ~MayCount(r)
  BY DEF Recording, Pcs, EventOK, MayCount
<1> HIDE DEF r, after
<1>5. /\ recorder' \in [Recorders -> Recording] /\ EventInv'
      /\ recorder'[t] = r /\ OthersStay(t)
  BY <1>0, <1>1, <1>4, RecorderMoves
<1>6. upstream_latency \in [Upstreams -> Nat]
  BY <1>0 DEF NumbersOK
<1>7. /\ after \in [Upstreams -> Nat]
      /\ \A x \in Upstreams :
            after[x] = IF x = u THEN upstream_latency[x] + 1 ELSE upstream_latency[x]
  BY <1>1, <1>3, <1>6
<1>8. NumbersOK'
  BY <1>0, <1>1, <1>5, <1>7 DEF NumbersOK, HistogramOK, after
<1>9. CountInv'
  <2>1. /\ Cardinality(Waiting(BeforeTotal)') = Cardinality(Waiting(BeforeTotal))
        /\ Cardinality(Waiting(BeforeStatus)') = Cardinality(Waiting(BeforeStatus))
        /\ Cardinality(Waiting(BeforeFlagged)') = Cardinality(Waiting(BeforeFlagged))
        /\ Cardinality(Waiting(BeforeLatency)') = Cardinality(Waiting(BeforeLatency))
    BY <1>1, <1>4, <1>5, AllMove DEF One, BeforeTotal, BeforeStatus, BeforeFlagged, BeforeLatency
  <2>2. MayCount(recorder[t]) /\ ~MayCount(recorder'[t])
    BY <1>1, <1>3, <1>4, <1>5 DEF MayCount
  <2>3. /\ Cardinality(Pending') + 1 = Cardinality(Pending)
        /\ Cardinality(Pending) \in Nat /\ Cardinality(Pending') \in Nat
    BY <1>5, <2>2, PendingMoves DEF One
  <2>4. SumOver(after, Upstreams) = SumOver(upstream_latency, Upstreams) + 1
    BY <1>0, <1>3, <1>7, SumTypes, SumIncremented
  <2>5. /\ counters["rate_limited_total"] \in Nat /\ recorded \in Nat
        /\ SumOver(upstream_latency, Upstreams) \in Nat
    BY <1>0, SizeAssumption, SumTypes DEF NumbersOK
  <2>6. SumOver(after, Upstreams) + counters["rate_limited_total"] + Cardinality(Pending') <= recorded
    BY <1>0, <2>3, <2>4, <2>5 DEF CountInv
  <2>7. QED
    BY <1>0, <1>1, <2>1, <2>6 DEF CountInv, after
<1>10. ReadInv'
  <2>1. \A x \in Upstreams : reader.read.upstreams[x] <= after[x]
    <3>1. \A x \in Upstreams :
             /\ reader.read.upstreams[x] \in Nat /\ upstream_latency[x] \in Nat
             /\ reader.read.upstreams[x] <= upstream_latency[x]
      BY <1>0 DEF NumbersOK, Reading, Read, ReadInv
    <3>2. QED
      BY <1>7, <3>1
  <2>2. QED
    BY <1>0, <1>1, <2>1 DEF ReadInv, after
<1>11. (LatencyInv /\ SharesOfTotal)'
  BY <1>1 DEF Inv, LatencyInv, SharesOfTotal
<1>12. QED
  BY <1>5, <1>8, <1>9, <1>10, <1>11 DEF Inv

-----------------------------------------------------------------------------
(****************************************************************************)
(* Each step of snapshot() keeps the invariant.                             *)
(****************************************************************************)

LEMMA WaitingIn ==
    ASSUME NEW A, NEW B \in SUBSET Recorders, A \subseteq B
    PROVE  /\ Cardinality(A) \in Nat /\ Cardinality(B) \in Nat
           /\ Cardinality(A) <= Cardinality(B)
<1>1. IsFiniteSet(B) /\ A \in SUBSET B
  BY FiniteAssumption, FS_Subset
<1>2. IsFiniteSet(A) /\ Cardinality(A) <= Cardinality(B)
  BY <1>1, FS_Subset, Zenon
<1>3. QED
  BY <1>1, <1>2, FS_CardinalityType

\* Whoever has not counted a request has counted nothing else of it.
LEMMA CountersShares ==
    ASSUME NumbersOK, CountInv
    PROVE  /\ SumOver(upstream_latency, Upstreams) + counters["rate_limited_total"]
                <= counters["requests_total"]
           /\ counters["flagged_total"] <= counters["requests_total"]
           /\ SumOver(counters, Statuses) <= counters["requests_total"]
<1> DEFINE W == Waiting(BeforeTotal)
<1>1. W \subseteq Waiting(BeforeStatus) /\ W \subseteq Waiting(BeforeFlagged) /\ W \subseteq Pending
  BY DEF Waiting, Pending, MayCount, BeforeTotal, BeforeStatus, BeforeFlagged
<1>2. /\ Waiting(BeforeStatus) \in SUBSET Recorders /\ Waiting(BeforeFlagged) \in SUBSET Recorders
      /\ Pending \in SUBSET Recorders
  BY DEF Waiting, Pending
<1> HIDE DEF W
<1>3. /\ Cardinality(W) \in Nat /\ Cardinality(Waiting(BeforeStatus)) \in Nat
      /\ Cardinality(Waiting(BeforeFlagged)) \in Nat /\ Cardinality(Pending) \in Nat
      /\ Cardinality(W) <= Cardinality(Waiting(BeforeStatus))
      /\ Cardinality(W) <= Cardinality(Waiting(BeforeFlagged))
      /\ Cardinality(W) <= Cardinality(Pending)
  BY <1>1, <1>2, WaitingIn
<1>4. /\ recorded \in Nat
      /\ counters["requests_total"] \in Nat /\ counters["rate_limited_total"] \in Nat
      /\ counters["flagged_total"] \in Nat /\ SumOver(counters, Statuses) \in Nat
      /\ SumOver(upstream_latency, Upstreams) \in Nat
  BY SizeAssumption, SumTypes DEF NumbersOK
<1>5. /\ counters["requests_total"] + Cardinality(W) = recorded
      /\ SumOver(counters, Statuses) + Cardinality(Waiting(BeforeStatus)) = recorded
      /\ counters["flagged_total"] + Cardinality(Waiting(BeforeFlagged)) <= recorded
      /\ SumOver(upstream_latency, Upstreams) + counters["rate_limited_total"]
            + Cardinality(Pending) <= recorded
  BY DEF CountInv, W
<1>6. QED
  BY <1>3, <1>4, <1>5

LEMMA NothingRead ==
    /\ Nothing \in Read
    /\ \A n \in Names : Nothing.counters[n] = 0
    /\ \A u \in Upstreams : Nothing.upstreams[u] = 0
    /\ SumOver(Nothing.counters, Statuses) = 0 /\ SumOver(Nothing.upstreams, Upstreams) = 0
<1>1. Nothing \in Read
  BY DEF Nothing, Read, Zero
<1>2. (\A n \in Names : Nothing.counters[n] = 0) /\ \A u \in Upstreams : Nothing.upstreams[u] = 0
  BY DEF Nothing, Zero
<1>3. SumOver(Nothing.counters, Statuses) = 0 /\ SumOver(Nothing.upstreams, Upstreams) = 0
  BY <1>2, NamesType, FiniteAssumption, SumZero
<1>4. QED
  BY <1>1, <1>2, <1>3

LEMMA CopyCountersKeeps ==
    ASSUME Inv, CopyCounters
    PROVE  Inv'
<1> DEFINE r == [Nothing EXCEPT !.counters = counters]
<1>0. NumbersOK /\ EventInv /\ CountInv /\ counters \in [Names -> Nat]
  BY DEF Inv, NumbersOK
<1>1. /\ lock' = TRUE
      /\ reader' = [pc |-> "upstreams", left |-> Upstreams, read |-> r]
      /\ UNCHANGED <<counters, latency, took, upstream_latency, recorder, recorded>>
  BY DEF CopyCounters
<1>2. r \in Read /\ r.counters = counters /\ r.upstreams = Nothing.upstreams
  BY <1>0, NothingRead DEF Read
<1> HIDE DEF r
<1>3. /\ reader' \in Reading /\ reader'.pc = "upstreams" /\ reader'.read = r
  BY <1>1, <1>2 DEF Reading
<1>4. NumbersOK'
  BY <1>0, <1>1, <1>3 DEF NumbersOK, HistogramOK
<1>5. ReadInv'
  <2>1. /\ \A n \in Names : counters[n] \in Nat
        /\ \A u \in Upstreams : upstream_latency[u] \in Nat
    BY <1>0 DEF NumbersOK
  <2>2. /\ \A n \in Names : r.counters[n] <= counters[n]
        /\ \A u \in Upstreams : r.upstreams[u] <= upstream_latency[u]
    BY <1>2, <2>1, NothingRead
  <2>3. QED
    BY <1>1, <1>2, <1>3, <2>2 DEF ReadInv
<1>6. SharesOfTotal'
  <2>1. SumOver(r.upstreams, Upstreams) = 0 /\ SumOver(r.counters, Statuses) = SumOver(counters, Statuses)
    BY <1>2, NothingRead
  <2>2. /\ counters["rate_limited_total"] <= counters["requests_total"]
        /\ counters["flagged_total"] <= counters["requests_total"]
        /\ SumOver(counters, Statuses) <= counters["requests_total"]
        /\ 0 <= counters["requests_total"]
    BY <1>0, SumTypes, CountersShares
  <2>3. QED
    BY <1>2, <1>3, <2>1, <2>2 DEF SharesOfTotal
<1>7. (EventInv /\ CountInv /\ LatencyInv)'
  BY <1>1 DEF Inv, EventInv, CountInv, LatencyInv, Waiting, Pending
<1>8. QED
  BY <1>4, <1>5, <1>6, <1>7 DEF Inv

LEMMA ReadUpstreamKeeps ==
    ASSUME Inv, NEW u \in Upstreams, ReadUpstream(u)
    PROVE  Inv'
<1> DEFINE old == reader.read.upstreams
           new == [old EXCEPT ![u] = upstream_latency[u]]
           r   == [reader.read EXCEPT !.upstreams = new]
<1>0. NumbersOK /\ EventInv /\ CountInv /\ ReadInv
  BY DEF Inv
<1>1. /\ reader.pc = "upstreams"
      /\ reader' = [reader EXCEPT !.left = reader.left \ {u}, !.read = r]
      /\ UNCHANGED <<counters, latency, took, upstream_latency, lock, recorder, recorded>>
  BY DEF ReadUpstream
<1>2. /\ reader \in Reading /\ reader.read \in Read /\ old \in [Upstreams -> Nat]
      /\ upstream_latency \in [Upstreams -> Nat]
  BY <1>0 DEF NumbersOK, Reading, Read
<1> HIDE DEF old
<1>3. /\ new \in [Upstreams -> Nat]
      /\ \A x \in Upstreams : new[x] = IF x = u THEN upstream_latency[x] ELSE old[x]
  BY <1>2
<1> HIDE DEF new
<1>4. r \in Read /\ r.counters = reader.read.counters /\ r.upstreams = new
  BY <1>2, <1>3 DEF Read
<1> HIDE DEF r
<1>5. /\ reader' \in Reading /\ reader'.pc = "upstreams" /\ reader'.read = r
  BY <1>1, <1>2, <1>4 DEF Reading
<1>6. NumbersOK'
  BY <1>0, <1>1, <1>5 DEF NumbersOK, HistogramOK
<1>7. \A x \in Upstreams : new[x] <= upstream_latency[x]
  <2>1. \A x \in Upstreams : old[x] <= upstream_latency[x] /\ upstream_latency[x] \in Nat
    BY <1>0, <1>2 DEF ReadInv, old
  <2>2. QED
    BY <1>3, <2>1
<1>8. ReadInv'
  BY <1>0, <1>1, <1>4, <1>5, <1>7 DEF ReadInv
<1>9. SharesOfTotal'
  <2>1. SumOver(new, Upstreams) <= SumOver(upstream_latency, Upstreams)
        /\ SumOver(new, Upstreams) \in Nat
    <3>1. Counts(new, Upstreams) /\ Counts(upstream_latency, Upstreams)
      BY <1>0, <1>3, FiniteAssumption, SumTypes DEF Counts
    <3>2. QED
      BY <1>7, <3>1, SumMonotonic, SumType
  <2>2. /\ SumOver(upstream_latency, Upstreams) <= counters["requests_total"]
        /\ SumOver(upstream_latency, Upstreams) \in Nat /\ counters["requests_total"] \in Nat
    BY <1>0, SumTypes, CountersShares
  <2>3. reader.read.counters["requests_total"] = counters["requests_total"]
    BY <1>0, <1>1 DEF ReadInv
  <2>4. SumOver(new, Upstreams) <= reader.read.counters["requests_total"]
    BY <2>1, <2>2, <2>3
  <2>5. QED
    BY <1>4, <1>5, <2>4 DEF Inv, SharesOfTotal
<1>10. (EventInv /\ CountInv /\ LatencyInv)'
  BY <1>1 DEF Inv, EventInv, CountInv, LatencyInv, Waiting, Pending
<1>11. QED
  BY <1>6, <1>8, <1>9, <1>10 DEF Inv

LEMMA ReleaseKeeps ==
    ASSUME Inv, Release
    PROVE  Inv'
<1>0. NumbersOK /\ ReadInv /\ reader \in Reading
  BY DEF Inv, NumbersOK
<1>1. /\ lock' = FALSE
      /\ reader' = [reader EXCEPT !.pc = "latency"]
      /\ UNCHANGED <<counters, latency, took, upstream_latency, recorder, recorded>>
  BY DEF Release
<1>2. reader' \in Reading /\ reader'.pc = "latency" /\ reader'.read = reader.read
  BY <1>0, <1>1 DEF Reading
<1>3. NumbersOK'
  BY <1>0, <1>1, <1>2 DEF NumbersOK, HistogramOK
<1>4. (ReadInv /\ SharesOfTotal)'
  BY <1>0, <1>1, <1>2 DEF Inv, ReadInv, SharesOfTotal
<1>5. (EventInv /\ CountInv /\ LatencyInv)'
  BY <1>1 DEF Inv, EventInv, CountInv, LatencyInv, Waiting, Pending
<1>6. QED
  BY <1>3, <1>4, <1>5 DEF Inv

LEMMA ShowKeeps ==
    ASSUME Inv, Show
    PROVE  Inv'
<1>0. NumbersOK /\ ReadInv
  BY DEF Inv
<1>1. /\ reader.pc = "latency"
      /\ reader' = [pc |-> "idle", left |-> {}, read |-> Nothing]
      /\ UNCHANGED <<counters, latency, took, upstream_latency, lock, recorder, recorded>>
  BY DEF Show
<1>2. reader' \in Reading /\ reader'.pc = "idle" /\ reader'.read = Nothing
  BY <1>1, NothingRead DEF Reading
<1>3. NumbersOK'
  BY <1>0, <1>1, <1>2 DEF NumbersOK, HistogramOK
<1>4. ReadInv'
  <2>1. /\ \A n \in Names : counters[n] \in Nat
        /\ \A u \in Upstreams : upstream_latency[u] \in Nat
    BY <1>0 DEF NumbersOK
  <2>2. ~lock
    BY <1>0, <1>1 DEF ReadInv
  <2>3. QED
    BY <1>1, <1>2, <2>1, <2>2, NothingRead DEF ReadInv
<1>5. SharesOfTotal'
  BY <1>2, NamesType, NothingRead DEF SharesOfTotal
<1>6. (EventInv /\ CountInv /\ LatencyInv)'
  BY <1>1 DEF Inv, EventInv, CountInv, LatencyInv, Waiting, Pending
<1>7. QED
  BY <1>3, <1>4, <1>5, <1>6 DEF Inv

-----------------------------------------------------------------------------
(****************************************************************************)
(* The invariant holds of every state.                                      *)
(****************************************************************************)

LEMMA InitInv == Init => Inv
<1> SUFFICES ASSUME Init PROVE Inv
  OBVIOUS
<1>1. /\ counters = Zero /\ latency = NewHistogram /\ lock = FALSE
      /\ upstream_latency = [u \in Upstreams |-> 0]
      /\ recorder = [t \in Recorders |-> [pc |-> "idle", event |-> None]]
      /\ reader = [pc |-> "idle", left |-> {}, read |-> Nothing]
      /\ recorded = 0 /\ took = [d \in Durations |-> 0]
  BY DEF Init
<1>2. \A t \in Recorders : /\ recorder[t].pc = "idle" /\ EventOK(recorder[t])
                           /\ ~MayCount(recorder[t])
  BY <1>1 DEF EventOK, MayCount
<1>3. NumbersOK
  <2>1. reader \in Reading
    BY <1>1, NothingRead DEF Reading
  <2>2. recorder \in [Recorders -> Recording]
    BY <1>1 DEF Recording, Pcs
  <2>3. HistogramOK(latency) /\ latency.max = 0
    BY <1>1 DEF NewHistogram, HistogramOK
  <2>4. counters \in [Names -> Nat] /\ recorded \in 0..MaxEvents
    BY <1>1, SizeAssumption DEF Zero
  <2>5. QED
    BY <1>1, <2>1, <2>2, <2>3, <2>4 DEF NumbersOK
<1>4. EventInv
  BY <1>2 DEF EventInv
<1>5. /\ \A i \in 1..Overflow : UpTo(latency, i) = 0
      /\ \A S \in SUBSET Durations : SumOver(took, S) = 0
      /\ SumOver(counters, Statuses) = 0 /\ SumOver(upstream_latency, Upstreams) = 0
  <2>1. ASSUME NEW i \in 1..Overflow PROVE UpTo(latency, i) = 0
    <3>1. IsFiniteSet(1..i)
      BY <1>3, HistogramCounts DEF NumbersOK, Counts
    <3>2. \A x \in 1..i : latency.counts[x] = 0
      BY <1>1, EdgesType DEF NewHistogram
    <3>3. QED
      BY <3>1, <3>2, SumZero DEF UpTo
  <2>2. ASSUME NEW S \in SUBSET Durations PROVE SumOver(took, S) = 0
    <3>1. IsFiniteSet(S)
      BY FiniteAssumption, FS_Subset
    <3>2. \A x \in S : took[x] = 0
      BY <1>1
    <3>3. QED
      BY <3>1, <3>2, SumZero
  <2>3. (\A n \in Statuses : counters[n] = 0) /\ \A u \in Upstreams : upstream_latency[u] = 0
    BY <1>1, NamesType DEF Zero
  <2>4. QED
    BY <2>1, <2>2, <2>3, FiniteAssumption, SumZero
<1>6. CountInv
  <2>1. Pending = {} /\ \A P : "idle" \notin P => Waiting(P) = {}
    BY <1>2 DEF Pending, Waiting
  <2>2. /\ Waiting(BeforeTotal) = {} /\ Waiting(BeforeStatus) = {}
        /\ Waiting(BeforeFlagged) = {} /\ Waiting(BeforeLatency) = {}
    BY <2>1 DEF BeforeTotal, BeforeStatus, BeforeFlagged, BeforeLatency
  <2>3. Total(latency) = 0
    BY <1>5, EdgesType DEF Total
  <2>4. \A n \in Names : counters[n] = 0
    BY <1>1 DEF Zero
  <2>5. Cardinality({}) = 0
    BY FS_EmptySet
  <2>6. QED
    BY <1>1, <1>5, <2>1, <2>2, <2>3, <2>4, <2>5, NamesType DEF CountInv
<1>7. ReadInv
  <2>1. (\A n \in Names : counters[n] = 0) /\ \A u \in Upstreams : upstream_latency[u] = 0
    BY <1>1 DEF Zero
  <2>2. ~lock /\ reader.pc # "upstreams" /\ reader.read = Nothing
    BY <1>1
  <2>3. QED
    BY <2>1, <2>2, NothingRead DEF ReadInv
<1>8. LatencyInv
  <2>1. \A d \in Durations : took[d] = 0
    BY <1>1
  <2>2. QED
    BY <1>5, <2>1 DEF LatencyInv
<1>9. SharesOfTotal
  BY <1>1, NamesType, NothingRead DEF SharesOfTotal
<1>10. QED
  BY <1>3, <1>4, <1>6, <1>7, <1>8, <1>9 DEF Inv

LEMMA StepInv == Inv /\ [Next]_vars => Inv'
<1> SUFFICES ASSUME Inv, [Next]_vars PROVE Inv'
  OBVIOUS
<1>1. ASSUME NEW t \in Recorders, Step(t) PROVE Inv'
  BY <1>1, RecordKeeps, CountKeeps, ObserveLatencyKeeps, FindUpstreamKeeps, ObserveUpstreamKeeps
     DEF Step
<1>2. CASE Snapshot
  BY <1>2, CopyCountersKeeps, ReadUpstreamKeeps, ReleaseKeeps, ShowKeeps DEF Snapshot
<1>3. CASE UNCHANGED vars
  BY <1>3 DEF vars, Inv, NumbersOK, HistogramOK, EventInv, CountInv, ReadInv, LatencyInv,
              SharesOfTotal, Waiting, Pending
<1>4. QED
  BY <1>1, <1>2, <1>3 DEF Next

LEMMA SpecInv == Spec => []Inv
  BY InitInv, StepInv, PTL DEF Spec

LEMMA InvTypes ==
    ASSUME Inv
    PROVE  TypeOK
<1>0. NumbersOK /\ CountInv /\ ReadInv /\ LatencyInv
  BY DEF Inv
<1>1. recorded \in Nat /\ recorded <= MaxEvents
  BY <1>0, SizeAssumption DEF NumbersOK
<1>2. /\ Cardinality(Waiting(BeforeTotal)) \in Nat /\ Cardinality(Waiting(BeforeStatus)) \in Nat
      /\ Cardinality(Waiting(BeforeFlagged)) \in Nat /\ Cardinality(Waiting(BeforeLatency)) \in Nat
      /\ Cardinality(Pending) \in Nat
  <2>1. \A P : Waiting(P) \in SUBSET Recorders
    BY DEF Waiting
  <2>2. Pending \in SUBSET Recorders
    BY DEF Pending
  <2>3. QED
    BY <2>1, <2>2, WaitingIn
<1>3. Overflow \in 1..Overflow /\ Counts(latency.counts, 1..Overflow) /\ Total(latency) \in Nat
  BY <1>0, EdgesType, HistogramCounts DEF NumbersOK, Total
<1>4. /\ counters["requests_total"] <= recorded /\ SumOver(counters, Statuses) <= recorded
      /\ counters["flagged_total"] <= recorded /\ counters["rate_limited_total"] <= recorded
      /\ Total(latency) <= recorded /\ SumOver(upstream_latency, Upstreams) <= recorded
  <2>1. \A a, b \in Nat : a + b <= recorded => a <= recorded
    BY <1>1
  <2>2. \A a, b, c \in Nat : a + b + c <= recorded => a <= recorded /\ b <= recorded
    BY <1>1
  <2>3. \A a, b \in Nat : a + b = recorded => a <= recorded
    BY <1>1
  <2>4. /\ counters["requests_total"] \in Nat /\ counters["rate_limited_total"] \in Nat
        /\ counters["flagged_total"] \in Nat /\ SumOver(counters, Statuses) \in Nat
        /\ SumOver(upstream_latency, Upstreams) \in Nat
    BY <1>0, SumTypes
  <2>5. /\ counters["requests_total"] + Cardinality(Waiting(BeforeTotal)) = recorded
        /\ SumOver(counters, Statuses) + Cardinality(Waiting(BeforeStatus)) = recorded
        /\ counters["flagged_total"] + Cardinality(Waiting(BeforeFlagged)) <= recorded
        /\ Total(latency) + Cardinality(Waiting(BeforeLatency)) = recorded
        /\ SumOver(upstream_latency, Upstreams) + counters["rate_limited_total"]
              + Cardinality(Pending) <= recorded
    BY <1>0 DEF CountInv
  <2>6. QED
    BY <1>2, <1>3, <2>1, <2>2, <2>3, <2>4, <2>5, Zenon
<1>5. \A n \in Names : counters[n] \in Nat /\ counters[n] <= recorded
  <2>1. \A n \in Names : counters[n] \in Nat
    BY <1>0 DEF NumbersOK
  <2>2. \A n \in Statuses : counters[n] <= SumOver(counters, Statuses)
    BY <1>0, SumTypes, SumMember
  <2>3. \A n \in Statuses : counters[n] <= recorded
    BY <1>0, <1>1, <1>4, <2>1, <2>2, NamesType, SumTypes
  <2>4. QED
    BY <1>4, <2>1, <2>3 DEF Names, Totals
<1>6. \A u \in Upstreams : upstream_latency[u] \in Nat /\ upstream_latency[u] <= recorded
  <2>1. \A u \in Upstreams : upstream_latency[u] \in Nat
    BY <1>0 DEF NumbersOK
  <2>2. \A u \in Upstreams : upstream_latency[u] <= SumOver(upstream_latency, Upstreams)
    BY <1>0, SumTypes, SumMember
  <2>3. QED
    BY <1>0, <1>1, <1>4, <2>1, <2>2, SumTypes
<1>7. counters \in [Names -> 0..MaxEvents]
  <2>1. counters \in [Names -> Nat] /\ \A n \in Names : counters[n] \in 0..MaxEvents
    BY <1>0, <1>1, <1>5, SizeAssumption DEF NumbersOK
  <2>2. QED
    BY <2>1
<1>8. upstream_latency \in [Upstreams -> 0..MaxEvents]
  <2>1. /\ upstream_latency \in [Upstreams -> Nat]
        /\ \A u \in Upstreams : upstream_latency[u] \in 0..MaxEvents
    BY <1>0, <1>1, <1>6, SizeAssumption DEF NumbersOK
  <2>2. QED
    BY <2>1
<1>9. latency \in [counts : [1..Overflow -> 0..MaxEvents], max : Durations \cup {0}]
  <2> DEFINE f == latency.counts
             m == latency.max
  <2>1. /\ latency = [counts |-> f, max |-> m]
        /\ f \in [1..Overflow -> Nat] /\ m \in Durations \cup {0}
    BY <1>0 DEF NumbersOK, HistogramOK
  <2>2. ASSUME NEW i \in 1..Overflow PROVE f[i] \in 0..MaxEvents
    <3>1. f[i] <= Total(latency)
      BY <1>3, SumMember DEF Total, UpTo
    <3>2. f[i] \in Nat
      BY <2>1
    <3>3. QED
      BY <1>1, <1>3, <1>4, <3>1, <3>2, SizeAssumption
  <2> HIDE DEF f, m
  <2>3. f \in [1..Overflow -> 0..MaxEvents]
    BY <2>1, <2>2
  <2>4. QED
    BY <2>1, <2>3
<1>10. took \in [Durations -> 0..MaxEvents]
  <2> DEFINE S == {d \in Durations : BucketOf(d) <= Overflow}
  <2>1. S = Durations
    <3>1. \A d \in Durations : BucketOf(d) \in 1..Overflow
      BY TimesAssumption, BucketBounds
    <3>2. QED
      BY <3>1, EdgesType
  <2>2. SumOver(took, S) = Total(latency)
    BY <1>0, <1>3 DEF LatencyInv, Total
  <2> HIDE DEF S
  <2>3. took \in [Durations -> Nat] /\ \A d \in Durations : took[d] <= Total(latency)
    BY <1>0, <2>1, <2>2, SumTypes, SumMember DEF NumbersOK
  <2>4. \A d \in Durations : took[d] \in 0..MaxEvents
    BY <1>1, <1>3, <1>4, <2>3, SizeAssumption
  <2>5. QED
    BY <2>3, <2>4
<1>11. reader \in [pc : {"idle", "upstreams", "latency"}, left : SUBSET Upstreams,
                   read : Snapshots]
  <2> DEFINE c == reader.read.counters
             v == reader.read.upstreams
  <2>1. reader \in Reading /\ reader.read \in Read
    BY <1>0 DEF NumbersOK, Reading
  <2>2. /\ c \in [Names -> Nat] /\ v \in [Upstreams -> Nat]
        /\ reader.read = [counters |-> c, upstreams |-> v]
    BY <2>1 DEF Read
  <2>3. \A n \in Names : c[n] <= counters[n]
    BY <1>0 DEF ReadInv
  <2>4. \A u \in Upstreams : v[u] <= upstream_latency[u]
    BY <1>0 DEF ReadInv
  <2> HIDE DEF c, v
  <2>5. \A n \in Names : c[n] \in 0..MaxEvents
    BY <1>1, <1>5, <2>2, <2>3, SizeAssumption
  <2>6. \A u \in Upstreams : v[u] \in 0..MaxEvents
    BY <1>1, <1>6, <2>2, <2>4, SizeAssumption
  <2>7. c \in [Names -> 0..MaxEvents] /\ v \in [Upstreams -> 0..MaxEvents]
    BY <2>2, <2>5, <2>6
  <2>8. reader.read \in Snapshots
    BY <2>2, <2>7 DEF Snapshots
  <2>9. QED
    BY <2>1, <2>8 DEF Reading
<1>12. /\ lock \in BOOLEAN /\ recorded \in 0..MaxEvents
       /\ recorder \in [Recorders -> [pc : {"idle", "total", "status", "limited", "flagged",
                                           "latency", "upstream", "found"},
                                     event : Events \cup {None}]]
  BY <1>0 DEF NumbersOK, Recording, Pcs
<1>13. QED
  BY <1>7, <1>8, <1>9, <1>10, <1>11, <1>12 DEF TypeOK

\* Counters, histograms and what a snapshot has read keep their types and stay
\* within the number of events recorded (telemetry.py: record, snapshot).
THEOREM TypeCorrect == Spec => []TypeOK
  BY SpecInv, InvTypes, PTL

\* No snapshot shows more limited, flagged, answered or forwarded requests than
\* requests, wherever the recorders are while it is taken (telemetry.py:
\* record, snapshot), for any number of recorders and upstreams.
THEOREM SharesBounded == Spec => []SharesOfTotal
<1>1. Inv => SharesOfTotal
  BY DEF Inv
<1>2. QED
  BY <1>1, SpecInv, PTL

LEMMA InvNothingLost ==
    ASSUME Inv
    PROVE  NothingLost
<1> SUFFICES ASSUME \A t \in Recorders : recorder[t].pc = "idle"
             PROVE  /\ counters["requests_total"] = recorded
                    /\ SumOver(counters, Statuses) = recorded
                    /\ Total(latency) = recorded
                    /\ SumOver(upstream_latency, Upstreams)
                         <= recorded - counters["rate_limited_total"]
  BY DEF NothingLost
<1>0. NumbersOK /\ CountInv
  BY DEF Inv
<1>1. Pending = {} /\ \A P : "idle" \notin P => Waiting(P) = {}
  BY DEF Pending, Waiting, MayCount
<1>2. /\ Waiting(BeforeTotal) = {} /\ Waiting(BeforeStatus) = {}
      /\ Waiting(BeforeFlagged) = {} /\ Waiting(BeforeLatency) = {}
  BY <1>1 DEF BeforeTotal, BeforeStatus, BeforeFlagged, BeforeLatency
<1>3. Cardinality({}) = 0
  BY FS_EmptySet
<1>4. Total(latency) \in Nat /\ recorded \in Nat
  BY <1>0, EdgesType, HistogramCounts, SizeAssumption DEF NumbersOK, Total
<1>5. QED
  BY <1>0, <1>1, <1>2, <1>3, <1>4, SumTypes DEF CountInv

\* Once no thread is inside record(), every event called for has been counted
\* once in requests_total, in its status and in the overall histogram, and at
\* most once at an upstream (telemetry.py: record).
THEOREM NothingIsLost == Spec => []NothingLost
  BY SpecInv, InvNothingLost, PTL

-----------------------------------------------------------------------------
(****************************************************************************)
(* Percentiles.                                                             *)
(****************************************************************************)

LEMMA ProductAtMost ==
    ASSUME NEW p \in Nat, NEW n \in Nat, p <= 100
    PROVE  p * n <= 100 * n
  OBVIOUS

LEMMA ProductPositive ==
    ASSUME NEW p \in Nat \ {0}, NEW n \in Nat \ {0}
    PROVE  p * n \in Nat /\ p * n > 0
  OBVIOUS

\* If enough of the values are at most b, so is the exact percentile.
LEMMA QuantileBelow ==
    ASSUME NEW times \in [Durations -> Nat], NEW p \in 1..100, NEW b \in Nat,
           SumOver(times, Durations) > 0,
           100 * SumOver(times, {x \in Durations : x <= b}) >= p * SumOver(times, Durations)
    PROVE  Quantile(times, p) <= b
<1> DEFINE all     == SumOver(times, Durations)
           Upto(v) == {x \in Durations : x <= v}
           S       == Upto(b)
           Q       == {v \in Durations : 100 * SumOver(times, Upto(v)) >= p * all}
<1>1. Durations \subseteq Nat /\ IsFiniteSet(Durations)
  BY TimesAssumption, FiniteAssumption
<1>2. Counts(times, Durations) /\ all \in Nat \ {0}
  <2>1. Counts(times, Durations)
    BY <1>1 DEF Counts
  <2>2. QED
    BY <2>1, SumType
<1>3. S # {}
  <2>1. p * all > 0 /\ p * all \in Nat
    BY <1>2, ProductPositive
  <2>2. 100 * SumOver(times, S) >= p * all
    OBVIOUS
  <2> HIDE DEF all, S
  <2>3. SumOver(times, S) # 0
    <3>1. CASE SumOver(times, S) = 0
      <4>1. 0 >= p * all
        BY <2>2, <3>1
      <4> DEFINE n == p * all
      <4>2. n \in Nat /\ n > 0 /\ 0 >= n
        BY <2>1, <4>1
      <4> HIDE DEF n
      <4>3. QED
        BY <4>2
    <3>2. QED
      BY <3>1
  <2>4. QED
    BY <2>3, SumEmpty
<1>4. PICK m \in S : \A x \in S : x <= m
  <2> DEFINE T == {b - x : x \in S}
  <2>1. \A x \in S : x \in Nat /\ x <= b
    BY <1>1
  <2> HIDE DEF S
  <2>2. T \in SUBSET Nat /\ T # {}
    BY <1>3, <2>1
  <2>3. PICK k \in T : \A j \in T : k <= j
    BY <2>2, LeastNatural
  <2>4. PICK m \in S : k = b - m
    BY <2>3
  <2>5. \A x \in S : b - m <= b - x
    BY <2>3, <2>4
  <2>6. \A x \in S : x <= m
    BY <2>1, <2>5
  <2>7. QED
    BY <2>6
<1>5. m \in Nat /\ m <= b /\ m \in Durations
  BY <1>1
<1>6. Upto(m) = S
  <2>1. \A x \in Durations : x <= m => x <= b
    BY <1>1, <1>5
  <2>2. \A x \in Durations : x <= b => x <= m
    BY <1>4
  <2>3. QED
    BY <2>1, <2>2
<1>7. m \in Q
  BY <1>5, <1>6
<1>8. Quantile(times, p) = Min(Q)
  BY DEF Quantile
<1>9. Q \in SUBSET Nat /\ Q # {}
  BY <1>1, <1>7
<1> HIDE DEF Q
<1>10. Min(Q) \in Nat /\ Min(Q) <= m
  BY <1>7, <1>9, MinOf
<1>11. QED
  BY <1>5, <1>8, <1>10

LEMMA ReachingBucket ==
    ASSUME HistogramOK(latency), NEW p \in 1..100
    PROVE  /\ Reaching(latency, p) \in 1..Overflow
           /\ 100 * UpTo(latency, Reaching(latency, p)) >= p * Total(latency)
<1> DEFINE R == {i \in 1..Overflow : 100 * UpTo(latency, i) >= p * Total(latency)}
<1>1. Overflow \in 1..Overflow /\ R \in SUBSET Nat
  BY EdgesType
<1>2. UpTo(latency, Overflow) \in Nat /\ Total(latency) = UpTo(latency, Overflow)
  BY <1>1, HistogramCounts DEF Total
<1>3. p * Total(latency) <= 100 * Total(latency)
  BY <1>2, ProductAtMost
<1>4. Overflow \in R
  <2> DEFINE n == UpTo(latency, Overflow)
             q == p * n
  <2>1. n \in Nat /\ q <= 100 * n /\ q \in Int
    BY <1>2, <1>3
  <2> HIDE DEF n, q
  <2>2. 100 * n >= q
    BY <2>1
  <2>3. QED
    BY <1>1, <1>2, <2>2 DEF n, q
<1>5. Reaching(latency, p) = Min(R)
  BY DEF Reaching
<1>6. Min(R) \in R
  <2> HIDE DEF R
  <2>1. QED
    BY <1>1, <1>4, MinOf
<1>7. QED
  BY <1>5, <1>6

LEMMA InvPercentiles ==
    ASSUME Inv
    PROVE  PercentilesBound
<1> SUFFICES ASSUME Total(latency) > 0, NEW p \in Percents
             PROVE  Percentile(latency, p) >= Quantile(took, p)
  BY DEF PercentilesBound
<1> DEFINE r == Reaching(latency, p)
<1>0. /\ HistogramOK(latency) /\ LatencyInv /\ p \in 1..100
      /\ took \in [Durations -> Nat] /\ NumbersOK
      /\ latency.max \in Nat
  BY TimesAssumption DEF Inv, NumbersOK, HistogramOK
<1>1. r \in 1..Overflow /\ 100 * UpTo(latency, r) >= p * Total(latency)
  BY <1>0, ReachingBucket
<1>2. Overflow \in 1..Overflow /\ Total(latency) \in Nat /\ Total(latency) # 0
  BY <1>0, EdgesType, HistogramCounts DEF Total
<1>3. \A d \in Durations : d \in Nat /\ BucketOf(d) \in 1..Overflow
  BY TimesAssumption, BucketBounds
<1>4. SumOver(took, Durations) = Total(latency)
  <2>1. {d \in Durations : BucketOf(d) <= Overflow} = Durations
    BY <1>3, EdgesType
  <2>2. QED
    BY <1>0, <1>2, <2>1 DEF LatencyInv, Total
<1> HIDE DEF r
<1>5. CASE r = Overflow
  <2>1. Percentile(latency, p) = latency.max
    BY <1>2, <1>5 DEF Percentile, r
  <2> DEFINE S == {x \in Durations : x <= latency.max}
  <2>2. SumOver(took, S) = SumOver(took, Durations)
    <3>1. ASSUME NEW x \in Durations \ S PROVE took[x] = 0
      <4>1. took[x] \in Nat /\ ~(x <= latency.max)
        BY <1>0
      <4>2. ~(took[x] > 0)
        BY <1>0, <4>1 DEF LatencyInv
      <4>3. QED
        BY <4>1, <4>2
    <3>2. Counts(took, Durations) /\ S \in SUBSET Durations
      BY <1>0, SumTypes
    <3> HIDE DEF S
    <3>3. QED
      BY <3>1, <3>2, SumSupport
  <2>3. 100 * SumOver(took, S) >= p * SumOver(took, Durations)
    BY <1>1, <1>4, <1>5, <2>2 DEF Total
  <2>4. Quantile(took, p) <= latency.max
    BY <1>0, <1>2, <1>4, <2>3, QuantileBelow
  <2>5. QED
    BY <2>1, <2>4
<1>6. CASE r # Overflow
  <2>1. r \in 1..Len(Edges) /\ Edges[r] \in Nat
    BY <1>1, <1>6, EdgesType
  <2>2. Percentile(latency, p) = Edges[r]
    BY <1>2, <1>6 DEF Percentile, r
  <2>3. {d \in Durations : BucketOf(d) <= r} = {x \in Durations : x <= Edges[r]}
    BY <1>3, <2>1, BucketBounds
  <2>4. UpTo(latency, r) = SumOver(took, {x \in Durations : x <= Edges[r]})
    BY <1>0, <1>1, <2>3 DEF LatencyInv
  <2>5. 100 * SumOver(took, {x \in Durations : x <= Edges[r]}) >= p * SumOver(took, Durations)
    BY <1>1, <1>4, <2>4
  <2>6. Quantile(took, p) <= Edges[r]
    BY <1>0, <1>2, <1>4, <2>1, <2>5, QuantileBelow
  <2>7. QED
    BY <2>2, <2>6
<1>7. QED
  BY <1>5, <1>6

\* Each percentile that is read is an upper bound of the exact one, for any
\* durations, any increasing edges and any percentile from 1 to 100
\* (telemetry.py: Histogram.percentile).
THEOREM PercentilesAreBounds == Spec => []PercentilesBound
  BY SpecInv, InvPercentiles, PTL
===============================================================================
