------------------------------ MODULE Histogram ------------------------------
(****************************************************************************)
(* The latency histogram of gateway/telemetry.py: a count for each bucket   *)
(* and one for everything above the last edge, and the maximum.  Each call  *)
(* holds the histogram's lock throughout, so that these are functions of a  *)
(* histogram.  The sum and the minimum are left out.                        *)
(****************************************************************************)
EXTENDS Integers, Sequences, FiniteSetsExt

CONSTANT Edges      \* LATENCY_BUCKETS_MS, in increasing order

ASSUME EdgesAssumption ==
    /\ Edges \in Seq(Nat \ {0})
    /\ \A i, j \in DOMAIN Edges : i < j => Edges[i] < Edges[j]

Overflow == Len(Edges) + 1

NewHistogram == [counts |-> [i \in 1..Overflow |-> 0], max |-> 0]

\* The first bucket whose edge is not below the value.
BucketOf(v) == Min({i \in 1..Len(Edges) : v <= Edges[i]} \cup {Overflow})

\* Histogram.observe
Observed(h, v) == [counts |-> [h.counts EXCEPT ![BucketOf(v)] = @ + 1],
                   max    |-> Max({v, h.max})]

SumOver(f, S) == MapThenSumSet(LAMBDA x : f[x], S)

UpTo(h, i) == SumOver(h.counts, 1..i)
Total(h)   == UpTo(h, Overflow)

\* The bucket that holds the p-th percentile of a histogram with observations.
Reaching(h, p) == Min({i \in 1..Overflow : 100 * UpTo(h, i) >= p * Total(h)})

\* Mutant of Percentile: the lower edge of the bucket.
PercentileLowerEdge(h, p) ==
    IF Total(h) = 0 \/ Reaching(h, p) = 1 THEN 0 ELSE Edges[Reaching(h, p) - 1]

\* Histogram.percentile
Percentile(h, p) ==
    IF Total(h) = 0 THEN 0
    ELSE IF Reaching(h, p) = Overflow THEN h.max
    ELSE Edges[Reaching(h, p)]

\* The exact p-th percentile of values, given how often each occurred; what
\* Percentile is measured against.
Quantile(times, p) ==
    LET upTo(v) == SumOver(times, {x \in DOMAIN times : x <= v})
    IN  Min({v \in DOMAIN times : 100 * upTo(v) >= p * SumOver(times, DOMAIN times)})
=============================================================================
