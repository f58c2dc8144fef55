-------------------------- MODULE SlidingWindowProofs --------------------------
(****************************************************************************)
(* Safety of the sliding-window counter, for any limit, window and wait for *)
(* the lock.                                                                *)
(*                                                                          *)
(* Most of it is about what check() finds: the counter rolled to a reading  *)
(* that may be older than the one it was rolled to last (Found).            *)
(****************************************************************************)
EXTENDS SlidingWindow, TLAPS

USE LimitAssumption, LengthAssumption, DelayAssumption, PatienceAssumption, NoneAssumption

-----------------------------------------------------------------------------
\* A counter never promises more than its limit: what is left of the previous
\* window counts for one tick at least.
Fits(w) == w.current * Length + w.previous <= Limit * Length

CounterInv == counter # None => Fits(counter)

\* Once a request of the stretch has passed, the counter has it: as part of the
\* current window, or of the previous one if the stretch has seen a roll.  The
\* stretch is too short to see another.
StretchInv ==
    window.passed > 0 /\ window.age < Span =>
        /\ counter # None
        /\ \/ /\ window.passed <= counter.current
              /\ counter.age < Length + MaxDelay + window.age
           \/ /\ window.passed <= counter.current + counter.previous
              /\ counter.age < MaxDelay + window.age

\* One more request is not too many when the window is t ticks old.
OpenAt(w, t) ==
    \/ t < Length /\ w.current * Length + w.previous * (Length - t) + Length <= Limit * Length
    \/ t >= Length /\ t < 2 * Length /\ w.current * (2 * Length - t) + Length <= Limit * Length
    \/ t >= 2 * Length

RetryInv ==
    carried /\ wait # None /\ counter # None => OpenAt(counter, counter.age + wait)

Inv == TypeOK /\ CounterInv /\ StretchInv /\ NoDoubleBurst /\ RetryInv

-----------------------------------------------------------------------------
(****************************************************************************)
(* Arithmetic.                                                              *)
(****************************************************************************)

LEMMA ProductGrows ==
    ASSUME NEW a \in Nat, NEW b \in Int, NEW c \in Int, b <= c
    PROVE  a * b <= a * c /\ a * b \in Int /\ a * c \in Int
  OBVIOUS

LEMMA Distributes ==
    ASSUME NEW a \in Int, NEW b \in Int, NEW c \in Int
    PROVE  /\ a * (b + c) = a * b + a * c /\ a * (b - c) = a * b - a * c
           /\ a * b = b * a /\ a * b \in Int /\ a * c \in Int
  OBVIOUS

LEMMA CeilDivCovers ==
    ASSUME NEW a \in Nat \ {0}, NEW b \in Nat \ {0}
    PROVE  CeilDiv(a, b) \in Nat /\ b * CeilDiv(a, b) >= a
<1> DEFINE q == (a + b - 1) \div b
           m == (a + b - 1) % b
<1>1. a + b - 1 \in Nat /\ b > 0
  OBVIOUS
<1>2. q \in Nat /\ m \in 0..(b - 1) /\ a + b - 1 = b * q + m
  BY <1>1
<1> HIDE DEF q, m
<1>3. q \in Nat /\ b * q >= a
  BY <1>2
<1>4. QED
  BY <1>3 DEF CeilDiv, q

LEMMA SpanType == Span \in Nat \ {0} /\ Span + MaxDelay = Length /\ MaxDelay \in Nat
  BY DEF Span

LEMMA CountersType ==
    ASSUME NEW w \in Counter
    PROVE  /\ w.current \in Nat /\ w.current <= Limit
           /\ w.previous \in Nat /\ w.previous <= Limit
           /\ w.age \in Nat /\ w.age <= LastAge
           /\ w # None
  BY DEF Counter, LastAge

\* Two whole bursts do not fit in a counter.
LEMMA FewerThanTwice ==
    ASSUME NEW w \in Counter, Fits(w)
    PROVE  w.current + w.previous < 2 * Limit
<1>1. CASE w.current = Limit /\ w.previous = Limit
  BY <1>1, CountersType DEF Fits
<1>2. CASE w.current # Limit \/ w.previous # Limit
  BY <1>2, CountersType
<1>3. QED
  BY <1>1, <1>2

-----------------------------------------------------------------------------
(****************************************************************************)
(* What check() finds.                                                      *)
(****************************************************************************)

LEMMA FreshFits ==
    ASSUME NEW lag \in Lags
    PROVE  /\ Fresh(lag) \in Counter /\ Fits(Fresh(lag))
           /\ Fresh(lag).current = 0 /\ Fresh(lag).previous = 0 /\ Fresh(lag).age = lag
<1>1. lag \in Nat /\ lag <= MaxDelay
  BY DEF Lags
<1>2. Fresh(lag) \in Counter
  BY <1>1 DEF Fresh, Counter, LastAge
<1>3. 0 <= Limit * Length
  OBVIOUS
<1>4. QED
  BY <1>2, <1>3 DEF Fresh, Fits

\* The counter as it is, rolled once, or a new one.
LEMMA Found ==
    ASSUME TypeOK, CounterInv, NEW lag \in Lags
    PROVE  LET w == Current(lag)
           IN  /\ w \in Counter /\ Fits(w) /\ w.age - lag < Length
               /\ \/ counter # None /\ w = counter
                  \/ /\ counter # None /\ counter.age >= Length + lag
                     /\ counter.age < 2 * Length + lag
                     /\ w.current = 0 /\ w.previous = counter.current
                     /\ w.age = counter.age - Length
                  \/ /\ counter = None \/ counter.age >= 2 * Length + lag
                     /\ w.current = 0 /\ w.previous = 0 /\ w.age = lag
<1> DEFINE w == Current(lag)
<1>0. lag \in Nat /\ lag <= MaxDelay
  BY DEF Lags
<1>1. CASE counter = None
  <2>1. w = Fresh(lag)
    BY <1>1 DEF Current
  <2>2. QED
    BY <1>0, <1>1, <2>1, FreshFits
<1>2. CASE counter # None
  <2>1. counter \in Counter /\ Fits(counter) /\ w = Roll(counter, lag)
    BY <1>2 DEF TypeOK, CounterInv, Current
  <2>2. counter.age \in Nat
    BY <2>1, CountersType
  <2>3. CASE counter.age - lag < Length
    <3>1. w = counter
      BY <2>1, <2>3 DEF Roll, Elapsed
    <3>2. QED
      BY <1>2, <2>1, <2>3, <3>1
  <2>4. CASE counter.age - lag >= Length /\ counter.age - lag < 2 * Length
    <3>1. w = [current |-> 0, previous |-> counter.current, age |-> counter.age - Length]
      BY <2>1, <2>2, <2>4, <1>0 DEF Roll, Elapsed
    <3>2. /\ counter.current \in 0..Limit
          /\ counter.age - Length \in 0..LastAge
      BY <1>0, <2>1, <2>2, <2>4, CountersType DEF LastAge
    <3>3. w \in Counter
      BY <3>1, <3>2 DEF Counter
    <3>4. Limit <= Limit * Length
      OBVIOUS
    <3>5. Fits(w)
      BY <3>1, <3>2, <3>4 DEF Fits
    <3>6. QED
      BY <1>0, <1>2, <2>2, <2>4, <3>1, <3>3, <3>5
  <2>5. CASE counter.age - lag >= 2 * Length
    <3>1. w = Fresh(lag)
      BY <2>1, <2>2, <2>5, <1>0 DEF Roll, Elapsed
    <3>2. QED
      BY <1>0, <2>2, <2>5, <3>1, FreshFits
  <2>6. QED
    BY <1>0, <2>2, <2>3, <2>4, <2>5
<1>3. QED
  BY <1>1, <1>2

\* A counter that lets a request pass still fits with it.
LEMMA PassFits ==
    ASSUME NEW w \in Counter, NEW lag \in Lags, w.age - lag < Length, Excess(w, lag) <= 0
    PROVE  LET v == [w EXCEPT !.current = @ + 1]
           IN  /\ v \in Counter /\ Fits(v)
               /\ v.current = w.current + 1 /\ v.previous = w.previous /\ v.age = w.age
<1> DEFINE left == Length - (w.age - lag)
<1>1. lag \in Nat /\ left \in Int /\ left >= 1
  BY CountersType DEF Lags
<1>2. w.current * Length + w.previous * left + Length <= Limit * Length
  BY <1>1, CountersType DEF Excess, Estimate, Elapsed
<1>3. w.previous * left >= w.previous
  BY <1>1, CountersType, ProductGrows
<1>4. (w.current + 1) * Length = w.current * Length + Length
  BY CountersType
<1> HIDE DEF left
<1>5. (w.current + 1) * Length + w.previous <= Limit * Length
  BY <1>1, <1>2, <1>3, <1>4, CountersType
<1>6. w.current + 1 <= Limit
  <2>1. (w.current + 1) * Length <= Limit * Length
    BY <1>5, CountersType
  <2>2. ASSUME w.current + 1 > Limit PROVE FALSE
    <3>1. Length * (w.current + 1) >= Length * (Limit + 1)
      BY <2>2, CountersType, ProductGrows
    <3>2. QED
      BY <2>1, <3>1, CountersType, Distributes
  <2>3. QED
    BY <2>2, CountersType
<1>7. [w EXCEPT !.current = @ + 1] \in Counter
  BY <1>6 DEF Counter
<1>8. QED
  BY <1>5, <1>7 DEF Fits, Counter

-----------------------------------------------------------------------------
(****************************************************************************)
(* How long a denied client waits.                                          *)
(****************************************************************************)

\* What is open stays open while time passes and nothing else happens.
LEMMA StaysOpen ==
    ASSUME NEW w \in Counter, Fits(w), NEW t \in Nat, OpenAt(w, t)
    PROVE  OpenAt(w, t + 1)
<1>0. /\ w.current \in Nat /\ w.current <= Limit
      /\ w.previous \in Nat /\ w.previous <= Limit /\ w.age \in Nat
  BY CountersType
<1>1. CASE t + 1 < Length
  <2>1. w.previous * (Length - (t + 1)) <= w.previous * (Length - t)
    BY <1>0, ProductGrows
  <2>2. w.current * Length + w.previous * (Length - t) + Length <= Limit * Length
    BY <1>0, <1>1 DEF OpenAt
  <2>3. QED
    BY <1>0, <1>1, <2>1, <2>2 DEF OpenAt
<1>2. CASE t + 1 = Length
  <2>1. w.current * Length + w.previous * 1 + Length <= Limit * Length
    BY <1>0, <1>2 DEF OpenAt
  <2>2. 2 * Length - (t + 1) = Length
    BY <1>0, <1>2
  <2>3. w.current * (2 * Length - (t + 1)) + Length <= Limit * Length
    BY <1>0, <2>1, <2>2
  <2>4. QED
    BY <1>0, <1>2, <2>3 DEF OpenAt
<1>3. CASE t + 1 > Length /\ t + 1 < 2 * Length
  <2>1. w.current * (2 * Length - (t + 1)) <= w.current * (2 * Length - t)
    BY <1>0, ProductGrows
  <2>2. w.current * (2 * Length - t) + Length <= Limit * Length
    BY <1>0, <1>3 DEF OpenAt
  <2>3. QED
    BY <1>0, <1>3, <2>1, <2>2 DEF OpenAt
<1>4. CASE t + 1 >= 2 * Length
  BY <1>0, <1>4 DEF OpenAt
<1>5. QED
  BY <1>0, <1>1, <1>2, <1>3, <1>4

\* retry_after of a denial that the previous window carries ends when one more
\* request would pass.
LEMMA RetryOpens ==
    ASSUME NEW w \in Counter, Fits(w), NEW lag \in Lags, w.age - lag < Length,
           w.previous > 0, Excess(w, lag) > 0
    PROVE  RetryAfter(w, lag) \in Nat /\ OpenAt(w, w.age + RetryAfter(w, lag))
<1> DEFINE left == Length - (w.age - lag)
           e    == Excess(w, lag)
           k    == RetryAfter(w, lag)
           t    == w.age + k
<1>0. /\ w.current \in Nat /\ w.current <= Limit
      /\ w.previous \in Nat /\ w.previous <= Limit /\ w.age \in Nat
  BY CountersType
<1>1. lag \in Nat /\ left \in Nat \ {0}
  BY <1>0 DEF Lags
<1>2. /\ w.current * Length \in Int /\ w.previous * left \in Int /\ Limit * Length \in Int
      /\ e = w.current * Length + w.previous * left + Length - Limit * Length
  BY <1>0, <1>1 DEF Excess, Estimate, Elapsed
<1>3. e \in Nat \ {0} /\ k = CeilDiv(e, w.previous)
  BY <1>0, <1>2 DEF RetryAfter
<1> HIDE DEF e, k
<1>4. k \in Nat /\ w.previous * k >= e /\ w.previous * k \in Int
  BY <1>0, <1>3, CeilDivCovers
<1>5. t \in Nat /\ left = Length - w.age + lag /\ t = Length - left + lag + k
  BY <1>0, <1>1, <1>4
<1> HIDE DEF left, t
<1>6. ASSUME t < Length
      PROVE  OpenAt(w, t)
  <2>1. w.previous * (Length - t) <= w.previous * (left - k)
    BY <1>0, <1>1, <1>4, <1>5, ProductGrows
  <2>2. w.previous * (left - k) = w.previous * left - w.previous * k
    BY <1>0, <1>1, <1>4
  <2>3. w.previous * (Length - t) \in Int
    BY <1>0, <1>5
  <2>4. w.current * Length + w.previous * (Length - t) + Length <= Limit * Length
    BY <1>0, <1>2, <1>3, <1>4, <2>1, <2>2, <2>3
  <2>5. QED
    BY <1>0, <1>6, <2>4 DEF OpenAt
<1>7. ASSUME t >= Length /\ t < 2 * Length
      PROVE  OpenAt(w, t)
  <2>1. CASE w.current < Limit
    <3>1. w.current * (2 * Length - t) <= w.current * Length
      BY <1>0, <1>5, <1>7, ProductGrows
    <3>2. Length * (w.current + 1) = Length * w.current + Length * 1
      BY <1>0, Distributes
    <3>3. Length * (w.current + 1) <= Length * Limit
      BY <1>0, <2>1, ProductGrows
    <3>4. w.current * (2 * Length - t) + Length <= Limit * Length
      BY <1>0, <1>5, <3>1, <3>2, <3>3, Distributes
    <3>5. QED
      BY <1>0, <1>7, <3>4 DEF OpenAt
  <2>2. CASE w.current = Limit
    <3>1. w.previous * k >= w.previous * left + Length
      BY <1>0, <1>2, <1>3, <1>4, <2>2
    <3>2. w.previous * (k - left) >= Length
      BY <1>0, <1>1, <1>4, <3>1
    <3>3. w.previous * (k - left) <= w.previous * (t - Length)
      BY <1>0, <1>1, <1>4, <1>5, ProductGrows
    <3>4. (t - Length) * w.previous <= (t - Length) * Limit
      BY <1>0, <1>5, <1>7, ProductGrows
    <3>5. (t - Length) * Limit >= Length
      BY <1>0, <1>1, <1>4, <1>5, <1>7, <3>2, <3>3, <3>4, Distributes
    <3>6. w.current * (2 * Length - t) = Limit * Length - (t - Length) * Limit
      BY <1>0, <1>5, <2>2
    <3>7. w.current * (2 * Length - t) + Length <= Limit * Length
      BY <1>0, <1>5, <3>5, <3>6
    <3>8. QED
      BY <1>0, <1>7, <3>7 DEF OpenAt
  <2>3. QED
    BY <1>0, <2>1, <2>2
<1>8. ASSUME t >= 2 * Length
      PROVE  OpenAt(w, t)
  BY <1>0, <1>8 DEF OpenAt
<1>9. QED
  BY <1>0, <1>4, <1>5, <1>6, <1>7, <1>8 DEF k, t

-----------------------------------------------------------------------------
(****************************************************************************)
(* The steps.                                                               *)
(****************************************************************************)

LEMMA WindowType ==
    ASSUME TypeOK
    PROVE  window.age \in Nat /\ window.age <= Span /\ window.passed \in Nat
  BY SpanType DEF TypeOK

LEMMA AllowKeeps ==
    ASSUME Inv, NEW lag \in Lags, Allow(lag)
    PROVE  Inv'
<1> DEFINE w == Current(lag)
           v == [w EXCEPT !.current = @ + 1]
<1>1. /\ w \in Counter /\ Fits(w) /\ w.age - lag < Length
      /\ \/ counter # None /\ w = counter
         \/ /\ counter # None /\ counter.age >= Length + lag
            /\ counter.age < 2 * Length + lag
            /\ w.current = 0 /\ w.previous = counter.current
            /\ w.age = counter.age - Length
         \/ /\ counter = None \/ counter.age >= 2 * Length + lag
            /\ w.current = 0 /\ w.previous = 0 /\ w.age = lag
  BY Found DEF Inv
<1>2. counter' = v /\ wait' = None /\ carried' = carried /\ Excess(w, lag) <= 0
  BY DEF Allow
<1> HIDE DEF w
<1>3. /\ v \in Counter /\ Fits(v)
      /\ v.current = w.current + 1 /\ v.previous = w.previous /\ v.age = w.age
  BY <1>1, <1>2, PassFits
<1> HIDE DEF v
<1>4. lag \in Nat /\ lag <= MaxDelay
  BY DEF Lags
<1>5. window.age \in Nat /\ window.age <= Span /\ window.passed \in Nat
  BY WindowType DEF Inv
<1>6. counter # None => counter \in Counter
  BY DEF Inv, TypeOK
<1>7. CASE window.age < Span
  <2>1. /\ window' = [window EXCEPT !.passed = @ + 1]
        /\ window'.age = window.age /\ window'.passed = window.passed + 1
        /\ window' \in [age : 0..Span, passed : Nat]
    BY <1>7 DEF Allow, Inv, TypeOK
  <2>2. counter' # None /\ counter' \in Counter
    BY <1>2, <1>3, CountersType
  <2>3. TypeOK'
    BY <1>2, <2>1, <2>2 DEF Inv, TypeOK
  <2>4. \/ /\ window.passed + 1 <= v.current
           /\ v.age < Length + MaxDelay + window.age
        \/ /\ window.passed + 1 <= v.current + v.previous
           /\ v.age < MaxDelay + window.age
    <3>0. /\ w.current \in Nat /\ w.previous \in Nat /\ w.age \in Nat
          /\ v.current \in Nat /\ v.previous \in Nat /\ v.age \in Nat
      BY <1>1, <1>3, CountersType
    <3>1. CASE window.passed = 0
      <4>1. v.current >= 1 /\ v.age < Length + MaxDelay
        BY <1>1, <1>3, <1>4, <3>0
      <4>2. QED
        BY <1>5, <3>0, <3>1, <4>1, SpanType
    <3>2. CASE window.passed > 0
      <4>1. /\ counter # None
            /\ \/ /\ window.passed <= counter.current
                  /\ counter.age < Length + MaxDelay + window.age
               \/ /\ window.passed <= counter.current + counter.previous
                  /\ counter.age < MaxDelay + window.age
        BY <1>7, <3>2 DEF Inv, StretchInv
      <4>2. counter.age \in Nat /\ counter.current \in Nat /\ counter.previous \in Nat
        BY <1>6, <4>1, CountersType
      <4>3. counter.age < 2 * Length
        BY <1>5, <1>7, <4>1, <4>2, SpanType
      <4>4. CASE w = counter
        BY <1>3, <1>5, <3>0, <4>1, <4>2, <4>4, SpanType
      <4>5. CASE /\ counter.age >= Length + lag /\ w.current = 0
                 /\ w.previous = counter.current /\ w.age = counter.age - Length
        <5>1. window.passed <= counter.current /\ counter.age < Length + MaxDelay + window.age
          BY <1>4, <1>5, <1>7, <4>1, <4>2, <4>5, SpanType
        <5>2. QED
          BY <1>3, <1>5, <3>0, <4>2, <4>5, <5>1, SpanType
      <4>6. QED
        BY <1>1, <1>4, <4>1, <4>2, <4>3, <4>4, <4>5
    <3>3. QED
      BY <1>5, <3>1, <3>2
  <2>5. StretchInv'
    BY <1>2, <2>1, <2>2, <2>4 DEF StretchInv
  <2>6. NoDoubleBurst'
    <3>1. v.current + v.previous < 2 * Limit /\ v.current \in Nat /\ v.previous \in Nat
      BY <1>3, FewerThanTwice, CountersType
    <3>2. QED
      BY <1>5, <2>1, <2>4, <3>1 DEF NoDoubleBurst
  <2>7. CounterInv' /\ RetryInv'
    BY <1>2, <1>3 DEF CounterInv, RetryInv
  <2>8. QED
    BY <2>3, <2>5, <2>6, <2>7 DEF Inv
<1>8. CASE window.age = Span
  <2>1. window' = window
    BY <1>8, SpanType DEF Allow
  <2>2. TypeOK'
    BY <1>2, <1>3, <2>1 DEF Inv, TypeOK
  <2>3. StretchInv' /\ NoDoubleBurst'
    BY <1>8, <2>1, SpanType DEF Inv, StretchInv, NoDoubleBurst
  <2>4. CounterInv' /\ RetryInv'
    BY <1>2, <1>3 DEF CounterInv, RetryInv
  <2>5. QED
    BY <2>2, <2>3, <2>4 DEF Inv
<1>9. QED
  BY <1>5, <1>7, <1>8, SpanType

LEMMA DenyKeeps ==
    ASSUME Inv, NEW lag \in Lags, Deny(lag)
    PROVE  Inv'
<1> DEFINE w == Current(lag)
<1>1. /\ w \in Counter /\ Fits(w) /\ w.age - lag < Length
      /\ \/ counter # None /\ w = counter
         \/ /\ counter # None /\ counter.age >= Length + lag
            /\ counter.age < 2 * Length + lag
            /\ w.current = 0 /\ w.previous = counter.current
            /\ w.age = counter.age - Length
         \/ /\ counter = None \/ counter.age >= 2 * Length + lag
            /\ w.current = 0 /\ w.previous = 0 /\ w.age = lag
  BY Found DEF Inv
<1>2. /\ counter' = w /\ wait' = RetryAfter(w, lag) /\ carried' = (w.previous > 0)
      /\ window' = window /\ Excess(w, lag) > 0
  BY DEF Deny
<1> HIDE DEF w
<1>3. lag \in Nat /\ lag <= MaxDelay
  BY DEF Lags
<1>4. /\ w.current \in Nat /\ w.previous \in Nat /\ w.age \in Nat /\ w # None
  BY <1>1, CountersType
<1>5. wait' \in Nat
  <2>1. CASE w.previous > 0
    BY <1>1, <1>2, <2>1, RetryOpens
  <2>2. CASE w.previous = 0
    BY <1>1, <1>2, <1>3, <1>4, <2>2 DEF RetryAfter, Elapsed
  <2>3. QED
    BY <1>4, <2>1, <2>2
<1>6. TypeOK'
  BY <1>1, <1>2, <1>5 DEF Inv, TypeOK
<1>7. CounterInv' /\ NoDoubleBurst'
  BY <1>1, <1>2 DEF Inv, CounterInv, NoDoubleBurst
<1>8. StretchInv'
  <2>1. SUFFICES ASSUME window.passed > 0, window.age < Span
                 PROVE  \/ /\ window.passed <= w.current
                           /\ w.age < Length + MaxDelay + window.age
                        \/ /\ window.passed <= w.current + w.previous
                           /\ w.age < MaxDelay + window.age
    BY <1>2, <1>4 DEF StretchInv
  <2>2. /\ counter # None
        /\ \/ /\ window.passed <= counter.current
              /\ counter.age < Length + MaxDelay + window.age
           \/ /\ window.passed <= counter.current + counter.previous
              /\ counter.age < MaxDelay + window.age
    BY <2>1 DEF Inv, StretchInv
  <2>3. counter.age \in Nat /\ counter.current \in Nat /\ counter.previous \in Nat
    BY <2>2, CountersType DEF Inv, TypeOK
  <2>4. window.age \in Nat /\ window.passed \in Nat
    BY WindowType DEF Inv
  <2>5. counter.age < 2 * Length
    BY <2>1, <2>2, <2>3, <2>4, SpanType
  <2>6. CASE w = counter
    BY <2>2, <2>6
  <2>7. CASE /\ counter.age >= Length + lag /\ w.current = 0
             /\ w.previous = counter.current /\ w.age = counter.age - Length
    <3>1. window.passed <= counter.current /\ counter.age < Length + MaxDelay + window.age
      BY <1>3, <2>1, <2>2, <2>3, <2>4, <2>7, SpanType
    <3>2. QED
      BY <1>4, <2>3, <2>4, <2>7, <3>1, SpanType
  <2>8. QED
    BY <1>1, <1>3, <2>2, <2>3, <2>5, <2>6, <2>7
<1>9. RetryInv'
  <2>1. CASE w.previous > 0
    <3>1. OpenAt(w, w.age + RetryAfter(w, lag))
      BY <1>1, <1>2, <2>1, RetryOpens
    <3>2. QED
      BY <1>2, <3>1 DEF RetryInv
  <2>2. CASE ~(w.previous > 0)
    BY <1>2, <2>2 DEF RetryInv
  <2>3. QED
    BY <2>1, <2>2
<1>10. QED
  BY <1>6, <1>7, <1>8, <1>9 DEF Inv

LEMMA EvictKeeps ==
    ASSUME Inv, NEW lag \in Lags, EvictIdle(lag)
    PROVE  Inv'
<1>1. /\ counter # None /\ counter' = None /\ counter.age - lag > MaxIdle
      /\ wait' = wait /\ carried' = carried /\ window' = window
  BY DEF EvictIdle, Elapsed
<1>2. TypeOK' /\ CounterInv' /\ NoDoubleBurst' /\ RetryInv'
  BY <1>1 DEF Inv, TypeOK, CounterInv, NoDoubleBurst, RetryInv
<1>3. StretchInv'
  <2>1. counter.age \in Nat /\ lag \in Nat
    BY <1>1, CountersType DEF Inv, TypeOK, Lags
  <2>2. counter.age > 2 * Length
    BY <1>1, <2>1
  <2>3. window.age \in Nat /\ window.passed \in Nat
    BY WindowType DEF Inv
  <2>4. window.passed > 0 /\ window.age < Span => counter.age < 2 * Length
    BY <2>1, <2>3, SpanType DEF Inv, StretchInv
  <2>5. QED
    BY <1>1, <2>1, <2>2, <2>4 DEF StretchInv
<1>4. QED
  BY <1>2, <1>3 DEF Inv

LEMMA TickKeeps ==
    ASSUME Inv, Tick
    PROVE  Inv'
<1>0. /\ window.age \in Nat /\ window.age <= Span /\ window.passed \in Nat
      /\ LastAge \in Nat /\ LastAge >= 2 * Length
  BY WindowType, SpanType DEF Inv, LastAge
<1>1. /\ window' \in [age : 0..Span, passed : Nat]
      /\ window'.passed = window.passed
      /\ window'.age = IF window.age < Span THEN window.age + 1 ELSE window.age
  BY <1>0, SpanType DEF Tick, Inv, TypeOK
<1>2. /\ carried' = carried
      /\ wait' = IF wait = None \/ wait = 0 THEN wait ELSE wait - 1
      /\ wait' \in Nat \cup {None}
  BY DEF Tick, Inv, TypeOK
<1>3. CASE counter = None
  <2>1. counter' = None
    BY <1>3 DEF Tick
  <2>2. QED
    BY <1>0, <1>1, <1>2, <1>3, <2>1
       DEF Inv, TypeOK, CounterInv, StretchInv, NoDoubleBurst, RetryInv
<1>4. CASE counter # None
  <2> DEFINE v == [counter EXCEPT !.age = IF @ < LastAge THEN @ + 1 ELSE @]
  <2>1. counter \in Counter /\ Fits(counter) /\ counter' = v
    BY <1>4 DEF Inv, TypeOK, CounterInv, Tick
  <2>2. /\ counter.current \in Nat /\ counter.previous \in Nat
        /\ counter.age \in Nat /\ counter.age <= LastAge
    BY <2>1, CountersType
  <2>3. /\ v \in Counter /\ v.current = counter.current /\ v.previous = counter.previous
        /\ v.age = IF counter.age < LastAge THEN counter.age + 1 ELSE counter.age
    BY <1>0, <2>1, <2>2 DEF Counter
  <2> HIDE DEF v
  <2>4. Fits(v) /\ v # None
    BY <2>1, <2>3, CountersType DEF Fits
  <2>5. TypeOK' /\ CounterInv' /\ NoDoubleBurst'
    BY <1>1, <1>2, <2>1, <2>3, <2>4 DEF Inv, TypeOK, CounterInv, NoDoubleBurst
  <2>6. StretchInv'
    BY <1>0, <1>1, <2>1, <2>2, <2>3, <2>4 DEF Inv, StretchInv
  <2>7. RetryInv'
    <3>1. SUFFICES ASSUME carried, wait' # None PROVE OpenAt(v, v.age + wait')
      BY <1>2, <2>1 DEF RetryInv
    <3>2. wait \in Nat /\ OpenAt(counter, counter.age + wait)
      BY <1>2, <1>4, <3>1 DEF Inv, TypeOK, RetryInv
    <3>3. \A t \in Nat : OpenAt(v, t) <=> OpenAt(counter, t)
      BY <2>3 DEF OpenAt
    <3>4. wait' \in Nat /\ (wait # 0 => wait' = wait - 1) /\ (wait = 0 => wait' = 0)
      BY <1>2, <3>2
    <3>5. CASE counter.age < LastAge /\ wait # 0
      <4>1. v.age + wait' = counter.age + wait
        BY <2>2, <2>3, <3>2, <3>4, <3>5
      <4>2. QED
        BY <2>2, <3>2, <3>3, <4>1
    <3>6. CASE counter.age < LastAge /\ wait = 0
      <4>1. v.age + wait' = counter.age + 1
        BY <2>2, <2>3, <3>4, <3>6
      <4>2. OpenAt(counter, counter.age + 1)
        BY <2>1, <2>2, <3>2, <3>6, StaysOpen
      <4>3. QED
        BY <2>2, <3>3, <4>1, <4>2
    <3>7. CASE counter.age = LastAge
      <4>1. v.age = LastAge /\ wait' \in Nat
        BY <2>2, <2>3, <3>4, <3>7
      <4>2. \A a, b \in Nat : a >= 2 * Length => a + b >= 2 * Length
        OBVIOUS
      <4>3. v.age + wait' >= 2 * Length
        BY <1>0, <4>1, <4>2, Zenon
      <4>4. QED
        BY <4>3 DEF OpenAt
    <3>8. QED
      BY <1>0, <2>2, <3>5, <3>6, <3>7
  <2>8. QED
    BY <2>5, <2>6, <2>7 DEF Inv
<1>5. QED
  BY <1>3, <1>4

LEMMA MeasureKeeps ==
    ASSUME Inv, Measure
    PROVE  Inv'
<1>1. NoWindow \in [age : 0..Span, passed : Nat] /\ NoWindow.passed = 0
  BY SpanType DEF NoWindow
<1>2. QED
  BY <1>1 DEF Measure, Inv, TypeOK, CounterInv, StretchInv, NoDoubleBurst, RetryInv

LEMMA Inductive == Inv /\ [Next]_vars => Inv'
<1> SUFFICES ASSUME Inv, [Next]_vars PROVE Inv'
  OBVIOUS
<1>1. ASSUME NEW lag \in Lags, Allow(lag) PROVE Inv'
  BY <1>1, AllowKeeps
<1>2. ASSUME NEW lag \in Lags, Deny(lag) PROVE Inv'
  BY <1>2, DenyKeeps
<1>3. ASSUME NEW lag \in Lags, EvictIdle(lag) PROVE Inv'
  BY <1>3, EvictKeeps
<1>4. CASE Tick
  BY <1>4, TickKeeps
<1>5. CASE Measure
  BY <1>5, MeasureKeeps
<1>6. CASE UNCHANGED vars
  BY <1>6 DEF vars, Inv, TypeOK, CounterInv, StretchInv, NoDoubleBurst, RetryInv
<1>7. QED
  BY <1>1, <1>2, <1>3, <1>4, <1>5, <1>6 DEF Next

LEMMA Invariant == Spec => []Inv
<1>1. Init => Inv
  <2>1. NoWindow \in [age : 0..Span, passed : Nat] /\ NoWindow.passed = 0
    BY SpanType DEF NoWindow
  <2>2. SUFFICES ASSUME Init PROVE Inv
    OBVIOUS
  <2>3. counter = None /\ wait = None /\ carried = FALSE /\ window = NoWindow
    BY <2>2 DEF Init
  <2>4. TypeOK /\ CounterInv /\ RetryInv
    BY <2>1, <2>3 DEF TypeOK, CounterInv, RetryInv
  <2>5. StretchInv /\ NoDoubleBurst
    BY <2>1, <2>3 DEF StretchInv, NoDoubleBurst
  <2>6. QED
    BY <2>4, <2>5 DEF Inv
<1>2. QED
  BY <1>1, Inductive, PTL DEF Spec

-----------------------------------------------------------------------------
\* The counts never pass the limit and a window's start never lies ahead of the
\* clock, although roll() does not clamp readings that come late
\* (SlidingWindowCounter::roll, try_consume).
THEOREM TypeCorrect == Spec => []TypeOK
<1>1. Inv => TypeOK
  BY DEF Inv
<1>2. QED
  BY <1>1, Invariant, PTL

\* In a window less the longest wait for the lock, a client never gets two
\* bursts, wherever the boundary of the fixed windows falls
\* (SlidingWindowCounter::estimate).
THEOREM BurstsDoNotDouble == Spec => []NoDoubleBurst
<1>1. Inv => NoDoubleBurst
  BY DEF Inv
<1>2. QED
  BY <1>1, Invariant, PTL

\* When the previous window carries the overage, retry_after is long enough
\* (SlidingWindowCounter::try_consume).
THEOREM RetryIsHonest == Spec => []RetryHonestWhenCarried
<1>1. Inv => RetryHonestWhenCarried
  <2>1. SUFFICES ASSUME Inv, wait = 0, carried PROVE Excess(Current(0), 0) <= 0
    BY DEF RetryHonestWhenCarried, WouldAllow
  <2>2. 0 \in Lags /\ Length <= Limit * Length
    BY DEF Lags
  <2>3. CASE counter = None
    <3>1. Current(0) = [current |-> 0, previous |-> 0, age |-> 0]
      BY <2>3 DEF Current, Fresh
    <3>2. QED
      BY <2>2, <3>1 DEF Excess, Estimate, Elapsed
  <2>4. CASE counter # None
    <3>1. counter \in Counter /\ Fits(counter) /\ OpenAt(counter, counter.age)
      BY <2>1, <2>4, CountersType DEF Inv, TypeOK, CounterInv, RetryInv
    <3>2. /\ counter.current \in Nat /\ counter.previous \in Nat /\ counter.age \in Nat
      BY <3>1, CountersType
    <3>3. CASE counter.age < Length
      <4>1. Current(0) = counter
        BY <2>4, <3>2, <3>3 DEF Current, Roll, Elapsed
      <4>2. QED
        BY <3>1, <3>2, <3>3, <4>1 DEF OpenAt, Excess, Estimate, Elapsed
    <3>4. CASE counter.age >= Length /\ counter.age < 2 * Length
      <4>1. Current(0) = [current |-> 0, previous |-> counter.current,
                          age |-> counter.age - Length]
        BY <2>4, <3>2, <3>4 DEF Current, Roll, Elapsed
      <4>2. Length - (counter.age - Length) = 2 * Length - counter.age
        BY <3>2
      <4>3. counter.current * (2 * Length - counter.age) + Length <= Limit * Length
        BY <3>1, <3>2, <3>4 DEF OpenAt
      <4>4. Excess(Current(0), 0)
              = counter.current * (Length - (counter.age - Length)) + Length - Limit * Length
        <5>1. /\ Current(0).current = 0 /\ Current(0).previous = counter.current
              /\ Elapsed(Current(0), 0) = counter.age - Length
          BY <3>2, <4>1 DEF Elapsed
        <5>2. Estimate(Current(0), 0) = counter.current * (Length - (counter.age - Length))
          BY <3>2, <5>1 DEF Estimate
        <5>3. QED
          BY <5>2 DEF Excess
      <4>5. QED
        BY <3>2, <4>2, <4>3, <4>4
    <3>5. CASE counter.age >= 2 * Length
      <4>1. Current(0) = [current |-> 0, previous |-> 0, age |-> 0]
        BY <2>4, <3>2, <3>5 DEF Current, Roll, Elapsed, Fresh
      <4>2. QED
        BY <2>2, <4>1 DEF Excess, Estimate, Elapsed
    <3>6. QED
      BY <3>2, <3>3, <3>4, <3>5
  <2>5. QED
    BY <2>3, <2>4
<1>2. QED
  BY <1>1, Invariant, PTL
=============================================================================
