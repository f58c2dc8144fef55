--------------------------- MODULE RegistryProofs ----------------------------
(****************************************************************************)
(* Safety of Registry for any clients, costs, capacity and refill rate, and *)
(* any eviction age that leaves a bucket time to fill up.                   *)
(*                                                                          *)
(* Everything rests on how each action moves Level: a check lowers its own  *)
(* client's level by what it grants, a tick raises every level by Refill up *)
(* to Capacity, and eviction moves none.  The three properties are then     *)
(* about levels only; that a bucket dropped is a full bucket is the one     *)
(* place where PatienceAssumption is needed.                                *)
(****************************************************************************)
EXTENDS Registry, TLAPS

USE CapacityAssumption, RefillAssumption, CostsAssumption, IdleAssumption,
    PatienceAssumption, WindowAssumption

-----------------------------------------------------------------------------
\* Refill is positive, so more ticks yield no fewer tokens.
LEMMA RefillMonotone ==
    ASSUME NEW m \in Nat, NEW n \in Nat, m <= n
    PROVE  m * Refill <= n * Refill /\ m * Refill \in Nat
  OBVIOUS

\* retry_after covers the shortfall, and one tick less does not.
LEMMA RetryAfterCovers ==
    ASSUME NEW short \in 1..Capacity
    PROVE  /\ RetryAfter(short) \in 1..short
           /\ RetryAfter(short) * Refill >= short
           /\ (RetryAfter(short) - 1) * Refill < short
<1> DEFINE q == RetryAfter(short)
<1>1. /\ short + Refill - 1 \in Nat
      /\ q = (short + Refill - 1) \div Refill
  BY DEF RetryAfter
<1> HIDE DEF q
<1>2. q \in Nat
  BY <1>1
<1>3. q * Refill <= short + Refill - 1 /\ short + Refill - 1 < q * Refill + Refill
  BY <1>1, <1>2
<1>4. q # 0
  BY <1>3
<1>5. q <= short
  <2>1. SUFFICES ASSUME q >= short + 1 PROVE FALSE
    BY <1>2
  <2>2. (short + 1) * Refill <= q * Refill
    BY <1>2, <2>1, RefillMonotone
  <2>3. short * Refill >= short
    OBVIOUS
  <2>4. QED
    BY <1>2, <1>3, <2>2, <2>3
<1>6. (q - 1) * Refill = q * Refill - Refill
  BY <1>2
<1>7. QED
  BY <1>2, <1>3, <1>4, <1>5, <1>6 DEF q

\* A bucket is worth between nothing and the burst size.
LEMMA RefilledType ==
    ASSUME NEW b \in Bucket
    PROVE  Refilled(b) \in 0..Capacity
<1>1. b.tokens \in 0..Capacity /\ b.age \in Nat
  BY DEF Bucket
<1>2. b.age * Refill \in Nat
  BY <1>1
<1>3. QED
  BY <1>1, <1>2 DEF Refilled, Capped

LEMMA LevelType ==
    ASSUME TypeOK, NEW c \in Clients
    PROVE  Level(c) \in 0..Capacity
  BY RefilledType DEF TypeOK, Level

\* A bucket older than MaxIdle is full.
LEMMA IdleIsFull ==
    ASSUME NEW b \in Bucket, Idle(b)
    PROVE  Refilled(b) = Capacity
<1>1. b.tokens \in 0..Capacity /\ b.age \in Nat /\ MaxIdle <= b.age
  BY DEF Bucket, Idle
<1>2. b.age * Refill >= Capacity
  BY <1>1, RefillMonotone
<1>3. QED
  BY <1>1, <1>2 DEF Refilled, Capped

-----------------------------------------------------------------------------
(****************************************************************************)
(* How each action moves the levels.                                        *)
(****************************************************************************)

BucketsOK == Tracked \subseteq Clients /\ buckets \in [Tracked -> Bucket]

\* A check leaves its client at n and nobody else anywhere new.
LEMMA TouchMoves ==
    ASSUME BucketsOK, NEW c \in Clients, NEW n \in 0..Capacity, Touch(c, n)
    PROVE  /\ BucketsOK'
           /\ \A d \in Clients : Level(d)' = IF d = c THEN n ELSE Level(d)
<1> DEFINE fresh == [tokens |-> n, age |-> 0]
<1>1. fresh \in Bucket /\ Refilled(fresh) = n
  BY DEF Bucket, Refilled, Capped
<1> HIDE DEF fresh
<1>2. /\ Tracked' = Tracked \cup {c}
      /\ buckets' = [d \in Tracked \cup {c} |-> IF d = c THEN fresh ELSE buckets[d]]
  BY DEF Touch, Tracked, fresh
<1>3. BucketsOK'
  BY <1>1, <1>2 DEF BucketsOK
<1>4. ASSUME NEW d \in Clients
      PROVE  Level(d)' = IF d = c THEN n ELSE Level(d)
  BY <1>1, <1>2 DEF Level, BucketsOK
<1>5. QED
  BY <1>3, <1>4

\* Eviction moves no level: what it drops is full, and so is what replaces it.
LEMMA EvictMoves ==
    ASSUME BucketsOK, EvictIdle
    PROVE  BucketsOK' /\ \A d \in Clients : Level(d)' = Level(d)
<1>1. /\ Tracked' = {d \in Tracked : ~Idle(buckets[d])}
      /\ \A d \in Tracked' : buckets'[d] = buckets[d]
      /\ buckets' \in [Tracked' -> Bucket]
  BY DEF EvictIdle, Tracked, BucketsOK
<1>2. BucketsOK'
  BY <1>1 DEF BucketsOK
<1>3. ASSUME NEW d \in Clients PROVE Level(d)' = Level(d)
  <2>1. CASE d \in Tracked /\ Idle(buckets[d])
    BY <1>1, <2>1, IdleIsFull DEF Level, BucketsOK
  <2>2. CASE ~(d \in Tracked /\ Idle(buckets[d]))
    BY <1>1, <2>2 DEF Level
  <2>3. QED
    BY <2>1, <2>2
<1>4. QED
  BY <1>2, <1>3

\* A tick raises every level by Refill, up to the burst size.
LEMMA TickMoves ==
    ASSUME BucketsOK, Tick
    PROVE  /\ BucketsOK'
           /\ \A d \in Clients : Level(d)' = Capped(Level(d) + Refill, Capacity)
<1>1. /\ Tracked' = Tracked
      /\ \A d \in Tracked :
             buckets'[d] = [buckets[d] EXCEPT !.age = Capped(@ + 1, MaxIdle + 1)]
      /\ buckets' = [d \in Tracked |-> buckets'[d]]
  BY DEF Tick, Tracked
<1>2. ASSUME NEW b \in Bucket
      PROVE  /\ [b EXCEPT !.age = Capped(@ + 1, MaxIdle + 1)] \in Bucket
             /\ Refilled([b EXCEPT !.age = Capped(@ + 1, MaxIdle + 1)])
                    = Capped(Refilled(b) + Refill, Capacity)
  <2> DEFINE older == [b EXCEPT !.age = Capped(b.age + 1, MaxIdle + 1)]
  <2>1. b.tokens \in 0..Capacity /\ b.age \in 0..(MaxIdle + 1)
    BY DEF Bucket
  <2>2. older \in Bucket /\ older.tokens = b.tokens
        /\ older.age = Capped(b.age + 1, MaxIdle + 1)
    BY <2>1 DEF Bucket, Capped
  <2>3. CASE b.age <= MaxIdle
    <3>1. older.age = b.age + 1
      BY <2>1, <2>2, <2>3 DEF Capped
    <3>2. (b.age + 1) * Refill = b.age * Refill + Refill /\ b.age * Refill \in Nat
      BY <2>1
    <3>3. QED
      BY <2>1, <2>2, <3>1, <3>2 DEF Refilled, Capped
  <2>4. CASE b.age = MaxIdle + 1
    <3>1. Idle(b) /\ Idle(older)
      BY <2>1, <2>2, <2>4 DEF Idle, Capped
    <3>2. Refilled(b) = Capacity /\ Refilled(older) = Capacity
      BY <2>2, <3>1, IdleIsFull
    <3>3. QED
      BY <2>2, <3>2 DEF Capped
  <2>5. QED
    BY <2>1, <2>3, <2>4, <2>2
<1>3. BucketsOK'
  BY <1>1, <1>2 DEF BucketsOK
<1>4. ASSUME NEW d \in Clients
      PROVE  Level(d)' = Capped(Level(d) + Refill, Capacity)
  <2>1. CASE d \in Tracked
    BY <1>1, <1>2, <2>1 DEF Level, BucketsOK
  <2>2. CASE d \notin Tracked
    BY <1>1, <2>2 DEF Level, Capped
  <2>3. QED
    BY <2>1, <2>2
<1>5. QED
  BY <1>3, <1>4

-----------------------------------------------------------------------------
(****************************************************************************)
(* Types.                                                                   *)
(****************************************************************************)

LEMMA TypeInductive == TypeOK /\ [Next]_vars => TypeOK'
<1> SUFFICES ASSUME TypeOK, [Next]_vars PROVE TypeOK'
  OBVIOUS
<1> DEFINE OthersOK ==
        /\ verdict \in [client : Clients, allowed : BOOLEAN] \cup {None}
        /\ promise \in [Clients -> [cost : Costs, wait : 0..Capacity] \cup {None}]
        /\ window \in [Clients -> [age : 0..MaxWindow, spent : Nat]]
<1>0. BucketsOK /\ OthersOK
  BY DEF TypeOK, BucketsOK
<1>1. ASSUME NEW c \in Clients, NEW k \in Costs, CheckAllowed(c, k)
      PROVE  TypeOK'
  <2>1. Level(c) \in 0..Capacity /\ Level(c) - k \in 0..Capacity
    BY <1>1, LevelType DEF CheckAllowed
  <2>2. BucketsOK'
    BY <1>0, <1>1, <2>1, TouchMoves DEF CheckAllowed
  <2>3. OthersOK'
    BY <1>0, <1>1 DEF CheckAllowed
  <2>4. QED
    BY <2>2, <2>3 DEF TypeOK, BucketsOK
<1>2. ASSUME NEW c \in Clients, NEW k \in Costs, CheckDenied(c, k)
      PROVE  TypeOK'
  <2>1. Level(c) \in 0..Capacity /\ k - Level(c) \in 1..Capacity
    BY <1>2, LevelType DEF CheckDenied
  <2>2. RetryAfter(k - Level(c)) \in 0..Capacity
    BY <2>1, RetryAfterCovers
  <2>3. BucketsOK'
    BY <1>0, <1>2, <2>1, TouchMoves DEF CheckDenied
  <2>4. OthersOK'
    BY <1>0, <1>2, <2>2 DEF CheckDenied
  <2>5. QED
    BY <2>3, <2>4 DEF TypeOK, BucketsOK
<1>3. CASE EvictIdle
  BY <1>0, <1>3, EvictMoves DEF TypeOK, BucketsOK, EvictIdle
<1>4. CASE Tick
  <2>1. BucketsOK'
    BY <1>0, <1>4, TickMoves
  <2>2. promise' \in [Clients -> [cost : Costs, wait : 0..Capacity] \cup {None}]
    <3>1. ASSUME NEW p \in [cost : Costs, wait : 0..Capacity], p.wait # 0
          PROVE  [p EXCEPT !.wait = p.wait - 1] \in [cost : Costs, wait : 0..Capacity]
      BY <3>1
    <3>2. QED
      BY <1>0, <1>4, <3>1 DEF Tick
  <2>3. window' \in [Clients -> [age : 0..MaxWindow, spent : Nat]]
    <3>1. ASSUME NEW w \in [age : 0..MaxWindow, spent : Nat], w.age # MaxWindow
          PROVE  [w EXCEPT !.age = w.age + 1] \in [age : 0..MaxWindow, spent : Nat]
      BY <3>1
    <3>2. NoWindow \in [age : 0..MaxWindow, spent : Nat]
      BY DEF NoWindow
    <3>3. QED
      BY <1>0, <1>4, <3>1, <3>2 DEF Tick
  <2>4. QED
    BY <1>0, <1>4, <2>1, <2>2, <2>3 DEF TypeOK, BucketsOK, Tick
<1>5. ASSUME NEW c \in Clients, Measure(c) PROVE TypeOK'
  BY <1>0, <1>5 DEF TypeOK, Measure, NoWindow, Tracked
<1>6. CASE UNCHANGED vars
  BY <1>6 DEF TypeOK, vars, Tracked
<1>7. QED
  BY <1>1, <1>2, <1>3, <1>4, <1>5, <1>6 DEF Next, Check

\* Every variable keeps its type: no bucket overfills or goes negative, and
\* no client is told to wait longer than Capacity ticks.
THEOREM TypeCorrect == Spec => []TypeOK
<1>1. Init => TypeOK
  BY DEF Init, TypeOK, Tracked, NoWindow
<1>2. QED
  BY <1>1, TypeInductive, PTL DEF Spec

-----------------------------------------------------------------------------
(****************************************************************************)
(* The window bound and the honesty of retry_after.                         *)
(****************************************************************************)

\* What was granted in a window and what is left never exceed what the window
\* could yield.
WindowInv ==
    \A c \in Clients :
        window[c].spent + Level(c) <= Capacity + Refill * window[c].age

\* While a promise runs, the missing tokens are those the wait will refill.
PromiseInv ==
    \A c \in Clients :
        promise[c] # None =>
            LET p == promise[c] IN
            /\ p.wait * Refill + Level(c) >= p.cost
            /\ p.wait # 0 => (p.wait - 1) * Refill + Level(c) < p.cost

LEMMA PromiseIsExact == TypeOK /\ PromiseInv => RetryExact
<1> SUFFICES ASSUME TypeOK, PromiseInv, NEW c \in Clients, promise[c] # None
             PROVE  promise[c].wait = 0 <=> Level(c) >= promise[c].cost
  BY DEF RetryExact
<1>1. promise[c] \in [cost : Costs, wait : 0..Capacity]
  BY DEF TypeOK
<1>2. promise[c].wait \in Nat /\ promise[c].cost \in Nat /\ Level(c) \in Nat
  <2>1. promise[c].wait \in 0..Capacity /\ promise[c].cost \in Costs
    BY <1>1
  <2>2. Level(c) \in 0..Capacity
    BY LevelType
  <2>3. promise[c].cost \in 1..Capacity
    BY <2>1, CostsAssumption
  <2>4. QED
    BY <2>1, <2>2, <2>3
<1>3. /\ promise[c].wait * Refill + Level(c) >= promise[c].cost
      /\ promise[c].wait # 0 =>
             (promise[c].wait - 1) * Refill + Level(c) < promise[c].cost
  BY DEF PromiseInv
<1>4. CASE promise[c].wait = 0
  BY <1>2, <1>3, <1>4
<1>5. CASE promise[c].wait # 0
  <2>1. (promise[c].wait - 1) * Refill \in Nat
    BY <1>2, <1>5
  <2>2. QED
    BY <1>2, <1>3, <1>5, <2>1
<1>6. QED
  BY <1>4, <1>5

LEMMA WindowInductive == TypeOK /\ TypeOK' /\ WindowInv /\ [Next]_vars => WindowInv'
<1> SUFFICES ASSUME TypeOK, TypeOK', WindowInv, [Next]_vars, NEW c \in Clients
             PROVE  window'[c].spent + Level(c)' <= Capacity + Refill * window'[c].age
  BY DEF WindowInv
<1>0. /\ BucketsOK
      /\ \A d \in Clients : Level(d) \in 0..Capacity /\ Level(d)' \in 0..Capacity
      /\ window[c].age \in Nat /\ window[c].spent \in Nat
      /\ window[c].spent + Level(c) <= Capacity + Refill * window[c].age
      /\ Refill * window[c].age \in Nat
      /\ window \in [Clients -> [age : 0..MaxWindow, spent : Nat]]
  <2>1. \A d \in Clients : Level(d)' \in 0..Capacity
    <3>1. ASSUME NEW d \in Clients PROVE Level(d)' \in 0..Capacity
      <4>1. d \in Tracked' => buckets'[d] \in Bucket
        BY DEF TypeOK
      <4>2. QED
        BY <4>1, RefilledType DEF Level
    <3>2. QED
      BY <3>1
  <2>2. QED
    BY <2>1, LevelType DEF TypeOK, BucketsOK, WindowInv
<1>1. ASSUME NEW d \in Clients, NEW k \in Costs, CheckAllowed(d, k)
      PROVE  window'[c].spent + Level(c)' <= Capacity + Refill * window'[c].age
  <2>1. Level(c)' = IF c = d THEN Level(d) - k ELSE Level(c)
    BY <1>0, <1>1, TouchMoves DEF CheckAllowed
  <2>2. /\ window'[c].age = window[c].age
        /\ window'[c].spent = IF c = d THEN window[c].spent + k ELSE window[c].spent
    BY <1>0, <1>1 DEF CheckAllowed
  <2>3. k \in Nat
    OBVIOUS
  <2>4. CASE c = d
    BY <1>0, <2>1, <2>2, <2>3, <2>4
  <2>5. CASE c # d
    BY <1>0, <2>1, <2>2, <2>5
  <2>6. QED
    BY <2>4, <2>5
<1>2. ASSUME NEW d \in Clients, NEW k \in Costs, CheckDenied(d, k)
      PROVE  window'[c].spent + Level(c)' <= Capacity + Refill * window'[c].age
  BY <1>0, <1>2, TouchMoves DEF CheckDenied
<1>3. CASE EvictIdle
  BY <1>0, <1>3, EvictMoves DEF EvictIdle
<1>4. CASE Tick
  <2>1. Level(c)' <= Level(c) + Refill /\ Level(c)' <= Capacity
    BY <1>0, <1>4, TickMoves DEF Capped
  <2>2. CASE window[c].age = MaxWindow
    BY <1>0, <1>4, <2>1, <2>2 DEF Tick, NoWindow
  <2>3. CASE window[c].age # MaxWindow
    <3>1. window'[c].age = window[c].age + 1 /\ window'[c].spent = window[c].spent
      BY <1>0, <1>4, <2>3 DEF Tick
    <3>2. Refill * (window[c].age + 1) = Refill * window[c].age + Refill
      BY <1>0
    <3>3. QED
      BY <1>0, <2>1, <3>1, <3>2
  <2>4. QED
    BY <2>2, <2>3
<1>5. ASSUME NEW d \in Clients, Measure(d)
      PROVE  window'[c].spent + Level(c)' <= Capacity + Refill * window'[c].age
  <2>1. Level(c)' = Level(c)
    BY <1>5 DEF Measure, Level, Tracked
  <2>2. \/ window'[c] = NoWindow
        \/ window'[c] = window[c]
    BY <1>0, <1>5 DEF Measure
  <2>3. QED
    BY <1>0, <2>1, <2>2 DEF NoWindow
<1>6. CASE UNCHANGED vars
  BY <1>0, <1>6 DEF vars, Level, Tracked
<1>7. QED
  BY <1>1, <1>2, <1>3, <1>4, <1>5, <1>6 DEF Next, Check

\* No client is ever granted more than a burst plus the refill, over any
\* window and through any number of evictions.
THEOREM WindowBounded == Spec => []WindowBound
<1>1. Init => WindowInv
  <2> SUFFICES ASSUME Init, NEW c \in Clients
               PROVE  window[c].spent + Level(c) <= Capacity + Refill * window[c].age
    BY DEF WindowInv
  <2>1. window[c].spent = 0 /\ window[c].age = 0 /\ Level(c) = Capacity
    BY DEF Init, Level, Tracked, NoWindow
  <2>2. QED
    BY <2>1
<1>2. TypeOK /\ WindowInv => WindowBound
  <2> SUFFICES ASSUME TypeOK, WindowInv, NEW c \in Clients
               PROVE  window[c].spent <= Capacity + Refill * window[c].age
    BY DEF WindowBound
  <2>1. /\ Level(c) \in Nat /\ window[c].spent \in Nat /\ window[c].age \in Nat
        /\ window[c].spent + Level(c) <= Capacity + Refill * window[c].age
    BY LevelType DEF TypeOK, WindowInv
  <2>2. Refill * window[c].age \in Nat
    BY <2>1
  <2>3. QED
    BY <2>1, <2>2
<1>3. QED
  BY <1>1, <1>2, TypeCorrect, WindowInductive, PTL DEF Spec

LEMMA PromiseInductive == TypeOK /\ PromiseInv /\ [Next]_vars => PromiseInv'
<1> SUFFICES ASSUME TypeOK, PromiseInv, [Next]_vars,
                    NEW c \in Clients, promise'[c] # None
             PROVE  /\ promise'[c].wait * Refill + Level(c)' >= promise'[c].cost
                    /\ promise'[c].wait # 0 =>
                         (promise'[c].wait - 1) * Refill + Level(c)' < promise'[c].cost
  BY DEF PromiseInv
<1> DEFINE Goal ==
        /\ promise'[c].wait * Refill + Level(c)' >= promise'[c].cost
        /\ promise'[c].wait # 0 =>
             (promise'[c].wait - 1) * Refill + Level(c)' < promise'[c].cost
<1>0. /\ BucketsOK /\ Level(c) \in 0..Capacity
      /\ promise \in [Clients -> [cost : Costs, wait : 0..Capacity] \cup {None}]
  BY LevelType DEF TypeOK, BucketsOK
<1>1. ASSUME promise'[c] = promise[c], Level(c)' = Level(c) PROVE Goal
  BY <1>1 DEF PromiseInv
<1>2. ASSUME NEW d \in Clients, NEW k \in Costs, CheckAllowed(d, k) PROVE Goal
  <2>1. Level(d) \in 0..Capacity /\ k \in 1..Capacity /\ Level(d) >= k
    BY <1>2, LevelType, CostsAssumption DEF CheckAllowed
  <2>2. c # d
    BY <1>0, <1>2 DEF CheckAllowed
  <2>3. Level(c)' = Level(c)
    BY <1>0, <1>2, <2>1, <2>2, TouchMoves DEF CheckAllowed
  <2>4. promise'[c] = promise[c]
    BY <1>0, <1>2, <2>2 DEF CheckAllowed
  <2>5. QED
    BY <1>1, <2>3, <2>4
<1>3. ASSUME NEW d \in Clients, NEW k \in Costs, CheckDenied(d, k) PROVE Goal
  <2>1. Level(d) \in 0..Capacity /\ k \in 1..Capacity /\ k - Level(d) \in 1..Capacity
    BY <1>3, LevelType, CostsAssumption DEF CheckDenied
  <2>2. Level(c)' = Level(c)
    BY <1>0, <1>3, <2>1, TouchMoves DEF CheckDenied
  <2>3. CASE c # d
    <3>1. promise'[c] = promise[c]
      BY <1>0, <1>3, <2>3 DEF CheckDenied
    <3>2. QED
      BY <1>1, <2>2, <3>1
  <2>4. CASE c = d
    <3> DEFINE wait == RetryAfter(k - Level(c))
    <3>1. promise'[c].cost = k /\ promise'[c].wait = wait
      BY <1>0, <1>3, <2>4 DEF CheckDenied
    <3>2. /\ wait \in 1..(k - Level(c))
          /\ wait * Refill >= k - Level(c)
          /\ (wait - 1) * Refill < k - Level(c)
      BY <2>1, <2>4, RetryAfterCovers
    <3> HIDE DEF wait
    <3>3. wait * Refill \in Int /\ (wait - 1) * Refill \in Int
      BY <3>2
    <3>4. QED
      BY <1>0, <2>1, <2>2, <3>1, <3>2, <3>3
  <2>5. QED
    BY <2>3, <2>4
<1>4. CASE EvictIdle
  BY <1>0, <1>1, <1>4, EvictMoves DEF EvictIdle
<1>5. CASE Tick
  <2>1. promise[c] # None /\ promise[c] \in [cost : Costs, wait : 0..Capacity]
    BY <1>0, <1>5 DEF Tick
  <2> DEFINE p == promise[c]
  <2>2. /\ p.wait \in 0..Capacity /\ p.cost \in 1..Capacity
        /\ p.wait * Refill + Level(c) >= p.cost
        /\ p.wait # 0 => (p.wait - 1) * Refill + Level(c) < p.cost
    BY <2>1, CostsAssumption DEF PromiseInv
  <2>3. /\ Level(c)' <= Level(c) + Refill
        /\ Level(c)' >= Level(c)
        /\ Level(c)' = Level(c) + Refill \/ Level(c)' = Capacity
        /\ Level(c)' \in Nat
    BY <1>0, <1>5, TickMoves DEF Capped
  <2>4. CASE p.wait = 0
    <3>1. promise'[c] = p
      BY <1>5, <2>4 DEF Tick
    <3>2. QED
      BY <1>0, <2>2, <2>3, <2>4, <3>1
  <2>5. CASE p.wait # 0
    <3>1. promise'[c].cost = p.cost /\ promise'[c].wait = p.wait - 1
      BY <1>5, <2>1, <2>5 DEF Tick
    <3> HIDE DEF p
    <3>2. /\ p.wait * Refill = (p.wait - 1) * Refill + Refill
          /\ (p.wait - 1) * Refill \in Nat
          /\ (p.wait - 1) * Refill = (p.wait - 1 - 1) * Refill + Refill
          /\ (p.wait - 1 - 1) * Refill \in Int
      BY <2>2, <2>5
    <3>3. QED
      BY <1>0, <2>2, <2>3, <2>5, <3>1, <3>2
  <2>6. QED
    BY <2>4, <2>5
<1>6. ASSUME NEW d \in Clients, Measure(d) PROVE Goal
  BY <1>1, <1>6 DEF Measure, Level, Tracked
<1>7. CASE UNCHANGED vars
  BY <1>1, <1>7 DEF vars, Level, Tracked
<1>8. QED
  BY <1>2, <1>3, <1>4, <1>5, <1>6, <1>7 DEF Next, Check

\* retry_after is exact: at the promised tick the request would be allowed,
\* before it it would not (TokenBucket::try_consume).
THEOREM RetryIsExact == Spec => []RetryExact
<1>1. Init => PromiseInv
  BY DEF Init, PromiseInv
<1>2. QED
  BY <1>1, PromiseIsExact, TypeCorrect, PromiseInductive, PTL DEF Spec

-----------------------------------------------------------------------------
(****************************************************************************)
(* Refinement.                                                              *)
(****************************************************************************)

\* Registry decides as the eager limit does: a check is a grant or a denial,
\* a tick an accrual, and the sweep is invisible.
THEOREM RegistryImplementsLimit == Spec => ImplementsRateLimit
<1> DEFINE level == [c \in Clients |-> Level(c)]
<1>1. Init => Limit!Init
  BY DEF Init, Limit!Init, Level, Tracked
<1>2. ASSUME TypeOK, [Next]_vars
      PROVE  [Limit!Next]_<<level, verdict>>
  <2>0. BucketsOK /\ \A c \in Clients : Level(c) \in 0..Capacity
    BY <1>2, LevelType DEF TypeOK, BucketsOK
  <2>1. ASSUME NEW c \in Clients, NEW k \in Costs, CheckAllowed(c, k)
        PROVE  Limit!Grant(c, k)
    <3>1. Level(c) - k \in 0..Capacity
      BY <2>0, <2>1, CostsAssumption DEF CheckAllowed
    <3>2. \A d \in Clients : Level(d)' = IF d = c THEN Level(c) - k ELSE Level(d)
      BY <2>0, <2>1, <3>1, TouchMoves DEF CheckAllowed
    <3>3. level' = [level EXCEPT ![c] = @ - k]
      BY <3>2
    <3>4. QED
      BY <2>1, <3>3 DEF Limit!Grant, CheckAllowed
  <2>2. ASSUME NEW c \in Clients, NEW k \in Costs, CheckDenied(c, k)
        PROVE  Limit!Deny(c, k)
    <3>1. \A d \in Clients : Level(d)' = Level(d)
      BY <2>0, <2>2, TouchMoves DEF CheckDenied
    <3>2. level' = level
      BY <3>1
    <3>3. QED
      BY <2>2, <3>2 DEF Limit!Deny, CheckDenied
  <2>3. CASE EvictIdle
    BY <2>0, <2>3, EvictMoves DEF EvictIdle
  <2>4. CASE Tick
    <3>1. \A d \in Clients : Level(d)' = Capped(Level(d) + Refill, Capacity)
      BY <2>0, <2>4, TickMoves
    <3>2. Limit!Accrue
      BY <2>4, <3>1 DEF Limit!Accrue, Capped, Tick
    <3>3. QED
      BY <3>2 DEF Limit!Next
  <2>5. ASSUME NEW c \in Clients, Measure(c)
        PROVE  UNCHANGED <<level, verdict>>
    BY <2>5 DEF Measure, Level, Tracked
  <2>6. CASE UNCHANGED vars
    BY <2>6 DEF vars, Level, Tracked
  <2>7. QED
    BY <1>2, <2>1, <2>2, <2>3, <2>4, <2>5, <2>6 DEF Next, Check, Limit!Next
<1>3. QED
  BY <1>1, <1>2, TypeCorrect, PTL DEF Spec, ImplementsRateLimit, Limit!Spec
=============================================================================
