-------------------------- MODULE SharedLimiterProofs -------------------------
(****************************************************************************)
(* Safety of SharedLimiter for any threads, clients, stripes and policy,    *)
(* and any wait between a clock reading and a lock that the sweep allows    *)
(* for.                                                                     *)
(*                                                                          *)
(* A stale clock reading makes a check or a sweep work on the past, so what *)
(* a bucket holds now says nothing useful about the next grant.  Worth      *)
(* values a bucket as of MaxDelay ticks ago, the oldest reading that may    *)
(* still be used: with it a refill never gains, a grant loses exactly its   *)
(* cost, and a bucket that is dropped was worth a full one.                 *)
(****************************************************************************)
EXTENDS SharedLimiter, TLAPS

USE CapacityAssumption, RefillAssumption, CostAssumption, TimeAssumption,
    PatienceAssumption

-----------------------------------------------------------------------------
(****************************************************************************)
(* Buckets.                                                                 *)
(****************************************************************************)

Slack == MaxDelay * Refill

\* The tokens b was good for MaxDelay ticks ago; below zero when they were
\* taken since.
Worth(b) == IF b = None THEN Capacity
            ELSE Capped(b.tokens + b.age * Refill - Slack, Capacity)

LEMMA RefillProducts ==
    /\ Slack \in Nat
    /\ \A m \in Nat : m * Refill \in Nat
    /\ \A m, n \in Nat : m <= n => m * Refill <= n * Refill
    /\ \A m, n \in Nat : (m + n) * Refill = m * Refill + n * Refill
<1>1. \A m \in Nat : m * Refill \in Nat
  OBVIOUS
<1>2. \A m, n \in Nat : m <= n => m * Refill <= n * Refill
  OBVIOUS
<1>3. \A m, n \in Nat : (m + n) * Refill = m * Refill + n * Refill
  OBVIOUS
<1>4. QED
  BY <1>1, <1>2, <1>3 DEF Slack

LEMMA BucketFields ==
    ASSUME NEW b \in Bucket
    PROVE  /\ b # None
           /\ b.tokens \in 0..Capacity
           /\ b.age \in 0..MaxAge
           /\ b.age * Refill \in Nat
<1>1. b.tokens \in 0..Capacity /\ b.age \in 0..MaxAge
  BY DEF Bucket
<1>2. b \in [tokens : Int, age : Int]
  BY <1>1 DEF Bucket, MaxAge
<1>3. QED
  BY <1>1, <1>2, NoneAssumption, RefillProducts DEF MaxAge

LEMMA WorthBounds ==
    ASSUME NEW b \in Bucket \cup {None}
    PROVE  Worth(b) \in Int /\ -Slack <= Worth(b) /\ Worth(b) <= Capacity
<1>1. CASE b = None
  BY <1>1, RefillProducts DEF Worth
<1>2. CASE b \in Bucket
  BY <1>2, BucketFields, RefillProducts DEF Worth, Capped
<1>3. QED
  BY <1>1, <1>2

\* A refill as of any reading still in use gains nothing, and leaves no credit
\* younger than the oldest reading.
LEMMA RefillGainsNothing ==
    ASSUME NEW b \in Bucket, NEW lag \in 0..MaxDelay
    PROVE  /\ Refilled(b, lag) \in Bucket
           /\ Refilled(b, lag).age <= MaxDelay
           /\ Worth(Refilled(b, lag)) <= Worth(b)
<1>0. b # None /\ b.tokens \in 0..Capacity /\ b.age \in 0..MaxAge
      /\ b.age * Refill \in Nat
  BY BucketFields
<1>1. CASE b.age <= lag
  BY <1>0, <1>1, WorthBounds DEF Refilled, Elapsed
<1>2. CASE b.age > lag
  <2> DEFINE gain == (b.age - lag) * Refill
             n    == Capped(b.tokens + gain, Capacity)
             r    == [tokens |-> n, age |-> lag]
  <2>1. Refilled(b, lag) = r
    BY <1>0, <1>2 DEF Refilled, Elapsed
  <2>2. gain \in Nat /\ b.age * Refill = gain + lag * Refill
    <3>1. b.age - lag \in Nat /\ lag \in Nat /\ b.age = (b.age - lag) + lag
      BY <1>0, <1>2
    <3>2. QED
      BY <3>1, RefillProducts
  <2> HIDE DEF gain
  <2>3. n \in 0..Capacity
    BY <1>0, <2>2 DEF Capped
  <2>4. r \in Bucket
    BY <2>3 DEF Bucket, MaxAge
  <2>5. lag * Refill <= Slack /\ lag * Refill \in Nat /\ Slack \in Nat
    BY RefillProducts DEF Slack
  <2>6. Worth(r) = Capped(n + lag * Refill - Slack, Capacity)
    BY <2>4, BucketFields DEF Worth
  <2>7. Worth(b) = Capped(b.tokens + gain + lag * Refill - Slack, Capacity)
    BY <1>0, <2>2, <2>5 DEF Worth
  <2>8. Worth(r) <= Worth(b)
    BY <1>0, <2>2, <2>3, <2>5, <2>6, <2>7 DEF Capped
  <2>9. QED
    BY <2>1, <2>4, <2>8
<1>3. QED
  BY <1>0, <1>1, <1>2

\* Up to MaxDelay no credit is capped, so a grant lowers the worth by its cost.
LEMMA SpendLosesCost ==
    ASSUME NEW b \in Bucket, b.age <= MaxDelay, b.tokens >= Cost
    PROVE  /\ [b EXCEPT !.tokens = @ - Cost] \in Bucket
           /\ Worth([b EXCEPT !.tokens = @ - Cost]) = Worth(b) - Cost
<1> DEFINE s == [tokens |-> b.tokens - Cost, age |-> b.age]
<1>0. b # None /\ b.tokens \in 0..Capacity /\ b.age \in 0..MaxAge
      /\ b.age * Refill \in Nat
  BY BucketFields
<1>1. s = [b EXCEPT !.tokens = @ - Cost]
  BY DEF Bucket
<1>2. s \in Bucket
  BY <1>0 DEF Bucket
<1>3. b.age * Refill <= Slack /\ Slack \in Nat
  BY <1>0, RefillProducts DEF Slack
<1>4. ASSUME NEW r \in Bucket, r.age = b.age
      PROVE  Worth(r) = r.tokens + b.age * Refill - Slack
  <2>1. r # None /\ r.tokens \in 0..Capacity
    BY BucketFields
  <2> DEFINE x == r.tokens + b.age * Refill - Slack
  <2>2. x \in Int /\ x <= Capacity
    BY <1>0, <1>3, <2>1
  <2>3. Worth(r) = Capped(x, Capacity)
    BY <1>4, <2>1 DEF Worth
  <2> HIDE DEF x
  <2>4. Capped(x, Capacity) = x
    BY <2>2 DEF Capped
  <2>5. QED
    BY <2>3, <2>4 DEF x
<1>5. Worth(s) = Worth(b) - Cost
  <2>1. /\ Worth(b) = b.tokens + b.age * Refill - Slack
        /\ Worth(s) = b.tokens - Cost + b.age * Refill - Slack
    BY <1>2, <1>4
  <2>2. QED
    BY <1>0, <1>3, <2>1
<1> HIDE DEF s
<1>6. QED
  BY <1>1, <1>2, <1>5

\* A bucket the sweep drops was worth a full one.
LEMMA StaleIsFull ==
    ASSUME NEW b \in Bucket \cup {None}, NEW lag \in Nat, Stale(b, lag)
    PROVE  Worth(b) = Capacity
<1>1. b \in Bucket /\ MaxIdle <= b.age
  BY BucketFields DEF Stale, Bucket, MaxAge
<1>2. b # None /\ b.tokens \in 0..Capacity /\ b.age \in 0..MaxAge
      /\ b.age * Refill \in Nat
  BY <1>1, BucketFields
<1>3. MaxIdle * Refill = (MaxIdle - MaxDelay) * Refill + Slack
  <2>1. MaxIdle - MaxDelay \in Nat /\ MaxIdle = (MaxIdle - MaxDelay) + MaxDelay
    OBVIOUS
  <2>2. QED
    BY <2>1, RefillProducts DEF Slack
<1>4. b.age * Refill >= MaxIdle * Refill
  BY <1>1, <1>2, RefillProducts
<1>5. b.tokens + b.age * Refill - Slack >= Capacity
  BY <1>2, <1>3, <1>4, RefillProducts
<1>6. QED
  BY <1>2, <1>5, RefillProducts DEF Worth, Capped

\* A tick adds at most Refill.
LEMMA AgingGainsRefill ==
    ASSUME NEW b \in Bucket \cup {None}
    PROVE  Aged(b) \in Bucket \cup {None} /\ Worth(Aged(b)) <= Worth(b) + Refill
<1>1. CASE b = None
  BY <1>1 DEF Aged, Worth
<1>2. CASE b \in Bucket
  <2> DEFINE older == Capped(b.age + 1, MaxAge)
             a     == [tokens |-> b.tokens, age |-> older]
  <2>0. b # None /\ b.tokens \in 0..Capacity /\ b.age \in 0..MaxAge
        /\ b.age * Refill \in Nat
    BY <1>2, BucketFields
  <2>1. Aged(b) = a
    BY <1>2, <2>0 DEF Aged, Bucket
  <2>2. older \in 0..MaxAge /\ older <= b.age + 1
    BY <2>0 DEF Capped, MaxAge
  <2> HIDE DEF older
  <2>3. a \in Bucket
    BY <2>0, <2>2 DEF Bucket
  <2>4. older * Refill <= b.age * Refill + Refill /\ older * Refill \in Nat
    <3>1. older \in Nat /\ b.age \in Nat
      BY <2>0, <2>2 DEF MaxAge
    <3>2. older * Refill <= (b.age + 1) * Refill
      BY <2>2, <3>1, RefillProducts
    <3>3. QED
      BY <3>1, <3>2, RefillProducts
  <2>5. /\ Worth(a) = Capped(b.tokens + older * Refill - Slack, Capacity)
        /\ Worth(b) = Capped(b.tokens + b.age * Refill - Slack, Capacity)
    BY <2>0, <2>3, BucketFields DEF Worth
  <2>6. Worth(a) <= Worth(b) + Refill
    <3>1. ASSUME NEW x \in Int, NEW y \in Int, x <= y + Refill
          PROVE  Capped(x, Capacity) <= Capped(y, Capacity) + Refill
      BY <3>1 DEF Capped
    <3>2. /\ b.tokens + older * Refill - Slack \in Int
          /\ b.tokens + b.age * Refill - Slack \in Int
          /\ b.tokens + older * Refill - Slack <= b.tokens + b.age * Refill - Slack + Refill
      BY <2>0, <2>4, RefillProducts
    <3>3. QED
      BY <2>5, <3>1, <3>2
  <2>7. QED
    BY <2>1, <2>3, <2>6
<1>3. QED
  BY <1>1, <1>2

-----------------------------------------------------------------------------
(****************************************************************************)
(* Types, and where callers and the sweep stand.                            *)
(****************************************************************************)

\* Whoever is past the lookup works on the registry in force.
Placed ==
    /\ \A t \in Threads :
          /\ caller[t].reg \in {None, registry}
          /\ caller[t].pc # "idle" => caller[t].client \in Clients
          /\ caller[t].pc \in {"enter", "stamped"} =>
                 caller[t].reg = registry /\ registry # None
    /\ sweep.reg \in {None, registry}
    /\ sweep.left # {} => sweep.reg = registry /\ registry # None

PlacedOK == TypeOK /\ Placed

LEMMA FoundIsCurrent ==
    ASSUME PlacedOK, NEW t \in Threads, caller[t].pc = "stamped"
    PROVE  /\ caller[t].reg = registry /\ registry \in Threads
           /\ caller[t].client \in Clients
           /\ Found(t) \in Bucket
           /\ Found(t).age <= MaxDelay
           /\ Worth(Found(t)) <= Worth(buckets[registry][caller[t].client])
<1> DEFINE r == caller[t].reg
           c == caller[t].client
           b == buckets[r][c]
<1>1. r = registry /\ registry \in Threads /\ c \in Clients
  BY DEF PlacedOK, Placed, TypeOK
<1>2. b \in Bucket \cup {None} /\ caller[t].lag \in 0..MaxDelay
  BY <1>1 DEF PlacedOK, TypeOK, Callers
<1>3. CASE b = None
  <2> DEFINE full == [tokens |-> Capacity, age |-> caller[t].lag]
  <2>1. Found(t) = full
    BY <1>3 DEF Found
  <2>2. full \in Bucket
    BY <1>2 DEF Bucket, MaxAge
  <2>3. Worth(full) <= Capacity /\ Worth(b) = Capacity
    BY <1>3, <2>2, WorthBounds DEF Worth
  <2>4. full.age <= MaxDelay
    BY <1>2
  <2>5. QED
    BY <1>1, <2>1, <2>2, <2>3, <2>4
<1>4. CASE b # None
  <2>1. b \in Bucket /\ Found(t) = Refilled(b, caller[t].lag)
    BY <1>2, <1>4 DEF Found
  <2>2. QED
    BY <1>1, <1>2, <2>1, RefillGainsNothing
<1>5. QED
  BY <1>3, <1>4

LEMMA PutKeepsPlace ==
    ASSUME PlacedOK, NEW t \in Threads, caller[t].pc = "stamped",
           NEW b \in Bucket, Put(t, b)
    PROVE  /\ buckets' \in [Threads -> [Clients -> Bucket \cup {None}]]
           /\ caller' \in [Threads -> Callers]
           /\ caller'[t] = Idle
           /\ \A u \in Threads \ {t} : caller'[u] = caller[u]
           /\ \A c \in Clients :
                  buckets'[registry][c] = IF c = caller[t].client THEN b
                                          ELSE buckets[registry][c]
<1>1. caller[t].reg = registry /\ registry \in Threads /\ caller[t].client \in Clients
  BY FoundIsCurrent
<1>2. /\ buckets \in [Threads -> [Clients -> Bucket \cup {None}]]
      /\ caller \in [Threads -> Callers]
  BY DEF PlacedOK, TypeOK
<1> DEFINE held == [buckets[registry] EXCEPT ![caller[t].client] = b]
<1>3. /\ held \in [Clients -> Bucket \cup {None}]
      /\ \A c \in Clients : held[c] = IF c = caller[t].client THEN b
                                      ELSE buckets[registry][c]
  BY <1>1, <1>2
<1>4. buckets' = [buckets EXCEPT ![registry] = held]
  BY <1>1 DEF Put
<1> HIDE DEF held
<1>5. Idle \in Callers
  BY DEF Idle, Callers
<1>6. QED
  BY <1>1, <1>2, <1>3, <1>4, <1>5 DEF Put

LEMMA PlacedInductive == PlacedOK /\ [Next]_vars => PlacedOK'
<1> SUFFICES ASSUME PlacedOK, [Next]_vars PROVE PlacedOK'
  OBVIOUS
<1>0. TypeOK /\ Placed
  BY DEF PlacedOK
<1>1. ASSUME NEW t \in Threads, NEW c \in Clients, Begin(t, c)
      PROVE  PlacedOK'
  <2> DEFINE mine == [pc |-> IF registry = None THEN "ensure" ELSE "enter",
                      client |-> c, reg |-> registry, lag |-> 0]
  <2>1. mine \in Callers
    BY <1>0 DEF Callers, TypeOK
  <2>2. caller' = [caller EXCEPT ![t] = mine]
    BY <1>1 DEF Begin
  <2>3. TypeOK'
    BY <1>0, <1>1, <2>1, <2>2 DEF TypeOK, Begin
  <2>4. mine.pc \in {"enter", "stamped"} => registry # None
    OBVIOUS
  <2>5. mine.reg = registry /\ mine.client = c
    OBVIOUS
  <2> HIDE DEF mine
  <2>6. \A u \in Threads : caller'[u] = IF u = t THEN mine ELSE caller[u]
    BY <1>0, <2>2 DEF TypeOK
  <2>7. Placed'
    BY <1>0, <1>1, <2>4, <2>5, <2>6 DEF Placed, Begin
  <2>8. QED
    BY <2>3, <2>7 DEF PlacedOK
<1>2. ASSUME NEW t \in Threads, Ensure(t)
      PROVE  PlacedOK'
  <2> DEFINE mine == [caller[t] EXCEPT !.pc = "enter", !.reg = registry']
  <2>1. registry' \in Threads /\ (registry # None => registry' = registry)
    BY <1>0, <1>2, NoneAssumption DEF Ensure, TypeOK
  <2>2. mine \in Callers /\ mine.reg = registry' /\ mine.client = caller[t].client
    BY <1>0, <2>1 DEF TypeOK, Callers
  <2>3. caller' = [caller EXCEPT ![t] = mine]
    BY <1>2 DEF Ensure
  <2>4. caller[t].client \in Clients
    BY <1>0, <1>2 DEF Placed, Ensure
  <2> HIDE DEF mine
  <2>5. /\ caller' \in [Threads -> Callers]
        /\ \A u \in Threads : caller'[u] = IF u = t THEN mine ELSE caller[u]
    BY <1>0, <2>2, <2>3 DEF TypeOK
  <2>6. buckets' \in [Threads -> [Clients -> Bucket \cup {None}]]
    BY <1>0, <1>2 DEF Ensure, TypeOK, Empty
  <2>7. TypeOK'
    BY <1>0, <1>2, <2>1, <2>5, <2>6 DEF TypeOK, Ensure
  <2>8. registry' # None /\ (registry = None \/ registry' = registry)
    BY <2>1, NoneAssumption
  <2>9. Placed'
    BY <1>0, <1>2, <2>2, <2>4, <2>5, <2>8 DEF Placed, Ensure
  <2>10. QED
    BY <2>7, <2>9 DEF PlacedOK
<1>3. ASSUME NEW t \in Threads, ReadClock(t)
      PROVE  PlacedOK'
  <2> DEFINE mine == [caller[t] EXCEPT !.pc = "stamped"]
  <2>1. caller' = [caller EXCEPT ![t] = mine]
    BY <1>0, <1>3 DEF ReadClock, TypeOK
  <2>2. mine \in Callers /\ mine.reg = caller[t].reg /\ mine.client = caller[t].client
    BY <1>0 DEF TypeOK, Callers
  <2> HIDE DEF mine
  <2>3. /\ caller' \in [Threads -> Callers]
        /\ \A u \in Threads : caller'[u] = IF u = t THEN mine ELSE caller[u]
    BY <1>0, <2>1, <2>2 DEF TypeOK
  <2>4. TypeOK'
    BY <1>0, <1>3, <2>3 DEF TypeOK, ReadClock
  <2>5. Placed'
    BY <1>0, <1>3, <2>2, <2>3 DEF Placed, ReadClock
  <2>6. QED
    BY <2>4, <2>5 DEF PlacedOK
<1>4. ASSUME NEW t \in Threads, Grant(t)
      PROVE  PlacedOK'
  <2> DEFINE b == [Found(t) EXCEPT !.tokens = @ - Cost]
  <2>1. b \in Bucket
    BY <1>4, FoundIsCurrent, SpendLosesCost DEF Grant
  <2>2. Put(t, b) /\ caller[t].pc = "stamped"
    BY <1>4 DEF Grant
  <2> HIDE DEF b
  <2>3. window' \in [Clients -> [age : 0..MaxWindow, spent : Nat]]
    <3> DEFINE k == caller[t].client
               w == [window[k] EXCEPT !.spent = window[k].spent + Cost]
    <3>1. k \in Clients /\ window[k] \in [age : 0..MaxWindow, spent : Nat]
      BY <1>0, <2>2, FoundIsCurrent DEF TypeOK
    <3>2. window[k].spent + Cost \in Nat
      BY <3>1
    <3>3. w \in [age : 0..MaxWindow, spent : Nat]
      BY <3>1, <3>2
    <3>4. window' = [window EXCEPT ![k] = w]
      BY <1>0, <1>4, <3>1 DEF Grant, TypeOK
    <3> HIDE DEF w, k
    <3>5. QED
      BY <1>0, <3>3, <3>4 DEF TypeOK
  <2>4. TypeOK'
    BY <1>0, <1>4, <2>1, <2>2, <2>3, PutKeepsPlace DEF TypeOK, Grant
  <2>5. Placed'
    BY <1>0, <1>4, <2>1, <2>2, PutKeepsPlace DEF Placed, Grant, Idle
  <2>6. QED
    BY <2>4, <2>5 DEF PlacedOK
<1>5. ASSUME NEW t \in Threads, Deny(t)
      PROVE  PlacedOK'
  <2>1. Found(t) \in Bucket /\ Put(t, Found(t)) /\ caller[t].pc = "stamped"
    BY <1>5, FoundIsCurrent DEF Deny
  <2>2. TypeOK'
    BY <1>0, <1>5, <2>1, PutKeepsPlace DEF TypeOK, Deny
  <2>3. Placed'
    BY <1>0, <1>5, <2>1, PutKeepsPlace DEF Placed, Deny, Idle
  <2>4. QED
    BY <2>2, <2>3 DEF PlacedOK
<1>6. CASE SweepBegin
  BY <1>0, <1>6 DEF SweepBegin, PlacedOK, TypeOK, Placed, Sweeps
<1>7. ASSUME NEW s \in Stripes, SweepStripe(s)
      PROVE  PlacedOK'
  <2>1. sweep' \in Sweeps /\ sweep'.reg \in {None, sweep.reg}
        /\ (sweep'.left # {} => sweep'.reg = sweep.reg)
    BY <1>0, <1>7 DEF SweepStripe, TypeOK, Sweeps, NoSweep
  <2>2. sweep.reg = registry /\ registry \in Threads
    BY <1>0, <1>7 DEF SweepStripe, Placed, TypeOK
  <2>3. Swept(buckets[registry], s) \in [Clients -> Bucket \cup {None}]
    BY <1>0, <2>2 DEF Swept, TypeOK
  <2>4. buckets' \in [Threads -> [Clients -> Bucket \cup {None}]]
    BY <1>0, <1>7, <2>2, <2>3 DEF SweepStripe, TypeOK
  <2>5. TypeOK'
    BY <1>0, <1>7, <2>1, <2>4 DEF SweepStripe, TypeOK
  <2>6. Placed'
    BY <1>0, <1>7, <2>1, <2>2, NoneAssumption DEF SweepStripe, Placed
  <2>7. QED
    BY <2>5, <2>6 DEF PlacedOK
<1>8. CASE Tick
  <2>1. buckets' \in [Threads -> [Clients -> Bucket \cup {None}]]
    BY <1>0, <1>8, AgingGainsRefill DEF Tick, TypeOK
  <2>2. ASSUME NEW t \in Threads
        PROVE  /\ caller'[t] \in Callers
               /\ caller'[t].pc = caller[t].pc
               /\ caller'[t].client = caller[t].client
               /\ caller'[t].reg = caller[t].reg
    <3>1. caller[t] \in Callers
      BY <1>0 DEF TypeOK
    <3>2. CASE Waiting(t)
      <4>1. caller[t].lag + 1 \in 0..MaxDelay
        BY <1>8, <3>1, <3>2 DEF Tick, Callers
      <4>2. caller'[t] = [caller[t] EXCEPT !.lag = caller[t].lag + 1]
        BY <1>8, <3>2 DEF Tick
      <4>3. QED
        BY <3>1, <4>1, <4>2 DEF Callers
    <3>3. CASE ~Waiting(t)
      BY <1>8, <3>1, <3>3 DEF Tick
    <3>4. QED
      BY <3>2, <3>3
  <2>3. caller' \in [Threads -> Callers]
    BY <1>8, <2>2 DEF Tick
  <2>4. sweep' \in Sweeps /\ sweep'.reg = sweep.reg /\ sweep'.left = sweep.left
    <3>1. sweep \in Sweeps
      BY <1>0 DEF TypeOK
    <3>2. CASE sweep.left = {}
      BY <1>8, <3>1, <3>2 DEF Tick
    <3>3. CASE sweep.left # {}
      <4>1. sweep.lag + 1 \in 0..MaxDelay
        BY <1>8, <3>1, <3>3 DEF Tick, Sweeps
      <4>2. sweep' = [sweep EXCEPT !.lag = sweep.lag + 1]
        BY <1>8, <3>3 DEF Tick
      <4>3. QED
        BY <3>1, <4>1, <4>2 DEF Sweeps
    <3>4. QED
      BY <3>2, <3>3
  <2>5. window' \in [Clients -> [age : 0..MaxWindow, spent : Nat]]
    <3>1. ASSUME NEW w \in [age : 0..MaxWindow, spent : Nat], w.age # MaxWindow
          PROVE  [w EXCEPT !.age = w.age + 1] \in [age : 0..MaxWindow, spent : Nat]
      <4>1. w.age + 1 \in 0..MaxWindow
        BY <3>1
      <4>2. QED
        BY <4>1
    <3>2. NoWindow \in [age : 0..MaxWindow, spent : Nat]
      BY DEF NoWindow
    <3>3. QED
      BY <1>0, <1>8, <3>1, <3>2 DEF Tick, TypeOK
  <2>6. TypeOK'
    BY <1>0, <1>8, <2>1, <2>3, <2>4, <2>5 DEF TypeOK, Tick
  <2>7. Placed'
    BY <1>0, <1>8, <2>2, <2>4 DEF Placed, Tick
  <2>8. QED
    BY <2>6, <2>7 DEF PlacedOK
<1>9. ASSUME NEW c \in Clients, Measure(c) PROVE PlacedOK'
  BY <1>0, <1>9 DEF Measure, PlacedOK, TypeOK, Placed, NoWindow
<1>10. CASE UNCHANGED vars
  BY <1>0, <1>10 DEF vars, PlacedOK, TypeOK, Placed
<1>11. QED
  BY <1>1, <1>2, <1>3, <1>4, <1>5, <1>6, <1>7, <1>8, <1>9, <1>10 DEF Next, Step

LEMMA PlacedInit == Init => PlacedOK
  BY DEF Init, PlacedOK, TypeOK, Placed, Empty, Idle, Callers, NoSweep, Sweeps, NoWindow

LEMMA PlacedAlways == Spec => []PlacedOK
  BY PlacedInit, PlacedInductive, PTL DEF Spec

\* Every variable keeps its type: a stale clock reading never drives a bucket
\* below zero or above the burst.
THEOREM TypeCorrect == Spec => []TypeOK
<1>1. PlacedOK => TypeOK
  BY DEF PlacedOK
<1>2. QED
  BY <1>1, PlacedAlways, PTL

\* However many callers find a policy without a registry at once, one is
\* built, and nobody ever works on another.
THEOREM OneRegistryOnly == Spec => []OneRegistry
<1>1. PlacedOK => OneRegistry
  BY DEF PlacedOK, Placed, OneRegistry
<1>2. QED
  BY <1>1, PlacedAlways, PTL

-----------------------------------------------------------------------------
(****************************************************************************)
(* The window bound.                                                        *)
(****************************************************************************)

\* What client c's bucket in the registry in force is worth.
Left(c) == Worth(IF registry = None THEN None ELSE buckets[registry][c])

\* What was granted in a window and what is left never exceed what the window
\* could yield.  (spent <= burst + refill * age alone is false: a client may
\* have taken MaxDelay ticks' worth more than its window earned.)
Budget ==
    \A c \in Clients :
        window[c].spent + Left(c) <= Capacity + Refill * window[c].age

LEMMA LeftBounds ==
    ASSUME TypeOK, NEW c \in Clients
    PROVE  Left(c) \in Int /\ -Slack <= Left(c) /\ Left(c) <= Capacity
  BY WorthBounds DEF TypeOK, Left

LEMMA BudgetInductive == PlacedOK /\ PlacedOK' /\ Budget /\ [Next]_vars => Budget'
<1> SUFFICES ASSUME PlacedOK, PlacedOK', Budget, [Next]_vars, NEW c \in Clients
             PROVE  window'[c].spent + Left(c)' <= Capacity + Refill * window'[c].age
  BY DEF Budget
<1> DEFINE w == window[c]
<1>0. /\ TypeOK /\ Placed /\ TypeOK'
      /\ w.spent \in Nat /\ w.age \in 0..MaxWindow
      /\ Left(c) \in Int /\ Left(c)' \in Int
      /\ w.spent + Left(c) <= Capacity + Refill * w.age
      /\ Refill * w.age \in Nat
  <2>1. TypeOK /\ Placed /\ TypeOK'
    BY DEF PlacedOK
  <2>2. w.spent \in Nat /\ w.age \in 0..MaxWindow
    BY <2>1 DEF TypeOK
  <2>3. Left(c) \in Int /\ Left(c)' \in Int
    BY <2>1, LeftBounds, WorthBounds DEF TypeOK, Left
  <2>4. QED
    BY <2>1, <2>2, <2>3 DEF Budget
\* Nothing was granted, the window is the same, and the bucket is worth no more.
<1>1. ASSUME window' = window, Left(c)' <= Left(c)
      PROVE  window'[c].spent + Left(c)' <= Capacity + Refill * window'[c].age
  BY <1>0, <1>1
<1>2. ASSUME NEW t \in Threads, NEW d \in Clients, Begin(t, d)
      PROVE  window'[c].spent + Left(c)' <= Capacity + Refill * window'[c].age
  BY <1>0, <1>1, <1>2 DEF Begin, Left
<1>3. ASSUME NEW t \in Threads, Ensure(t)
      PROVE  window'[c].spent + Left(c)' <= Capacity + Refill * window'[c].age
  <2>1. Left(c)' = Left(c)
    <3>1. CASE registry = None
      <4>1. registry' = t /\ buckets'[t][c] = None
        BY <1>0, <1>3, <3>1 DEF Ensure, Empty, TypeOK
      <4>2. QED
        BY <3>1, <4>1 DEF Left
    <3>2. CASE registry # None
      BY <1>3, <3>2 DEF Ensure, Left
    <3>3. QED
      BY <3>1, <3>2
  <2>2. QED
    BY <1>0, <1>1, <1>3, <2>1 DEF Ensure
<1>4. ASSUME NEW t \in Threads, ReadClock(t)
      PROVE  window'[c].spent + Left(c)' <= Capacity + Refill * window'[c].age
  BY <1>0, <1>1, <1>4 DEF ReadClock, Left
<1>5. ASSUME NEW t \in Threads, Grant(t)
      PROVE  window'[c].spent + Left(c)' <= Capacity + Refill * window'[c].age
  <2> DEFINE b == [Found(t) EXCEPT !.tokens = @ - Cost]
             k == caller[t].client
  <2>1. caller[t].pc = "stamped" /\ Put(t, b) /\ Found(t).tokens >= Cost
    BY <1>5 DEF Grant
  <2>2. registry \in Threads /\ registry # None /\ k \in Clients
    BY <2>1, FoundIsCurrent, NoneAssumption
  <2>3. b \in Bucket /\ Worth(b) = Worth(Found(t)) - Cost
    BY <2>1, FoundIsCurrent, SpendLosesCost
  <2>4. Worth(Found(t)) \in Int /\ Worth(Found(t)) <= Worth(buckets[registry][k])
    BY <2>1, FoundIsCurrent, WorthBounds
  <2> HIDE DEF b
  <2>5. Left(c)' = IF c = k THEN Worth(b) ELSE Left(c)
    <3>1. registry' = registry
      BY <1>5 DEF Grant
    <3>2. buckets'[registry][c] = IF c = k THEN b ELSE buckets[registry][c]
      BY <2>1, <2>3, PutKeepsPlace
    <3>3. QED
      BY <2>2, <3>1, <3>2 DEF Left
  <2>6. CASE c = k
    <3>1. window'[c].spent = w.spent + Cost /\ window'[c].age = w.age
      BY <1>0, <1>5, <2>6 DEF Grant, TypeOK
    <3>2. Left(c) = Worth(buckets[registry][k])
      BY <2>2, <2>6 DEF Left
    <3>3. Left(c)' <= Left(c) - Cost
      BY <1>0, <2>3, <2>4, <2>5, <2>6, <3>2
    <3>4. QED
      BY <1>0, <3>1, <3>3
  <2>7. CASE c # k
    <3>1. window'[c] = window[c]
      BY <1>0, <1>5, <2>7 DEF Grant, TypeOK
    <3>2. QED
      BY <1>0, <2>5, <2>7, <3>1
  <2>8. QED
    BY <2>6, <2>7
<1>6. ASSUME NEW t \in Threads, Deny(t)
      PROVE  window'[c].spent + Left(c)' <= Capacity + Refill * window'[c].age
  <2> DEFINE k == caller[t].client
  <2>1. caller[t].pc = "stamped" /\ Put(t, Found(t))
    BY <1>6 DEF Deny
  <2>2. /\ registry \in Threads /\ registry # None
        /\ Found(t) \in Bucket
        /\ Worth(Found(t)) <= Worth(buckets[registry][k])
    BY <2>1, FoundIsCurrent, NoneAssumption
  <2>3. registry' = registry
        /\ buckets'[registry][c] = IF c = k THEN Found(t) ELSE buckets[registry][c]
    BY <1>6, <2>1, <2>2, PutKeepsPlace DEF Deny
  <2>4. Left(c)' <= Left(c)
    BY <1>0, <2>2, <2>3 DEF Left
  <2>5. QED
    BY <1>1, <1>6, <2>4 DEF Deny
<1>7. CASE SweepBegin
  BY <1>0, <1>1, <1>7 DEF SweepBegin, Left
<1>8. ASSUME NEW s \in Stripes, SweepStripe(s)
      PROVE  window'[c].spent + Left(c)' <= Capacity + Refill * window'[c].age
  <2> DEFINE b == buckets[registry][c]
  <2>1. /\ sweep.reg = registry /\ registry \in Threads /\ registry # None
        /\ registry' = registry /\ sweep.lag \in Nat
        /\ b \in Bucket \cup {None}
    BY <1>0, <1>8, NoneAssumption DEF SweepStripe, Placed, TypeOK, Sweeps
  <2>2. buckets'[registry][c] = Swept(buckets[registry], s)[c]
    BY <1>0, <1>8, <2>1 DEF SweepStripe, TypeOK
  <2>3. CASE StripeOf[c] = s /\ Stale(b, sweep.lag)
    <3>1. Worth(b) = Capacity
      BY <2>1, <2>3, StaleIsFull
    <3>2. buckets'[registry][c] = None
      BY <2>2, <2>3 DEF Swept
    <3>3. Left(c)' = Capacity /\ Left(c) = Capacity
      BY <2>1, <3>1, <3>2 DEF Left, Worth
    <3>4. QED
      BY <1>0, <1>1, <1>8, <3>3 DEF SweepStripe
  <2>4. CASE ~(StripeOf[c] = s /\ Stale(b, sweep.lag))
    <3>1. buckets'[registry][c] = b
      BY <2>2, <2>4 DEF Swept
    <3>2. Left(c)' = Left(c)
      BY <2>1, <3>1 DEF Left
    <3>3. QED
      BY <1>0, <1>1, <1>8, <3>2 DEF SweepStripe
  <2>5. QED
    BY <2>3, <2>4
<1>9. CASE Tick
  <2>1. Left(c)' <= Left(c) + Refill
    <3>1. CASE registry = None
      BY <1>0, <1>9, <3>1 DEF Tick, Left
    <3>2. CASE registry # None
      <4>1. registry \in Threads /\ buckets[registry][c] \in Bucket \cup {None}
        BY <1>0, <3>2 DEF TypeOK
      <4>2. registry' = registry /\ buckets'[registry][c] = Aged(buckets[registry][c])
        BY <1>9, <4>1 DEF Tick
      <4>3. QED
        BY <3>2, <4>1, <4>2, AgingGainsRefill DEF Left
    <3>3. QED
      BY <3>1, <3>2
  <2>2. CASE w.age = MaxWindow
    <3>1. window'[c].spent = 0 /\ window'[c].age = 0
      BY <1>9, <2>2 DEF Tick, NoWindow
    <3>2. Left(c)' <= Capacity
      BY <1>0, WorthBounds DEF TypeOK, Left
    <3>3. QED
      BY <1>0, <3>1, <3>2
  <2>3. CASE w.age # MaxWindow
    <3>1. window'[c] = [w EXCEPT !.age = w.age + 1]
      BY <1>9, <2>3 DEF Tick
    <3>2. window'[c].spent = w.spent /\ window'[c].age = w.age + 1
      BY <1>0, <3>1 DEF TypeOK
    <3>3. Refill * (w.age + 1) = Refill * w.age + Refill
      BY <1>0
    <3>4. QED
      BY <1>0, <2>1, <3>2, <3>3
  <2>4. QED
    BY <2>2, <2>3
<1>10. ASSUME NEW d \in Clients, Measure(d)
       PROVE  window'[c].spent + Left(c)' <= Capacity + Refill * window'[c].age
  <2>1. Left(c)' = Left(c) /\ Left(c) <= Capacity
    BY <1>0, <1>10, LeftBounds DEF Measure, Left
  <2>2. CASE c = d
    <3>1. window'[c].spent = 0 /\ window'[c].age = 0
      BY <1>0, <1>10, <2>2 DEF Measure, NoWindow, TypeOK
    <3>2. QED
      BY <1>0, <2>1, <3>1
  <2>3. CASE c # d
    <3>1. window'[c] = window[c]
      BY <1>0, <1>10, <2>3 DEF Measure, TypeOK
    <3>2. QED
      BY <1>0, <2>1, <3>1
  <2>4. QED
    BY <2>2, <2>3
<1>11. CASE UNCHANGED vars
  BY <1>0, <1>1, <1>11 DEF vars, Left
<1>12. QED
  BY <1>2, <1>3, <1>4, <1>5, <1>6, <1>7, <1>8, <1>9, <1>10, <1>11 DEF Next, Step

\* However checks and sweeps overlap, a client is granted at most a burst plus
\* the refill of the window and of the longest wait for a lock.
THEOREM WindowBounded == Spec => []WindowBound
<1>1. Init => Budget
  <2> SUFFICES ASSUME Init, NEW c \in Clients
               PROVE  window[c].spent + Left(c) <= Capacity + Refill * window[c].age
    BY DEF Budget
  <2>1. Left(c) = Capacity /\ window[c].spent = 0 /\ window[c].age = 0
    BY DEF Init, Left, Worth, NoWindow
  <2>2. QED
    BY <2>1
<1>2. PlacedOK /\ Budget => WindowBound
  <2> SUFFICES ASSUME PlacedOK, Budget, NEW c \in Clients
               PROVE  window[c].spent <= Capacity + Refill * (window[c].age + MaxDelay)
    BY DEF WindowBound
  <2>1. window[c].spent \in Nat /\ window[c].age \in Nat
    BY DEF PlacedOK, TypeOK
  <2>2. Left(c) \in Int /\ -Slack <= Left(c)
    BY LeftBounds DEF PlacedOK
  <2>3. window[c].spent + Left(c) <= Capacity + Refill * window[c].age
    BY DEF Budget
  <2>4. Refill * (window[c].age + MaxDelay) = Refill * window[c].age + Slack
    BY <2>1 DEF Slack
  <2>5. Slack \in Nat /\ Refill * window[c].age \in Nat
    BY <2>1, RefillProducts
  <2>6. QED
    BY <2>1, <2>2, <2>3, <2>4, <2>5
<1>3. QED
  BY <1>1, <1>2, BudgetInductive, PlacedAlways, PTL DEF Spec
=============================================================================
