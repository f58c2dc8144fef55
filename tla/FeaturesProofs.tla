---------------------------- MODULE FeaturesProofs -----------------------------
(****************************************************************************)
(* Safety of the shared histories in Features, for any clients, requests,   *)
(* threads and window.                                                      *)
(*                                                                          *)
(* Nothing guards the dictionary: two threads may both find a client        *)
(* without a deque and make one, the sweep may delete one that a thread     *)
(* still holds.  What keeps a history its client's own is that a deque      *)
(* belongs to the client of the request that made it, for ever (OwnerInv).  *)
(****************************************************************************)
EXTENDS Features, FiniteSetTheorems, TLAPS

USE RequestsAssumption, WindowAssumption, NoneAssumption

-----------------------------------------------------------------------------
Counted == {"collect", "walk", "done", "lost"}     \* appended to a deque
Begun   == Counted \cup {"append"}                 \* made its deque, if it had to

OwnerInv ==
    /\ \A r \in Requests : task[r].pc # "idle" => task[r].client \in Clients
    /\ \A d \in Requests : \A i \in 1..Len(deque[d]) :
          /\ task[deque[d][i]].pc \in Counted
          /\ task[d].pc \in Begun
          /\ task[deque[d][i]].client = task[d].client
    /\ \A c \in Tracked : task[hist[c]].pc \in Begun /\ task[hist[c]].client = c
    /\ \A r \in Requests : task[r].pc = "append" =>
          /\ task[r].dq \in Requests
          /\ task[task[r].dq].pc \in Begun
          /\ task[task[r].dq].client = task[r].client

\* Nobody is judged on another client's traffic, whatever deques are replaced or
\* orphaned while they are being filled (observe, extract).
OwnTraffic ==
    \A c \in Tracked : \A i \in DOMAIN deque[hist[c]] :
        task[deque[hist[c]][i]].client = c

Inv == TypeOK /\ OwnerInv /\ EmptyIsBeingFilled

-----------------------------------------------------------------------------
(****************************************************************************)
(* Types.                                                                   *)
(****************************************************************************)

Pcs   == {"idle", "get", "create", "append", "collect", "walk", "done", "lost"}
Tasks == [pc : Pcs, client : Clients \cup {None}, dq : Requests \cup {None}]
Loops == [pc : {"sleep", "scan", "delete", "collect", "walk"}, stale : SUBSET Clients]
Walks == [size : 0..Cardinality(Clients), left : 0..Cardinality(Clients), visited : SUBSET Clients]

LEMMA TypeUnfolds ==
    TypeOK <=> /\ hist \in [Clients -> Requests \cup {None}]
               /\ deque \in [Requests -> Seq(Requests)]
               /\ \A d \in Requests : Len(deque[d]) <= Window
               /\ task \in [Requests -> Tasks]
               /\ loop \in Loops
               /\ walk \in [Walkers -> Walks]
               /\ old \subseteq Requests
               /\ overlapped \subseteq Requests
  BY DEF TypeOK, Tasks, Pcs, Loops, Walks

LEMMA NoneIsNoRequest == None \notin Requests /\ \A r \in Requests : r # None
  OBVIOUS

\* The walks of the dictionary.
LEMMA WalkTypes ==
    ASSUME TypeOK, NEW w \in Walkers
    PROVE  /\ BeginWalk(w) => walk' \in [Walkers -> Walks]
           /\ EndWalk(w) => walk' \in [Walkers -> Walks]
           /\ \A c \in Clients : Visit(w, c) => walk' \in [Walkers -> Walks]
<1>1. walk \in [Walkers -> Walks]
  BY TypeUnfolds
<1>2. Cardinality(Tracked) \in 0..Cardinality(Clients) /\ Cardinality(Clients) \in Nat
  <2>1. Tracked \subseteq Clients
    BY DEF Tracked
  <2>2. IsFiniteSet(Tracked) /\ Cardinality(Tracked) <= Cardinality(Clients)
    BY <2>1, ClientsAssumption, FS_Subset
  <2>3. Cardinality(Tracked) \in Nat /\ Cardinality(Clients) \in Nat
    BY <2>2, ClientsAssumption, FS_CardinalityType
  <2>4. QED
    BY <2>2, <2>3
<1>3. /\ [size |-> Cardinality(Tracked), left |-> Cardinality(Tracked), visited |-> {}] \in Walks
      /\ NoWalk \in Walks
  BY <1>2 DEF Walks, NoWalk
<1>4. BeginWalk(w) => walk' \in [Walkers -> Walks]
  BY <1>1, <1>3 DEF BeginWalk
<1>5. EndWalk(w) => walk' \in [Walkers -> Walks]
  BY <1>1, <1>3 DEF EndWalk
<1>6. ASSUME NEW c \in Clients, Visit(w, c) PROVE walk' \in [Walkers -> Walks]
  <2>1. walk[w] \in Walks /\ walk[w].left # 0 /\ walk[w].left - 1 \in 0..Cardinality(Clients)
    BY <1>1, <1>2, <1>6 DEF Visit, WalkBroken, Walks
  <2>2. [walk[w] EXCEPT !.left = @ - 1, !.visited = @ \cup {c}] \in Walks
    BY <2>1 DEF Walks
  <2>3. QED
    BY <1>1, <1>6, <2>2 DEF Visit
<1>7. QED
  BY <1>4, <1>5, <1>6

\* A deque takes an observation: it stays within its window, is not empty, and
\* holds nothing it did not hold.
LEMMA PushedHolds ==
    ASSUME NEW s \in Seq(Requests), Len(s) <= Window, NEW r \in Requests
    PROVE  /\ Pushed(s, r) \in Seq(Requests)
           /\ Len(Pushed(s, r)) <= Window
           /\ Pushed(s, r) # <<>>
           /\ \A i \in 1..Len(Pushed(s, r)) :
                 Pushed(s, r)[i] = r \/ \E j \in 1..Len(s) : Pushed(s, r)[i] = s[j]
<1>1. CASE Len(s) < Window
  <2>1. Pushed(s, r) = Append(s, r)
    BY <1>1 DEF Pushed
  <2>2. QED
    BY <1>1, <2>1
<1>2. CASE ~(Len(s) < Window)
  <2>1. Pushed(s, r) = Append(Tail(s), r) /\ Len(s) = Window /\ Len(s) \in Nat /\ s # <<>>
    BY <1>2 DEF Pushed
  <2>2. /\ Tail(s) \in Seq(Requests) /\ Len(Tail(s)) = Len(s) - 1
        /\ \A i \in 1..Len(Tail(s)) : i + 1 \in 1..Len(s) /\ Tail(s)[i] = s[i + 1]
    BY <2>1
  <2>3. QED
    BY <2>1, <2>2
<1>3. QED
  BY <1>1, <1>2

-----------------------------------------------------------------------------
(****************************************************************************)
(* Steps that neither make nor fill a deque.                                *)
(****************************************************************************)

\* Every task is at least as far as it was, for the same client.
Forward ==
    \A r \in Requests :
        /\ task[r].pc # "idle" => task'[r].pc # "idle" /\ task'[r].client = task[r].client
        /\ task[r].pc \in Begun => task'[r].pc \in Begun
        /\ task[r].pc \in Counted => task'[r].pc \in Counted
        /\ task[r].pc = "idle" /\ task'[r].pc # "idle" => task'[r].client \in Clients

\* Histories are at most forgotten.
Forgets == \A c \in Clients : hist'[c] = None \/ hist'[c] = hist[c]

LEMMA OwnerStays ==
    ASSUME TypeOK, OwnerInv, Forward, Forgets, deque' = deque,
           \A r \in Requests : task'[r].pc = "append" =>
              /\ task'[r].dq \in Requests
              /\ task[task'[r].dq].pc \in Begun
              /\ task[task'[r].dq].client = task'[r].client
    PROVE  OwnerInv'
<1>1. \A r \in Requests : task'[r].pc # "idle" => task'[r].client \in Clients
  BY DEF OwnerInv, Forward
<1>2. ASSUME NEW d \in Requests, NEW i \in 1..Len(deque'[d])
      PROVE  /\ task'[deque'[d][i]].pc \in Counted
             /\ task'[d].pc \in Begun
             /\ task'[deque'[d][i]].client = task'[d].client
  <2>1. PICK r \in Requests : r = deque[d][i]
    BY <1>2, TypeUnfolds
  <2>2. task[r].pc \in Counted /\ task[d].pc \in Begun /\ task[r].client = task[d].client
    BY <1>2, <2>1 DEF OwnerInv
  <2>3. task[r].pc # "idle" /\ task[d].pc # "idle"
    BY <2>2 DEF Counted, Begun
  <2>4. QED
    BY <2>1, <2>2, <2>3 DEF Forward
<1>3. ASSUME NEW c \in Clients, hist'[c] # None
      PROVE  task'[hist'[c]].pc \in Begun /\ task'[hist'[c]].client = c
  <2>1. PICK d \in Requests : d = hist[c] /\ d = hist'[c]
    BY <1>3, TypeUnfolds DEF Forgets
  <2>2. task[d].pc \in Begun /\ task[d].client = c
    BY <1>3, <2>1 DEF OwnerInv, Tracked
  <2>3. QED
    BY <2>1, <2>2 DEF Forward, Begun, Counted
<1>4. ASSUME NEW r \in Requests, task'[r].pc = "append"
      PROVE  /\ task'[r].dq \in Requests
             /\ task'[task'[r].dq].pc \in Begun
             /\ task'[task'[r].dq].client = task'[r].client
  <2>1. PICK d \in Requests : d = task'[r].dq
    BY <1>4
  <2>2. task[d].pc \in Begun /\ task[d].client = task'[r].client
    BY <1>4, <2>1
  <2>3. QED
    BY <2>1, <2>2 DEF Forward, Begun, Counted
<1>5. QED
  BY <1>1, <1>2, <1>3, <1>4 DEF OwnerInv, Tracked

LEMMA EmptyStays ==
    ASSUME EmptyIsBeingFilled, Forgets, deque' = deque,
           \A r \in Requests : task[r].pc = "append" =>
              task'[r].pc = "append" /\ task'[r].dq = task[r].dq
    PROVE  EmptyIsBeingFilled'
  BY DEF EmptyIsBeingFilled, Forgets, Tracked

\* A step of the maintenance loop or of time.
LEMMA TasksStay ==
    ASSUME Inv, task' = task, deque' = deque, Forgets
    PROVE  OwnerInv' /\ EmptyIsBeingFilled'
<1>1. Forward
  BY DEF Forward
<1>2. \A r \in Requests : task'[r].pc = "append" =>
         /\ task'[r].dq \in Requests
         /\ task[task'[r].dq].pc \in Begun
         /\ task[task'[r].dq].client = task'[r].client
  BY DEF Inv, OwnerInv
<1>3. QED
  BY <1>1, <1>2, OwnerStays, EmptyStays DEF Inv

\* A task goes on without touching the histories.
LEMMA TaskMoves ==
    ASSUME Inv, NEW r \in Requests, NEW x \in Tasks, task' = [task EXCEPT ![r] = x],
           hist' = hist, deque' = deque, task[r].pc # "append",
           x.pc # "idle", x.client \in Clients, task[r].pc # "idle" => x.client = task[r].client,
           task[r].pc \in Counted => x.pc \in Counted,
           x.pc = "append" => /\ x.dq \in Requests
                              /\ task[x.dq].pc \in Begun
                              /\ task[x.dq].client = x.client
    PROVE  OwnerInv' /\ EmptyIsBeingFilled'
<1>1. \A q \in Requests : task'[q] = IF q = r THEN x ELSE task[q]
  BY TypeUnfolds DEF Inv
<1>2. Forward /\ Forgets
  BY <1>1 DEF Forward, Forgets, Begun
<1>3. ASSUME NEW q \in Requests, task'[q].pc = "append"
      PROVE  /\ task'[q].dq \in Requests
             /\ task[task'[q].dq].pc \in Begun
             /\ task[task'[q].dq].client = task'[q].client
  BY <1>1, <1>3 DEF Inv, OwnerInv
<1>4. \A q \in Requests : task[q].pc = "append" =>
         task'[q].pc = "append" /\ task'[q].dq = task[q].dq
  BY <1>1
<1>5. QED
  BY <1>2, <1>3, <1>4, OwnerStays, EmptyStays DEF Inv

-----------------------------------------------------------------------------
(****************************************************************************)
(* _observe.                                                                *)
(****************************************************************************)

LEMMA StartKeeps ==
    ASSUME Inv, NEW r \in Requests, NEW c \in Clients, Start(r, c),
           overlapped' \subseteq Requests
    PROVE  Inv'
<1> DEFINE x == [pc |-> "get", client |-> c, dq |-> None]
<1>1. /\ x \in Tasks /\ x.pc = "get" /\ x.client = c
      /\ task[r].pc = "idle" /\ task' = [task EXCEPT ![r] = x]
      /\ UNCHANGED <<hist, deque, loop, walk, old>>
  BY DEF Start, Tasks, Pcs
<1> HIDE DEF x
<1>2. OwnerInv' /\ EmptyIsBeingFilled'
  BY <1>1, TaskMoves DEF Counted
<1>3. TypeOK'
  BY <1>1, TypeUnfolds DEF Inv, TypeOK, Tasks, Pcs
<1>4. QED
  BY <1>2, <1>3 DEF Inv

LEMMA GetKeeps ==
    ASSUME Inv, NEW r \in Requests, Get(r),
           overlapped' \subseteq Requests
    PROVE  Inv'
<1> DEFINE d == hist[task[r].client]
           x == [task[r] EXCEPT !.pc = IF d = None THEN "create" ELSE "append", !.dq = d]
<1>1. /\ task[r].pc = "get" /\ task' = [task EXCEPT ![r] = x]
      /\ UNCHANGED <<hist, deque, loop, walk, old>>
  BY DEF Get
<1>2. task[r] \in Tasks /\ task[r].client \in Clients
  BY <1>1, TypeUnfolds DEF Inv, OwnerInv
<1>3. d \in Requests \cup {None}
  BY <1>2, TypeUnfolds DEF Inv
<1>4. /\ x \in Tasks /\ x.client = task[r].client /\ x.dq = d
      /\ x.pc = IF d = None THEN "create" ELSE "append"
  BY <1>2, <1>3 DEF Tasks, Pcs
<1>5. d # None => task[d].pc \in Begun /\ task[d].client = task[r].client
  BY <1>2 DEF Inv, OwnerInv, Tracked
<1> HIDE DEF x, d
<1>6. OwnerInv' /\ EmptyIsBeingFilled'
  <2>1. x.pc \in {"create", "append"} /\ (x.pc = "append" => d # None)
    BY <1>4
  <2>2. x.pc = "append" => /\ x.dq \in Requests
                           /\ task[x.dq].pc \in Begun
                           /\ task[x.dq].client = x.client
    BY <1>3, <1>4, <1>5, <2>1
  <2>3. QED
    BY <1>1, <1>2, <1>4, <2>1, <2>2, TaskMoves DEF Counted
<1>7. TypeOK'
  BY <1>1, <1>4, TypeUnfolds DEF Inv, TypeOK, Tasks, Pcs
<1>8. QED
  BY <1>6, <1>7 DEF Inv

\* The client's deque is new, whether it had one by now or not: one that another
\* thread made meanwhile is orphaned.
LEMMA CreateKeeps ==
    ASSUME Inv, NEW r \in Requests, Create(r),
           overlapped' \subseteq Requests
    PROVE  Inv'
<1> DEFINE x == [task[r] EXCEPT !.pc = "append", !.dq = r]
           k == task[r].client
<1>1. /\ task[r].pc = "create" /\ task' = [task EXCEPT ![r] = x]
      /\ hist' = [hist EXCEPT ![k] = r]
      /\ UNCHANGED <<deque, loop, walk, old>>
  BY DEF Create
<1>2. task[r] \in Tasks /\ k \in Clients
  BY <1>1, TypeUnfolds DEF Inv, OwnerInv
<1>3. x \in Tasks /\ x.client = k /\ x.dq = r /\ x.pc = "append"
  BY <1>2 DEF Tasks, Pcs
<1> HIDE DEF x, k
<1>4. TypeOK'
  BY <1>1, <1>2, <1>3, TypeUnfolds DEF Inv, TypeOK, Tasks, Pcs
<1>5. \A q \in Requests : task'[q] = IF q = r THEN x ELSE task[q]
  BY <1>1, <1>3, TypeUnfolds DEF Inv
<1>6. \A c \in Clients : hist'[c] = IF c = k THEN r ELSE hist[c]
  BY <1>1, <1>2, TypeUnfolds DEF Inv
<1>7. task'[r].pc \in Begun /\ task'[r].client = k /\ k = task[r].client
  BY <1>3, <1>5 DEF Begun, k
<1>8. \A q \in Requests : /\ task'[q].client = task[q].client
                          /\ task[q].pc \in Begun => task'[q].pc \in Begun
                          /\ task[q].pc \in Counted => task'[q] = task[q]
  BY <1>1, <1>3, <1>5, <1>7 DEF Counted
<1>9. OwnerInv'
  <2>1. \A q \in Requests : task'[q].pc # "idle" => task'[q].client \in Clients
    BY <1>1, <1>2, <1>5, <1>8 DEF Inv, OwnerInv
  <2>2. ASSUME NEW d \in Requests, NEW i \in 1..Len(deque'[d])
        PROVE  /\ task'[deque'[d][i]].pc \in Counted
               /\ task'[d].pc \in Begun
               /\ task'[deque'[d][i]].client = task'[d].client
    <3>1. PICK q \in Requests : q = deque[d][i]
      BY <1>1, <2>2, TypeUnfolds DEF Inv
    <3>2. task[q].pc \in Counted /\ task[d].pc \in Begun /\ task[q].client = task[d].client
      BY <1>1, <2>2, <3>1 DEF Inv, OwnerInv
    <3>3. deque'[d][i] = q
      BY <1>1, <3>1
    <3>4. QED
      BY <1>8, <3>2, <3>3
  <2>3. ASSUME NEW c \in Clients, hist'[c] # None
        PROVE  task'[hist'[c]].pc \in Begun /\ task'[hist'[c]].client = c
    <3>1. CASE c = k
      BY <1>6, <1>7, <3>1
    <3>2. CASE c # k
      <4>1. PICK d \in Requests : d = hist[c] /\ d = hist'[c]
        BY <1>6, <2>3, <3>2, TypeUnfolds DEF Inv
      <4>2. task[d].pc \in Begun /\ task[d].client = c
        BY <4>1, NoneIsNoRequest DEF Inv, OwnerInv, Tracked
      <4>3. QED
        BY <1>8, <4>1, <4>2
    <3>3. QED
      BY <3>1, <3>2
  <2>4. ASSUME NEW q \in Requests, task'[q].pc = "append"
        PROVE  /\ task'[q].dq \in Requests
               /\ task'[task'[q].dq].pc \in Begun
               /\ task'[task'[q].dq].client = task'[q].client
    <3>1. CASE q = r
      BY <1>3, <1>5, <1>7, <3>1
    <3>2. CASE q # r
      <4>1. task'[q] = task[q]
        BY <1>5, <3>2
      <4>2. PICK d \in Requests : d = task[q].dq /\ task[d].pc \in Begun
                                  /\ task[d].client = task[q].client
        BY <2>4, <4>1 DEF Inv, OwnerInv
      <4>3. QED
        BY <1>8, <4>1, <4>2
    <3>3. QED
      BY <3>1, <3>2
  <2>5. QED
    BY <2>1, <2>2, <2>3, <2>4 DEF OwnerInv, Tracked
<1>10. EmptyIsBeingFilled'
  <2>1. ASSUME NEW c \in Clients, hist'[c] # None, deque'[hist'[c]] = <<>>
        PROVE  \E q \in Requests : task'[q].pc = "append" /\ task'[q].dq = hist'[c]
    <3>1. CASE c = k
      BY <1>3, <1>5, <1>6, <3>1
    <3>2. CASE c # k
      <4>1. hist[c] # None /\ deque[hist[c]] = <<>> /\ hist'[c] = hist[c]
        BY <1>1, <1>6, <2>1, <3>2
      <4>2. PICK q \in Requests : task[q].pc = "append" /\ task[q].dq = hist[c]
        BY <4>1 DEF Inv, EmptyIsBeingFilled, Tracked
      <4>3. task'[q] = task[q]
        BY <1>1, <1>5, <4>2
      <4>4. QED
        BY <4>1, <4>2, <4>3
    <3>3. QED
      BY <3>1, <3>2
  <2>2. QED
    BY <2>1 DEF EmptyIsBeingFilled, Tracked
<1>11. QED
  BY <1>4, <1>9, <1>10 DEF Inv

\* The deque may be in the dictionary or not; it is its client's.
LEMMA PushKeeps ==
    ASSUME Inv, NEW r \in Requests, Push(r),
           overlapped' \subseteq Requests
    PROVE  Inv'
<1> DEFINE x == [task[r] EXCEPT !.pc = "collect", !.dq = None]
           e == task[r].dq
           n == Pushed(deque[e], r)
<1>1. /\ task[r].pc = "append" /\ task' = [task EXCEPT ![r] = x]
      /\ deque' = [deque EXCEPT ![e] = n]
      /\ UNCHANGED <<hist, loop, walk, old>>
  BY DEF Push
<1>2. /\ task[r] \in Tasks /\ task[r].client \in Clients
      /\ e \in Requests /\ task[e].pc \in Begun /\ task[e].client = task[r].client
  BY <1>1, TypeUnfolds DEF Inv, OwnerInv
<1>3. x \in Tasks /\ x.client = task[r].client /\ x.pc = "collect"
  BY <1>2 DEF Tasks, Pcs
<1>4. deque[e] \in Seq(Requests) /\ Len(deque[e]) <= Window
  BY <1>2, TypeUnfolds DEF Inv
<1>5. /\ n \in Seq(Requests) /\ Len(n) <= Window /\ n # <<>>
      /\ \A i \in 1..Len(n) : n[i] = r \/ \E j \in 1..Len(deque[e]) : n[i] = deque[e][j]
  BY <1>4, PushedHolds
<1>6. e = task[r].dq
  OBVIOUS
<1> HIDE DEF x, e, n
<1>7. \A q \in Requests : task'[q] = IF q = r THEN x ELSE task[q]
  BY <1>1, <1>3, TypeUnfolds DEF Inv
<1>8. \A d \in Requests : deque'[d] = IF d = e THEN n ELSE deque[d]
  BY <1>1, <1>2, TypeUnfolds DEF Inv
<1>9. TypeOK'
  <2>1. task' \in [Requests -> Tasks]
    BY <1>1, <1>3, TypeUnfolds DEF Inv
  <2>2. deque' \in [Requests -> Seq(Requests)] /\ \A d \in Requests : Len(deque'[d]) <= Window
    BY <1>1, <1>5, <1>8, TypeUnfolds DEF Inv
  <2>3. QED
    BY <1>1, <2>1, <2>2, TypeUnfolds DEF Inv, TypeOK, Tasks, Pcs
<1>10. \A q \in Requests : /\ task'[q].client = task[q].client
                           /\ task[q].pc \in Begun => task'[q].pc \in Begun
                           /\ task[q].pc \in Counted => task'[q].pc \in Counted
  BY <1>3, <1>7 DEF Counted, Begun
<1>11. OwnerInv'
  <2>1. \A q \in Requests : task'[q].pc # "idle" => task'[q].client \in Clients
    BY <1>2, <1>3, <1>7 DEF Inv, OwnerInv
  <2>2. ASSUME NEW d \in Requests, NEW i \in 1..Len(deque'[d])
        PROVE  /\ task'[deque'[d][i]].pc \in Counted
               /\ task'[d].pc \in Begun
               /\ task'[deque'[d][i]].client = task'[d].client
    <3>1. CASE d = e /\ n[i] = r
      <4>1. deque'[d][i] = r
        BY <1>8, <3>1
      <4>2. task'[r] = x /\ task'[d].pc \in Begun /\ task'[d].client = task[r].client
        BY <1>2, <1>7, <1>10, <3>1
      <4>3. QED
        BY <1>3, <4>1, <4>2 DEF Counted
    <3>2. CASE ~(d = e /\ n[i] = r)
      <4>1. PICK j \in 1..Len(deque[d]) : deque'[d][i] = deque[d][j]
        BY <1>5, <1>8, <2>2, <3>2
      <4>2. PICK q \in Requests : q = deque[d][j]
        BY TypeUnfolds DEF Inv
      <4>3. task[q].pc \in Counted /\ task[d].pc \in Begun /\ task[q].client = task[d].client
        BY <4>2 DEF Inv, OwnerInv
      <4>4. QED
        BY <1>10, <4>1, <4>2, <4>3
    <3>3. QED
      BY <3>1, <3>2
  <2>3. ASSUME NEW c \in Clients, hist'[c] # None
        PROVE  task'[hist'[c]].pc \in Begun /\ task'[hist'[c]].client = c
    <3>1. PICK d \in Requests : d = hist[c] /\ d = hist'[c]
      BY <1>1, <2>3, TypeUnfolds DEF Inv
    <3>2. task[d].pc \in Begun /\ task[d].client = c
      BY <3>1, NoneIsNoRequest DEF Inv, OwnerInv, Tracked
    <3>3. QED
      BY <1>10, <3>1, <3>2
  <2>4. ASSUME NEW q \in Requests, task'[q].pc = "append"
        PROVE  /\ task'[q].dq \in Requests
               /\ task'[task'[q].dq].pc \in Begun
               /\ task'[task'[q].dq].client = task'[q].client
    <3>1. task'[q] = task[q]
      BY <1>3, <1>7, <2>4
    <3>2. PICK d \in Requests : d = task[q].dq /\ task[d].pc \in Begun
                                /\ task[d].client = task[q].client
      BY <2>4, <3>1 DEF Inv, OwnerInv
    <3>3. QED
      BY <1>10, <3>1, <3>2
  <2>5. QED
    BY <2>1, <2>2, <2>3, <2>4 DEF OwnerInv, Tracked
<1>12. EmptyIsBeingFilled'
  <2>1. ASSUME NEW c \in Clients, hist'[c] # None, deque'[hist'[c]] = <<>>
        PROVE  \E q \in Requests : task'[q].pc = "append" /\ task'[q].dq = hist'[c]
    <3>1. PICK d \in Requests : d = hist[c] /\ d = hist'[c]
      BY <1>1, <2>1, TypeUnfolds DEF Inv
    <3>2. d # e /\ deque[d] = <<>>
      BY <1>5, <1>8, <2>1, <3>1
    <3>3. PICK q \in Requests : task[q].pc = "append" /\ task[q].dq = d
      BY <3>1, <3>2 DEF Inv, EmptyIsBeingFilled, Tracked
    <3>4. q # r
      BY <1>6, <3>2, <3>3
    <3>5. QED
      BY <1>7, <3>1, <3>3, <3>4
  <2>2. QED
    BY <2>1 DEF EmptyIsBeingFilled, Tracked
<1>13. QED
  BY <1>9, <1>11, <1>12 DEF Inv

\* all_vectors(), broken or not.
LEMMA WalkKeeps ==
    ASSUME Inv, NEW r \in Requests, Collect(r) \/ WalkStep(r) \/ Lose(r),
           overlapped' \subseteq Requests
    PROVE  Inv'
<1>1. /\ task[r].pc \in {"collect", "walk"}
      /\ UNCHANGED <<hist, deque, loop, old>>
      /\ task' = task \/ \E pc \in {"walk", "done", "lost"} : task' = [task EXCEPT ![r].pc = pc]
  BY DEF Collect, WalkStep, Lose, Goto
<1>2. walk' \in [Walkers -> Walks]
  BY WalkTypes DEF Collect, WalkStep, Lose, Walkers, Inv
<1>3. task \in [Requests -> Tasks] /\ task[r].client \in Clients
  BY <1>1, TypeUnfolds DEF Inv, OwnerInv
<1>4. CASE task' = task
  <2>1. OwnerInv' /\ EmptyIsBeingFilled'
    BY <1>1, <1>4, TasksStay DEF Forgets
  <2>2. TypeOK'
    BY <1>1, <1>2, <1>4, TypeUnfolds DEF Inv, TypeOK, Walks
  <2>3. QED
    BY <2>1, <2>2 DEF Inv
<1>5. ASSUME NEW pc \in {"walk", "done", "lost"}, task' = [task EXCEPT ![r].pc = pc]
      PROVE  Inv'
  <2> DEFINE x == [task[r] EXCEPT !.pc = pc]
  <2>1. x \in Tasks /\ x.pc = pc /\ x.client = task[r].client /\ task' = [task EXCEPT ![r] = x]
    BY <1>3, <1>5 DEF Tasks, Pcs
  <2> HIDE DEF x
  <2>2. OwnerInv' /\ EmptyIsBeingFilled'
    BY <1>1, <1>3, <1>5, <2>1, TaskMoves DEF Counted
  <2>3. task' \in [Requests -> Tasks]
    BY <1>3, <2>1
  <2>4. TypeOK'
    BY <1>1, <1>2, <2>3, TypeUnfolds DEF Inv, TypeOK, Walks, Tasks, Pcs
  <2>5. QED
    BY <2>2, <2>4 DEF Inv
<1>6. QED
  BY <1>1, <1>4, <1>5

-----------------------------------------------------------------------------
(****************************************************************************)
(* maintenance_loop and time.                                               *)
(****************************************************************************)

LEMMA MaintainKeeps ==
    ASSUME Inv, Maintain,
           overlapped' \subseteq Requests
    PROVE  Inv'
<1>1. task' = task /\ deque' = deque /\ old' = old
  BY DEF Maintain, Wake, Scan, Delete, MaintenanceCollect, Abandon
<1>2. Forgets /\ hist' \in [Clients -> Requests \cup {None}]
  BY TypeUnfolds DEF Inv, Forgets, Maintain, Wake, Scan, Delete, MaintenanceCollect, Abandon
<1>3. walk' \in [Walkers -> Walks]
  <2>1. Maintenance \in Walkers
    BY DEF Walkers
  <2>2. walk \in [Walkers -> Walks]
    BY TypeUnfolds DEF Inv
  <2>3. ASSUME NEW c \in Clients, Delete(c) PROVE walk' \in [Walkers -> Walks]
    BY <2>2, <2>3 DEF Delete, Walks
  <2>4. QED
    BY <2>1, <2>2, <2>3, WalkTypes DEF Inv, Maintain, Wake, Scan, MaintenanceCollect, Abandon
<1>4. loop' \in Loops
  <2>1. loop \in Loops
    BY TypeUnfolds DEF Inv
  <2>2. QED
    BY <2>1 DEF Loops, Maintain, Wake, Scan, Delete, MaintenanceCollect, Abandon
<1>5. TypeOK'
  BY <1>1, <1>2, <1>3, <1>4, TypeUnfolds DEF Inv, TypeOK, Loops, Walks
<1>6. OwnerInv' /\ EmptyIsBeingFilled'
  BY <1>1, <1>2, TasksStay
<1>7. QED
  BY <1>5, <1>6 DEF Inv

LEMMA Inductive == Inv /\ [Next]_vars => Inv'
<1> SUFFICES ASSUME Inv, [Next]_vars PROVE Inv'
  OBVIOUS
<1>0. overlapped' \subseteq Requests
  BY TypeUnfolds DEF Inv, Next, vars
<1>1. ASSUME NEW r \in Requests, Observe(r) PROVE Inv'
  BY <1>0, <1>1, GetKeeps, CreateKeeps, PushKeeps, WalkKeeps DEF Observe
<1>2. ASSUME NEW r \in Requests, NEW c \in Clients, Start(r, c) PROVE Inv'
  BY <1>0, <1>2, StartKeeps
<1>3. CASE Maintain
  BY <1>0, <1>3, MaintainKeeps
<1>4. CASE Age
  <2>1. UNCHANGED <<hist, deque, task, loop, walk>> /\ old' \subseteq Requests
    BY <1>4 DEF Age
  <2>2. OwnerInv' /\ EmptyIsBeingFilled'
    BY <2>1, TasksStay DEF Forgets
  <2>3. TypeOK'
    BY <1>0, <2>1 DEF Inv, TypeOK
  <2>4. QED
    BY <2>2, <2>3 DEF Inv
<1>5. CASE UNCHANGED vars
  <2>1. UNCHANGED <<hist, deque, task, loop, walk, old>>
    BY <1>5 DEF vars
  <2>2. OwnerInv' /\ EmptyIsBeingFilled'
    BY <2>1, TasksStay DEF Forgets
  <2>3. TypeOK'
    BY <1>0, <2>1 DEF Inv, TypeOK
  <2>4. QED
    BY <2>2, <2>3 DEF Inv
<1>6. QED
  BY <1>1, <1>2, <1>3, <1>4, <1>5 DEF Next

LEMMA Invariant == Spec => []Inv
<1>1. Init => Inv
  <2>0. SUFFICES ASSUME Init PROVE Inv
    OBVIOUS
  <2>1. /\ hist = [c \in Clients |-> None] /\ deque = [d \in Requests |-> <<>>]
        /\ task = [r \in Requests |-> [pc |-> "idle", client |-> None, dq |-> None]]
        /\ loop = [pc |-> "sleep", stale |-> {}] /\ old = {} /\ overlapped = {}
        /\ walk = [w \in Walkers |-> NoWalk]
    BY <2>0 DEF Init
  <2>2. NoWalk \in Walks
    BY ClientsAssumption, FS_CardinalityType DEF NoWalk, Walks
  <2>3. TypeOK
    BY <2>1, <2>2 DEF TypeOK, Walks
  <2>4. OwnerInv /\ EmptyIsBeingFilled
    BY <2>1 DEF OwnerInv, EmptyIsBeingFilled, Tracked
  <2>5. QED
    BY <2>3, <2>4 DEF Inv
<1>2. QED
  BY <1>1, Inductive, PTL DEF Spec

-----------------------------------------------------------------------------
(****************************************************************************)
(* No observation is lost without an overlap (LossNeedsOverlap).            *)
(*                                                                          *)
(* Of a request whose observe() met no other one of its client and no sweep *)
(* more can be said, and that is inductive (Calm): the deque it is about to *)
(* fill is the one in the dictionary; once it is in, everything behind it   *)
(* is newer, the client is on no list of stale ones, and whoever is on the  *)
(* way to the client's history is newer too and holds the same deque.       *)
(****************************************************************************)

\* r is in s with only newer ones behind it, or those fill s.
Kept(s, r) ==
    \E k \in 0..Len(s) : /\ k = 0 => Len(s) = Window
                         /\ k > 0 => s[k] = r
                         /\ \A i \in (k + 1)..Len(s) : s[i] > r

\* q, which is to fill the history of client c, came after r and holds c's deque
\* or is about to look it up.
Follows(q, r, c) == /\ q > r
                    /\ task[q].pc \in {"get", "append"}
                    /\ task[q].pc = "append" => task[q].dq = hist[c]

Calm(r, c) ==
    /\ task[r].pc = "append" => task[r].dq = hist[c]
    /\ Observed(r) =>
          /\ hist[c] # None
          /\ Kept(deque[hist[c]], r)
          /\ c \notin loop.stale
          /\ \A q \in Requests : Filling(q) /\ task[q].client = c => Follows(q, r, c)

\* Requests start in their order and grow old together; a list of stale clients
\* exists during a sweep only.
AgeInv ==
    /\ \A r \in Requests : \A q \in 1..(r - 1) : task[r].pc # "idle" => task[q].pc # "idle"
    /\ \A r \in old : task[r].pc \in {"done", "lost"}
    /\ \A r \in old : \A q \in 1..(r - 1) : q \in old
    /\ ~Sweeping => loop.stale = {}

CalmInv ==
    \A r \in Requests \ (overlapped \cup old) : ~Overlaps(r) /\ Calm(r, task[r].client)

LEMMA KeptAppends ==
    ASSUME NEW s \in Seq(Requests), Len(s) <= Window, NEW r \in Requests, NEW q \in Requests,
           q = r \/ (q > r /\ Kept(s, r))
    PROVE  Kept(Pushed(s, q), r)
<1> DEFINE n == Pushed(s, q)
<1>1. /\ n \in Seq(Requests) /\ Len(n) \in Nat /\ Len(n) > 0 /\ n[Len(n)] = q
      /\ \/ Len(n) = Len(s) + 1 /\ \A i \in 1..Len(s) : n[i] = s[i]
         \/ /\ Len(n) = Len(s) /\ Len(s) = Window
            /\ \A i \in 1..(Len(s) - 1) : n[i] = s[i + 1]
  <2>1. CASE Len(s) < Window
    BY <2>1 DEF Pushed
  <2>2. CASE ~(Len(s) < Window)
    <3>1. n = Append(Tail(s), q) /\ Len(s) = Window /\ s # <<>> /\ Len(s) \in Nat
      BY <2>2 DEF Pushed
    <3>2. /\ Tail(s) \in Seq(Requests) /\ Len(Tail(s)) = Len(s) - 1
          /\ \A i \in 1..(Len(s) - 1) : Tail(s)[i] = s[i + 1]
      BY <3>1
    <3>3. QED
      BY <3>1, <3>2
  <2>3. QED
    BY <2>1, <2>2
<1> HIDE DEF n
<1>2. CASE q = r
  BY <1>1, <1>2 DEF Kept, n
<1>3. CASE q > r /\ Kept(s, r)
  <2>1. PICK k \in 0..Len(s) : /\ k = 0 => Len(s) = Window
                               /\ k > 0 => s[k] = r
                               /\ \A i \in (k + 1)..Len(s) : s[i] > r
    BY <1>3 DEF Kept
  <2>2. CASE Len(n) = Len(s) + 1 /\ \A i \in 1..Len(s) : n[i] = s[i]
    <3>1. k # 0
      BY <1>1, <2>1, <2>2, PushedHolds DEF n
    <3>2. /\ n[k] = r /\ k \in 0..Len(n)
          /\ \A i \in (k + 1)..Len(n) : n[i] > r
      BY <1>1, <1>3, <2>1, <2>2, <3>1
    <3>3. Kept(n, r)
      BY <3>1, <3>2 DEF Kept
    <3>4. QED
      BY <3>3 DEF n
  <2>3. CASE /\ Len(n) = Len(s) /\ Len(s) = Window
             /\ \A i \in 1..(Len(s) - 1) : n[i] = s[i + 1]
    <3> DEFINE j == IF k = 0 THEN 0 ELSE k - 1
    <3>1. /\ j \in 0..Len(n)
          /\ j > 0 => n[j] = r
          /\ \A i \in (j + 1)..Len(n) : n[i] > r
      <4>1. j \in 0..Len(n) /\ (j > 0 => n[j] = r)
        BY <1>1, <2>1, <2>3
      <4>2. ASSUME NEW i \in (j + 1)..Len(n) PROVE n[i] > r
        <5>1. CASE i = Len(n)
          BY <1>1, <1>3, <5>1
        <5>2. CASE i # Len(n)
          <6>1. i \in 1..(Len(s) - 1) /\ i + 1 \in (k + 1)..Len(s)
            BY <1>1, <2>1, <2>3, <5>2
          <6>2. QED
            BY <2>1, <2>3, <6>1
        <5>3. QED
          BY <5>1, <5>2
      <4>3. QED
        BY <4>1, <4>2
    <3> HIDE DEF j
    <3>2. Kept(n, r)
      BY <2>3, <3>1 DEF Kept
    <3>3. QED
      BY <3>2 DEF n
  <2>4. QED
    BY <1>1, <2>2, <2>3
<1>4. QED
  BY <1>2, <1>3

\* What is kept is what the property asks for, and it is not stale.
LEMMA KeptIsThere ==
    ASSUME Inv, AgeInv, NEW r \in Requests, r \notin old, NEW c \in Clients,
           hist[c] # None, Kept(deque[hist[c]], r)
    PROVE  Remembered(r, c) /\ ~Stale(c)
<1>1. PICK d \in Requests : d = hist[c]
  BY TypeUnfolds DEF Inv
<1> DEFINE s == deque[d]
<1>2. s \in Seq(Requests) /\ Len(s) \in Nat
  BY TypeUnfolds DEF Inv
<1>3. PICK k \in 0..Len(s) : /\ k = 0 => Len(s) = Window
                             /\ k > 0 => s[k] = r
                             /\ \A i \in (k + 1)..Len(s) : s[i] > r
  BY <1>1 DEF Kept
<1>4. /\ \/ \E i \in DOMAIN s : s[i] = r
         \/ Len(s) = Window /\ \A i \in DOMAIN s : s[i] > r
      /\ Len(s) > 0
  BY <1>2, <1>3
<1>5. s[Len(s)] \in Requests /\ (s[Len(s)] = r \/ s[Len(s)] > r)
  BY <1>2, <1>3, <1>4
<1>6. s[Len(s)] \notin old
  <2>1. PICK q \in Requests : q = s[Len(s)]
    BY <1>5
  <2>2. q \in old /\ q > r => r \in 1..(q - 1)
    BY DEF Requests
  <2>3. QED
    BY <1>5, <2>1, <2>2 DEF AgeInv
<1>7. s # <<>>
  BY <1>4
<1>8. QED
  BY <1>1, <1>4, <1>6, <1>7 DEF Remembered, Stale, Tracked

\* A step of a task leaves the others where they are.
LEMMA ObserveMoves ==
    ASSUME Inv, NEW r \in Requests, Observe(r)
    PROVE  /\ UNCHANGED <<loop, old>> /\ ~Over(r)
           /\ \A q \in Requests \ {r} : task'[q] = task[q]
           /\ task'[r].client = task[r].client /\ task'[r].pc # "idle"
<1>1. task \in [Requests -> Tasks] /\ task[r] \in Tasks
  BY TypeUnfolds DEF Inv
<1>2. CASE Get(r)
  BY <1>1, <1>2 DEF Get, Over, Tasks
<1>3. CASE Create(r)
  BY <1>1, <1>3 DEF Create, Over, Tasks
<1>4. CASE Push(r)
  BY <1>1, <1>4 DEF Push, Over, Tasks
<1>5. CASE Collect(r) \/ WalkStep(r) \/ Lose(r)
  BY <1>1, <1>5 DEF Collect, WalkStep, Lose, Goto, Over, Tasks
<1>6. QED
  BY <1>2, <1>3, <1>4, <1>5 DEF Observe

LEMMA AgeInductive == Inv /\ AgeInv /\ [Next]_vars => AgeInv'
<1> SUFFICES ASSUME Inv, AgeInv, [Next]_vars PROVE AgeInv'
  OBVIOUS
<1>1. ASSUME NEW r \in Requests, Observe(r) PROVE AgeInv'
  <2>1. /\ UNCHANGED <<loop, old>> /\ ~Over(r)
        /\ \A q \in Requests \ {r} : task'[q] = task[q]
        /\ task'[r].pc # "idle"
    BY <1>1, ObserveMoves
  <2>2. \A q \in Requests : task[q].pc # "idle" => task'[q].pc # "idle"
    BY <2>1
  <2>3. /\ \A q \in Requests : task'[q].pc # "idle" => task[q].pc # "idle"
        /\ \A q \in old : task'[q] = task[q]
    BY <2>1, TypeUnfolds DEF Inv, AgeInv, Over
  <2>4. \A q \in Requests : \A p \in 1..(q - 1) : p \in Requests
    BY DEF Requests
  <2>5. QED
    BY <2>1, <2>2, <2>3, <2>4 DEF AgeInv, Sweeping
<1>2. ASSUME NEW r \in Requests, NEW c \in Clients, Start(r, c) PROVE AgeInv'
  <2>1. /\ UNCHANGED <<loop, old>> /\ task[r].pc = "idle"
        /\ \A q \in 1..(r - 1) : task[q].pc # "idle"
        /\ \A q \in Requests \ {r} : task'[q] = task[q]
        /\ task'[r].pc = "get"
    BY <1>2, TypeUnfolds DEF Inv, Start
  <2>2. /\ \A q \in Requests : task[q].pc # "idle" => task'[q].pc # "idle"
        /\ \A q \in old : task'[q] = task[q]
    BY <2>1, TypeUnfolds DEF Inv, AgeInv
  <2>3. \A q \in Requests : \A p \in 1..(q - 1) : p \in Requests
    BY DEF Requests
  <2>4. QED
    BY <2>1, <2>2, <2>3 DEF AgeInv, Sweeping
<1>3. CASE Maintain
  <2>1. UNCHANGED <<task, old>>
    BY <1>3 DEF Maintain, Wake, Scan, Delete, MaintenanceCollect, Abandon
  <2>2. ~Sweeping' => loop'.stale = {}
    BY <1>3, TypeUnfolds
       DEF Inv, AgeInv, Sweeping, Loops, Maintain, Wake, Scan, Delete, MaintenanceCollect, Abandon
  <2>3. QED
    BY <2>1, <2>2 DEF AgeInv
<1>4. CASE Age
  BY <1>4 DEF Age, Over, AgeInv, Sweeping, Requests
<1>5. CASE UNCHANGED vars
  BY <1>5 DEF vars, AgeInv, Sweeping
<1>6. QED
  BY <1>1, <1>2, <1>3, <1>4, <1>5 DEF Next

\* A step of a task or of the loop keeps a request calm.
LEMMA CalmStarts ==
    ASSUME Inv, AgeInv, NEW r \in Requests, NEW c \in Clients, task[r].pc # "idle", Calm(r, c),
           NEW q \in Requests, NEW b \in Clients, Start(q, b)
    PROVE  Calm(r, c)'
<1>1. /\ task[q].pc = "idle" /\ q # r
      /\ UNCHANGED <<hist, deque, loop>>
      /\ \A p \in Requests \ {q} : task'[p] = task[p]
      /\ task'[q].pc = "get"
  BY TypeUnfolds DEF Inv, Start
<1>2. q > r
  BY <1>1 DEF AgeInv, Requests
<1>3. QED
  BY <1>1, <1>2 DEF Calm, Observed, Filling, Follows

LEMMA CalmGets ==
    ASSUME Inv, NEW r \in Requests, NEW c \in Clients, task[r].client = c, Calm(r, c),
           NEW q \in Requests, Get(q)
    PROVE  Calm(r, c)'
<1>1. /\ task[q].pc = "get"
      /\ UNCHANGED <<hist, deque, loop>>
      /\ \A p \in Requests \ {q} : task'[p] = task[p]
      /\ task'[q].client = task[q].client
      /\ LET d == hist[task[q].client]
         IN  task'[q].pc = (IF d = None THEN "create" ELSE "append") /\ task'[q].dq = d
  BY TypeUnfolds DEF Inv, Get, Tasks
<1>2. CASE q = r
  BY <1>1, <1>2 DEF Calm, Observed
<1>3. CASE q # r
  BY <1>1, <1>3 DEF Calm, Observed, Filling, Follows
<1>4. QED
  BY <1>2, <1>3

\* No one creates a deque for the client of an observed calm request.
LEMMA CalmCreates ==
    ASSUME Inv, NEW r \in Requests, NEW c \in Clients, task[r].client = c, Calm(r, c),
           ~Overlaps(r), NEW q \in Requests, Create(q)
    PROVE  Calm(r, c)'
<1>1. /\ task[q].pc = "create" /\ task[q].client \in Clients
      /\ UNCHANGED <<deque, loop>>
      /\ \A p \in Requests \ {q} : task'[p] = task[p]
      /\ task'[q].client = task[q].client /\ task'[q].pc = "append" /\ task'[q].dq = q
      /\ \A k \in Clients : hist'[k] = IF k = task[q].client THEN q ELSE hist[k]
  BY TypeUnfolds DEF Inv, OwnerInv, Create, Tasks
<1>2. CASE q = r
  BY <1>1, <1>2 DEF Calm, Observed
<1>3. CASE q # r
  <2>1. Observed(r) \/ Filling(r) => task[q].client # c
    BY <1>1, <1>3 DEF Calm, Follows, Filling, Overlaps
  <2>2. Observed(r) \/ Filling(r) => hist'[c] = hist[c]
    BY <1>1, <2>1
  <2>3. QED
    BY <1>1, <1>3, <2>1, <2>2 DEF Calm, Observed, Filling, Follows
<1>4. QED
  BY <1>2, <1>3

\* Those who append to the deque of an observed calm request came after it; its
\* own append goes into the deque of the dictionary.
LEMMA CalmPushes ==
    ASSUME Inv, AgeInv, NEW r \in Requests, NEW c \in Clients, task[r].client = c, Calm(r, c),
           ~Overlaps(r), NEW q \in Requests, Push(q)
    PROVE  Calm(r, c)'
<1>1. PICK e \in Requests : e = task[q].dq
  BY DEF Inv, OwnerInv, Push
<1>2. /\ task[q].pc = "append" /\ task[e].client = task[q].client
      /\ UNCHANGED <<hist, loop>>
      /\ \A p \in Requests \ {q} : task'[p] = task[p]
      /\ task'[q].client = task[q].client /\ task'[q].pc = "collect"
      /\ \A d \in Requests : deque'[d] = IF d = e THEN Pushed(deque[d], q) ELSE deque[d]
  BY <1>1, TypeUnfolds DEF Inv, OwnerInv, Push, Tasks
<1>3. \A d \in Requests : deque[d] \in Seq(Requests) /\ Len(deque[d]) <= Window
  BY TypeUnfolds DEF Inv
<1>4. CASE q = r
  <2>1. hist[c] = e /\ e # None
    BY <1>1, <1>2, <1>4, NoneIsNoRequest DEF Calm
  <2>2. Kept(deque'[e], r)
    BY <1>2, <1>3, <1>4, KeptAppends
  <2>3. /\ ~Sweeping
        /\ \A p \in Requests \ {r} : ~(Filling(p) /\ task[p].client = c)
    BY <1>2, <1>4 DEF Overlaps, Filling
  <2>4. c \notin loop.stale
    BY <2>3 DEF AgeInv
  <2>5. ~(\E p \in Requests : Filling(p)' /\ task'[p].client = c)
    BY <1>2, <1>4, <2>3 DEF Filling
  <2>6. QED
    BY <1>2, <1>4, <2>1, <2>2, <2>4, <2>5 DEF Calm
<1>5. CASE q # r
  <2>1. task'[r].pc = "append" => task'[r].dq = hist'[c]
    BY <1>2, <1>5 DEF Calm
  <2>2. ASSUME Observed(r) PROVE Kept(deque'[hist[c]], r)
    <3>1. PICK d \in Requests : d = hist[c] /\ Kept(deque[d], r)
      BY <2>2, TypeUnfolds DEF Inv, Calm
    <3>2. CASE d = e
      <4>1. task[d].client = c
        BY <3>1, NoneIsNoRequest DEF Inv, OwnerInv, Tracked
      <4>2. q > r
        BY <1>2, <2>2, <3>2, <4>1 DEF Calm, Follows, Filling
      <4>3. QED
        BY <1>2, <1>3, <3>1, <3>2, <4>2, KeptAppends
    <3>3. CASE d # e
      BY <1>2, <3>1, <3>3
    <3>4. QED
      BY <3>2, <3>3
  <2>3. QED
    BY <1>2, <1>5, <2>1, <2>2 DEF Calm, Observed, Filling, Follows
<1>6. QED
  BY <1>4, <1>5

LEMMA CalmWalks ==
    ASSUME Inv, NEW r \in Requests, NEW c \in Clients, Calm(r, c),
           NEW q \in Requests, Collect(q) \/ WalkStep(q) \/ Lose(q)
    PROVE  Calm(r, c)'
<1>1. /\ UNCHANGED <<hist, deque, loop>>
      /\ \A p \in Requests \ {q} : task'[p] = task[p]
      /\ Observed(q) /\ Observed(q)'
  BY TypeUnfolds DEF Inv, Collect, WalkStep, Lose, Goto, Observed, Tasks
<1>2. QED
  BY <1>1 DEF Calm, Observed, Filling, Follows

\* The sweep does not list the client of an observed calm request, and does not
\* run while one is being observed.
LEMMA CalmSweeps ==
    ASSUME Inv, AgeInv, NEW r \in Requests, r \notin old, NEW c \in Clients, task[r].client = c,
           Calm(r, c), ~Overlaps(r), Maintain
    PROVE  Calm(r, c)'
<1>1. UNCHANGED <<task, deque>>
  BY DEF Maintain, Wake, Scan, Delete, MaintenanceCollect, Abandon
<1>2. Observed(r) => ~Stale(c)
  BY KeptIsThere DEF Calm
<1>3. Observed(r) => c \notin loop'.stale
  <2>1. SUFFICES ASSUME Observed(r) PROVE c \notin loop'.stale
    OBVIOUS
  <2>2. c \notin loop.stale /\ ~Stale(c)
    BY <1>2, <2>1 DEF Calm
  <2>3. loop \in Loops
    BY TypeUnfolds DEF Inv
  <2>4. \/ loop'.stale \in {{}, loop.stale}
        \/ \E b \in Clients : loop'.stale = (IF Stale(b) THEN loop.stale \cup {b} ELSE loop.stale)
        \/ \E b \in Clients : loop'.stale = loop.stale \ {b}
    BY <2>3 DEF Loops, Maintain, Wake, Scan, Delete, MaintenanceCollect, Abandon
  <2>5. QED
    BY <2>2, <2>4
<1>4. Observed(r) \/ Filling(r) => hist'[c] = hist[c]
  BY TypeUnfolds DEF Inv, Calm, Overlaps, Sweeping, Maintain, Wake, Scan, Delete,
                     MaintenanceCollect, Abandon
<1>5. QED
  BY <1>1, <1>3, <1>4 DEF Calm, Observed, Filling, Follows

LEMMA CalmInductive == Inv /\ AgeInv /\ CalmInv /\ [Next]_vars => CalmInv'
<1> SUFFICES ASSUME Inv, AgeInv, CalmInv, [Next]_vars,
                    NEW r \in Requests, r \notin overlapped', r \notin old'
             PROVE  ~Overlaps(r)' /\ Calm(r, task[r].client)'
  BY DEF CalmInv
<1>1. \/ UNCHANGED vars
      \/ /\ overlapped' = (overlapped \cup {q \in Requests : Overlaps(q)'}) \ old'
         /\ \/ \E q \in Requests : Observe(q) \/ \E b \in Clients : Start(q, b)
            \/ Maintain
            \/ Age
  BY DEF Next
<1>2. r \notin overlapped /\ ~Overlaps(r)'
  <2>1. CASE UNCHANGED vars
    BY <2>1 DEF CalmInv, vars, Overlaps, Filling, Sweeping
  <2>2. QED
    BY <1>1, <2>1
<1>3. r \notin old
  BY <1>1, TypeUnfolds
     DEF Inv, AgeInv, vars, Age, Start, Maintain, Wake, Scan, Delete, MaintenanceCollect, Abandon,
         Observe, Get, Create, Push, Collect, WalkStep, Lose
<1>4. ~Overlaps(r) /\ Calm(r, task[r].client)
  BY <1>2, <1>3 DEF CalmInv
<1>5. CASE task[r].pc = "idle"
  <2>1. task'[r].pc \in {"idle", "get"}
    <3>1. ASSUME NEW q \in Requests, Observe(q) PROVE task'[r].pc = "idle"
      BY <1>5, <3>1, ObserveMoves DEF Over
    <3>2. ASSUME NEW q \in Requests, NEW b \in Clients, Start(q, b)
          PROVE  task'[r].pc \in {"idle", "get"}
      BY <1>5, <3>2, TypeUnfolds DEF Inv, Start
    <3>3. QED
      BY <1>1, <1>5, <3>1, <3>2
         DEF vars, Age, Maintain, Wake, Scan, Delete, MaintenanceCollect, Abandon
  <2>2. QED
    BY <1>2, <2>1 DEF Calm, Observed
<1>6. CASE task[r].pc # "idle"
  <2>1. PICK c \in Clients : c = task[r].client
    BY <1>6 DEF Inv, OwnerInv
  <2>2. Calm(r, c)
    BY <1>4, <2>1
  <2>3. ASSUME NEW q \in Requests, Observe(q) PROVE Calm(r, c)' /\ task'[r].client = c
    <3>1. Calm(r, c)'
      BY <1>4, <2>1, <2>2, <2>3, CalmGets, CalmCreates, CalmPushes, CalmWalks DEF Observe
    <3>2. QED
      BY <2>1, <2>3, <3>1, ObserveMoves
  <2>4. ASSUME NEW q \in Requests, NEW b \in Clients, Start(q, b)
        PROVE  Calm(r, c)' /\ task'[r].client = c
    <3>1. task'[r] = task[r]
      BY <1>6, <2>4, TypeUnfolds DEF Inv, Start
    <3>2. QED
      BY <1>6, <2>1, <2>2, <2>4, <3>1, CalmStarts
  <2>5. ASSUME Maintain PROVE Calm(r, c)' /\ task'[r].client = c
    <3>1. task' = task
      BY <2>5 DEF Maintain, Wake, Scan, Delete, MaintenanceCollect, Abandon
    <3>2. QED
      BY <1>3, <1>4, <2>1, <2>2, <2>5, <3>1, CalmSweeps
  <2>6. ASSUME Age PROVE Calm(r, c)' /\ task'[r].client = c
    BY <1>6, <2>6 DEF Age
  <2>7. ASSUME UNCHANGED vars PROVE Calm(r, c)' /\ task'[r].client = c
    BY <2>1, <2>2, <2>7 DEF vars, Calm, Observed, Filling, Follows
  <2>8. Calm(r, c)' /\ task'[r].client = c
    BY <1>1, <2>3, <2>4, <2>5, <2>6, <2>7
  <2>9. QED
    BY <1>2, <2>8 DEF Calm
<1>7. QED
  BY <1>5, <1>6

-----------------------------------------------------------------------------
\* Every reachable state is well formed; in particular no deque outgrows its
\* window (FeatureExtractor.observe).
THEOREM TypeCorrect == Spec => []TypeOK
<1>1. Inv => TypeOK
  BY DEF Inv
<1>2. QED
  BY <1>1, Invariant, PTL

\* A client's history holds its own requests and nobody else's, however threads
\* replace, orphan, fill and delete deques (FeatureExtractor.observe, extract,
\* forget_idle).
THEOREM TrafficIsOwn == Spec => []OwnTraffic
<1>1. Inv => OwnTraffic
  <2>1. SUFFICES ASSUME Inv, NEW c \in Clients, hist[c] # None,
                        NEW i \in DOMAIN deque[hist[c]]
                 PROVE  task[deque[hist[c]][i]].client = c
    BY DEF OwnTraffic, Tracked
  <2>2. PICK d \in Requests : d = hist[c]
    BY <2>1, TypeUnfolds DEF Inv
  <2>3. deque[d] \in Seq(Requests) /\ i \in 1..Len(deque[d])
    BY <2>1, <2>2, TypeUnfolds DEF Inv
  <2>4. task[d].client = c /\ task[deque[d][i]].client = task[d].client
    BY <2>1, <2>2, <2>3 DEF Inv, OwnerInv, Tracked
  <2>5. QED
    BY <2>2, <2>4
<1>2. QED
  BY <1>1, Invariant, PTL

\* The sweep never takes a client's history for an empty one but while its first
\* observation is on the way to it (FeatureExtractor.observe, forget_idle).
THEOREM EmptyMeansBeingFilled == Spec => []EmptyIsBeingFilled
<1>1. Inv => EmptyIsBeingFilled
  BY DEF Inv
<1>2. QED
  BY <1>1, Invariant, PTL

\* An observation that overlapped neither another one of its client nor a sweep
\* stays in the client's history until it is old or newer ones push it out: only
\* such overlaps lose one (FeatureExtractor.observe, forget_idle).
THEOREM LossComesFromOverlap == Spec => []LossNeedsOverlap
<1>1. Init => AgeInv /\ CalmInv
  BY DEF Init, AgeInv, CalmInv, Sweeping, Overlaps, Filling, Calm, Observed
<1>2. Inv /\ AgeInv /\ CalmInv => LossNeedsOverlap
  <2>1. SUFFICES ASSUME Inv, AgeInv, CalmInv,
                        NEW r \in Requests, r \notin overlapped, r \notin old, Observed(r)
                 PROVE  Remembered(r, task[r].client)
    BY DEF LossNeedsOverlap
  <2>2. task[r].client \in Clients
    BY <2>1 DEF Inv, OwnerInv, Observed
  <2>3. Calm(r, task[r].client)
    BY <2>1 DEF CalmInv
  <2>4. QED
    BY <2>1, <2>2, <2>3, KeptIsThere DEF Calm
<1>3. Spec => [](AgeInv /\ CalmInv)
  BY <1>1, Invariant, AgeInductive, CalmInductive, PTL DEF Spec
<1>4. QED
  BY <1>2, <1>3, Invariant, PTL
=============================================================================
