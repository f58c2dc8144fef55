--------------------------- MODULE ObservationProofs --------------------------
(****************************************************************************)
(* Safety of the store in Observation, for any threads, events and shapes.  *)
(*                                                                          *)
(* A thread keeps the id of its request while it waits for an explanation;  *)
(* meanwhile the request may be purged, others may write, and a failed call *)
(* may leave a draft that is committed later.  The explanation still lands  *)
(* on its own request because ids only grow along db and the one draft      *)
(* there can be, so that no other row ever gets the id (Owns).              *)
(****************************************************************************)
EXTENDS Observation, SequenceTheorems, TLAPS

-----------------------------------------------------------------------------
\* What is true of every database the threads work on.
Sound(d) ==
    /\ d.explanations \subseteq d.requests
    /\ \A r \in d.requests : r.id <= d.seq
    /\ \A r, q \in d.requests : r.id = q.id => r = q

\* A row of d with the id that task x keeps is the row of x's request.
Owns(d, x) == \A r \in d.requests : r.id = x.id => r.event = x.event

\* The same of every database that is or may be committed.
Kept(x) ==
    /\ x.id <= db.seq
    /\ Owns(db, x)
    /\ \A u \in Threads : draft[u] # None => Owns(draft[u], x)

Logged(t) == task[t].pc \in {"explain", "call", "keep"}

OneDraft == \A t, u \in Threads : t # u => draft[t] = None \/ draft[u] = None

\* Calls that return have committed.
OnlyFailuresBlock == \A t \in Threads : draft[t] # None => t \in failed

StoreInv ==
    /\ db \in Database /\ Sound(db)
    /\ durable \in Database /\ Sound(durable)
    /\ draft \in [Threads -> Database \cup {None}]
    /\ \A t \in Threads : draft[t] # None => Sound(draft[t]) /\ db.seq <= draft[t].seq
    /\ OneDraft
    /\ OnlyFailuresBlock

TaskInv ==
    /\ task \in [Threads -> Tasks]
    /\ \A t \in Threads : task[t].pc # "idle" => task[t].event \in Events
    /\ \A t \in Threads : Logged(t) => Kept(task[t])

\* d may follow v: rows are dropped, or added under ids v never gave out.
Follows(d, v) ==
    /\ d \in Database
    /\ Sound(d)
    /\ v.seq <= d.seq
    /\ \A r \in d.requests : r \in v.requests \/ r.id > v.seq

-----------------------------------------------------------------------------
(****************************************************************************)
(* The statements.                                                          *)
(****************************************************************************)

LEMMA InsertFollows ==
    ASSUME NEW d \in Database, Sound(d), NEW e \in Events
    PROVE  /\ Follows(WithRequest(d, e), d)
           /\ WithRequest(d, e).seq = NewId(d)
           /\ \A r \in WithRequest(d, e).requests : r.id = NewId(d) => r.event = e
<1> DEFINE row == [id |-> NewId(d), event |-> e]
           w   == WithRequest(d, e)
<1>1. NewId(d) \in Nat /\ NewId(d) = d.seq + 1 /\ d.seq \in Nat
  BY DEF NewId, Database
<1>2. row \in Row /\ row.id = NewId(d) /\ row.event = e
  BY <1>1 DEF Row
<1>3. /\ w.requests = d.requests \cup {row}
      /\ w.explanations = d.explanations
      /\ w.seq = NewId(d)
      /\ w \in Database
  BY <1>1, <1>2 DEF WithRequest, Database
<1>4. \A r \in d.requests : r.id \in Nat /\ r.id <= d.seq
  BY DEF Sound, Database, Row
<1> HIDE DEF row, w
<1>5. Sound(w)
  BY <1>1, <1>2, <1>3, <1>4 DEF Sound
<1>6. \A r \in w.requests : r.id = NewId(d) => r.event = e
  BY <1>1, <1>2, <1>3, <1>4
<1>7. \A r \in w.requests : r \in d.requests \/ r.id > d.seq
  BY <1>1, <1>2, <1>3
<1>8. Follows(w, d)
  BY <1>1, <1>3, <1>5, <1>7 DEF Follows
<1>9. QED
  BY <1>3, <1>6, <1>8 DEF w

LEMMA ExplainFollows ==
    ASSUME NEW d \in Database, Sound(d), NEW e \in Events, NEW i \in Nat,
           RequestExists(d, i), \A r \in d.requests : r.id = i => r.event = e
    PROVE  Follows(WithExplanation(d, i, e), d)
<1> DEFINE row == [id |-> i, event |-> e]
           w   == WithExplanation(d, i, e)
<1>1. row \in d.requests
  <2>1. PICK r \in d.requests : r.id = i
    BY DEF RequestExists
  <2>2. r \in Row /\ r.event = e
    BY <2>1 DEF Database
  <2>3. r = row
    BY <2>1, <2>2 DEF Row
  <2>4. QED
    BY <2>1, <2>3
<1>2. /\ w.requests = d.requests /\ w.seq = d.seq
      /\ w.explanations = {x \in d.explanations : x.id # i} \cup {row}
  BY DEF WithExplanation, Database
<1> HIDE DEF row
<1>3. w.explanations \subseteq d.requests
  BY <1>1, <1>2 DEF Sound
<1>4. w \in Database
  BY <1>2, <1>3 DEF WithExplanation, Database
<1> HIDE DEF w
<1>5. Sound(w)
  BY <1>2, <1>3 DEF Sound
<1>6. d.seq \in Nat
  BY DEF Database
<1>7. Follows(w, d)
  BY <1>2, <1>4, <1>5, <1>6 DEF Follows
<1>8. QED
  BY <1>7 DEF w

LEMMA PurgeFollows ==
    ASSUME NEW d \in Database, Sound(d), NEW old
    PROVE  Follows(Without(d, old), d)
<1> DEFINE w == Without(d, old)
<1>1. /\ w.requests = d.requests \ old /\ w.seq = d.seq
      /\ w.explanations = d.explanations \ old
      /\ w \in Database /\ d.seq \in Nat
  BY DEF Without, Database
<1> HIDE DEF w
<1>2. Sound(w)
  BY <1>1 DEF Sound
<1>3. Follows(w, d)
  BY <1>1, <1>2 DEF Follows
<1>4. QED
  BY <1>3 DEF w

LEMMA SameFollows ==
    ASSUME NEW d \in Database, Sound(d)
    PROVE  Follows(d, d)
<1>1. d.seq \in Nat
  BY DEF Database
<1>2. QED
  BY <1>1 DEF Follows

\* What a thread's statements work on is sound, and every kept id is its
\* request's there.
LEMMA ViewSound ==
    ASSUME StoreInv, NEW t \in Threads
    PROVE  /\ View(t) \in Database /\ Sound(View(t)) /\ db.seq <= View(t).seq
           /\ \A x \in Tasks : Kept(x) => Owns(View(t), x)
<1>1. db.seq \in Nat
  BY DEF StoreInv, Database
<1>2. QED
  BY <1>1 DEF StoreInv, View, Kept

\* What follows t's view leaves every kept id its request's.
LEMMA FollowsOwns ==
    ASSUME StoreInv, NEW t \in Threads, NEW d, Follows(d, View(t))
    PROVE  /\ db.seq <= d.seq
           /\ \A x \in Tasks : Kept(x) => x.id <= d.seq /\ Owns(d, x)
<1>1. /\ View(t) \in Database /\ db.seq <= View(t).seq
      /\ \A x \in Tasks : Kept(x) => Owns(View(t), x)
  BY ViewSound
<1>2. d.seq \in Nat /\ View(t).seq \in Nat /\ db.seq \in Nat
      /\ \A r \in d.requests : r.id \in Nat
  BY <1>1 DEF Follows, Database, Row, StoreInv
<1>3. db.seq <= d.seq
  BY <1>1, <1>2 DEF Follows
<1>4. ASSUME NEW x \in Tasks, Kept(x)
      PROVE  x.id <= d.seq /\ Owns(d, x)
  <2>1. x.id \in Nat /\ x.id <= db.seq
    BY <1>4 DEF Kept, Tasks
  <2>2. ASSUME NEW r \in d.requests, r.id = x.id
        PROVE  r.event = x.event
    <3>1. r \in View(t).requests
      BY <1>1, <1>2, <2>1, <2>2 DEF Follows
    <3>2. QED
      BY <1>1, <1>4, <2>2, <3>1 DEF Owns
  <2>3. QED
    BY <1>2, <1>3, <2>1, <2>2 DEF Owns
<1>5. QED
  BY <1>3, <1>4

-----------------------------------------------------------------------------
(****************************************************************************)
(* The calls of the store, without the tasks that make them.                *)
(****************************************************************************)

\* A call that returns.
LEMMA CommitKeeps ==
    ASSUME StoreInv, NEW t \in Threads, CanWrite(t),
           NEW d, Follows(d, View(t)), Commit(t, d)
    PROVE  StoreInv' /\ \A x \in Tasks : Kept(x) => Kept(x)'
<1>1. d \in Database /\ Sound(d)
  BY DEF Follows
<1>2. \A u \in Threads : draft'[u] = None
  BY DEF Commit, CanWrite, StoreInv
<1>3. draft' \in [Threads -> Database \cup {None}]
  BY DEF Commit, StoreInv
<1>4. db' = d /\ durable' = durable
  BY DEF Commit
<1>5. StoreInv'
  BY <1>1, <1>2, <1>3, <1>4 DEF StoreInv, OneDraft, OnlyFailuresBlock
<1>6. ASSUME NEW x \in Tasks, Kept(x) PROVE Kept(x)'
  <2>1. x.id <= d.seq /\ Owns(d, x)
    BY <1>6, FollowsOwns
  <2>2. QED
    BY <1>2, <1>4, <2>1 DEF Kept, Owns
<1>7. QED
  BY <1>5, <1>6

\* A call that raises and leaves its connection a draft, or none.
LEMMA RaiseKeeps ==
    ASSUME StoreInv, NEW t \in Threads, NEW d, Raise(t, d),
           d = None \/ d = draft[t] \/ (CanWrite(t) /\ Follows(d, View(t)))
    PROVE  StoreInv' /\ \A x \in Tasks : Kept(x) => Kept(x)'
<1>1. /\ draft' = [draft EXCEPT ![t] = d] /\ failed' = failed \cup {t}
      /\ db' = db /\ durable' = durable
  BY DEF Raise
<1>2. CASE d = None \/ d = draft[t]
  <2>1. /\ draft' \in [Threads -> Database \cup {None}]
        /\ \A u \in Threads : draft'[u] = None \/ draft'[u] = draft[u]
    BY <1>1, <1>2 DEF StoreInv
  <2>2. StoreInv'
    BY <1>1, <2>1 DEF StoreInv, OneDraft, OnlyFailuresBlock
  <2>3. \A x \in Tasks : Kept(x) => Kept(x)'
    BY <1>1, <2>1 DEF Kept, Owns
  <2>4. QED
    BY <2>2, <2>3
<1>3. CASE CanWrite(t) /\ Follows(d, View(t))
  <2>1. d \in Database /\ Sound(d) /\ db.seq <= d.seq
        /\ \A x \in Tasks : Kept(x) => Owns(d, x)
    BY <1>3, FollowsOwns DEF Follows
  <2>2. /\ draft' \in [Threads -> Database \cup {None}]
        /\ draft'[t] = d
        /\ \A u \in Threads \ {t} : draft'[u] = None
    BY <1>1, <1>3, <2>1 DEF StoreInv, CanWrite
  <2>3. StoreInv'
    BY <1>1, <2>1, <2>2 DEF StoreInv, OneDraft, OnlyFailuresBlock
  <2>4. \A x \in Tasks : Kept(x) => Kept(x)'
    BY <1>1, <2>1, <2>2 DEF Kept, Owns
  <2>5. QED
    BY <2>3, <2>4
<1>4. QED
  BY <1>2, <1>3

LEMMA FailsKeeps ==
    ASSUME StoreInv, NEW t \in Threads, NEW d, Follows(d, View(t)), Fails(t, d)
    PROVE  StoreInv' /\ \A x \in Tasks : Kept(x) => Kept(x)'
<1>1. PICK kept : /\ Raise(t, kept)
                  /\ kept = None \/ kept = draft[t] \/ (CanWrite(t) /\ kept = d)
  BY DEF Fails
<1>2. QED
  BY <1>1, RaiseKeeps

-----------------------------------------------------------------------------
(****************************************************************************)
(* The steps of _observe.                                                   *)
(****************************************************************************)

\* Thread t goes on with task x, and nobody else moves.
Moves(t, x) == task' = [task EXCEPT ![t] = x]

\* After a store call, the tasks are in order if the one that moved is.
LEMMA TaskKeeps ==
    ASSUME TaskInv, \A x \in Tasks : Kept(x) => Kept(x)',
           NEW t \in Threads, NEW x \in Tasks, Moves(t, x),
           x.pc # "idle" => x.event \in Events,
           x.pc \in {"explain", "call", "keep"} => Kept(x)'
    PROVE  TaskInv'
<1>1. /\ task' \in [Threads -> Tasks]
      /\ \A u \in Threads : task'[u] = IF u = t THEN x ELSE task[u]
  BY DEF Moves, TaskInv
<1>2. \A u \in Threads : Logged(u) => Kept(task[u])
  BY DEF TaskInv
<1>3. ASSUME NEW u \in Threads, Logged(u)' PROVE Kept(task[u])'
  <2>1. CASE u = t
    <3>1. Kept(x)' /\ task'[u] = x
      BY <1>1, <1>3, <2>1 DEF Logged
    <3>2. QED
      BY <3>1 DEF Kept, Owns
  <2>2. CASE u # t
    <3>1. task'[u] = task[u] /\ Logged(u) /\ task[u] \in Tasks
      BY <1>1, <1>3, <2>2 DEF Logged, TaskInv
    <3>2. \E y \in Tasks : y = task[u] /\ Kept(y)
      BY <1>2, <3>1
    <3>3. PICK y \in Tasks : y = task[u] /\ Kept(y)
      BY <3>2
    <3>4. Kept(y)' /\ y = task'[u]
      BY <3>1, <3>3
    <3>5. QED
      BY <3>4 DEF Kept, Owns
  <2>3. QED
    BY <2>1, <2>2
<1>4. \A u \in Threads : task'[u].pc # "idle" => task'[u].event \in Events
  BY <1>1 DEF TaskInv
<1>5. QED
  BY <1>1, <1>3, <1>4 DEF TaskInv

LEMMA IdleTask == Idle \in Tasks /\ Idle.pc = "idle"
  BY DEF Idle, Tasks

LEMMA StoreUnchanged ==
    ASSUME StoreInv, UNCHANGED storeVars
    PROVE  StoreInv' /\ \A x \in Tasks : Kept(x) => Kept(x)'
  BY DEF StoreInv, OneDraft, OnlyFailuresBlock, Kept, Owns, storeVars

\* Steps of the explainer change one task and nothing of the store.
LEMMA ExplainerKeeps ==
    ASSUME StoreInv, TaskInv, NEW t \in Threads, UNCHANGED storeVars,
           NEW pc \in {"call", "keep"}, Logged(t),
           Moves(t, [task[t] EXCEPT !.pc = pc])
    PROVE  StoreInv' /\ TaskInv'
<1> DEFINE x == [task[t] EXCEPT !.pc = pc]
<1>1. task[t] \in Tasks /\ task[t].event \in Events /\ Kept(task[t])
  BY DEF TaskInv, Logged
<1>2. x \in Tasks /\ x.event = task[t].event /\ x.id = task[t].id
  BY <1>1 DEF Tasks
<1>3. Moves(t, x)
  OBVIOUS
<1> HIDE DEF x
<1>4. Kept(x)
  BY <1>1, <1>2 DEF Kept, Owns
<1>5. StoreInv' /\ \A y \in Tasks : Kept(y) => Kept(y)'
  BY StoreUnchanged
<1>6. TaskInv'
  BY <1>1, <1>2, <1>3, <1>4, <1>5, TaskKeeps
<1>7. QED
  BY <1>5, <1>6

\* A store call that ends its task.
LEMMA EndKeeps ==
    ASSUME TaskInv, \A x \in Tasks : Kept(x) => Kept(x)',
           NEW t \in Threads, Moves(t, Idle)
    PROVE  TaskInv'
  BY IdleTask, TaskKeeps

LEMMA LogRequestKeeps ==
    ASSUME StoreInv, TaskInv, NEW t \in Threads, LogRequest(t)
    PROVE  StoreInv' /\ TaskInv'
<1> DEFINE v == View(t)
           e == task[t].event
           d == WithRequest(v, e)
           n == [task[t] EXCEPT !.pc = "explain", !.id = NewId(v)]
<1>1. e \in Events /\ task[t] \in Tasks
  BY DEF TaskInv, LogRequest
<1>2. v \in Database /\ Sound(v)
  BY ViewSound
<1>3. /\ Follows(d, v) /\ d.seq = NewId(v)
      /\ \A r \in d.requests : r.id = NewId(v) => r.event = e
  BY <1>1, <1>2, InsertFollows
<1>4. CanWrite(t) /\ Commit(t, d)
  BY DEF LogRequest
<1>5. StoreInv' /\ \A x \in Tasks : Kept(x) => Kept(x)'
  BY <1>3, <1>4, CommitKeeps
<1>6. CASE task[t].shape = None
  <2>1. Moves(t, Idle)
    BY <1>6 DEF LogRequest, Moves
  <2>2. QED
    BY <1>5, <2>1, EndKeeps
<1>7. CASE task[t].shape # None
  <2>1. Moves(t, n)
    BY <1>7 DEF LogRequest, Moves
  <2>2. n \in Tasks /\ n.event = e /\ n.id = NewId(v) /\ n.pc = "explain"
    <3>1. NewId(v) \in Nat
      BY <1>2 DEF NewId, Database
    <3>2. task[t] \in Tasks
      BY <1>1
    <3>3. QED
      BY <3>1, <3>2 DEF Tasks
  <2> HIDE DEF n
  <2>3. PICK x \in Tasks : x = n
    BY <2>2
  <2>4. db' = d /\ \A u \in Threads : draft'[u] = None
    BY <1>4 DEF Commit, CanWrite, StoreInv
  <2>5. PICK c : c = d
    OBVIOUS
  <2>6. x.id <= c.seq /\ Owns(c, x)
    BY <1>2, <1>3, <2>2, <2>3, <2>5 DEF Owns, NewId, Database
  <2>7. Kept(x)'
    BY <2>4, <2>5, <2>6 DEF Kept, Owns
  <2>8. Moves(t, x) /\ x.event \in Events
    BY <1>1, <2>1, <2>2, <2>3
  <2>9. QED
    BY <1>5, <2>7, <2>8, TaskKeeps
<1>8. QED
  BY <1>6, <1>7

LEMMA LogExplanationKeeps ==
    ASSUME StoreInv, TaskInv, NEW t \in Threads,
           LogExplanation(t) \/ LogExplanationFails(t)
    PROVE  StoreInv' /\ TaskInv'
<1> DEFINE v == View(t)
           i == task[t].id
           d == WithExplanation(v, i, task[t].event)
<1>1. /\ task[t].event \in Events /\ i \in Nat
      /\ \A r \in v.requests : r.id = i => r.event = task[t].event
  <2>1. Kept(task[t]) /\ task[t] \in Tasks /\ task[t].event \in Events
    BY DEF TaskInv, Logged, LogExplanation, LogExplanationFails
  <2>2. Owns(v, task[t])
    BY <2>1, ViewSound
  <2>3. QED
    BY <2>1, <2>2 DEF Owns, Tasks
<1>2. v \in Database /\ Sound(v)
  BY ViewSound
<1>3. RequestExists(v, i) => Follows(d, v)
  BY <1>1, <1>2, ExplainFollows
<1>4. Moves(t, Idle)
  BY DEF LogExplanation, LogExplanationFails, Moves
<1>5. CASE LogExplanation(t)
  <2>1. CanWrite(t) /\ Follows(d, v) /\ Commit(t, d)
    BY <1>3, <1>5 DEF LogExplanation
  <2>2. QED
    BY <1>4, <2>1, CommitKeeps, EndKeeps
<1>6. CASE LogExplanationFails(t)
  <2>1. CASE CanWrite(t) /\ ~RequestExists(v, i)
    <3>1. Raise(t, v) /\ Follows(v, v)
      BY <1>2, <1>6, <2>1, SameFollows DEF LogExplanationFails
    <3>2. QED
      BY <1>4, <2>1, <3>1, RaiseKeeps, EndKeeps
  <2>2. CASE CanWrite(t) /\ RequestExists(v, i)
    <3>1. Fails(t, d) /\ Follows(d, v)
      BY <1>3, <1>6, <2>2 DEF LogExplanationFails
    <3>2. QED
      BY <1>4, <3>1, FailsKeeps, EndKeeps
  <2>3. CASE ~CanWrite(t)
    <3>1. Raise(t, draft[t])
      BY <1>6, <2>3 DEF LogExplanationFails, Fails
    <3>2. QED
      BY <1>4, <3>1, RaiseKeeps, EndKeeps
  <2>4. QED
    BY <2>1, <2>2, <2>3
<1>7. QED
  BY <1>5, <1>6

LEMMA ObservationInductive == StoreInv /\ TaskInv /\ [Next]_vars => StoreInv' /\ TaskInv'
<1> SUFFICES ASSUME StoreInv, TaskInv, [Next]_vars PROVE StoreInv' /\ TaskInv'
  OBVIOUS
\* Calls of the store that leave the tasks alone.
<1>0. ASSUME StoreInv', \A x \in Tasks : Kept(x) => Kept(x)', task' = task
      PROVE  StoreInv' /\ TaskInv'
  <2>1. ASSUME NEW u \in Threads, Logged(u)' PROVE Kept(task[u])'
    <3>1. PICK y \in Tasks : y = task[u] /\ Kept(y)
      BY <1>0, <2>1 DEF TaskInv, Logged
    <3>2. Kept(y)' /\ y = task'[u]
      BY <1>0, <3>1
    <3>3. QED
      BY <3>2 DEF Kept, Owns
  <2>2. QED
    BY <1>0, <2>1 DEF TaskInv
<1>1. ASSUME NEW t \in Threads, LogRequest(t) PROVE StoreInv' /\ TaskInv'
  BY <1>1, LogRequestKeeps
<1>2. ASSUME NEW t \in Threads, LogRequestFails(t) PROVE StoreInv' /\ TaskInv'
  <2>1. Follows(WithRequest(View(t), task[t].event), View(t))
    BY <1>2, ViewSound, InsertFollows DEF TaskInv, LogRequestFails
  <2>2. Moves(t, Idle) /\ Fails(t, WithRequest(View(t), task[t].event))
    BY <1>2 DEF LogRequestFails, Moves
  <2>3. QED
    BY <2>1, <2>2, FailsKeeps, EndKeeps
<1>3. ASSUME NEW t \in Threads, Lookup(t) PROVE StoreInv' /\ TaskInv'
  <2>1. Logged(t) /\ UNCHANGED storeVars
    BY <1>3 DEF Lookup, Logged
  <2>2. Moves(t, [task[t] EXCEPT !.pc = "keep"]) \/ Moves(t, [task[t] EXCEPT !.pc = "call"])
    BY <1>3 DEF Lookup, Moves
  <2>3. QED
    BY <2>1, <2>2, ExplainerKeeps
<1>4. ASSUME NEW t \in Threads, Answer(t) \/ FallBack(t) PROVE StoreInv' /\ TaskInv'
  <2>1. Logged(t) /\ UNCHANGED storeVars
    BY <1>4 DEF Answer, FallBack, Logged
  <2>2. Moves(t, [task[t] EXCEPT !.pc = "keep"])
    BY <1>4 DEF Answer, FallBack, Moves
  <2>3. QED
    BY <2>1, <2>2, ExplainerKeeps
<1>5. ASSUME NEW t \in Threads, LogExplanation(t) \/ LogExplanationFails(t)
      PROVE  StoreInv' /\ TaskInv'
  BY <1>5, LogExplanationKeeps
<1>6. ASSUME NEW t \in Threads, NEW e \in Events, NEW s \in Shapes \cup {None}, Start(t, e, s)
      PROVE  StoreInv' /\ TaskInv'
  <2> DEFINE x == [pc |-> "log", event |-> e, shape |-> s, id |-> 0]
  <2>1. x \in Tasks /\ x.event \in Events /\ x.pc = "log"
    BY DEF Tasks
  <2>2. Moves(t, x) /\ UNCHANGED storeVars
    BY <1>6 DEF Start, Moves
  <2> HIDE DEF x
  <2>3. StoreInv' /\ \A y \in Tasks : Kept(y) => Kept(y)'
    BY <2>2, StoreUnchanged
  <2>4. QED
    BY <2>1, <2>2, <2>3, TaskKeeps
<1>7. ASSUME NEW t \in Threads, NEW old, Purge(t, old) PROVE StoreInv' /\ TaskInv'
  <2>1. Follows(Without(View(t), old), View(t))
    BY ViewSound, PurgeFollows
  <2>2. StoreInv' /\ \A x \in Tasks : Kept(x) => Kept(x)'
    BY <1>7, <2>1, CommitKeeps, FailsKeeps DEF Purge
  <2>3. QED
    BY <1>0, <1>7, <2>2 DEF Purge
<1>8. ASSUME NEW t \in Threads, Retire(t) PROVE StoreInv' /\ TaskInv'
  <2>1. /\ db' = db /\ durable' = durable /\ failed' = failed \ {t}
        /\ draft' \in [Threads -> Database \cup {None}]
        /\ draft'[t] = None
        /\ \A u \in Threads : draft'[u] = None \/ draft'[u] = draft[u]
    BY <1>8 DEF Retire, StoreInv
  <2>2. StoreInv'
    BY <2>1 DEF StoreInv, OneDraft, OnlyFailuresBlock
  <2>3. \A x \in Tasks : Kept(x) => Kept(x)'
    BY <2>1 DEF Kept, Owns
  <2>4. QED
    BY <1>0, <1>8, <2>2, <2>3 DEF Retire
<1>9. CASE Flush
  <2>1. StoreInv' /\ \A x \in Tasks : Kept(x) => Kept(x)'
    BY <1>9 DEF Flush, StoreInv, OneDraft, OnlyFailuresBlock, Kept, Owns
  <2>2. QED
    BY <1>0, <1>9, <2>1 DEF Flush
<1>10. ASSUME NEW found \in {db, durable}, Restart(found) PROVE StoreInv' /\ TaskInv'
  <2>1. /\ db' \in Database /\ Sound(db)' /\ durable' = durable
        /\ \A t \in Threads : draft'[t] = None
        /\ draft' \in [Threads -> Database \cup {None}]
    BY <1>10 DEF Restart, StoreInv, Sound
  <2>2. StoreInv'
    BY <2>1 DEF StoreInv, OneDraft, OnlyFailuresBlock
  <2>3. TaskInv'
    BY <1>10, IdleTask DEF Restart, TaskInv, Logged
  <2>4. QED
    BY <2>2, <2>3
<1>11. CASE UNCHANGED vars
  BY <1>0, <1>11, StoreUnchanged DEF vars, storeVars
<1>12. QED
  BY <1>1, <1>2, <1>3, <1>4, <1>5, <1>6, <1>7, <1>8, <1>9, <1>10, <1>11 DEF Next, Step

-----------------------------------------------------------------------------
(****************************************************************************)
(* The cache.  It is the end of uses, which has every shape at most once.   *)
(****************************************************************************)

Once(q) == \A i, j \in 1..Len(q) : q[i] = q[j] => i = j

CacheInv ==
    /\ uses \in Seq(Shapes) /\ Once(uses)
    /\ cache \in Seq(Shapes)
    /\ CacheKeepsRecent
    /\ \A t \in Threads : Logged(t) => task[t].shape \in Shapes

\* A shape that is not there is added at the end.
LEMMA MovedNew ==
    ASSUME NEW q \in Seq(Shapes), NEW s \in Shapes, Once(q), ~Contains(q, s)
    PROVE  LET m == Moved(q, s)
           IN  /\ m \in Seq(Shapes) /\ Once(m) /\ Len(m) = Len(q) + 1
               /\ \A i \in 1..Len(q) : m[i] = q[i]
               /\ m[Len(m)] = s
<1>1. Moved(q, s) = Append(q, s)
  BY DEF Moved, RemoveFirst, Contains
<1>2. QED
  BY <1>1 DEF Once, Contains

\* A shape that is there goes to the end, and those after it move up.
LEMMA MovedOld ==
    ASSUME NEW q \in Seq(Shapes), NEW s \in Shapes, Once(q),
           NEW p \in 1..Len(q), q[p] = s
    PROVE  LET m == Moved(q, s)
           IN  /\ m \in Seq(Shapes) /\ Once(m) /\ Len(m) = Len(q)
               /\ \A i \in 1..Len(m) : m[i] = IF i < p THEN q[i]
                                              ELSE IF i < Len(q) THEN q[i + 1] ELSE s
<1> DEFINE m == Moved(q, s)
           r == SubSeq(q, 1, p - 1) \o SubSeq(q, p + 1, Len(q))
<1>0. Len(q) \in Nat /\ p \in Nat /\ 1 <= p /\ p <= Len(q)
  OBVIOUS
<1>1. SelectInSeq(q, LAMBDA v : v = s) = p
  <2> DEFINE I == {i \in 1..Len(q) : q[i] = s}
  <2>1. I = {p}
    BY DEF Once
  <2>2. Min({p}) = p
    BY <1>0 DEF Min
  <2>3. SelectInSeq(q, LAMBDA v : v = s) = IF I # {} THEN Min(I) ELSE 0
    BY DEF SelectInSeq
  <2>4. QED
    BY <2>1, <2>2, <2>3
<1>2. m = Append(r, s)
  BY <1>1 DEF Moved, RemoveFirst, RemoveAt
<1>3. /\ SubSeq(q, 1, p - 1) \in Seq(Shapes) /\ Len(SubSeq(q, 1, p - 1)) = p - 1
      /\ \A i \in 1..(p - 1) : SubSeq(q, 1, p - 1)[i] = q[i]
  BY <1>0
<1>4. /\ SubSeq(q, p + 1, Len(q)) \in Seq(Shapes)
      /\ Len(SubSeq(q, p + 1, Len(q))) = Len(q) - p
      /\ \A i \in 1..(Len(q) - p) : SubSeq(q, p + 1, Len(q))[i] = q[p + i]
  BY <1>0
<1>5. /\ r \in Seq(Shapes) /\ Len(r) = Len(q) - 1
      /\ \A i \in 1..(Len(q) - 1) : r[i] = IF i < p THEN q[i] ELSE q[i + 1]
  <2> DEFINE a == SubSeq(q, 1, p - 1)
             b == SubSeq(q, p + 1, Len(q))
  <2>1. /\ a \in Seq(Shapes) /\ Len(a) = p - 1 /\ b \in Seq(Shapes) /\ Len(b) = Len(q) - p
        /\ \A i \in 1..(p - 1) : a[i] = q[i]
        /\ \A i \in 1..(Len(q) - p) : b[i] = q[p + i]
        /\ r = a \o b
    BY <1>3, <1>4
  <2> HIDE DEF a, b, r
  <2>2. /\ r \in Seq(Shapes) /\ Len(r) = Len(q) - 1
        /\ \A i \in 1..(Len(q) - 1) : r[i] = IF i <= p - 1 THEN a[i] ELSE b[i - (p - 1)]
    <3>1. Len(a) + Len(b) = Len(q) - 1
      BY <1>0, <2>1
    <3>2. /\ a \o b \in Seq(Shapes) /\ Len(a \o b) = Len(a) + Len(b)
          /\ \A i \in 1..(Len(a) + Len(b)) : (a \o b)[i] =
                IF i <= Len(a) THEN a[i] ELSE b[i - Len(a)]
      BY <2>1, ConcatProperties, Zenon
    <3>3. QED
      BY <2>1, <3>1, <3>2
  <2>3. ASSUME NEW i \in 1..(Len(q) - 1), i < p PROVE r[i] = q[i]
    BY <1>0, <2>1, <2>2, <2>3
  <2>4. ASSUME NEW i \in 1..(Len(q) - 1), ~(i < p) PROVE r[i] = q[i + 1]
    <3>1. i - (p - 1) \in 1..(Len(q) - p) /\ p + (i - (p - 1)) = i + 1
      BY <1>0, <2>4
    <3>2. r[i] = b[i - (p - 1)]
      BY <1>0, <2>2, <2>4
    <3>3. b[i - (p - 1)] = q[p + (i - (p - 1))]
      BY <2>1, <3>1
    <3>4. QED
      BY <3>1, <3>2, <3>3
  <2>5. QED
    BY <2>2, <2>3, <2>4
<1> HIDE DEF r
<1>6. /\ m \in Seq(Shapes) /\ Len(m) = Len(q)
      /\ \A i \in 1..Len(m) : m[i] = IF i < p THEN q[i]
                                     ELSE IF i < Len(q) THEN q[i + 1] ELSE s
  BY <1>0, <1>2, <1>5
<1> HIDE DEF m
<1>7. Once(m)
  BY <1>0, <1>6 DEF Once
<1>8. QED
  BY <1>6, <1>7 DEF m

\* The cache starts o places into uses.
LEMMA CacheIsEnd ==
    ASSUME CacheInv
    PROVE  LET o == Len(uses) - Len(cache)
           IN  /\ Len(uses) \in Nat /\ Len(cache) \in Nat /\ o \in Nat /\ CacheSize \in Nat
               /\ o + Len(cache) = Len(uses)
               /\ \A i \in 1..Len(cache) : o + i \in 1..Len(uses) /\ cache[i] = uses[o + i]
               /\ Len(cache) = IF Len(uses) < CacheSize THEN Len(uses) ELSE CacheSize
<1>1. Len(uses) \in Nat /\ Len(cache) \in Nat /\ CacheSize \in Nat
  BY CacheAssumption DEF CacheInv
<1>2. Len(cache) = IF Len(uses) < CacheSize THEN Len(uses) ELSE CacheSize
  BY DEF CacheInv, CacheKeepsRecent
<1>3. \A i \in 1..Len(cache) : cache[i] = uses[Len(uses) - Len(cache) + i]
  BY DEF CacheInv, CacheKeepsRecent
<1>4. /\ Len(uses) - Len(cache) \in Nat
      /\ (Len(uses) - Len(cache)) + Len(cache) = Len(uses)
  BY <1>1, <1>2
<1>5. \A i \in 1..Len(cache) : Len(uses) - Len(cache) + i \in 1..Len(uses)
  BY <1>1, <1>4
<1>6. QED
  BY <1>1, <1>2, <1>3, <1>4, <1>5

LEMMA CacheOnce == CacheInv => Once(cache)
<1> SUFFICES ASSUME CacheInv, NEW i \in 1..Len(cache), NEW j \in 1..Len(cache),
                    cache[i] = cache[j]
             PROVE  i = j
  BY DEF Once
<1> DEFINE o == Len(uses) - Len(cache)
<1>1. /\ o \in Nat /\ o + i \in 1..Len(uses) /\ o + j \in 1..Len(uses)
      /\ cache[i] = uses[o + i] /\ cache[j] = uses[o + j]
  BY CacheIsEnd
<1> HIDE DEF o
<1>2. o + i = o + j
  BY <1>1 DEF CacheInv, Once
<1>3. QED
  BY <1>1, <1>2

\* A hit: the cache is in the same order as uses before and after.
LEMMA HitKeeps ==
    ASSUME CacheInv, NEW s \in Shapes, Cached(s), Hit(s), uses' = Moved(uses, s)
    PROVE  /\ uses' \in Seq(Shapes) /\ Once(uses')
           /\ cache' \in Seq(Shapes) /\ CacheKeepsRecent'
<1> DEFINE o == Len(uses) - Len(cache)
<1>0. /\ Len(uses) \in Nat /\ Len(cache) \in Nat /\ o \in Nat /\ CacheSize \in Nat
      /\ o + Len(cache) = Len(uses)
  BY CacheIsEnd
<1>1. /\ Len(uses) \in Nat /\ Len(cache) \in Nat /\ o \in Nat /\ CacheSize \in Nat
      /\ \A i \in 1..Len(cache) : o + i \in 1..Len(uses) /\ cache[i] = uses[o + i]
      /\ Len(cache) = IF Len(uses) < CacheSize THEN Len(uses) ELSE CacheSize
  BY CacheIsEnd
<1>2. PICK p \in 1..Len(cache) : cache[p] = s
  BY DEF Cached, Contains
<1>3. o + p \in 1..Len(uses) /\ uses[o + p] = s
  BY <1>1, <1>2
<1>4. Once(cache)
  BY CacheOnce
<1> HIDE DEF o
<1>5. /\ cache' \in Seq(Shapes) /\ Len(cache') = Len(cache)
      /\ \A i \in 1..Len(cache') : cache'[i] = IF i < p THEN cache[i]
                                     ELSE IF i < Len(cache) THEN cache[i + 1] ELSE s
  BY <1>2, <1>4, MovedOld DEF Hit, CacheInv
<1>6. /\ uses' \in Seq(Shapes) /\ Once(uses') /\ Len(uses') = Len(uses)
      /\ \A i \in 1..Len(uses') : uses'[i] = IF i < o + p THEN uses[i]
                                     ELSE IF i < Len(uses) THEN uses[i + 1] ELSE s
  BY <1>3, MovedOld DEF CacheInv
<1>7. ASSUME NEW i \in 1..Len(cache') PROVE cache'[i] = uses'[o + i]
  <2>0. i \in 1..Len(cache) /\ i \in Nat /\ p \in Nat
    BY <1>0, <1>5
  <2>1. o + i \in 1..Len(uses) /\ cache[i] = uses[o + i]
    BY <1>1, <2>0
  <2>2. /\ cache'[i] = IF i < p THEN cache[i]
                       ELSE IF i < Len(cache) THEN cache[i + 1] ELSE s
        /\ uses'[o + i] = IF o + i < o + p THEN uses[o + i]
                          ELSE IF o + i < Len(uses) THEN uses[o + i + 1] ELSE s
    BY <1>5, <1>6, <2>0, <2>1
  <2>3. i < Len(cache) => cache[i + 1] = uses[o + i + 1]
    <3>1. ASSUME i < Len(cache) PROVE i + 1 \in 1..Len(cache) /\ o + (i + 1) = o + i + 1
      BY <1>0, <2>0, <3>1
    <3>2. QED
      BY <1>1, <3>1
  <2>4. (i < p <=> o + i < o + p) /\ (i < Len(cache) <=> o + i < Len(uses))
    BY <1>0, <2>0
  <2>5. QED
    BY <2>1, <2>2, <2>3, <2>4
<1>8. QED
  BY <1>1, <1>5, <1>6, <1>7 DEF CacheKeepsRecent, o

\* An answer: a shape that was not cached may have been evicted earlier, and
\* one that was not cached at the lookup may be by now.
LEMMA PutKeeps ==
    ASSUME CacheInv, NEW s \in Shapes, Put(s), uses' = Moved(uses, s)
    PROVE  /\ uses' \in Seq(Shapes) /\ Once(uses')
           /\ cache' \in Seq(Shapes) /\ CacheKeepsRecent'
<1> DEFINE o == Len(uses) - Len(cache)
           m == Moved(cache, s)
<1>0. /\ Len(uses) \in Nat /\ Len(cache) \in Nat /\ o \in Nat /\ CacheSize \in Nat
      /\ o + Len(cache) = Len(uses)
  BY CacheIsEnd
<1>1. /\ Len(uses) \in Nat /\ Len(cache) \in Nat /\ o \in Nat /\ CacheSize \in Nat
      /\ \A i \in 1..Len(cache) : o + i \in 1..Len(uses) /\ cache[i] = uses[o + i]
      /\ Len(cache) = IF Len(uses) < CacheSize THEN Len(uses) ELSE CacheSize
  BY CacheIsEnd
<1>2. Once(cache) /\ cache \in Seq(Shapes) /\ uses \in Seq(Shapes) /\ Once(uses)
  BY CacheOnce DEF CacheInv
<1>3. cache' = IF Len(m) > CacheSize THEN Tail(m) ELSE m
  BY DEF Put
<1> HIDE DEF m, o
<1>4. CASE Cached(s)
  <2>1. Len(m) = Len(cache)
    BY <1>2, <1>4, MovedOld DEF Cached, Contains, m
  <2>2. Hit(s)
    BY <1>1, <1>3, <2>1 DEF Hit, m
  <2>3. QED
    BY <1>4, <2>2, HitKeeps
<1>5. CASE ~Cached(s)
  <2>1. /\ m \in Seq(Shapes) /\ Len(m) = Len(cache) + 1
        /\ \A i \in 1..Len(cache) : m[i] = cache[i]
        /\ m[Len(cache) + 1] = s
    BY <1>2, <1>5, MovedNew DEF Cached, m
  <2>2. CASE Contains(uses, s)
    <3>1. PICK p \in 1..Len(uses) : uses[p] = s
      BY <2>2 DEF Contains
    <3>2. p <= o
      <4>1. ASSUME p > o PROVE FALSE
        <5>1. p - o \in 1..Len(cache) /\ o + (p - o) = p
          <6>1. p \in Nat /\ p <= Len(uses) /\ o + Len(cache) = Len(uses)
            BY <1>1, <3>1 DEF o
          <6>2. QED
            BY <1>1, <4>1, <6>1
        <5>2. cache[p - o] = s
          BY <1>1, <3>1, <5>1
        <5>3. QED
          BY <1>5, <5>1, <5>2 DEF Cached, Contains
      <4>2. QED
        BY <1>1, <3>1, <4>1
    <3>3. /\ uses' \in Seq(Shapes) /\ Once(uses') /\ Len(uses') = Len(uses)
          /\ \A i \in 1..Len(uses') : uses'[i] = IF i < p THEN uses[i]
                                       ELSE IF i < Len(uses) THEN uses[i + 1] ELSE s
      BY <1>2, <3>1, MovedOld
    <3>4. Len(cache) = CacheSize /\ cache' = Tail(m)
      BY <1>1, <1>3, <2>1, <3>1, <3>2 DEF o
    <3>5. /\ cache' \in Seq(Shapes) /\ Len(cache') = Len(cache)
          /\ \A i \in 1..Len(cache') : cache'[i] = m[i + 1]
      BY <1>1, <2>1, <3>4, CacheAssumption
    <3>6. ASSUME NEW i \in 1..Len(cache') PROVE cache'[i] = uses'[o + i]
      <4>1. /\ i \in 1..Len(cache) /\ i \in Nat /\ p \in Nat /\ o \in Nat
            /\ o + i \in 1..Len(uses) /\ ~(o + i < p) /\ o + Len(cache) = Len(uses)
        BY <1>0, <3>2, <3>5
      <4>2. uses'[o + i] = IF o + i < Len(uses) THEN uses[o + i + 1] ELSE s
        BY <3>3, <4>1
      <4>3. CASE i < Len(cache)
        <5>1. i + 1 \in 1..Len(cache) /\ o + (i + 1) = o + i + 1 /\ o + i < Len(uses)
          BY <1>1, <4>1, <4>3
        <5>2. cache'[i] = uses[o + i + 1]
          BY <1>1, <2>1, <3>5, <5>1
        <5>3. QED
          BY <4>2, <5>1, <5>2
      <4>4. CASE i = Len(cache)
        <5>1. cache'[i] = s
          BY <2>1, <3>5, <4>4
        <5>2. ~(o + i < Len(uses))
          BY <1>0, <4>1, <4>4
        <5>3. QED
          BY <4>2, <5>1, <5>2
      <4>5. QED
        BY <1>1, <4>1, <4>3, <4>4
    <3>7. QED
      BY <1>1, <3>3, <3>4, <3>5, <3>6 DEF CacheKeepsRecent, o
  <2>3. CASE ~Contains(uses, s)
    <3>1. /\ uses' \in Seq(Shapes) /\ Once(uses') /\ Len(uses') = Len(uses) + 1
          /\ \A i \in 1..Len(uses) : uses'[i] = uses[i]
          /\ uses'[Len(uses) + 1] = s
      BY <1>2, <2>3, MovedNew
    <3>2. CASE Len(cache) < CacheSize
      <4>1. cache' = m /\ o = 0
        BY <1>1, <1>3, <2>1, <3>2 DEF o
      <4>2. QED
        <5>1. /\ Len(cache) = Len(uses) /\ Len(cache') = Len(uses') /\ Len(cache') \in Nat
              /\ Len(cache') = IF Len(uses') < CacheSize THEN Len(uses') ELSE CacheSize
          BY <1>1, <2>1, <3>1, <3>2, <4>1 DEF o
        <5>2. ASSUME NEW i \in 1..Len(cache') PROVE cache'[i] = uses'[i]
          <6>1. CASE i \in 1..Len(cache)
            BY <1>1, <2>1, <3>1, <4>1, <5>1, <6>1
          <6>2. CASE i = Len(cache) + 1
            BY <2>1, <3>1, <4>1, <5>1, <6>2
          <6>3. QED
            BY <1>1, <2>1, <4>1, <6>1, <6>2
        <5>3. \A i \in 1..Len(cache') : Len(uses') - Len(cache') + i = i
          BY <5>1
        <5>4. QED
          BY <2>1, <3>1, <4>1, <5>1, <5>2, <5>3 DEF CacheKeepsRecent
    <3>3. CASE Len(cache) = CacheSize
      <4>1. cache' = Tail(m)
        BY <1>1, <1>3, <2>1, <3>3
      <4>2. /\ cache' \in Seq(Shapes) /\ Len(cache') = Len(cache)
            /\ \A i \in 1..Len(cache') : cache'[i] = m[i + 1]
        BY <1>1, <2>1, <4>1, CacheAssumption
      <4>3. ASSUME NEW i \in 1..Len(cache') PROVE cache'[i] = uses'[o + 1 + i]
        <5>1. /\ i \in 1..Len(cache) /\ i \in Nat /\ o \in Nat
              /\ o + Len(cache) = Len(uses) /\ o + 1 + i = o + (i + 1)
          BY <1>1, <4>2 DEF o
        <5>2. CASE i < Len(cache)
          <6>1. i + 1 \in 1..Len(cache) /\ o + (i + 1) \in 1..Len(uses)
            BY <1>1, <5>1, <5>2
          <6>2. cache'[i] = uses[o + (i + 1)]
            BY <1>1, <2>1, <4>2, <6>1
          <6>3. QED
            BY <3>1, <5>1, <6>1, <6>2
        <5>3. CASE i = Len(cache)
          <6>1. cache'[i] = s
            BY <2>1, <4>2, <5>3
          <6>2. o + 1 + i = Len(uses) + 1
            BY <1>0, <5>1, <5>3
          <6>3. QED
            BY <3>1, <6>1, <6>2
        <5>4. QED
          BY <1>1, <5>1, <5>2, <5>3
      <4>4. QED
        <5>1. /\ Len(cache') = IF Len(uses') < CacheSize THEN Len(uses') ELSE CacheSize
              /\ Len(uses') - Len(cache') = o + 1
          BY <1>0, <1>1, <3>1, <3>3, <4>2
        <5>2. QED
          BY <3>1, <4>2, <4>3, <5>1 DEF CacheKeepsRecent
    <3>4. QED
      BY <1>1, <3>2, <3>3
  <2>4. QED
    BY <2>2, <2>3
<1>6. QED
  BY <1>4, <1>5

LEMMA CacheInductive == TaskInv /\ CacheInv /\ [Next]_vars => CacheInv'
<1> SUFFICES ASSUME TaskInv, CacheInv, [Next]_vars PROVE CacheInv'
  OBVIOUS
<1> DEFINE Shaped == \A t \in Threads : Logged(t) => task[t].shape \in Shapes
           Stays == UNCHANGED <<cache, uses>>
\* Steps that use no shape.
<1>1. ASSUME Stays, Shaped' PROVE CacheInv'
  BY <1>1 DEF CacheInv, CacheKeepsRecent, Once
<1>2. task \in [Threads -> Tasks] /\ Shaped
  BY DEF TaskInv, CacheInv
<1>3. ASSUME NEW t \in Threads, task' = [task EXCEPT ![t] = Idle] PROVE Shaped'
  BY <1>2, <1>3 DEF Logged, Idle
<1>4. ASSUME NEW t \in Threads, NEW pc \in {"call", "keep"}, Logged(t),
             task' = [task EXCEPT ![t] = [task[t] EXCEPT !.pc = pc]]
      PROVE  Shaped'
  <2>1. task[t] \in Tasks /\ task[t].shape \in Shapes
    BY <1>2, <1>4
  <2>2. [task[t] EXCEPT !.pc = pc].shape = task[t].shape
    BY <2>1 DEF Tasks
  <2>3. QED
    BY <1>2, <1>4, <2>1, <2>2 DEF Logged
<1>5. ASSUME NEW t \in Threads, LogRequest(t) PROVE CacheInv'
  <2>1. Stays
    BY <1>5 DEF LogRequest, cacheVars
  <2>2. CASE task[t].shape = None
    BY <1>1, <1>3, <1>5, <2>1, <2>2 DEF LogRequest
  <2>3. CASE task[t].shape # None
    <3> DEFINE n == [task[t] EXCEPT !.pc = "explain", !.id = NewId(View(t))]
    <3>1. task' = [task EXCEPT ![t] = n]
      BY <1>5, <2>3 DEF LogRequest
    <3>2. task[t] \in Tasks /\ n.shape = task[t].shape /\ task[t].shape \in Shapes
      BY <1>2, <2>3 DEF Tasks
    <3> HIDE DEF n
    <3>3. Shaped'
      BY <1>2, <3>1, <3>2 DEF Logged
    <3>4. QED
      BY <1>1, <2>1, <3>3
  <2>4. QED
    BY <2>2, <2>3
<1>6. ASSUME NEW t \in Threads, LogRequestFails(t) \/ LogExplanation(t) \/ LogExplanationFails(t)
      PROVE  CacheInv'
  <2>1. Stays /\ task' = [task EXCEPT ![t] = Idle]
    BY <1>6 DEF LogRequestFails, LogExplanation, LogExplanationFails, cacheVars
  <2>2. QED
    BY <1>1, <1>3, <2>1
<1>7. ASSUME NEW t \in Threads, Lookup(t) PROVE CacheInv'
  <2>1. Logged(t) /\ task[t].shape \in Shapes
    BY <1>2, <1>7 DEF Lookup, Logged
  <2>2. CASE Cached(task[t].shape)
    <3>1. /\ Hit(task[t].shape) /\ uses' = Moved(uses, task[t].shape)
          /\ task' = [task EXCEPT ![t] = [task[t] EXCEPT !.pc = "keep"]]
      BY <1>7, <2>2 DEF Lookup
    <3>2. Shaped'
      BY <1>4, <2>1, <3>1
    <3>3. QED
      BY <2>1, <2>2, <3>1, <3>2, HitKeeps DEF CacheInv
  <2>3. CASE ~Cached(task[t].shape)
    <3>1. Stays /\ task' = [task EXCEPT ![t] = [task[t] EXCEPT !.pc = "call"]]
      BY <1>7, <2>3 DEF Lookup, cacheVars
    <3>2. QED
      BY <1>1, <1>4, <2>1, <3>1
  <2>4. QED
    BY <2>2, <2>3
<1>8. ASSUME NEW t \in Threads, Answer(t) PROVE CacheInv'
  <2>1. /\ Logged(t) /\ task[t].shape \in Shapes
        /\ Put(task[t].shape) /\ uses' = Moved(uses, task[t].shape)
        /\ task' = [task EXCEPT ![t] = [task[t] EXCEPT !.pc = "keep"]]
    BY <1>2, <1>8 DEF Answer, Logged
  <2>2. Shaped'
    BY <1>4, <2>1
  <2>3. QED
    BY <2>1, <2>2, PutKeeps DEF CacheInv
<1>9. ASSUME NEW t \in Threads, FallBack(t) PROVE CacheInv'
  <2>1. /\ Logged(t) /\ Stays
        /\ task' = [task EXCEPT ![t] = [task[t] EXCEPT !.pc = "keep"]]
    BY <1>9 DEF FallBack, Logged, cacheVars
  <2>2. QED
    BY <1>1, <1>4, <2>1
<1>10. ASSUME NEW t \in Threads, NEW e \in Events, NEW s \in Shapes \cup {None}, Start(t, e, s)
       PROVE  CacheInv'
  <2>1. Stays /\ \A u \in Threads : Logged(u)' => task'[u] = task[u] /\ Logged(u)
    BY <1>2, <1>10 DEF Start, cacheVars, Logged
  <2>2. QED
    BY <1>1, <1>2, <2>1
<1>11. ASSUME (\E t \in Threads : Retire(t) \/ \E old \in SUBSET View(t).requests : Purge(t, old))
              \/ Flush \/ UNCHANGED vars
       PROVE  CacheInv'
  <2>1. Stays /\ task' = task
    BY <1>11 DEF Purge, Retire, Flush, vars, cacheVars
  <2>2. QED
    BY <1>1, <1>2, <2>1 DEF Logged
<1>12. ASSUME NEW found \in {db, durable}, Restart(found) PROVE CacheInv'
  <2>1. cache' = <<>> /\ uses' = <<>> /\ \A t \in Threads : ~Logged(t)'
    BY <1>12 DEF Restart, Logged, Idle
  <2>2. QED
    BY <2>1, CacheAssumption DEF CacheInv, CacheKeepsRecent, Once
<1>13. QED
  BY <1>5, <1>6, <1>7, <1>8, <1>9, <1>10, <1>11, <1>12 DEF Next, Step

-----------------------------------------------------------------------------
(****************************************************************************)
(* No request is stored twice.  A request that waits to be logged is in no  *)
(* database, not even in the draft of a call that failed: its own call is   *)
(* the only one that inserts it, and is not made again.                     *)
(****************************************************************************)

\* Requests that wait to be logged.
Pending == {e \in Events : \E t \in Threads : task[t].pc = "log" /\ task[t].event = e}

\* Every request of d is one of known, and d has it once.
Single(d, known) ==
    /\ \A r \in d.requests : r.event \in known
    /\ \A r, q \in d.requests : r.event = q.event => r = q

SingleInv(known) ==
    /\ Single(db, known) /\ Single(durable, known)
    /\ \A t \in Threads : draft[t] # None => Single(draft[t], known)

OnceInv ==
    /\ \A t, u \in Threads : task[t].pc = "log" /\ task[u].pc = "log" =>
           (task[t].event = task[u].event => t = u)
    /\ \A t \in Threads : task[t].pc = "log" => task[t].event \in seen
    /\ SingleInv(seen \ Pending)

LEMMA SingleView ==
    ASSUME NEW known, SingleInv(known), NEW t \in Threads
    PROVE  Single(View(t), known)
  BY DEF SingleInv, View

\* Dropping rows, knowing more.
LEMMA SingleSubset ==
    ASSUME NEW v, NEW known, Single(v, known), NEW d, NEW more,
           d.requests \subseteq v.requests, known \subseteq more
    PROVE  Single(d, more)
  BY DEF Single

LEMMA SingleStays ==
    ASSUME NEW known, SingleInv(known), NEW more, known \subseteq more,
           NEW t \in Threads, StoreInv,
           NEW d, Single(d, more),
           Commit(t, d) \/ Fails(t, d)
    PROVE  SingleInv(more)'
<1>1. /\ Single(db, more) /\ Single(durable, more)
      /\ \A u \in Threads : draft[u] # None => Single(draft[u], more)
  BY SingleSubset DEF SingleInv
<1>2. draft \in [Threads -> Database \cup {None}]
  BY DEF StoreInv
<1>3. /\ db' = db \/ db' = d
      /\ durable' = durable
      /\ \A u \in Threads : draft'[u] = None \/ draft'[u] = draft[u] \/ draft'[u] = d
  BY <1>2 DEF Commit, Fails, Raise
<1>4. Single(db', more) /\ Single(durable', more)
  BY <1>1, <1>3
<1>5. \A u \in Threads : draft'[u] # None => Single(draft'[u], more)
  BY <1>1, <1>3
<1>6. QED
  BY <1>4, <1>5 DEF SingleInv, Single

\* Steps that leave the databases alone, or lose some of them.
LEMMA SingleLess ==
    ASSUME NEW known, SingleInv(known), NEW more, known \subseteq more,
           db' \in {db, durable}, durable' \in {db, durable},
           \A u \in Threads : draft'[u] = None \/ draft'[u] = draft[u]
    PROVE  SingleInv(more)'
<1>1. /\ Single(db, more) /\ Single(durable, more)
      /\ \A u \in Threads : draft[u] # None => Single(draft[u], more)
  BY SingleSubset DEF SingleInv
<1>2. Single(db', more) /\ Single(durable', more)
  BY <1>1
<1>3. \A u \in Threads : draft'[u] # None => Single(draft'[u], more)
  BY <1>1
<1>4. QED
  BY <1>2, <1>3 DEF SingleInv, Single

\* No task begins to wait for its call.
LEMMA NoneBegins ==
    ASSUME OnceInv, seen \subseteq seen',
           \A t \in Threads : task'[t].pc = "log" => task'[t] = task[t]
    PROVE  /\ \A t, u \in Threads : task'[t].pc = "log" /\ task'[u].pc = "log" =>
                  (task'[t].event = task'[u].event => t = u)
           /\ \A t \in Threads : task'[t].pc = "log" => task'[t].event \in seen'
           /\ seen \ Pending \subseteq seen' \ Pending'
<1>1. Pending' \subseteq Pending
  BY DEF Pending
<1>2. ASSUME NEW t \in Threads, NEW u \in Threads, task'[t].pc = "log", task'[u].pc = "log",
             task'[t].event = task'[u].event
      PROVE  t = u
  BY <1>2 DEF OnceInv
<1>3. \A t \in Threads : task'[t].pc = "log" => task'[t].event \in seen'
  BY DEF OnceInv
<1>4. seen \ Pending \subseteq seen' \ Pending'
  BY <1>1
<1>5. QED
  BY <1>2, <1>3, <1>4

\* The call that inserts, whether it returns or raises.
LEMMA LoggedOnce ==
    ASSUME StoreInv, TaskInv, OnceInv, NEW t \in Threads, LogRequest(t) \/ LogRequestFails(t)
    PROVE  OnceInv'
<1> DEFINE e == task[t].event
           v == View(t)
           d == WithRequest(v, e)
<1>0. /\ task[t].pc = "log" /\ seen' = seen
      /\ Commit(t, d) \/ Fails(t, d)
      /\ \/ task' = [task EXCEPT ![t] = Idle]
         \/ task' = [task EXCEPT ![t] = [task[t] EXCEPT !.pc = "explain", !.id = NewId(v)]]
  BY DEF LogRequest, LogRequestFails
<1>1. /\ e \in Events
      /\ \A u \in Threads : u # t => task'[u] = task[u]
      /\ task'[t].pc # "log"
  <2>1. task \in [Threads -> Tasks] /\ e \in Events
    BY <1>0 DEF TaskInv
  <2>2. /\ Idle.pc # "log"
        /\ [task[t] EXCEPT !.pc = "explain", !.id = NewId(v)].pc # "log"
    BY <2>1 DEF Idle, Tasks
  <2>3. QED
    BY <1>0, <2>1, <2>2
<1>more. PICK more : more = seen' \ Pending'
  OBVIOUS
<1>2. /\ \A u, w \in Threads : task'[u].pc = "log" /\ task'[w].pc = "log" =>
             (task'[u].event = task'[w].event => u = w)
      /\ \A u \in Threads : task'[u].pc = "log" => task'[u].event \in seen'
      /\ seen \ Pending \subseteq more
  BY <1>0, <1>1, <1>more, NoneBegins
<1>3. e \in more
  <2>1. e \in seen'
    BY <1>0 DEF OnceInv
  <2>2. ASSUME NEW u \in Threads, task'[u].pc = "log", task'[u].event = e PROVE FALSE
    BY <1>0, <1>1, <2>2 DEF OnceInv
  <2>3. QED
    BY <1>more, <2>1, <2>2 DEF Pending
<1>4. Single(v, seen \ Pending) /\ v \in Database
  BY SingleView, ViewSound DEF OnceInv
<1>5. e \in Pending
  BY <1>0, <1>1 DEF Pending
<1>6. d.requests = v.requests \cup {[id |-> NewId(v), event |-> e]}
  BY <1>4 DEF WithRequest, Database
<1> HIDE DEF e, v, d
<1>7. Single(d, more)
  <2>1. \A r \in v.requests : r.event # e /\ r.event \in more
    BY <1>2, <1>4, <1>5 DEF Single
  <2>2. QED
    BY <1>3, <1>4, <1>6, <2>1 DEF Single
<1>8. SingleInv(seen \ Pending)
  BY DEF OnceInv
<1>9. SingleInv(more)'
  BY <1>0, <1>2, <1>7, <1>8, SingleStays
<1>10. QED
  BY <1>more, <1>2, <1>9 DEF OnceInv, SingleInv, Single

LEMMA OnceInductive ==
    ASSUME StoreInv, TaskInv, OnceInv, [Next]_vars
    PROVE  OnceInv'
<1>more. PICK more : more = seen' \ Pending'
  OBVIOUS
<1>known. SingleInv(seen \ Pending) /\ task \in [Threads -> Tasks]
  BY DEF OnceInv, TaskInv
\* The tasks are in order if nobody begins to wait, and then so is everything
\* if the databases are.
<1>0. ASSUME seen \subseteq seen', \A t \in Threads : task'[t].pc = "log" => task'[t] = task[t],
             seen \ Pending \subseteq more => SingleInv(more)'
      PROVE  OnceInv'
  <2>1. /\ \A t, u \in Threads : task'[t].pc = "log" /\ task'[u].pc = "log" =>
               (task'[t].event = task'[u].event => t = u)
        /\ \A t \in Threads : task'[t].pc = "log" => task'[t].event \in seen'
        /\ seen \ Pending \subseteq more
    BY <1>0, <1>more, NoneBegins
  <2>2. QED
    BY <1>0, <1>more, <2>1 DEF OnceInv, SingleInv, Single
<1>1. ASSUME NEW t \in Threads, LogRequest(t) \/ LogRequestFails(t) PROVE OnceInv'
  BY <1>1, LoggedOnce
<1>2. ASSUME NEW t \in Threads, Lookup(t) \/ Answer(t) \/ FallBack(t) PROVE OnceInv'
  <2>1. /\ UNCHANGED storeVars /\ seen' = seen
        /\ \E pc \in {"call", "keep"} : task' = [task EXCEPT ![t] = [task[t] EXCEPT !.pc = pc]]
    BY <1>2 DEF Lookup, Answer, FallBack
  <2>2. \A u \in Threads : task'[u].pc = "log" => task'[u] = task[u]
    BY <1>known, <2>1 DEF Tasks
  <2>3. seen \ Pending \subseteq more => SingleInv(more)'
    BY <1>known, <2>1, SingleLess DEF storeVars
  <2>4. QED
    BY <1>0, <2>1, <2>2, <2>3
<1>3. ASSUME NEW t \in Threads, LogExplanation(t) \/ LogExplanationFails(t) PROVE OnceInv'
  <2> DEFINE v == View(t)
             w == WithExplanation(v, task[t].id, task[t].event)
  <2>1. /\ seen' = seen /\ task' = [task EXCEPT ![t] = Idle]
        /\ \/ Commit(t, w) \/ Fails(t, w)
           \/ Raise(t, v) /\ CanWrite(t)
    BY <1>3 DEF LogExplanation, LogExplanationFails
  <2>2. \A u \in Threads : task'[u].pc = "log" => task'[u] = task[u]
    BY <1>known, <2>1 DEF Idle
  <2>3. v \in Database /\ Single(v, seen \ Pending)
    BY <1>known, SingleView, ViewSound
  <2>4. w.requests = v.requests
    BY <2>3 DEF WithExplanation, Database
  <2> HIDE DEF v, w
  <2>5. ASSUME seen \ Pending \subseteq more PROVE SingleInv(more)'
    <3>1. Single(w, more) /\ Single(v, more)
      BY <2>3, <2>4, <2>5 DEF Single
    <3>2. CASE Commit(t, w) \/ Fails(t, w)
      BY <1>known, <2>5, <3>1, <3>2, SingleStays
    <3>3. CASE Raise(t, v) /\ CanWrite(t)
      <4>1. Fails(t, v)
        BY <3>3 DEF Fails
      <4>2. QED
        BY <1>known, <2>5, <3>1, <4>1, SingleStays
    <3>4. QED
      BY <2>1, <3>2, <3>3
  <2>6. QED
    BY <1>0, <2>1, <2>2, <2>5
<1>4. ASSUME NEW t \in Threads, NEW e \in Events, NEW s \in Shapes \cup {None}, Start(t, e, s)
      PROVE  OnceInv'
  <2>1. /\ UNCHANGED storeVars /\ e \notin seen /\ seen' = seen \cup {e}
        /\ \A u \in Threads : u # t => task'[u] = task[u]
        /\ task'[t].pc = "log" /\ task'[t].event = e
    BY <1>4, <1>known DEF Start
  <2>2. \A u, x \in Threads : task'[u].pc = "log" /\ task'[x].pc = "log" =>
            (task'[u].event = task'[x].event => u = x)
    BY <2>1 DEF OnceInv
  <2>3. \A u \in Threads : task'[u].pc = "log" => task'[u].event \in seen'
    BY <2>1 DEF OnceInv
  <2>4. Pending' \subseteq Pending \cup {e}
    BY <2>1 DEF Pending
  <2>5. seen \ Pending \subseteq more
    BY <1>more, <2>1, <2>4
  <2>6. SingleInv(more)'
    BY <1>known, <2>1, <2>5, SingleLess DEF storeVars
  <2>7. QED
    BY <1>more, <2>2, <2>3, <2>6 DEF OnceInv, SingleInv, Single
<1>5. ASSUME NEW t \in Threads, NEW gone, Purge(t, gone) PROVE OnceInv'
  <2> DEFINE v == View(t)
             w == Without(v, gone)
  <2>1. seen' = seen /\ task' = task /\ (Commit(t, w) \/ Fails(t, w))
    BY <1>5 DEF Purge
  <2>2. v \in Database /\ Single(v, seen \ Pending)
    BY <1>known, SingleView, ViewSound
  <2>3. w.requests \subseteq v.requests
    BY <2>2 DEF Without, Database
  <2> HIDE DEF v, w
  <2>4. ASSUME seen \ Pending \subseteq more PROVE SingleInv(more)'
    <3>1. Single(w, more)
      BY <2>2, <2>3, <2>4 DEF Single
    <3>2. QED
      BY <1>known, <2>1, <2>4, <3>1, SingleStays
  <2>5. QED
    BY <1>0, <2>1, <2>4
<1>6. ASSUME (\E t \in Threads : Retire(t)) \/ Flush \/ UNCHANGED vars PROVE OnceInv'
  <2>1. /\ seen' = seen /\ task' = task
        /\ db' \in {db, durable} /\ durable' \in {db, durable}
        /\ \A u \in Threads : draft'[u] = None \/ draft'[u] = draft[u]
    BY <1>6 DEF Retire, Flush, vars, StoreInv
  <2>2. seen \ Pending \subseteq more => SingleInv(more)'
    BY <1>known, <2>1, SingleLess
  <2>3. QED
    BY <1>0, <2>1, <2>2
<1>7. ASSUME NEW found \in {db, durable}, Restart(found) PROVE OnceInv'
  <2>1. /\ seen' = seen /\ \A u \in Threads : task'[u].pc # "log"
        /\ db' \in {db, durable} /\ durable' \in {db, durable}
        /\ \A u \in Threads : draft'[u] = None
    BY <1>7 DEF Restart, Idle
  <2>2. seen \ Pending \subseteq more => SingleInv(more)'
    BY <1>known, <2>1, SingleLess
  <2>3. QED
    BY <1>0, <2>1, <2>2
<1>8. QED
  BY <1>1, <1>2, <1>3, <1>4, <1>5, <1>6, <1>7 DEF Next, Step

ObservationInv ==
    /\ StoreInv /\ TaskInv /\ CacheInv /\ OnceInv
    /\ seen \subseteq Events /\ failed \subseteq Threads

LEMMA ObservationInvariant == Spec => []ObservationInv
<1>1. Init => ObservationInv
  <2>0. SUFFICES ASSUME Init PROVE ObservationInv
    OBVIOUS
  <2>1. NoRows \in Database /\ Sound(NoRows)
    BY DEF NoRows, Database, Sound
  <2>2. StoreInv /\ TaskInv
    BY <2>0, <2>1, IdleTask DEF Init, StoreInv, TaskInv, OneDraft, OnlyFailuresBlock, Logged
  <2>3. CacheInv
    BY <2>0, CacheAssumption DEF Init, CacheInv, CacheKeepsRecent, Once, Logged, Idle
  <2>4. OnceInv
    <3>1. \A t \in Threads : task[t].pc # "log"
      BY <2>0 DEF Init, Idle
    <3>2. \A known : Single(NoRows, known)
      BY DEF Single, NoRows
    <3>3. SingleInv(seen \ Pending)
      BY <2>0, <3>2 DEF Init, SingleInv
    <3>4. QED
      BY <3>1, <3>3 DEF OnceInv
  <2>5. QED
    BY <2>0, <2>2, <2>3, <2>4 DEF Init, ObservationInv
<1>2. ObservationInv /\ [Next]_vars => ObservationInv'
  <2>0. SUFFICES ASSUME ObservationInv, [Next]_vars PROVE ObservationInv'
    OBVIOUS
  <2>1. StoreInv' /\ TaskInv' /\ CacheInv' /\ OnceInv'
    BY <2>0, ObservationInductive, CacheInductive, OnceInductive DEF ObservationInv
  <2>2. seen' \subseteq Events /\ failed' \subseteq Threads
    BY <2>0 DEF ObservationInv, Next, Step, LogRequest, LogRequestFails, Lookup, Answer,
                FallBack, LogExplanation, LogExplanationFails, Start, Purge, Retire, Flush,
                Restart, Commit, Fails, Raise, storeVars, vars
  <2>3. QED
    BY <2>1, <2>2 DEF ObservationInv
<1>3. QED
  BY <1>1, <1>2, PTL DEF Spec

\* Every reachable state is well formed: in particular the cache never exceeds
\* its size, although two threads may miss and answer the same shape
\* (llm.py:70-84, 134-163).
THEOREM TypeCorrect == Spec => []TypeOK
<1>1. ObservationInv => TypeOK
  <2>0. SUFFICES ASSUME ObservationInv PROVE TypeOK
    OBVIOUS
  <2>1. Len(cache) <= CacheSize
    BY <2>0, CacheAssumption DEF ObservationInv, CacheInv, CacheKeepsRecent
  <2>2. QED
    BY <2>0, <2>1 DEF ObservationInv, StoreInv, TaskInv, CacheInv, TypeOK
<1>2. QED
  BY <1>1, ObservationInvariant, PTL

\* The cache is the shapes used last, in the order of their use, whichever
\* threads looked them up and whichever were evicted and asked for again
\* (_LRUCache.get, put).
THEOREM CacheIsRecent == Spec => []CacheKeepsRecent
<1>1. ObservationInv => CacheKeepsRecent
  BY DEF ObservationInv, CacheInv
<1>2. QED
  BY <1>1, ObservationInvariant, PTL

\* Whatever fails, is purged or is lost with the power in between, what is
\* stored as the explanation of a request is about that request, and goes when
\* the request goes.
THEOREM ExplanationsFit == Spec => []ExplainsItsRequest
<1>1. ObservationInv => ExplainsItsRequest
  BY DEF ObservationInv, StoreInv, Sound, ExplainsItsRequest
<1>2. QED
  BY <1>1, ObservationInvariant, PTL

\* Although the rows of calls that failed may be committed later and commits be
\* lost, no request is stored twice (Store.log_request, main._observe).
THEOREM RequestsStoredOnce == Spec => []StoredOnce
<1>1. ObservationInv => StoredOnce
  BY DEF ObservationInv, OnceInv, SingleInv, Single, StoredOnce
<1>2. QED
  BY <1>1, ObservationInvariant, PTL

\* No call that returned keeps another thread from writing.
THEOREM OnlyFailuresKeepOthersOut == Spec => []OnlyFailuresBlock
<1>1. ObservationInv => OnlyFailuresBlock
  BY DEF ObservationInv, StoreInv
<1>2. QED
  BY <1>1, ObservationInvariant, PTL
=============================================================================
