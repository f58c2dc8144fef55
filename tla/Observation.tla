----------------------------- MODULE Observation ------------------------------
(****************************************************************************)
(* What becomes of a scored request: _observe (gateway/main.py:132-142) run *)
(* by threads of the pool, on the event store (gateway/store.py) and the    *)
(* explainer (gateway/explain/llm.py) with a configured provider.           *)
(*                                                                          *)
(* A call that holds Store._write_lock is one step, the statement and the   *)
(* commit together, because nobody else writes in between and a reader sees *)
(* committed rows only.  Every thread has a connection of its own.  SQLite  *)
(* is modelled as the code meets it: one connection at a time can write; a  *)
(* statement or a commit may fail, and then the transaction may be rolled   *)
(* back or be left open, in which case this connection keeps the right to   *)
(* write and its draft until it commits or closes; a power failure goes     *)
(* back to a state committed earlier (synchronous=NORMAL).  A row is the id *)
(* and the event it is about; a text is where it came from.  Timestamps and *)
(* the call statistics are left out.                                        *)
(****************************************************************************)
EXTENDS Integers, SequencesExt

CONSTANTS
    Threads,        \* threads of the pool
    Events,         \* requests to observe
    Shapes,         \* _cache_key(...): shapes of anomalies
    CacheSize,      \* maxsize of the cache
    None

ASSUME CacheAssumption == CacheSize \in Nat \ {0}
ASSUME NoneAssumption  == None \notin Shapes

VARIABLES
    db,         \* the database as committed
    durable,    \* what a power failure leaves of it
    draft,      \* what an open transaction of a thread's connection made of it
    task,       \* where each thread is in _observe
    seen,       \* events that have been handed to the pool
    failed,     \* threads whose last call of the store raised
    cache,      \* _LRUCache._data, the oldest entry first
    uses        \* history: shapes ever stored, in the order of their last use

vars == <<db, durable, draft, task, seen, failed, cache, uses>>

Row      == [id : Nat, event : Events]
Database == [requests : SUBSET Row, explanations : SUBSET Row, seq : Nat]
Tasks    == [pc    : {"idle", "log", "explain", "call", "keep"},
             event : Events \cup {None},
             shape : Shapes \cup {None},
             id    : Nat]

TypeOK ==
    /\ db \in Database
    /\ durable \in Database
    /\ draft \in [Threads -> Database \cup {None}]
    /\ task \in [Threads -> Tasks]
    /\ seen \subseteq Events
    /\ failed \subseteq Threads
    /\ cache \in Seq(Shapes) /\ Len(cache) <= CacheSize
    /\ uses \in Seq(Shapes)

NoRows == [requests |-> {}, explanations |-> {}, seq |-> 0]
Idle   == [pc |-> "idle", event |-> None, shape |-> None, id |-> 0]

Init ==
    /\ db = NoRows
    /\ durable = NoRows
    /\ draft = [t \in Threads |-> None]
    /\ task = [t \in Threads |-> Idle]
    /\ seen = {}
    /\ failed = {}
    /\ cache = <<>>
    /\ uses = <<>>

storeVars == <<db, durable, draft, failed>>
cacheVars == <<cache, uses>>

-----------------------------------------------------------------------------
(****************************************************************************)
(* The store.                                                               *)
(****************************************************************************)

\* No other connection sits on an open transaction.
CanWrite(t) == \A u \in Threads \ {t} : draft[u] = None

\* What t's statements work on.
View(t) == IF draft[t] = None THEN db ELSE draft[t]

\* AUTOINCREMENT: an id that no row ever had.
NewId(d) == d.seq + 1

WithRequest(d, e) ==
    [d EXCEPT !.requests = @ \cup {[id |-> NewId(d), event |-> e]}, !.seq = NewId(d)]

\* INSERT OR REPLACE
WithExplanation(d, i, e) ==
    [d EXCEPT !.explanations = {x \in @ : x.id # i} \cup {[id |-> i, event |-> e]}]

\* ON DELETE CASCADE, which needs the pragma on every connection.
Without(d, old) == [d EXCEPT !.requests = @ \ old, !.explanations = @ \ old]

\* foreign_keys=ON
RequestExists(d, i) == \E r \in d.requests : r.id = i

\* conn.commit() after a statement that made d of t's view.
Commit(t, d) ==
    /\ db' = d
    /\ draft' = [draft EXCEPT ![t] = None]
    /\ failed' = failed \ {t}
    /\ UNCHANGED durable

\* The call raises, and t's connection is left with transaction d.
Raise(t, d) ==
    /\ draft' = [draft EXCEPT ![t] = d]
    /\ failed' = failed \cup {t}
    /\ UNCHANGED <<db, durable>>

\* A call that would make d of t's view fails: "database is locked" after the
\* timeout, an error of the statement, or an error of the commit.
Fails(t, d) ==
    IF CanWrite(t) THEN \E kept \in {None, draft[t], d} : Raise(t, kept)
    ELSE Raise(t, draft[t])

-----------------------------------------------------------------------------
(****************************************************************************)
(* _observe.                                                                *)
(****************************************************************************)

\* A scored request; its anomaly has a shape if the scorer flagged it.
Start(t, e, s) ==
    /\ task[t] = Idle
    /\ e \notin seen
    /\ seen' = seen \cup {e}
    /\ task' = [task EXCEPT ![t] = [pc |-> "log", event |-> e, shape |-> s, id |-> 0]]
    /\ UNCHANGED <<storeVars, cacheVars>>

\* store.log_request; without a flag this is the end.
LogRequest(t) ==
    /\ task[t].pc = "log"
    /\ CanWrite(t)
    /\ Commit(t, WithRequest(View(t), task[t].event))
    /\ task' = [task EXCEPT ![t] =
                    IF task[t].shape = None THEN Idle
                    ELSE [task[t] EXCEPT !.pc = "explain", !.id = NewId(View(t))]]
    /\ UNCHANGED <<seen, cacheVars>>

\* Mutant of LogRequestFails: the call is made again.
LogRequestRetried(t) ==
    /\ task[t].pc = "log"
    /\ Fails(t, WithRequest(View(t), task[t].event))
    /\ UNCHANGED <<task, seen, cacheVars>>

\* Mutant of LogRequestFails: the id is taken from the cursor all the same.
LogRequestGoesOn(t) ==
    /\ task[t].pc = "log"
    /\ Fails(t, WithRequest(View(t), task[t].event))
    /\ task' = [task EXCEPT ![t] =
                    IF task[t].shape = None THEN Idle
                    ELSE [task[t] EXCEPT !.pc = "explain", !.id = NewId(View(t))]]
    /\ UNCHANGED <<seen, cacheVars>>

\* main.py:141: the exception is logged and the rest of the task dropped.
LogRequestFails(t) ==
    /\ task[t].pc = "log"
    /\ Fails(t, WithRequest(View(t), task[t].event))
    /\ task' = [task EXCEPT ![t] = Idle]
    /\ UNCHANGED <<seen, cacheVars>>

\* store.log_explanation
LogExplanation(t) ==
    /\ task[t].pc = "keep"
    /\ CanWrite(t)
    /\ RequestExists(View(t), task[t].id)
    /\ Commit(t, WithExplanation(View(t), task[t].id, task[t].event))
    /\ task' = [task EXCEPT ![t] = Idle]
    /\ UNCHANGED <<seen, cacheVars>>

\* The same, and the foreign key of a purged request: the statement is undone,
\* its transaction stays open.
LogExplanationFails(t) ==
    /\ task[t].pc = "keep"
    /\ IF CanWrite(t) /\ ~RequestExists(View(t), task[t].id)
       THEN Raise(t, View(t))
       ELSE Fails(t, WithExplanation(View(t), task[t].id, task[t].event))
    /\ task' = [task EXCEPT ![t] = Idle]
    /\ UNCHANGED <<seen, cacheVars>>

-----------------------------------------------------------------------------
(****************************************************************************)
(* Explainer.explain.                                                       *)
(****************************************************************************)

Moved(q, s) == Append(RemoveFirst(q, s), s)
Cached(s)   == Contains(cache, s)

\* Mutant of Hit: a hit is not a use.
HitStays(s) == UNCHANGED cache

\* _LRUCache.get of a key that is there.
Hit(s) == cache' = Moved(cache, s)

\* Mutant of Put: nothing is evicted.
PutUnbounded(s) == cache' = Moved(cache, s)

\* _LRUCache.put
Put(s) ==
    LET more == Moved(cache, s)
    IN  cache' = IF Len(more) > CacheSize THEN Tail(more) ELSE more

Lookup(t) ==
    /\ task[t].pc = "explain"
    /\ IF Cached(task[t].shape)
       THEN /\ Hit(task[t].shape)
            /\ uses' = Moved(uses, task[t].shape)
            /\ task' = [task EXCEPT ![t] = [task[t] EXCEPT !.pc = "keep"]]
       ELSE /\ task' = [task EXCEPT ![t] = [task[t] EXCEPT !.pc = "call"]]
            /\ UNCHANGED cacheVars
    /\ UNCHANGED <<storeVars, seen>>

\* The provider has answered.
Answer(t) ==
    /\ task[t].pc = "call"
    /\ Put(task[t].shape)
    /\ uses' = Moved(uses, task[t].shape)
    /\ task' = [task EXCEPT ![t] = [task[t] EXCEPT !.pc = "keep"]]
    /\ UNCHANGED <<storeVars, seen>>

\* Any error of the provider: the template stands, and is not cached.
FallBack(t) ==
    /\ task[t].pc = "call"
    /\ task' = [task EXCEPT ![t] = [task[t] EXCEPT !.pc = "keep"]]
    /\ UNCHANGED <<storeVars, seen, cacheVars>>

-----------------------------------------------------------------------------
(****************************************************************************)
(* Around it.                                                               *)
(****************************************************************************)

\* store.purge_before: the rows that are older than some time.  Timestamps are
\* not in the order of the ids, so old may be any of the rows.  It is there for
\* whoever operates the gateway: nothing in the gateway calls it.
Purge(t, old) ==
    /\ task[t] = Idle
    /\ old # {}
    /\ \/ CanWrite(t) /\ Commit(t, Without(View(t), old))
       \/ Fails(t, Without(View(t), old))
    /\ UNCHANGED <<task, seen, cacheVars>>

\* The pool retires an idle thread; its connection closes and rolls back.
Retire(t) ==
    /\ task[t] = Idle
    /\ t \in failed
    /\ draft' = [draft EXCEPT ![t] = None]
    /\ failed' = failed \ {t}
    /\ UNCHANGED <<db, durable, task, seen, cacheVars>>

\* What was committed so far reaches the disk.
Flush ==
    /\ durable # db
    /\ durable' = db
    /\ UNCHANGED <<db, draft, failed, task, seen, cacheVars>>

\* The gateway is killed, or the power fails, and it starts again.
Restart(found) ==
    /\ db' = found
    /\ draft' = [t \in Threads |-> None]
    /\ task' = [t \in Threads |-> Idle]
    /\ failed' = {}
    /\ cache' = <<>>
    /\ uses' = <<>>
    /\ UNCHANGED <<durable, seen>>

\* One thread goes on with its task.
Step(t) ==
    \/ LogRequest(t) \/ LogRequestFails(t)
    \/ Lookup(t) \/ Answer(t) \/ FallBack(t)
    \/ LogExplanation(t) \/ LogExplanationFails(t)

Next ==
    \/ \E t \in Threads : Step(t)
    \/ \E t \in Threads, e \in Events, s \in Shapes \cup {None} : Start(t, e, s)
    \/ \E t \in Threads : \E old \in SUBSET View(t).requests : Purge(t, old)
    \/ \E t \in Threads : Retire(t)
    \/ Flush
    \/ \E found \in {db, durable} : Restart(found)

Spec == Init /\ [][Next]_vars

-----------------------------------------------------------------------------
(****************************************************************************)
(* Properties.                                                              *)
(****************************************************************************)

\* Whatever fails, is purged or is lost with the power while explanations are
\* being written, /explain/{request_id} never shows the explanation of another
\* request or of one that is gone (store.py:33, 55, 105).
ExplainsItsRequest == db.explanations \subseteq db.requests

\* The row of a call that raised may be committed after all, by the next call of
\* its thread, and a commit may be lost with the power; even so no request is
\* ever stored twice (store.py:117-134, main.py:132, 141).
StoredOnce == \A x, y \in db.requests : x.event = y.event => x = y

\* The cache holds the shapes used last, whichever threads used them
\* (llm.py:70-84).
CacheKeepsRecent ==
    /\ Len(cache) = IF Len(uses) < CacheSize THEN Len(uses) ELSE CacheSize
    /\ \A i \in 1..Len(cache) : cache[i] = uses[Len(uses) - Len(cache) + i]
=============================================================================
