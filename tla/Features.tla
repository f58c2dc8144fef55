------------------------------ MODULE Features -------------------------------
(****************************************************************************)
(* gateway/anomaly/features.py as gateway/main.py uses it: a dictionary of  *)
(* histories, one deque per client, that threads of the pool (_observe) and *)
(* the event loop's thread (maintenance_loop) share without a lock.  The    *)
(* interpreter's lock makes each dictionary or deque operation one step; a  *)
(* thread switch can come between any two of them.                          *)
(*                                                                          *)
(* Walking a dictionary whose size has changed since the walk began, or     *)
(* that has more items than it had, raises RuntimeError.  In _observe that  *)
(* ends the observation before the request is counted or stored; in         *)
(* maintenance_loop it ends the iteration.                                  *)
(*                                                                          *)
(* A request is observed by a task of its own, which also names the deque   *)
(* it may create.  An observation is old or it is not: max_age_sec is so    *)
(* long that it passes only while nobody is between two steps.  The feature *)
(* arithmetic, the fit and the score read nothing else and are left out.    *)
(****************************************************************************)
EXTENDS Integers, FiniteSets, Sequences

CONSTANTS
    Clients,        \* client ids
    MaxRequests,    \* bound: requests to be observed
    Threads,        \* threads of the pool that run _observe
    Window,         \* window: the capacity of a deque
    None

Requests == 1..MaxRequests     \* numbered as they arrive

\* Those a run sees.
ASSUME ClientsAssumption == IsFiniteSet(Clients)
ASSUME RequestsAssumption == MaxRequests \in Nat
ASSUME WindowAssumption == Window \in Nat \ {0}
ASSUME ThreadsAssumption == Threads \in Nat \ {0}
ASSUME NoneAssumption   == None \notin Clients /\ None \notin Requests

VARIABLES
    hist,       \* _hist: the deque of each client, None while it has none
    deque,      \* what each deque holds, oldest first
    task,       \* where each request's _observe is, and what it holds
    loop,       \* where the maintenance loop is
    walk,       \* the dictionary walk each thread is in
    old,        \* observations older than max_age_sec
    overlapped  \* history: requests whose observe() overlapped another of their
                \* client's, or a sweep, until they are old

features == <<hist, deque, task, loop, walk, old>>
vars     == <<hist, deque, task, loop, walk, old, overlapped>>

Maintenance == 0
Walkers     == Requests \cup {Maintenance}

Tracked == {c \in Clients : hist[c] # None}

TypeOK ==
    /\ hist \in [Clients -> Requests \cup {None}]
    /\ deque \in [Requests -> Seq(Requests)]
    /\ \A d \in Requests : Len(deque[d]) <= Window
    /\ task \in [Requests -> [pc : {"idle", "get", "create", "append", "collect", "walk",
                                    "done", "lost"},
                              client : Clients \cup {None},
                              dq : Requests \cup {None}]]
    /\ loop \in [pc : {"sleep", "scan", "delete", "collect", "walk"}, stale : SUBSET Clients]
    /\ walk \in [Walkers -> [size : 0..Cardinality(Clients), left : 0..Cardinality(Clients),
                          visited : SUBSET Clients]]
    /\ old \subseteq Requests
    /\ overlapped \subseteq Requests

NoWalk == [size |-> 0, left |-> 0, visited |-> {}]

Init ==
    /\ hist = [c \in Clients |-> None]
    /\ deque = [d \in Requests |-> <<>>]
    /\ task = [r \in Requests |-> [pc |-> "idle", client |-> None, dq |-> None]]
    /\ loop = [pc |-> "sleep", stale |-> {}]
    /\ walk = [w \in Walkers |-> NoWalk]
    /\ old = {}
    /\ overlapped = {}

-----------------------------------------------------------------------------
(****************************************************************************)
(* Walking the dictionary, as a comprehension over _hist.items() does.      *)
(****************************************************************************)

BeginWalk(w) ==
    LET n == Cardinality(Tracked)
    IN  walk' = [walk EXCEPT ![w] = [size |-> n, left |-> n, visited |-> {}]]

\* Checked before every item, and once more at the end: the size has changed, or
\* there are more items than there were ("keys changed during iteration").
WalkBroken(w) ==
    \/ Cardinality(Tracked) # walk[w].size
    \/ walk[w].left = 0 /\ ~(Tracked \subseteq walk[w].visited)

Visit(w, c) ==
    /\ ~WalkBroken(w)
    /\ c \in Tracked \ walk[w].visited
    /\ walk' = [walk EXCEPT ![w] = [walk[w] EXCEPT !.left = @ - 1, !.visited = @ \cup {c}]]

EndWalk(w) == walk' = [walk EXCEPT ![w] = NoWalk]

WalkOver(w) == ~WalkBroken(w) /\ Tracked \subseteq walk[w].visited

-----------------------------------------------------------------------------
(****************************************************************************)
(* _observe, in the thread pool.                                            *)
(****************************************************************************)

Goto(r, pc) == task' = [task EXCEPT ![r].pc = pc]

Over(r) == task[r].pc \in {"idle", "done", "lost"}

\* The response is sent and a thread is free: its background task starts.
Start(r, c) ==
    /\ task[r].pc = "idle"
    /\ \A q \in 1..(r - 1) : task[q].pc # "idle"
    /\ Cardinality({q \in Requests : ~Over(q)}) < Threads
    /\ task' = [task EXCEPT ![r] = [pc |-> "get", client |-> c, dq |-> None]]
    /\ UNCHANGED <<hist, deque, loop, walk, old>>

\* observe(): dq = self._hist.get(client_id)
Get(r) ==
    /\ task[r].pc = "get"
    /\ LET d == hist[task[r].client]
       IN  task' = [task EXCEPT ![r] = [task[r] EXCEPT
                       !.pc = IF d = None THEN "create" ELSE "append", !.dq = d]]
    /\ UNCHANGED <<hist, deque, loop, walk, old>>

\* Mutant of Create: only a client that is known has its request appended.
CreateWithoutPush(r) ==
    /\ task[r].pc = "create"
    /\ hist' = [hist EXCEPT ![task[r].client] = r]
    /\ Goto(r, "collect")
    /\ UNCHANGED <<deque, loop, walk, old>>

\* observe(): dq = self._hist[client_id] = deque(...), whoever was there.
Create(r) ==
    /\ task[r].pc = "create"
    /\ hist' = [hist EXCEPT ![task[r].client] = r]
    /\ task' = [task EXCEPT ![r] = [task[r] EXCEPT !.pc = "append", !.dq = r]]
    /\ UNCHANGED <<deque, loop, walk, old>>

\* Mutant of Pushed: a deque without maxlen.
PushedUnbounded(s, r) == Append(s, r)

\* A deque of length Window forgets its oldest element.
Pushed(s, r) == IF Len(s) < Window THEN Append(s, r) ELSE Append(Tail(s), r)

\* observe(): dq.append(...), still in the dictionary or not.
Push(r) ==
    /\ task[r].pc = "append"
    /\ deque' = [deque EXCEPT ![task[r].dq] = Pushed(@, r)]
    /\ task' = [task EXCEPT ![r] = [task[r] EXCEPT !.pc = "collect", !.dq = None]]
    /\ UNCHANGED <<hist, loop, walk, old>>

\* all_vectors() before maybe_fit.
Collect(r) ==
    /\ task[r].pc = "collect"
    /\ BeginWalk(r)
    /\ Goto(r, "walk")
    /\ UNCHANGED <<hist, deque, loop, old>>

\* all_vectors() goes on.  After its end the task only reads _hist, to
\* extract() its client's features; score, record and store follow.
WalkStep(r) ==
    /\ task[r].pc = "walk"
    /\ \/ (\E c \in Clients : Visit(r, c)) /\ UNCHANGED task
       \/ WalkOver(r) /\ EndWalk(r) /\ Goto(r, "done")
    /\ UNCHANGED <<hist, deque, loop, old>>

\* The exception is logged; the request is never counted nor stored.
Lose(r) ==
    /\ task[r].pc = "walk"
    /\ WalkBroken(r)
    /\ EndWalk(r)
    /\ Goto(r, "lost")
    /\ UNCHANGED <<hist, deque, loop, old>>

Observe(r) ==
    Get(r) \/ Create(r) \/ Push(r) \/ Collect(r) \/ WalkStep(r) \/ Lose(r)

-----------------------------------------------------------------------------
(****************************************************************************)
(* maintenance_loop: forget_idle, all_vectors, fit; on the event loop.      *)
(****************************************************************************)

Wake ==
    /\ loop.pc = "sleep"
    /\ BeginWalk(Maintenance)
    /\ loop' = [pc |-> "scan", stale |-> {}]
    /\ UNCHANGED <<hist, deque, task, old>>

\* Mutant of Stale: the oldest observation decides, dq[0].ts < cutoff.
StaleIfOldestIs(c) ==
    LET s == deque[hist[c]] IN s = <<>> \/ s[1] \in old

\* not dq or dq[-1].ts < cutoff
Stale(c) ==
    LET s == deque[hist[c]] IN s = <<>> \/ s[Len(s)] \in old

Scan ==
    /\ loop.pc = "scan"
    /\ \/ \E c \in Clients :
            /\ Visit(Maintenance, c)
            /\ loop' = [loop EXCEPT !.stale = IF Stale(c) THEN @ \cup {c} ELSE @]
       \/ WalkOver(Maintenance) /\ EndWalk(Maintenance) /\ loop' = [loop EXCEPT !.pc = "delete"]
    /\ UNCHANGED <<hist, deque, task, old>>

\* One `del self._hist[c]` of the loop over the stale clients.  When c comes back,
\* a walk that has visited it meets it once more.
Delete(c) ==
    /\ loop.pc = "delete"
    /\ c \in loop.stale
    /\ hist' = [hist EXCEPT ![c] = None]
    /\ loop' = [loop EXCEPT !.stale = @ \ {c}]
    /\ walk' = [w \in Walkers |-> [walk[w] EXCEPT !.visited = @ \ {c}]]
    /\ UNCHANGED <<deque, task, old>>

MaintenanceCollect ==
    \/ /\ loop.pc = "delete" /\ loop.stale = {}
       /\ BeginWalk(Maintenance)
       /\ loop' = [loop EXCEPT !.pc = "walk"]
       /\ UNCHANGED <<hist, deque, task, old>>
    \/ /\ loop.pc = "walk"
       /\ \/ (\E c \in Clients : Visit(Maintenance, c)) /\ UNCHANGED loop
          \/ WalkOver(Maintenance) /\ EndWalk(Maintenance) /\ loop' = [loop EXCEPT !.pc = "sleep"]
       /\ UNCHANGED <<hist, deque, task, old>>

\* Mutant of Abandon: the exception is not caught and the loop is gone.
AbandonForGood == FALSE

\* A broken walk: the iteration is logged as failed, the loop continues.
Abandon ==
    /\ loop.pc \in {"scan", "walk"}
    /\ WalkBroken(Maintenance)
    /\ EndWalk(Maintenance)
    /\ loop' = [pc |-> "sleep", stale |-> {}]
    /\ UNCHANGED <<hist, deque, task, old>>

Maintain == Wake \/ Scan \/ (\E c \in Clients : Delete(c)) \/ MaintenanceCollect \/ Abandon

-----------------------------------------------------------------------------
\* max_age_sec pass: every observation made so far is old.
Age ==
    /\ \A r \in Requests : Over(r)
    /\ loop.pc = "sleep"
    /\ old' = {r \in Requests : task[r].pc # "idle"}
    /\ UNCHANGED <<hist, deque, task, loop, walk>>

\* r is inside observe().
Filling(r) == task[r].pc \in {"get", "create", "append"}

Sweeping == loop.pc \in {"scan", "delete"}

Overlaps(r) ==
    /\ Filling(r)
    /\ \/ Sweeping
       \/ \E q \in Requests \ {r} : Filling(q) /\ task[q].client = task[r].client

Next ==
    /\ \/ \E r \in Requests : Observe(r) \/ \E c \in Clients : Start(r, c)
       \/ Maintain
       \/ Age
    /\ overlapped' = (overlapped \cup {r \in Requests : Overlaps(r)'}) \ old'

Spec == Init /\ [][Next]_vars

\* The maintenance timer fires and the event loop runs it; nothing is asked of
\* the pool's threads.
FairSpec == Spec /\ WF_features(Maintain)

-----------------------------------------------------------------------------
(****************************************************************************)
(* Properties.                                                              *)
(****************************************************************************)

Observed(r) == task[r].pc \in {"collect", "walk", "done", "lost"}

\* r is in the history of client c, or Window later requests have pushed it out.
Remembered(r, c) ==
    /\ c \in Tracked
    /\ LET s == deque[hist[c]]
       IN  \/ \E i \in DOMAIN s : s[i] = r
           \/ Len(s) = Window /\ \A i \in DOMAIN s : s[i] > r

\* An observation goes into a deque that was replaced, is replaced with it or is
\* swept away only if its observe() overlapped another one of the client or a
\* sweep; those that did not are in the history until they age or newer ones
\* push them out, whatever else overlaps (observe, forget_idle).
LossNeedsOverlap ==
    \A r \in Requests \ (overlapped \cup old) :
        Observed(r) => Remembered(r, task[r].client)

\* A client's history is empty only while its first observation is on its way
\* to that very deque: the sweep's `not dq` (features.py:115) is never true of
\* a client that is done with.
EmptyIsBeingFilled ==
    \A c \in Tracked :
        deque[hist[c]] = <<>> =>
            \E r \in Requests : task[r].pc = "append" /\ task[r].dq = hist[c]

\* A client that stays away is forgotten, although newcomers may break one
\* iteration of the maintenance loop after another ("neither may grow forever",
\* main.py:72-75; "Maintenance must never kill itself", main.py:91).
IdleForgotten ==
    \A c \in Clients :
        c \in Tracked /\ Stale(c) ~> ~(c \in Tracked /\ Stale(c))

(****************************************************************************)
(* What the repository says, and the code does not do.                      *)
(****************************************************************************)

\* store.py:10-11: "the gateway writes on every request".
EveryRequestRecorded == \A r \in Requests : task[r].pc # "lost"
=============================================================================
