------------------------------ MODULE RateLimit ------------------------------
(****************************************************************************)
(* What a rate limit promises its clients: each has an allowance that grows *)
(* steadily up to Capacity; a request is granted exactly when the allowance *)
(* covers its cost, and only a granted request is charged.  There is no     *)
(* bucket, no clock reading and no eviction here: Registry implements this. *)
(****************************************************************************)
EXTENDS Integers

CONSTANTS Clients,      \* client keys
          Capacity,     \* burst size
          Refill,       \* tokens per tick
          Costs,        \* what requests may cost
          None

VARIABLES level,        \* the allowance of each client
          verdict       \* the last decision given

TypeOK ==
    /\ level \in [Clients -> 0..Capacity]
    /\ verdict \in [client : Clients, allowed : BOOLEAN] \cup {None}

Init ==
    /\ level = [c \in Clients |-> Capacity]
    /\ verdict = None

Grant(c, k) ==
    /\ level[c] >= k
    /\ level' = [level EXCEPT ![c] = @ - k]
    /\ verdict' = [client |-> c, allowed |-> TRUE]

Deny(c, k) ==
    /\ level[c] < k
    /\ verdict' = [client |-> c, allowed |-> FALSE]
    /\ UNCHANGED level

Accrue ==
    /\ level' = [c \in Clients |-> IF level[c] + Refill < Capacity
                                   THEN level[c] + Refill ELSE Capacity]
    /\ UNCHANGED verdict

Next ==
    \/ \E c \in Clients, k \in Costs : Grant(c, k) \/ Deny(c, k)
    \/ Accrue

Spec == Init /\ [][Next]_<<level, verdict>>
=============================================================================
