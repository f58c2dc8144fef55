------------------------------ MODULE MCGateway ------------------------------
(* An instance of Gateway for TLC; the bounds that fit in it are in the cfg. *)
EXTENDS Gateway

CONSTANTS k1, host

\* A client with an API key and no tier of its own: it is "free".
MCCallers == {[key |-> k1, host |-> host, tier |-> None]}

MCServes       == [u \in Upstreams |-> {"items", "search"}]
MCPrefixLength == [u \in Upstreams |-> 12]

MCPolicies == {"default", "free", "search"}
MCLimit    == [default |-> [capacity |-> 2, refill |-> 1, cost |-> 1],
               free    |-> [capacity |-> 2, refill |-> 1, cost |-> 1],
               search  |-> [capacity |-> 2, refill |-> 1, cost |-> 2]]

MCRouteTierPolicy == [x \in {} |-> None]
MCRoutePolicy     == [search |-> "search"]
MCTierPolicy      == [free |-> "free"]
=============================================================================
