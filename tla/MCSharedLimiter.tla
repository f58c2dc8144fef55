---------------------------- MODULE MCSharedLimiter ---------------------------
(* Instances of SharedLimiter for TLC; the bounds are given in the cfg file. *)
EXTENDS SharedLimiter, TLC

\* Every client has a stripe of its own, so that a sweep takes several steps.
OwnStripe == [c \in Clients |-> c]

ThreadSymmetry == Permutations(Threads)
=============================================================================
