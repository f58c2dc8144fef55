---------------------------- MODULE MCObservation -----------------------------
(* Instances of Observation for TLC; the bounds are given in the cfg file.   *)
EXTENDS Observation

AllSymmetry ==
    Permutations(Threads) \cup Permutations(Events) \cup Permutations(Shapes)
===============================================================================
