------------------------------- MODULE MCScorer ------------------------------
(* Instances of Scorer for TLC; the bounds are given in the cfg files.      *)
EXTENDS Scorer, TLC

WorkerSymmetry == Permutations(Workers)
=============================================================================
