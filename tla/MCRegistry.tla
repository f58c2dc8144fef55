----------------------------- MODULE MCRegistry ------------------------------
(* Instances of Registry for TLC; the bounds are given in the cfg file.     *)
EXTENDS Registry
=============================================================================
