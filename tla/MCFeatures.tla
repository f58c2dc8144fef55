------------------------------ MODULE MCFeatures -----------------------------
(* Instances of Features for TLC; the bounds are given in the cfg files.    *)
EXTENDS Features
=============================================================================
