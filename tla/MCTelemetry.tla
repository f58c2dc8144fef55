------------------------------ MODULE MCTelemetry -----------------------------
(* Instances of Telemetry for TLC; the bounds are given in the cfg file.    *)
EXTENDS Telemetry, TLC

\* 4 is on the last edge, where the bound is tight, and 5 above it; the first
\* bucket stays empty.
MCEdges == <<2, 4>>

RecorderSymmetry == Permutations(Recorders)
=============================================================================
