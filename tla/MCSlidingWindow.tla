--------------------------- MODULE MCSlidingWindow ---------------------------
(* Instances of SlidingWindow for TLC; the bounds are in the cfg files.     *)
EXTENDS SlidingWindow
=============================================================================
