-------------------------- MODULE MCScorerOwnWindow --------------------------
(****************************************************************************)
(* An instance of Scorer for TLC that remembers how many scores a client    *)
(* has given since its history began; the bounds are in the cfg file.       *)
(****************************************************************************)
EXTENDS Scorer

VARIABLE since_begin    \* history: scores since the client's history began

Forgotten(c) == observations[c] > 0 /\ observations'[c] = 0
Scored(c)    == \E w \in Workers : Sustain(w) /\ caller[w].client = c

OwnWindowInit == Init /\ since_begin = [c \in Clients |-> 0]

OwnWindowNext ==
    /\ Next
    /\ since_begin' = [c \in Clients |->
           IF Forgotten(c) THEN 0
           ELSE IF Scored(c) THEN Capped(since_begin[c] + 1, SustainWindow)
           ELSE since_begin[c]]

OwnWindowSpec == OwnWindowInit /\ [][OwnWindowNext]_<<vars, since_begin>>

(****************************************************************************)
(* What the repository says, and the code does not do.                      *)
(****************************************************************************)

\* scorer.py:287-289: a full window is required, or "a client's first score
\* would be its own median": whoever is flagged has given a whole window of
\* scores since its history began.
FlagNeedsOwnWindow ==
    [][\A c \in Clients :
          Scored(c) /\ verdict'[c] = "flagged" => since_begin'[c] = SustainWindow
      ]_<<vars, since_begin>>
=============================================================================
