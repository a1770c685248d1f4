------------------------------ MODULE MCStand -------------------------------
(***************************************************************************)
(* A small instance of Stand for TLC.                                      *)
(***************************************************************************)
EXTENDS Stand

CONSTANTS v1, v2

\* Legal reservations, and the one only a terminal can set.
MCNumbers == {0, 2, -1}

\* The two states an unchecked answer would be mistaken for a number in.
MCStartStates ==
    {[mode |-> "coercible", reserved |-> 2], [mode |-> "ok", reserved |-> -1]}

\* Nothing sent yet, or one variant with a result, on reservations of its own or
\* on the last known ones.
MCStartData ==
    {[v \in Variants |-> IF v = Demo THEN d ELSE Unknown] :
        d \in {Unknown} \cup [status : {"confirmed", "stale"}, reserved : {2}]}
=============================================================================
