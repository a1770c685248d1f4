------------------------- MODULE ReservationPromise --------------------------
(***************************************************************************)
(* What a calculation may rely on when it asks e-com how much is reserved. *)
(* It is given a number e-com held after the last attempt that failed, and *)
(* never a made-up one; it hears that e-com is unavailable only after      *)
(* every attempt has failed.                                               *)
(***************************************************************************)
EXTENDS Integers

CONSTANTS
    Callers,  \* calculations that ask
    Numbers,  \* what e-com may hold, legal or not
    Attempts  \* attempts of one call

VARIABLES
    current, \* what e-com holds
    asked    \* of each call: its state, what e-com held, failed attempts

vars == <<current, asked>>

NotAsked == [status |-> "idle", held |-> {}, failures |-> 0]

Init == current \in Numbers /\ asked = [c \in Callers |-> NotAsked]

Status(c) == asked[c].status

Change(n) ==
    /\ current' = n
    /\ asked' = [c \in Callers |->
          IF Status(c) = "asked" THEN [asked[c] EXCEPT !.held = @ \cup {n}] ELSE asked[c]]

Ask(c) ==
    /\ Status(c) = "idle"
    /\ asked' = [asked EXCEPT ![c] = [status |-> "asked", held |-> {current}, failures |-> 0]]
    /\ UNCHANGED current

Fail(c) ==
    /\ Status(c) = "asked"
    /\ asked[c].failures < Attempts - 1
    /\ asked' = [asked EXCEPT ![c] = [status |-> "asked", held |-> {current},
                                      failures |-> asked[c].failures + 1]]
    /\ UNCHANGED current

Answer(c, n) ==
    /\ Status(c) = "asked"
    /\ n \in asked[c].held \cap Nat
    /\ asked' = [asked EXCEPT ![c] = [status |-> "answered", held |-> {n}, failures |-> 0]]
    /\ UNCHANGED current

GiveUp(c) ==
    /\ Status(c) = "asked"
    /\ asked[c].failures = Attempts - 1
    /\ asked' = [asked EXCEPT ![c] = [status |-> "unavailable", held |-> {}, failures |-> 0]]
    /\ UNCHANGED current

\* The caller has its answer, or dies.
Leave(c) ==
    /\ asked' = [asked EXCEPT ![c] = NotAsked]
    /\ UNCHANGED current

Next ==
    \/ \E n \in Numbers : Change(n)
    \/ \E c \in Callers :
          Ask(c) \/ Fail(c) \/ GiveUp(c) \/ Leave(c) \/ \E n \in Numbers : Answer(c, n)

Spec == Init /\ [][Next]_vars
=============================================================================
