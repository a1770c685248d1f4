---------------------------- MODULE Publication -----------------------------
(***************************************************************************)
(* What e-com may rely on, with nothing said of tables, batches and        *)
(* processes: the numbers of a pair have the order in which they were      *)
(* stored, e-com receives none that was not stored, and once one is        *)
(* acknowledged e-com never goes back to an older one.                     *)
(***************************************************************************)
EXTENDS Integers

CONSTANTS
    Pairs, Quantities,
    Places, \* where in the order a number may stand
    None

VARIABLES
    given,        \* per pair, the number at each place
    stored,       \* the number the layer believes e-com has or will have
    received,     \* the place of the one e-com read last
    acknowledged  \* the last place that need not be sent again

Init ==
    /\ given = [p \in Pairs |-> <<>>]
    /\ stored = [p \in Pairs |-> None]
    /\ received = [p \in Pairs |-> 0]
    /\ acknowledged = [p \in Pairs |-> 0]

\* A number is stored, and with it the order to publish it.
Store(p, place, n) ==
    /\ stored' = [stored EXCEPT ![p] = n]
    /\ \A earlier \in DOMAIN given[p] : earlier < place
    /\ given' = [given EXCEPT ![p] =
           [i \in DOMAIN given[p] \cup {place} |-> IF i = place THEN n ELSE given[p][i]]]
    /\ UNCHANGED <<received, acknowledged>>

\* Messages reach e-com, again perhaps, and up to any place.
Receive ==
    /\ UNCHANGED <<stored, acknowledged, given>>
    /\ received' \in [Pairs -> Places \cup {0}]
    /\ \A p \in Pairs : received'[p] # received[p] =>
          received'[p] \in DOMAIN given[p] /\ acknowledged[p] <= received'[p]

\* Numbers e-com has received, and what they replace, are not sent again.
Acknowledge ==
    /\ UNCHANGED <<stored, received, given>>
    /\ acknowledged' \in [Pairs -> Places \cup {0}]
    /\ \A p \in Pairs : acknowledged[p] <= acknowledged'[p] /\ acknowledged'[p] <= received[p]

Next ==
    \/ Receive
    \/ Acknowledge
    \/ \E p \in Pairs, place \in Places, n \in Quantities : Store(p, place, n)

Spec == Init /\ [][Next]_<<given, stored, received, acknowledged>>
=============================================================================
