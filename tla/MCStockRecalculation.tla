------------------------ MODULE MCStockRecalculation ------------------------
(***************************************************************************)
(* A small instance of StockRecalculation for TLC.                         *)
(***************************************************************************)
EXTENDS StockRecalculation, TLC

CONSTANTS p1, p2

MCSafetyBuffer == [p \in Pairs |-> 1]

(***************************************************************************)
(* Bound: any two callers have work in hand at once; after a crash the     *)
(* handlers and the sweep, and no further manual request.                  *)
(***************************************************************************)
TwoAtOnce ==
    /\ Cardinality({r \in Runners : ~Free(r)}) <= 2
    /\ crashes > 0 => \A m \in Requests : Free(m)
=============================================================================
