-------------------------- MODULE MCPipelineTrace ---------------------------
(***************************************************************************)
(* A small instance of PipelineTrace for TLC.                              *)
(***************************************************************************)
EXTENDS PipelineTrace

\* Every row has a number of its own: the case that tells mixed-up rows apart.
NumbersTellRowsApart == \A i \in Ids : outbox[i].quantity = i

\* Where the outbox fails no further message comes: of the inbox's failures and
\* the outbox's a behaviour has one kind.
OneKindOfFailure == faults > 0 => Len(events) = 1

Bounded == NumbersTellRowsApart /\ OneKindOfFailure
=============================================================================
