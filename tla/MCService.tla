----------------------------- MODULE MCService ------------------------------
(***************************************************************************)
(* A small instance of Service for TLC.                                    *)
(***************************************************************************)
EXTENDS Service

\* The second message of the partition does not validate.
MCMalformed == {2}
=============================================================================
