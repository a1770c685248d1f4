----------------------------- MODULE MCBcIngest -----------------------------
(***************************************************************************)
(* A small instance of BcIngest for TLC.                                   *)
(***************************************************************************)
EXTENDS BcIngest

\* The second message of the partition does not validate.
MCMalformed == {2}
=============================================================================
