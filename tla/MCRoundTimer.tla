---------------------------- MODULE MCRoundTimer ----------------------------
(***************************************************************************)
(* RoundTimer with three goroutines at a time for TLC.                     *)
(***************************************************************************)
EXTENDS RoundTimer

CONSTANTS t1, t2, t3
=============================================================================
