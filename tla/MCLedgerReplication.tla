------------------------ MODULE MCLedgerReplication ------------------------
(***************************************************************************)
(* LedgerReplication with one steady validator, one that is restarted and  *)
(* one that cannot be reached, for TLC.                                    *)
(***************************************************************************)
EXTENDS LedgerReplication

CONSTANTS p1, p2, p3, w1
=============================================================================
