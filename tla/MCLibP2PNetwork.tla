-------------------------- MODULE MCLibP2PNetwork --------------------------
(***************************************************************************)
(* LibP2PNetwork with two peers for TLC.                                   *)
(***************************************************************************)
EXTENDS LibP2PNetwork

CONSTANTS p1, p2, m1, m2, m3, s1, s2
=============================================================================
