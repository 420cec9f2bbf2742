--------------------------- MODULE MCFGPTxSystem ---------------------------
(***************************************************************************)
(* A PoW chain with a branch that leaves it at height 1 and one that       *)
(* leaves it at height 2, for TLC.                                         *)
(***************************************************************************)
EXTENDS FGPTxSystem

CONSTANTS g, a1, a2, a3, a4, b2, b3, b4, b5, c3, c4

MCParent ==
  [b \in Blocks \ {g} |->
     CASE b = a1 -> g  [] b = a2 -> a1 [] b = a3 -> a2 [] b = a4 -> a3
       [] b = b2 -> a1 [] b = b3 -> b2 [] b = b4 -> b3 [] b = b5 -> b4
       [] b = c3 -> a2 [] b = c4 -> c3]

MCHeight ==
  [b \in Blocks |->
     CASE b = g -> 0 [] b = a1 -> 1 [] b \in {a2, b2} -> 2
       [] b \in {a3, b3, c3} -> 3 [] b \in {a4, b4, c4} -> 4 [] b = b5 -> 5]
=============================================================================
