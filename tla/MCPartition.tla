---------------------------- MODULE MCPartition ----------------------------
(***************************************************************************)
(* Small instances of Partition for TLC.                                   *)
(***************************************************************************)
EXTENDS Partition, TLC

CONSTANTS n1, n2, n3, h1, h2

\* All nodes validate in every epoch.
AllValidate == [e \in Epochs |-> Nodes]

\* One validator to begin with, joined by the others in the next epoch.
Growing == [e \in Epochs |-> IF e = 0 THEN {n1} ELSE Nodes]

HeightOfName == [h \in PoWBlocks |-> IF h = h1 THEN 1 ELSE 2]

\* Interchangeable nodes; only for runs without temporal properties.
NodeSymmetry == Permutations(Nodes)
=============================================================================
