--------------------------- MODULE FinalityLedger ---------------------------
(***************************************************************************)
(* What a shard of finality gadget nodes promises, without the messages,   *)
(* certificates, recoveries and restarts that bring it about: one growing  *)
(* list of final PoW blocks, and a copy of it on every node that may lag   *)
(* behind but never shows anything else, never forgets and has no holes.   *)
(***************************************************************************)
EXTENDS Integers

CONSTANTS
  Nodes,      \* the nodes that keep a copy
  PoWBlocks,  \* PoW blocks that may become final
  Height      \* height of each PoW block

VARIABLES
  final,  \* the final blocks, each with the round that made it final
  held    \* held[n]: those of them that node n has stored

ledgerVars == <<final, held>>

Init ==
  /\ final = {}
  /\ held = [n \in Nodes |-> {}]

\* The next round makes a block final that is higher than all before it.
Finalize ==
  \E h \in PoWBlocks, r \in {1} \cup {f.round + 1 : f \in final} :
    /\ \A f \in final : f.round < r /\ Height[f.hash] < Height[h]
    /\ final' = final \cup {[round |-> r, hash |-> h]}
    /\ UNCHANGED held

\* No round is missing between two blocks of S.
Gapless(S) ==
  \A f \in S : \/ \E g \in S : g.round = f.round + 1
               \/ \A g \in S : g.round <= f.round

\* Nodes add final blocks to their copies.
Store ==
  /\ held' \in [Nodes -> SUBSET final]
  /\ \A n \in Nodes : held[n] \subseteq held'[n] /\ Gapless(held'[n])
  /\ UNCHANGED final

Next == Store \/ Finalize

Spec == Init /\ [][Next]_ledgerVars
=============================================================================
