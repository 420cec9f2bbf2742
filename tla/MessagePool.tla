---------------------------- MODULE MessagePool ----------------------------
(***************************************************************************)
(* What the network promises: a node is handed messages that were sent to  *)
(* it, each at most once.  Any of them may be lost or late and they come   *)
(* in any order.  Partition assumes less: there a message may be handled   *)
(* over and over, since nodes also repeat their requests.                  *)
(***************************************************************************)
EXTENDS Sequences, Functions

CONSTANTS Peers, Msgs

VARIABLES
  sent,     \* sent[m]: the peers m was sent to
  handled   \* handled[q]: messages peer q has been handed, in that order

poolVars == <<sent, handled>>

PoolInit == sent = [m \in Msgs |-> {}] /\ handled = [q \in Peers |-> << >>]

PoolSend ==
  /\ sent' \in [Msgs -> SUBSET Peers]
  /\ \A m \in Msgs : sent[m] \subseteq sent'[m]
  /\ UNCHANGED handled

PoolDeliver ==
  \E q \in Peers, m \in Msgs :
    /\ q \in sent[m] /\ m \notin Range(handled[q])
    /\ handled' = [handled EXCEPT ![q] = Append(@, m)]
    /\ UNCHANGED sent

PoolSpec == PoolInit /\ [][PoolSend \/ PoolDeliver]_poolVars
=============================================================================
