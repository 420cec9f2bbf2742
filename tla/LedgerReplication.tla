------------------------- MODULE LedgerReplication -------------------------
(***************************************************************************)
(* Recovery of one node over the ledger replication protocol, at a finer   *)
(* grain than Partition: partition/recovery.go with the pool of workers    *)
(* that serve requests while the main loop goes on storing blocks, with    *)
(* messages that get lost, the timeout that repeats a request and the      *)
(* random choice of the validator to ask.                                  *)
(*                                                                         *)
(* A block is its round number: that recovered blocks form one certified   *)
(* chain is the business of Partition.  The validators in the node's       *)
(* configuration other than itself are Peers.  Some never answer: they are *)
(* down, or their identifier in the configuration does not decode, which   *)
(* leaves an empty one in the list (Validators).                           *)
(***************************************************************************)
EXTENDS Naturals, Sequences, FiniteSets, FiniteSetsExt

CONSTANTS
  Peers,            \* the other validators of the configuration
  Reachable,        \* those of them that run and can be reached
  Steady,           \* those of them that have not been restarted since round 0
  Workers,          \* replication workers of a peer
  MaxFetchBlocks,   \* replicationConfig.maxFetchBlocks
  MaxReturnBlocks,  \* replicationConfig.maxReturnBlocks
  MaxInFlight,      \* bound: requests, and responses, on their way at a time
  MaxRound          \* bound: the root chain has certified rounds 1 to MaxRound

ASSUME PeersAssumption == Steady \subseteq Reachable /\ Reachable \subseteq Peers
ASSUME ReplicationAssumption ==
  /\ MaxFetchBlocks \in Nat /\ MaxReturnBlocks \in Nat \ {0} 
  /\ MaxInFlight \in Nat \ {0} /\ MaxRound \in Nat
  /\ IsFiniteSet(Workers) /\ Workers # {}             \* NewNodeConf

VARIABLES
  status,     \* the recovering node: normal or recovering
  committed,  \* round of its committedUC
  luc,        \* round of its latest UC
  timedOut,   \* the replication timeout has passed since lastLedgerReqTime
  batch,      \* blocks of the response being handled that are still to be handled
  applying,   \* the main loop is in the middle of a response
  peer,       \* peer[p]: rounds of fuc and committedUC, and replicationCh
  blocks,     \* blocks[p]: block store of peer p
  storing,    \* storing[p]: finalizeBlock has stored a block but not yet committed it
  serving,    \* serving[p][w]: the response worker w is about to send
  reqs,       \* requests on their way
  resps       \* responses on their way

nodeVars == <<status, committed, luc, timedOut, batch, applying>>
peerVars == <<peer, blocks, storing, serving>>
vars == <<nodeVars, peerVars, reqs, resps>>

Rounds == 1 .. MaxRound
Request == [to : Reachable, begin : 1 .. MaxRound + 1]
Response == [ok : BOOLEAN, begin : 1 .. MaxRound + 1, blocks : SUBSET Rounds]
NoBlocks == [ok |-> FALSE, begin |-> 1, blocks |-> {}]

Init ==
  /\ status = "normal" /\ committed = 0 /\ luc = 0
  /\ timedOut = TRUE /\ batch = {} /\ applying = FALSE
  /\ LET fuc(p) == IF p \in Steady THEN 0 ELSE MaxRound
     IN  /\ peer = [p \in Reachable |->
                     [fuc |-> fuc(p), committed |-> fuc(p), queue |-> << >>]]
         /\ blocks = [p \in Reachable |-> 1 .. fuc(p)]
  /\ storing = [p \in Reachable |-> FALSE]
  /\ serving = [p \in Reachable |-> [w \in Workers |-> NoBlocks]]
  /\ reqs = {} /\ resps = {}

-----------------------------------------------------------------------------
(***************************************************************************)
(* The chain grows; a peer finalises the next certified block, whether it  *)
(* has proposed, voted for or recovered it.                                *)
(***************************************************************************)
StoreBlock(p) ==
  /\ ~ storing[p] /\ peer[p].committed < MaxRound
  /\ storing' = [storing EXCEPT ![p] = TRUE]
  /\ blocks' = [blocks EXCEPT ![p] = @ \cup {peer[p].committed + 1}]
  /\ UNCHANGED <<nodeVars, peer, serving, reqs, resps>>

Commit(p) ==
  /\ storing[p]
  /\ storing' = [storing EXCEPT ![p] = FALSE]
  /\ peer' = [peer EXCEPT ![p].committed = @ + 1]
  /\ UNCHANGED <<nodeVars, blocks, serving, reqs, resps>>

\* Fault model: the block before the one that failed is deleted.
DeleteCommitted(p) ==
  /\ storing[p]
  /\ storing' = [storing EXCEPT ![p] = FALSE]
  /\ blocks' = [blocks EXCEPT ![p] = @ \ {peer[p].committed}]
  /\ UNCHANGED <<nodeVars, peer, serving, reqs, resps>>

\* Commit fails and finalizeBlock deletes the block again.
DeleteBlock(p) ==
  /\ storing[p]
  /\ storing' = [storing EXCEPT ![p] = FALSE]
  /\ blocks' = [blocks EXCEPT ![p] = @ \ {peer[p].committed + 1}]
  /\ UNCHANGED <<nodeVars, peer, serving, reqs, resps>>

\* The network loses messages, also for lack of room.
Put(S, m) == IF Cardinality(S) < MaxInFlight THEN S \cup {m} ELSE {m}

-----------------------------------------------------------------------------
(***************************************************************************)
(* The peer's main loop and its workers.                                   *)
(***************************************************************************)
Missing(p, r) == r.begin <= peer[p].fuc \/ peer[p].committed < r.begin
Full(p) == Len(peer[p].queue) = Cardinality(Workers)

\* BlocksNotFound or Busy.
Refuse(p, r) ==
  /\ ~ storing[p] /\ r.to = p
  /\ Missing(p, r) \/ Full(p)
  /\ resps' = Put(resps, NoBlocks)
  /\ reqs' = reqs \ {r}
  /\ UNCHANGED <<nodeVars, peerVars>>

Enqueue(p, r) ==
  /\ ~ storing[p] /\ r.to = p
  /\ ~ Missing(p, r) /\ ~ Full(p)
  /\ peer' = [peer EXCEPT ![p].queue = Append(@, r)]
  /\ reqs' = reqs \ {r}
  /\ UNCHANGED <<nodeVars, blocks, storing, serving, resps>>

\* The blocks the loop over the iterator collects.
ReplicatedBlocks(S, r) ==
  LET collected(b) == {c \in S : r.begin <= c /\ c < b}
  IN  {b \in S : /\ r.begin <= b
                 /\ Cardinality(collected(b)) < MaxReturnBlocks
                 /\ \A c \in collected(b) : c < r.begin + MaxFetchBlocks}

\* A worker takes a request and opens the iterator, which reads the store as it is
\* at this moment (a read transaction of the database), uncommitted block included.
TakeRequest(p, w) ==
  /\ serving[p][w] = NoBlocks /\ peer[p].queue # << >>
  /\ LET r == Head(peer[p].queue)
     IN  serving' = [serving EXCEPT ![p][w] =
           [ok |-> TRUE, begin |-> r.begin, blocks |-> ReplicatedBlocks(blocks[p], r)]]
  /\ peer' = [peer EXCEPT ![p].queue = Tail(@)]
  /\ UNCHANGED <<nodeVars, blocks, storing, reqs, resps>>

SendResponse(p, w) ==
  /\ serving[p][w] # NoBlocks
  /\ resps' = Put(resps, serving[p][w])
  /\ serving' = [serving EXCEPT ![p][w] = NoBlocks]
  /\ UNCHANGED <<nodeVars, peer, blocks, storing, reqs>>

-----------------------------------------------------------------------------
(***************************************************************************)
(* The recovering node.                                                    *)
(***************************************************************************)
\* Fault model: the validators are not shuffled.
AskFirst(p) ==
  /\ p = CHOOSE q \in Peers : q \notin Steady
  /\ reqs' = IF p \in Reachable THEN Put(reqs, [to |-> p, begin |-> committed' + 1])
             ELSE reqs
  /\ timedOut' = FALSE

\* sendLedgerReplicationRequest: Send reports no error for a peer that is down, so the
\* loop over the shuffled validators ends with the first of them.
SendLedgerReplicationRequest(p) ==
  /\ reqs' = IF p \in Reachable THEN Put(reqs, [to |-> p, begin |-> committed' + 1])
             ELSE reqs
  /\ timedOut' = FALSE

\* A certificate of the next round, which the node has voted for.
Follow ==
  /\ status = "normal" /\ luc < MaxRound
  /\ luc' = luc + 1 /\ committed' = luc'
  /\ UNCHANGED <<status, timedOut, batch, applying, peerVars, reqs, resps>>

StartRecovery(p) ==
  /\ status = "normal" /\ luc < MaxRound
  /\ luc' \in luc + 1 .. MaxRound
  /\ status' = "recovering" /\ UNCHANGED committed
  /\ SendLedgerReplicationRequest(p)
  /\ UNCHANGED <<batch, applying, peerVars, resps>>

\* A newer certificate in recovery only updates luc.
UpdateLUC ==
  /\ status = "recovering" /\ ~ applying /\ luc < MaxRound
  /\ luc' \in luc + 1 .. MaxRound
  /\ UNCHANGED <<status, committed, timedOut, batch, applying, peerVars, reqs, resps>>

Timeout ==
  /\ status = "recovering" /\ ~ timedOut /\ timedOut' = TRUE
  /\ UNCHANGED <<status, committed, luc, batch, applying, peerVars, reqs, resps>>

\* handleMonitoring in recovery.
HandleMonitoring(p) ==
  /\ status = "recovering" /\ ~ applying /\ timedOut
  /\ UNCHANGED committed
  /\ SendLedgerReplicationRequest(p)
  /\ UNCHANGED <<status, luc, batch, applying, peerVars, resps>>

\* Fault model: a node one round behind has recovered.
AlmostComplete == committed + 1 >= luc

IsRecoveryComplete == committed = luc

FirstBlockNumber(m) == IF m.blocks = {} THEN 0 ELSE Min(m.blocks)

\* A response that handleLedgerReplicationResponse does not act on, or an error, which
\* ends a recovery that is complete.
HandleOtherResponse(m) ==
  /\ ~ applying
  /\ status = "normal" \/ ~ m.ok \/ FirstBlockNumber(m) <= committed
  /\ status' = IF status = "recovering" /\ ~ m.ok /\ IsRecoveryComplete
               THEN "normal" ELSE status
  /\ resps' = resps \ {m}
  /\ UNCHANGED <<committed, luc, timedOut, batch, applying, peerVars, reqs>>

HandleBlocks(m) ==
  /\ status = "recovering" /\ ~ applying
  /\ m.ok /\ FirstBlockNumber(m) > committed
  /\ applying' = TRUE /\ batch' = m.blocks
  /\ resps' = resps \ {m}
  /\ UNCHANGED <<status, committed, luc, timedOut, peerVars, reqs>>

\* handleBlock: the certificate of a block may be newer than luc.
HandleBlock ==
  /\ applying /\ batch # {} /\ Min(batch) = committed + 1
  /\ committed' = Min(batch)
  /\ luc' = Max({luc, Min(batch)})
  /\ batch' = batch \ {Min(batch)}
  /\ UNCHANGED <<status, timedOut, applying, peerVars, reqs, resps>>

\* The block does not extend the ledger, the PoW node does not vouch for it, or it
\* cannot be stored: the rest of the response is given up.
HandleBlockFails ==
  /\ applying /\ batch # {}
  /\ luc' \in {luc, Max({luc, Min(batch)})}
  /\ applying' = FALSE /\ batch' = {}
  /\ UNCHANGED <<status, committed, timedOut, peerVars, reqs, resps>>

\* After the loop over the blocks.  A proposal remembered during recovery is then handled
\* like any other: Follow or StartRecovery.
StopRecovery ==
  /\ applying /\ batch = {} /\ IsRecoveryComplete
  /\ status' = "normal" /\ applying' = FALSE
  /\ UNCHANGED <<committed, luc, timedOut, batch, peerVars, reqs, resps>>

RequestMore(p) ==
  /\ applying /\ batch = {} /\ ~ IsRecoveryComplete
  /\ applying' = FALSE /\ UNCHANGED committed
  /\ SendLedgerReplicationRequest(p)
  /\ UNCHANGED <<status, luc, batch, peerVars, resps>>

Lose ==
  /\ \/ \E r \in reqs : reqs' = reqs \ {r} /\ UNCHANGED resps
     \/ \E m \in resps : resps' = resps \ {m} /\ UNCHANGED reqs
  /\ UNCHANGED <<nodeVars, peerVars>>

-----------------------------------------------------------------------------
Peer(p) ==
  \/ StoreBlock(p) \/ Commit(p) \/ DeleteBlock(p)
  \/ \E r \in reqs : Refuse(p, r) \/ Enqueue(p, r)
  \/ \E w \in Workers : TakeRequest(p, w) \/ SendResponse(p, w)

Ask(p) == StartRecovery(p) \/ HandleMonitoring(p) \/ RequestMore(p)

Node ==
  \/ Follow \/ UpdateLUC \/ Timeout
  \/ \E m \in resps : HandleOtherResponse(m) \/ HandleBlocks(m)
  \/ HandleBlock \/ HandleBlockFails \/ StopRecovery
  \/ \E p \in Peers : Ask(p)

Next == Node \/ (\E p \in Reachable : Peer(p)) \/ Lose

Spec == Init /\ [][Next]_vars

(***************************************************************************)
(* The node's loop, its ticker and the steady peers' goroutines run; the   *)
(* shuffle picks every validator again and again; a message, a block write *)
(* or a PoW query that is tried again and again succeeds now and then.     *)
(***************************************************************************)
Fairness ==
  /\ WF_vars(Timeout) /\ WF_vars(StopRecovery)
  /\ WF_vars(\E p \in Peers : HandleMonitoring(p))
  /\ WF_vars(\E p \in Peers : RequestMore(p))
  /\ SF_vars(HandleBlock)
  /\ SF_vars(\E m \in resps : HandleBlocks(m))
  /\ SF_vars(\E m \in resps : ~ m.ok /\ HandleOtherResponse(m))
  /\ \A p \in Steady :
       /\ SF_vars(Ask(p))
       /\ WF_vars(StoreBlock(p)) /\ SF_vars(Commit(p))
       /\ \A b \in Rounds :
            SF_vars(\E r \in reqs : r.begin = b /\ (Enqueue(p, r) \/ Refuse(p, r)))
       /\ \A w \in Workers : WF_vars(TakeRequest(p, w) \/ SendResponse(p, w))

FairSpec == Spec /\ Fairness

-----------------------------------------------------------------------------
(***************************************************************************)
(* Properties.                                                             *)
(***************************************************************************)

\* A worker that reads the store while the main loop stores, commits or deletes a block
\* sends what was asked for: one block at least, no gap after BeginBlockNumber, within
\* both limits, and nothing that is not certified, although the last block may be one
\* its own node has not committed and gives up (finalizeBlock).
ServedBlocksAreSolid ==
  \A m \in resps : m.ok =>
    \E n \in 1 .. MaxReturnBlocks :
      /\ m.blocks = m.begin .. m.begin + n - 1
      /\ n <= MaxFetchBlocks + 1

\* A node never ends a recovery short of its latest certificate, whatever responses of
\* earlier requests, errors and new certificates come in meanwhile.
NormalHasAll == status = "normal" => committed = luc

\* A node that recovers gets back to normal as long as one validator keeps its blocks:
\* requests to restarted or unreachable validators, refusals for a full queue, lost
\* messages and abandoned responses are all made good by the monitoring tick.
Recovers == status = "recovering" ~> status = "normal"
=============================================================================
