---------------------- MODULE LedgerReplicationProofs -----------------------
(***************************************************************************)
(* What LedgerReplication guarantees for any validators, workers, limits   *)
(* and number of rounds.  That a recovery comes to an end (Recovers) is    *)
(* left to TLC.                                                            *)
(***************************************************************************)
EXTENDS LedgerReplication, FiniteSetTheorems, SequenceTheorems, TLAPS

\* The rounds of the requests peer p has accepted: it has the blocks from there on.
Accepted(p) ==
  [to : Reachable,
   begin : {b \in Nat : peer[p].fuc < b /\ b <= peer[p].committed}]

PeerOK(p) ==
  /\ peer[p].fuc \in Nat /\ peer[p].committed \in Nat
  /\ peer[p].queue \in Seq(Accepted(p))
  /\ blocks[p] = 1 .. IF storing[p] THEN peer[p].committed + 1 ELSE peer[p].committed

\* What ServedBlocksAreSolid says of a response.
Solid(m) ==
  \E n \in 1 .. MaxReturnBlocks :
    m.blocks = m.begin .. m.begin + n - 1 /\ n <= MaxFetchBlocks + 1

(***************************************************************************)
(* The inductive invariant: a peer's store is its chain, with the block it *)
(* is storing on top; what it has queued it can serve; what its workers    *)
(* have read is solid; and the node's loop is inside a response only in    *)
(* recovery.                                                               *)
(***************************************************************************)
ServingInv ==
  /\ peer \in [Reachable -> [fuc : Nat, committed : Nat, queue : Seq([to : Reachable, begin : Nat])]]
  /\ DOMAIN blocks = Reachable /\ storing \in [Reachable -> BOOLEAN]
  /\ DOMAIN serving = Reachable /\ \A p \in Reachable : DOMAIN serving[p] = Workers
  /\ \A p \in Reachable : PeerOK(p)
  /\ \A p \in Reachable, w \in Workers : serving[p][w].ok => Solid(serving[p][w])
  /\ reqs \subseteq [to : Reachable, begin : Nat]
  /\ \A m \in resps : m.ok => Solid(m)

RecoveringInv ==
  /\ committed \in Nat
  /\ NormalHasAll
  /\ applying => status = "recovering"

IInv == ServingInv /\ RecoveringInv

-----------------------------------------------------------------------------
\* The loop over the iterator returns one block at least, without a gap, within both limits.
LEMMA ReplicatedBlocksSolid ==
  ASSUME NEW k \in Nat, NEW r, r.begin \in Nat, 1 <= r.begin, r.begin <= k
  PROVE  \E n \in 1 .. MaxReturnBlocks :
           ReplicatedBlocks(1 .. k, r) = r.begin .. r.begin + n - 1 /\ n <= MaxFetchBlocks + 1
<1> DEFINE a == r.begin
           S == 1 .. k
           collected(b) == {c \in S : a <= c /\ c < b}
           R == {b \in S : /\ a <= b
                           /\ Cardinality(collected(b)) < MaxReturnBlocks
                           /\ \A c \in collected(b) : c < a + MaxFetchBlocks}
<1>0. MaxReturnBlocks \in Nat \ {0} /\ MaxFetchBlocks \in Nat
  BY ReplicationAssumption
<1>1. ReplicatedBlocks(S, r) = R
  BY DEF ReplicatedBlocks
<1>2. ASSUME NEW b \in S, a <= b
      PROVE  /\ Cardinality(collected(b)) = b - a
             /\ (\A c \in collected(b) : c < a + MaxFetchBlocks) <=> b - a <= MaxFetchBlocks
  <2>1. collected(b) = a .. b - 1
    BY <1>2
  <2>2. Cardinality(a .. b - 1) = b - a
    <3>1. a \in Int /\ b - 1 \in Int
      BY <1>2
    <3>2. Cardinality(a .. b - 1) = IF a > b - 1 THEN 0 ELSE (b - 1) - a + 1
      BY <3>1, FS_Interval
    <3> QED BY <1>2, <3>2
  <2>3. (\A c \in a .. b - 1 : c < a + MaxFetchBlocks) <=> b - a <= MaxFetchBlocks
    <3>1. ASSUME b - a <= MaxFetchBlocks PROVE \A c \in a .. b - 1 : c < a + MaxFetchBlocks
      BY <1>0, <1>2, <3>1
    <3>2. ASSUME ~ (b - a <= MaxFetchBlocks) PROVE \E c \in a .. b - 1 : ~ (c < a + MaxFetchBlocks)
      <4>1. b - 1 \in a .. b - 1 /\ ~ (b - 1 < a + MaxFetchBlocks)
        BY <1>0, <1>2, <3>2
      <4> QED BY <4>1
    <3> QED BY <3>1, <3>2
  <2> QED BY <2>1, <2>2, <2>3
<1>3. R = {b \in S : a <= b /\ b - a < MaxReturnBlocks /\ b - a <= MaxFetchBlocks}
  BY <1>2
<1> HIDE DEF R
<1> DEFINE min(x, y) == IF x <= y THEN x ELSE y
           n == min(k - a + 1, min(MaxReturnBlocks, MaxFetchBlocks + 1))
<1>4. n \in 1 .. MaxReturnBlocks /\ n <= MaxFetchBlocks + 1 /\ n <= k - a + 1
  BY <1>0
<1>5. \A b \in S : a <= b /\ b - a < MaxReturnBlocks /\ b - a <= MaxFetchBlocks <=> b \in a .. a + n - 1
  BY <1>0
<1>6. a .. a + n - 1 \subseteq S
  BY <1>4
<1>7. R = a .. a + n - 1
  <2> HIDE DEF n
  <2> QED BY <1>3, <1>5, <1>6
<1> HIDE DEF n
<1> QED BY <1>1, <1>4, <1>7

\* Requests stay acceptable when the peer commits more.
LEMMA QueueGrows ==
  ASSUME NEW S, NEW T, S \subseteq T, NEW q \in Seq(S)
  PROVE  q \in Seq(T)
BY SeqDef

\* A message in the network was in it before or has just been sent.
LEMMA PutOld ==
  ASSUME NEW S, NEW m
  PROVE  \A x \in Put(S, m) : x \in S \/ x = m
BY DEF Put

\* What the peers show is the same as long as they do nothing.
LEMMA PeersIdle ==
  ASSUME ServingInv, UNCHANGED peerVars,
         reqs' \subseteq [to : Reachable, begin : Nat], \A m \in resps' : m \in resps \/ ~ m.ok
  PROVE  ServingInv'
BY DEF ServingInv, peerVars, PeerOK, Accepted, Solid

\* The steps of one peer keep its store, its queue and its responses in order.
LEMMA PeerStep ==
  ASSUME ServingInv, NEW p \in Reachable, Peer(p)
  PROVE  ServingInv' /\ UNCHANGED nodeVars
<1> DEFINE Req == [to : Reachable, begin : Nat]
           PeerType == [fuc : Nat, committed : Nat, queue : Seq(Req)]
<1>0. /\ peer \in [Reachable -> PeerType] /\ DOMAIN blocks = Reachable
      /\ storing \in [Reachable -> BOOLEAN] /\ DOMAIN serving = Reachable
      /\ \A q \in Reachable : DOMAIN serving[q] = Workers /\ PeerOK(q)
      /\ \A q \in Reachable, w \in Workers : serving[q][w].ok => Solid(serving[q][w])
      /\ reqs \subseteq Req /\ \A m \in resps : m.ok => Solid(m)
  BY DEF ServingInv
<1>1. /\ peer[p] \in PeerType /\ peer[p].fuc \in Nat /\ peer[p].committed \in Nat
      /\ peer[p].queue \in Seq(Accepted(p))
      /\ blocks[p] = 1 .. IF storing[p] THEN peer[p].committed + 1 ELSE peer[p].committed
  BY <1>0 DEF PeerOK
<1>2. CASE StoreBlock(p)
  <2>1. /\ ~ storing[p] /\ storing' = [storing EXCEPT ![p] = TRUE]
        /\ blocks' = [blocks EXCEPT ![p] = @ \cup {peer[p].committed + 1}]
        /\ UNCHANGED <<nodeVars, peer, serving, reqs, resps>>
    BY <1>2 DEF StoreBlock
  <2>2. blocks'[p] = 1 .. peer[p].committed + 1
    <3>1. blocks'[p] = (1 .. peer[p].committed) \cup {peer[p].committed + 1}
      BY <1>0, <1>1, <2>1
    <3> QED BY <1>1, <3>1
  <2>3. \A q \in Reachable : PeerOK(q)'
    BY <1>0, <1>1, <2>1, <2>2 DEF PeerOK, Accepted
  <2> QED BY <1>0, <2>1, <2>3 DEF ServingInv, Solid
<1>3. CASE Commit(p)
  <2>1. /\ storing[p] /\ storing' = [storing EXCEPT ![p] = FALSE]
        /\ peer' = [peer EXCEPT ![p].committed = @ + 1]
        /\ UNCHANGED <<nodeVars, blocks, serving, reqs, resps>>
    BY <1>3 DEF Commit
  <2>2. /\ peer'[p] = [peer[p] EXCEPT !.committed = @ + 1]
        /\ \A q \in Reachable \ {p} : peer'[q] = peer[q]
    BY <1>0, <2>1
  <2>3. /\ peer'[p] \in PeerType
        /\ peer'[p].fuc = peer[p].fuc /\ peer'[p].committed = peer[p].committed + 1
        /\ peer'[p].queue = peer[p].queue
    BY <1>1, <2>2
  <2>4. Accepted(p) \subseteq Accepted(p)'
    BY <1>1, <2>3 DEF Accepted
  <2>5. peer'[p].queue \in Seq(Accepted(p)')
    BY <1>1, <2>3, <2>4, QueueGrows
  <2>6. blocks'[p] = 1 .. peer'[p].committed /\ ~ storing'[p]
    BY <1>0, <1>1, <2>1, <2>3
  <2>7. PeerOK(p)'
    BY <1>1, <2>3, <2>5, <2>6 DEF PeerOK
  <2>8. \A q \in Reachable \ {p} : PeerOK(q)'
    BY <1>0, <2>1, <2>2 DEF PeerOK, Accepted
  <2>9. peer' \in [Reachable -> PeerType]
    BY <1>0, <2>1, <2>3, <2>2
  <2> QED BY <1>0, <2>1, <2>7, <2>8, <2>9, SMTT(20) DEF ServingInv, Solid
<1>4. CASE DeleteBlock(p)
  <2>1. /\ storing[p] /\ storing' = [storing EXCEPT ![p] = FALSE]
        /\ blocks' = [blocks EXCEPT ![p] = @ \ {peer[p].committed + 1}]
        /\ UNCHANGED <<nodeVars, peer, serving, reqs, resps>>
    BY <1>4 DEF DeleteBlock
  <2>2. blocks'[p] = 1 .. peer[p].committed
    <3>1. blocks'[p] = (1 .. peer[p].committed + 1) \ {peer[p].committed + 1}
      BY <1>0, <1>1, <2>1
    <3> QED BY <1>1, <3>1
  <2>3. \A q \in Reachable : PeerOK(q)'
    BY <1>0, <1>1, <2>1, <2>2 DEF PeerOK, Accepted
  <2> QED BY <1>0, <2>1, <2>3 DEF ServingInv, Solid
<1>5. ASSUME NEW r \in reqs, Refuse(p, r) PROVE ServingInv' /\ UNCHANGED nodeVars
  <2>1. resps' = Put(resps, NoBlocks) /\ reqs' = reqs \ {r} /\ UNCHANGED <<nodeVars, peerVars>>
    BY <1>5 DEF Refuse
  <2>2. \A m \in resps' : m \in resps \/ ~ m.ok
    BY <2>1, PutOld DEF NoBlocks
  <2> QED BY <1>0, <2>1, <2>2, PeersIdle
<1>6. ASSUME NEW r \in reqs, Enqueue(p, r) PROVE ServingInv' /\ UNCHANGED nodeVars
  <2>1. /\ ~ Missing(p, r) /\ peer' = [peer EXCEPT ![p].queue = Append(@, r)]
        /\ reqs' = reqs \ {r} /\ UNCHANGED <<nodeVars, blocks, storing, serving, resps>>
    BY <1>6 DEF Enqueue
  <2>2. r \in Req /\ r \in Accepted(p)
    BY <1>0, <1>1, <2>1 DEF Missing, Accepted
  <2>3. /\ peer'[p] = [peer[p] EXCEPT !.queue = Append(@, r)]
        /\ \A q \in Reachable \ {p} : peer'[q] = peer[q]
    BY <1>0, <2>1
  <2>4. /\ Append(peer[p].queue, r) \in Seq(Req)
        /\ Append(peer[p].queue, r) \in Seq(Accepted(p))
    BY <1>1, <2>2, AppendProperties
  <2>5. /\ peer'[p] \in PeerType /\ peer'[p].fuc = peer[p].fuc
        /\ peer'[p].committed = peer[p].committed /\ peer'[p].queue = Append(peer[p].queue, r)
    BY <1>1, <2>3, <2>4
  <2>6. PeerOK(p)'
    BY <1>1, <2>1, <2>4, <2>5 DEF PeerOK, Accepted
  <2>7. \A q \in Reachable \ {p} : PeerOK(q)'
    BY <1>0, <2>1, <2>3, ZenonT(60) DEF PeerOK, Accepted
  <2>8. peer' \in [Reachable -> PeerType]
    BY <1>0, <2>1, <2>3, <2>5
  <2>9. reqs' \subseteq Req
    BY <1>0, <2>1
  <2>10. \A q \in Reachable : PeerOK(q)'
    BY <2>6, <2>7
  <2>11. /\ DOMAIN blocks' = Reachable /\ storing' \in [Reachable -> BOOLEAN]
         /\ DOMAIN serving' = Reachable /\ \A q \in Reachable : DOMAIN serving'[q] = Workers
         /\ \A q \in Reachable, w \in Workers : serving'[q][w].ok => Solid(serving'[q][w])
         /\ \A m \in resps' : m.ok => Solid(m)
    BY <1>0, <2>1
  <2> QED BY <2>1, <2>8, <2>9, <2>10, <2>11 DEF ServingInv, Solid
<1>7. ASSUME NEW w \in Workers, TakeRequest(p, w) PROVE ServingInv' /\ UNCHANGED nodeVars
  <2> DEFINE r == Head(peer[p].queue)
             m == [ok |-> TRUE, begin |-> r.begin, blocks |-> ReplicatedBlocks(blocks[p], r)]
  <2>1. /\ peer[p].queue # << >> /\ serving' = [serving EXCEPT ![p][w] = m]
        /\ peer' = [peer EXCEPT ![p].queue = Tail(@)]
        /\ UNCHANGED <<nodeVars, blocks, storing, reqs, resps>>
    BY <1>7 DEF TakeRequest
  <2>2. /\ r \in Accepted(p) /\ Tail(peer[p].queue) \in Seq(Accepted(p))
        /\ Tail(peer[p].queue) \in Seq(Req)
    BY <1>1, <2>1, HeadTailProperties
  <2>3. Solid(m)
    <3> DEFINE k == IF storing[p] THEN peer[p].committed + 1 ELSE peer[p].committed
    <3>1. k \in Nat /\ r.begin \in Nat /\ 1 <= r.begin /\ r.begin <= k /\ blocks[p] = 1 .. k
      BY <1>1, <2>2 DEF Accepted
    <3> HIDE DEF k, r
    <3>2. \E n \in 1 .. MaxReturnBlocks :
            ReplicatedBlocks(1 .. k, r) = r.begin .. r.begin + n - 1 /\ n <= MaxFetchBlocks + 1
      BY <3>1, ReplicatedBlocksSolid
    <3> QED BY <3>1, <3>2 DEF Solid
  <2> HIDE DEF m
  <2>4. /\ peer'[p] = [peer[p] EXCEPT !.queue = Tail(@)]
        /\ \A q \in Reachable \ {p} : peer'[q] = peer[q]
    BY <1>0, <2>1
  <2>5. /\ peer'[p] \in PeerType /\ peer'[p].fuc = peer[p].fuc
        /\ peer'[p].committed = peer[p].committed /\ peer'[p].queue = Tail(peer[p].queue)
    BY <1>1, <2>2, <2>4
  <2>6. PeerOK(p)'
    BY <1>1, <2>1, <2>2, <2>5 DEF PeerOK, Accepted
  <2>7. \A q \in Reachable \ {p} : PeerOK(q)'
    BY <1>0, <2>1, <2>4, SMTT(20) DEF PeerOK, Accepted
  <2>8. peer' \in [Reachable -> PeerType]
    BY <1>0, <2>1, <2>4, <2>5
  <2>9. /\ DOMAIN serving' = Reachable /\ \A q \in Reachable : DOMAIN serving'[q] = Workers
        /\ \A q \in Reachable, v \in Workers : serving'[q][v] \in {m, serving[q][v]}
    BY <1>0, <2>1
  <2>10. \A q \in Reachable, v \in Workers : serving'[q][v].ok => Solid(serving'[q][v])
    BY <1>0, <2>3, <2>9
  <2> QED BY <1>0, <2>1, <2>6, <2>7, <2>8, <2>9, <2>10 DEF ServingInv, Solid
<1>8. ASSUME NEW w \in Workers, SendResponse(p, w) PROVE ServingInv' /\ UNCHANGED nodeVars
  <2>1. /\ resps' = Put(resps, serving[p][w]) /\ serving' = [serving EXCEPT ![p][w] = NoBlocks]
        /\ UNCHANGED <<nodeVars, peer, blocks, storing, reqs>>
    BY <1>8 DEF SendResponse
  <2>2. \A m \in resps' : m.ok => Solid(m)
    BY <1>0, <2>1, PutOld
  <2>3. /\ DOMAIN serving' = Reachable /\ \A q \in Reachable : DOMAIN serving'[q] = Workers
        /\ \A q \in Reachable, v \in Workers : serving'[q][v] \in {NoBlocks, serving[q][v]}
    BY <1>0, <2>1
  <2>4. \A q \in Reachable, v \in Workers : serving'[q][v].ok => Solid(serving'[q][v])
    BY <1>0, <2>3 DEF NoBlocks
  <2>5. \A q \in Reachable : PeerOK(q)'
    BY <1>0, <2>1 DEF PeerOK, Accepted
  <2> QED BY <1>0, <2>1, <2>2, <2>3, <2>4, <2>5 DEF ServingInv, Solid
<1> QED BY <1>2, <1>3, <1>4, <1>5, <1>6, <1>7, <1>8 DEF Peer

\* The steps of the recovering node.
LEMMA NodeStep ==
  ASSUME IInv, Node
  PROVE  IInv'
<1>0. ServingInv /\ RecoveringInv
  BY DEF IInv
<1>1. ASSUME NEW p \in Peers, SendLedgerReplicationRequest(p), committed' \in Nat
      PROVE  reqs' \subseteq [to : Reachable, begin : Nat]
  <2>1. reqs \subseteq [to : Reachable, begin : Nat]
    BY <1>0 DEF ServingInv
  <2>2. p \in Reachable => [to |-> p, begin |-> committed' + 1] \in [to : Reachable, begin : Nat]
    <3>1. \A c \in Nat : c + 1 \in Nat
      OBVIOUS
    <3>2. committed' + 1 \in Nat
      BY <1>1, <3>1, Zenon
    <3> QED BY <3>2
  <2> QED BY <1>1, <2>1, <2>2, PutOld DEF SendLedgerReplicationRequest
<1>2. RecoveringInv'
  <2>1. ASSUME NEW p \in Peers, Ask(p) PROVE RecoveringInv'
    BY <1>0, <2>1 DEF RecoveringInv, NormalHasAll, Ask, StartRecovery, HandleMonitoring, RequestMore
  <2>2. ASSUME NEW m \in resps, HandleOtherResponse(m) \/ HandleBlocks(m) PROVE RecoveringInv'
    BY <1>0, <2>2 DEF RecoveringInv, NormalHasAll, HandleOtherResponse, HandleBlocks, IsRecoveryComplete
  <2>3. CASE Follow \/ UpdateLUC \/ Timeout
    BY <1>0, <2>3 DEF RecoveringInv, NormalHasAll, Follow, UpdateLUC, Timeout
  <2>4. CASE HandleBlock \/ HandleBlockFails \/ StopRecovery
    BY <1>0, <2>4 DEF RecoveringInv, NormalHasAll, HandleBlock, HandleBlockFails, StopRecovery,
                      IsRecoveryComplete
  <2> QED BY <2>1, <2>2, <2>3, <2>4 DEF Node
<1>3. UNCHANGED peerVars /\ resps' \subseteq resps
  BY DEF Node, Follow, UpdateLUC, Timeout, HandleOtherResponse, HandleBlocks, HandleBlock,
         HandleBlockFails, StopRecovery, Ask, StartRecovery, HandleMonitoring, RequestMore
<1>4. reqs' = reqs \/ \E p \in Peers : SendLedgerReplicationRequest(p)
  BY DEF Node, Follow, UpdateLUC, Timeout, HandleOtherResponse, HandleBlocks, HandleBlock,
         HandleBlockFails, StopRecovery, Ask, StartRecovery, HandleMonitoring, RequestMore
<1>5. reqs' \subseteq [to : Reachable, begin : Nat]
  BY <1>0, <1>1, <1>2, <1>4 DEF RecoveringInv, ServingInv
<1> QED BY <1>0, <1>2, <1>3, <1>5, PeersIdle DEF IInv

\* The invariant holds for any validators, workers, limits and number of rounds.
THEOREM Invariance == Spec => []IInv
<1>1. Init => IInv
  <2> SUFFICES ASSUME Init PROVE IInv
    OBVIOUS
  <2> DEFINE fuc(p) == IF p \in Steady THEN 0 ELSE MaxRound
             Req == [to : Reachable, begin : Nat]
  <2>1. /\ peer = [p \in Reachable |-> [fuc |-> fuc(p), committed |-> fuc(p), queue |-> << >>]]
        /\ blocks = [p \in Reachable |-> 1 .. fuc(p)] /\ storing = [p \in Reachable |-> FALSE]
        /\ serving = [p \in Reachable |-> [w \in Workers |-> NoBlocks]]
        /\ reqs = {} /\ resps = {}
    BY DEF Init
  <2>2. \A p \in Reachable : fuc(p) \in Nat
    BY ReplicationAssumption
  <2> HIDE DEF fuc
  <2>3. << >> \in Seq(Req) /\ \A p \in Reachable : << >> \in Seq(Accepted(p))
    OBVIOUS
  <2>4. peer \in [Reachable -> [fuc : Nat, committed : Nat, queue : Seq(Req)]]
    <3> HIDE DEF Req
    <3> QED BY <2>1, <2>2, <2>3
  <2>5. \A p \in Reachable : PeerOK(p)
    BY <2>1, <2>2, <2>3 DEF PeerOK
  <2>6. ServingInv
    BY <2>1, <2>4, <2>5 DEF ServingInv, NoBlocks
  <2> QED BY <2>6 DEF Init, IInv, RecoveringInv, NormalHasAll
<1>2. IInv /\ [Next]_vars => IInv'
  <2> SUFFICES ASSUME IInv, [Next]_vars PROVE IInv'
    OBVIOUS
  <2>1. ASSUME NEW p \in Reachable, Peer(p) PROVE IInv'
    <3>1. ServingInv' /\ UNCHANGED nodeVars
      BY <2>1, PeerStep DEF IInv
    <3> QED BY <3>1 DEF IInv, RecoveringInv, NormalHasAll, nodeVars
  <2>2. CASE Lose \/ UNCHANGED vars
    <3>1. UNCHANGED <<nodeVars, peerVars>> /\ reqs' \subseteq reqs /\ resps' \subseteq resps
      BY <2>2 DEF Lose, vars
    <3>2. ServingInv'
      <4>1. reqs \subseteq [to : Reachable, begin : Nat] /\ ServingInv
        BY DEF IInv, ServingInv
      <4> QED BY <3>1, <4>1, PeersIdle
    <3> QED BY <3>1, <3>2 DEF IInv, RecoveringInv, NormalHasAll, nodeVars
  <2> QED BY <2>1, <2>2, NodeStep DEF Next
<1> QED BY <1>1, <1>2, PTL DEF Spec

\* A worker, reading the store while blocks are stored, committed and deleted, sends at least
\* one block, no gap, within both limits (ServedBlocksAreSolid).
THEOREM ServedSolid == Spec => []ServedBlocksAreSolid
<1>1. IInv => ServedBlocksAreSolid
  BY DEF IInv, ServingInv, ServedBlocksAreSolid, Solid
<1> QED BY <1>1, Invariance, PTL

\* A recovery never ends short of the latest certificate (NormalHasAll).
THEOREM RecoveryEndsComplete == Spec => []NormalHasAll
<1>1. IInv => NormalHasAll
  BY DEF IInv, RecoveringInv
<1> QED BY <1>1, Invariance, PTL
=============================================================================
