--------------------------- MODULE PartitionProofs ----------------------------
(***************************************************************************)
(* Partition satisfies its safety properties and implements                *)
(* FinalityLedger, for every value of the constants.                       *)
(***************************************************************************)
EXTENDS PartitionNodeProofs, SequenceTheorems

\* Most steps are first-order; the ones that need more name SMT.
USE ZenonT(30)

-----------------------------------------------------------------------------
(***************************************************************************)
(* Every action in which a node handles a message, a timeout or a          *)
(* replication request preserves IInv and loses nothing finalised: one     *)
(* lemma per action.                                                       *)
(***************************************************************************)

\* A step in which one node handles something keeps the invariant if the node state it ends
\* in does, and the messages it sends are in order.
LEMMA HandleStep ==
  ASSUME IInv, NEW n \in Nodes, NEW y, NEW o, Handle(n, y, o),
         NodeOK(y, UCs), Durable(node[n], y, UCs),
         proposals' \subseteq BlockProposal, \A p \in proposals' : ProposalOK(p, UCs),
         replReqs' \subseteq LedgerReplicationRequest
  PROVE  IInv' /\ \A m \in Nodes : Durable(node[m], node'[m], UCs)
<1>1. /\ node \in [Nodes -> NodeState] /\ y \in NodeState
      /\ node' = [node EXCEPT ![n] = y]
      /\ certs' = certs /\ root' = root /\ replCh' = replCh /\ replResps' = replResps
      /\ crashes' = crashes
      /\ requests' = requests \cup CertificationRequests(n, node[n], y, o)
  BY DEF IInv, TypeOK, Handle, rootVars, NodeOK, BaseOK
<1>2. UCs' = UCs
  BY <1>1 DEF UCs
<1>3. \A m \in Nodes : node'[m] = IF m = n THEN y ELSE node[m]
  BY <1>1
<1>4. \A m \in Nodes : NodeOK(node'[m], UCs)
  BY <1>3 DEF IInv
<1>5. \A q \in CertificationRequests(n, node[n], y, o) : q \in CertificationRequest /\ RequestOK(q.ir)
  <2> SUFFICES ASSUME NEW q \in CertificationRequests(n, node[n], y, o)
               PROVE  q \in CertificationRequest /\ RequestOK(q.ir)
    OBVIOUS
  <2>1. q = [node |-> n, ir |-> y.pending.uc.ir] /\ y.pending # Nil
    BY DEF CertificationRequests
  <2>2. y.pending \in Block /\ PendingOK(y.pending, UCs)
    BY <1>1, <2>1 DEF NodeState, Option, NodeOK, BaseOK, DataOK
  <2>3. y.pending.uc.ir \in InputRecord
    BY <2>2 DEF Block, UnicityCertificate
  <2> QED BY <2>1, <2>2, <2>3, PendingHash DEF CertificationRequest, RequestOK, PendingOK
<1>6. TypeOK'
  BY <1>1, <1>5 DEF IInv, TypeOK
<1>7. MessagesOK'
  BY <1>1, <1>2, <1>5 DEF IInv, MessagesOK
<1>8. RootOK'
  BY <1>1, <1>2 DEF IInv, RootOK
<1>9. IInv'
  BY <1>2, <1>4, <1>6, <1>7, <1>8 DEF IInv
<1>10. ASSUME NEW m \in Nodes PROVE Durable(node[m], node'[m], UCs)
  <2>1. CASE m = n
    BY <1>3, <2>1
  <2>2. CASE m # n
    BY <1>3, <2>2, SameIsDurable DEF IInv
  <2> QED BY <2>1, <2>2
<1> QED BY <1>9, <1>10

\* sendLedgerReplicationRequest builds a well-formed request.
LEMMA LedgerRequestType ==
  ASSUME NEW n \in Nodes, NEW y \in NodeState
  PROVE  LedgerRequest(n, y) \in LedgerReplicationRequest
<1>1. CommittedRound(y) \in Nat /\ y.confEpoch \in Epochs
  BY GetType DEF NodeState, CommittedRound
<1> QED BY <1>1, ValidatorsAssumption, SMTT(20) DEF LedgerRequest, LedgerReplicationRequest

\* Handling a certification response keeps the invariant.
LEMMA HandleCertificationResponseStep ==
  ASSUME IInv, NEW n \in Nodes, HandleCertificationResponse(n)
  PROVE  IInv' /\ \A m \in Nodes : Durable(node[m], node'[m], UCs)
<1>1. PICK c \in certs, o \in Outcomes :
        LET y == HandleUnicityCertificate(node[n], c.uc, c.tr, o)
        IN  /\ Idle(n)
            /\ Handle(n, y, o)
            /\ replReqs' = replReqs \cup RecoveryRequests(n, node[n], y)
            /\ UNCHANGED proposals
  BY DEF HandleCertificationResponse, BlockOutcomes
<1> DEFINE y == HandleUnicityCertificate(node[n], c.uc, c.tr, o)
<1>2. c.uc \in UCs /\ c.tr \in TechnicalRecord
  BY DEF UCs, IInv, TypeOK, CertificationResponse
<1>3. NodeOK(y, UCs) /\ Durable(node[n], y, UCs)
  BY <1>1, <1>2, HandleUnicityCertificateOK DEF IInv, Idle
<1> HIDE DEF y
<1>4. replReqs' \subseteq LedgerReplicationRequest
  BY <1>1, <1>3, LedgerRequestType DEF y, RecoveryRequests, IInv, TypeOK, NodeOK, BaseOK
<1> QED BY <1>1, <1>3, <1>4, HandleStep DEF y, IInv, TypeOK, MessagesOK

\* Handling a block proposal keeps the invariant.
LEMMA ReceiveBlockProposalStep ==
  ASSUME IInv, NEW n \in Nodes, ReceiveBlockProposal(n)
  PROVE  IInv' /\ \A m \in Nodes : Durable(node[m], node'[m], UCs)
<1>1. PICK p \in proposals, v \in Verdicts, o \in Outcomes :
        LET y == HandleBlockProposal(node[n], p, v, o)
        IN  /\ Idle(n)
            /\ n \in p.to
            /\ Handle(n, y, o)
            /\ replReqs' = replReqs \cup RecoveryRequests(n, node[n], y)
            /\ UNCHANGED proposals
  BY DEF ReceiveBlockProposal
<1> DEFINE y == HandleBlockProposal(node[n], p, v, o)
<1>2. p \in BlockProposal /\ ProposalOK(p, UCs)
  BY DEF IInv, TypeOK, MessagesOK
<1>3. NodeOK(y, UCs) /\ Durable(node[n], y, UCs)
  BY <1>1, <1>2, HandleBlockProposalOK DEF IInv, Idle
<1> HIDE DEF y
<1>4. replReqs' \subseteq LedgerReplicationRequest
  BY <1>1, <1>3, LedgerRequestType DEF y, RecoveryRequests, IInv, TypeOK, NodeOK, BaseOK
<1> QED BY <1>1, <1>3, <1>4, HandleStep DEF y, IInv, TypeOK, MessagesOK

\* A leader proposes on top of an issued certificate a PoW block higher than the one it
\* certifies (LeaderPropose).
LEMMA ProposalType ==
  ASSUME IInv, NEW n \in Nodes, IsLeader(n), NEW h \in Candidates(node[n])
  PROVE  Proposal(n, h) \in BlockProposal /\ ProposalOK(Proposal(n, h), UCs)
<1>1. NodeOK(node[n], UCs) /\ node[n] \in NodeState
  BY DEF IInv, NodeOK, BaseOK
<1>2. node[n].luc \in UCs /\ node[n].ltr \in TechnicalRecord /\ InSync(node[n], UCs)
  BY <1>1, LeaderIsNormal DEF IsLeader
<1>3. node[n].luc \in UnicityCertificate /\ GetStateHash(node[n].luc) = node[n].luc.ir.hash
  BY <1>2, IssuedType DEF IInv
<1>4. GetStateHash(node[n].luc) = CommittedHash(node[n])
  BY <1>1, <1>2, InSyncHash DEF IInv
<1>5. h \in PoWBlocks /\ Height[h] > HeightOf(CommittedHash(node[n])) /\ HeightOf(h) = Height[h]
  BY NilAssumption DEF Candidates, HeightOf
<1>6. HeightOf(CommittedHash(node[n])) \in Nat /\ Height[h] \in Nat
  BY <1>1, <1>5, GetType, HeightType, HeightAssumption DEF NodeState, CommittedHash
<1>7. Validators[node[n].confEpoch] \ {n} \in SUBSET Nodes
  BY <1>1, ValidatorsAssumption DEF NodeState
<1> QED BY <1>2, <1>3, <1>4, <1>5, <1>6, <1>7 DEF Proposal, BlockProposal, ProposalOK

\* The leader's T1 timeout keeps the invariant.
LEMMA HandleT1TimeoutEventStep ==
  ASSUME IInv, NEW n \in Nodes, HandleT1TimeoutEvent(n)
  PROVE  IInv' /\ \A m \in Nodes : Durable(node[m], node'[m], UCs)
<1>1. PICK h \in Candidates(node[n]) \cup NoCandidate(n), o \in Outcomes :
        /\ Idle(n) /\ IsLeader(n)
        /\ Handle(n, LeaderRound(node[n], n, h, o), o)
        /\ proposals' = proposals \cup (IF h = Nil THEN {} ELSE {Proposal(n, h)})
        /\ UNCHANGED replReqs
  BY DEF HandleT1TimeoutEvent, ProposalOutcomes
<1> DEFINE y == LeaderRound(node[n], n, h, o)
<1>2. h \in Candidates(node[n]) \cup {Nil}
  BY DEF NoCandidate
<1>3. NodeOK(y, UCs) /\ Durable(node[n], y, UCs)
  BY <1>1, <1>2, LeaderRoundOK DEF IInv, Idle, IsLeader
<1>4. proposals' \subseteq BlockProposal /\ \A p \in proposals' : ProposalOK(p, UCs)
  BY <1>1, <1>2, ProposalType DEF IInv, TypeOK, MessagesOK
<1> HIDE DEF y
<1> QED BY <1>1, <1>3, <1>4, HandleStep DEF y, IInv, TypeOK

\* Receiving a replication response keeps the invariant.
LEMMA ReceiveLedgerReplicationResponseStep ==
  ASSUME IInv, NEW n \in Nodes, ReceiveLedgerReplicationResponse(n)
  PROVE  IInv' /\ \A m \in Nodes : Durable(node[m], node'[m], UCs)
<1>1. PICK m \in replResps :
        /\ Idle(n)
        /\ m.to = n
        /\ Handle(n, HandleLedgerReplicationResponse(node[n], m.ok, m.blocks), "ok")
        /\ UNCHANGED <<proposals, replReqs>>
  BY DEF ReceiveLedgerReplicationResponse
<1> DEFINE y == HandleLedgerReplicationResponse(node[n], m.ok, m.blocks)
<1>2. m.blocks \in SUBSET Block /\ \A b \in m.blocks : BlockOK(b, UCs)
  BY DEF IInv, TypeOK, LedgerReplicationResponse, MessagesOK
<1>3. NodeOK(y, UCs) /\ Durable(node[n], y, UCs)
  BY <1>1, <1>2, HandleLedgerReplicationResponseOK DEF IInv, Idle
<1> HIDE DEF y
<1> QED BY <1>1, <1>3, HandleStep DEF y, IInv, TypeOK, MessagesOK

\* Applying a recovered block keeps the invariant.
LEMMA ApplyBlockStep ==
  ASSUME IInv, NEW n \in Nodes, ApplyBlock(n)
  PROVE  IInv' /\ \A m \in Nodes : Durable(node[m], node'[m], UCs)
<1>1. PICK v \in Verdicts, o \in Outcomes :
        /\ ~ Idle(n) /\ node[n].batch # {}
        /\ Handle(n, HandleBlock(node[n], v, o), o)
        /\ UNCHANGED <<proposals, replReqs>>
  BY DEF ApplyBlock, BlockOutcomes
<1> DEFINE y == HandleBlock(node[n], v, o)
<1>2. NodeOK(y, UCs) /\ Durable(node[n], y, UCs)
  BY <1>1, HandleBlockOK DEF IInv, Idle
<1> HIDE DEF y
<1> QED BY <1>1, <1>2, HandleStep DEF y, IInv, TypeOK, MessagesOK

\* Finishing a replication response keeps the invariant.
LEMMA FinishReplicationStep ==
  ASSUME IInv, NEW n \in Nodes, FinishReplication(n)
  PROVE  IInv' /\ \A m \in Nodes : Durable(node[m], node'[m], UCs)
<1>1. PICK v \in Verdicts, o \in Outcomes :
        LET y == FinishBatch(node[n], v, o)
        IN  /\ ~ Idle(n) /\ node[n].batch = {}
            /\ Handle(n, y, o)
            /\ replReqs' = replReqs \cup
                 (IF y.status = "recovering" THEN {LedgerRequest(n, y)} ELSE {})
            /\ UNCHANGED proposals
  BY DEF FinishReplication
<1> DEFINE y == FinishBatch(node[n], v, o)
<1>2. NodeOK(y, UCs) /\ Durable(node[n], y, UCs)
  BY <1>1, FinishBatchOK DEF IInv, Idle
<1> HIDE DEF y
<1>3. replReqs' \subseteq LedgerReplicationRequest
  BY <1>1, <1>2, LedgerRequestType DEF y, IInv, TypeOK, NodeOK, BaseOK
<1> QED BY <1>1, <1>2, <1>3, HandleStep DEF y, IInv, TypeOK, MessagesOK

\* Handling an epoch change keeps the invariant.
LEMMA EpochChangeStep ==
  ASSUME IInv, NEW n \in Nodes, EpochChange(n)
  PROVE  IInv' /\ \A m \in Nodes : Durable(node[m], node'[m], UCs)
<1> DEFINE y == HandleEpochChangeEvent(node[n])
<1>1. Idle(n) /\ Handle(n, y, "ok") /\ UNCHANGED <<proposals, replReqs>>
  BY DEF EpochChange
<1>2. NodeOK(y, UCs) /\ Durable(node[n], y, UCs)
  BY <1>1, HandleEpochChangeEventOK DEF IInv, Idle
<1> HIDE DEF y
<1> QED BY <1>1, <1>2, HandleStep DEF IInv, TypeOK, MessagesOK

\* A step that only touches replication messages and queues keeps the invariant.
LEMMA MessageStep ==
  ASSUME IInv, UNCHANGED <<node, proposals, requests, rootVars, crashes>>,
         replCh' \in [Nodes -> Seq(LedgerReplicationRequest)],
         replReqs' \subseteq LedgerReplicationRequest,
         replResps' \subseteq LedgerReplicationResponse,
         \A m \in replResps' : \A b \in m.blocks : BlockOK(b, UCs)
  PROVE  IInv' /\ \A m \in Nodes : Durable(node[m], node'[m], UCs)
<1>1. UCs' = UCs
  BY DEF UCs, rootVars
<1>2. TypeOK'
  BY DEF IInv, TypeOK, rootVars
<1>3. MessagesOK'
  BY <1>1 DEF IInv, MessagesOK
<1>4. RootOK'
  BY <1>1 DEF IInv, RootOK, rootVars
<1>5. IInv'
  BY <1>1, <1>2, <1>3, <1>4 DEF IInv
<1> QED BY <1>5, SameIsDurable DEF IInv

\* Repeating a replication request keeps the invariant.
LEMMA HandleMonitoringStep ==
  ASSUME IInv, NEW n \in Nodes, HandleMonitoring(n)
  PROVE  IInv' /\ \A m \in Nodes : Durable(node[m], node'[m], UCs)
<1>1. LedgerRequest(n, node[n]) \in LedgerReplicationRequest
  BY LedgerRequestType DEF IInv, TypeOK
<1> QED BY <1>1, MessageStep DEF HandleMonitoring, IInv, TypeOK, MessagesOK, nodeVars

\* Refusing or queueing a replication request keeps the invariant.
LEMMA HandleLedgerReplicationRequestStep ==
  ASSUME IInv, NEW n \in Nodes, HandleLedgerReplicationRequest(n)
  PROVE  IInv' /\ \A m \in Nodes : Durable(node[m], node'[m], UCs)
<1> DEFINE R == LedgerReplicationRequest
<1>1. PICK r \in replReqs :
        /\ \/ Respond(r, FALSE, {}) /\ UNCHANGED replCh
           \/ replCh' = [replCh EXCEPT ![n] = Append(@, r)] /\ UNCHANGED replResps
        /\ UNCHANGED <<node, proposals, requests, replReqs, rootVars, crashes>>
  BY DEF HandleLedgerReplicationRequest
<1>2. r \in R /\ r.node \in Nodes
  BY DEF IInv, TypeOK, LedgerReplicationRequest
<1>3. replCh \in [Nodes -> Seq(R)] /\ replReqs \subseteq R /\ replResps \subseteq LedgerReplicationResponse
  BY DEF IInv, TypeOK
<1>4. CASE Respond(r, FALSE, {}) /\ UNCHANGED replCh
  <2>1. replResps' = replResps \cup {[to |-> r.node, ok |-> FALSE, blocks |-> {}]}
    BY <1>4 DEF Respond
  <2>2. replResps' \subseteq LedgerReplicationResponse
    <3>1. [to |-> r.node, ok |-> FALSE, blocks |-> {}] \in LedgerReplicationResponse
      BY <1>2 DEF LedgerReplicationResponse
    <3> QED BY <1>3, <2>1, <3>1
  <2>3. \A m \in replResps' : \A b \in m.blocks : BlockOK(b, UCs)
    BY <2>1, SMTT(20) DEF IInv, MessagesOK
  <2> QED BY <1>1, <1>3, <1>4, <2>2, <2>3, MessageStep
<1>5. CASE replCh' = [replCh EXCEPT ![n] = Append(@, r)] /\ UNCHANGED replResps
  <2> HIDE DEF R
  <2>1. Append(replCh[n], r) \in Seq(R)
    BY <1>2, <1>3, SMTT(20)
  <2>2. replCh' \in [Nodes -> Seq(R)]
    BY <1>3, <1>5, <2>1
  <2> QED BY <1>1, <1>3, <1>5, <2>2, MessageStep DEF IInv, MessagesOK, R
<1> QED BY <1>1, <1>4, <1>5

\* Serving a replication request keeps the invariant.
LEMMA ProcessReplicationRequestStep ==
  ASSUME IInv, NEW n \in Nodes, ProcessReplicationRequest(n)
  PROVE  IInv' /\ \A m \in Nodes : Durable(node[m], node'[m], UCs)
<1> DEFINE R == LedgerReplicationRequest
           r == Head(replCh[n])
           B == ReplicatedBlocks(node[n].blocks, r.begin, r.begin + MaxFetchBlocks, MaxReturnBlocks)
<1>1. /\ replCh[n] # << >> /\ replResps' = replResps \cup {[to |-> r.node, ok |-> TRUE, blocks |-> B]}
      /\ replCh' = [replCh EXCEPT ![n] = Tail(@)]
      /\ UNCHANGED <<node, proposals, requests, replReqs, rootVars, crashes>>
  BY DEF ProcessReplicationRequest, Respond
<1>2. B \subseteq node[n].blocks
  BY DEF ReplicatedBlocks
<1> HIDE DEF B
<1>3. replCh \in [Nodes -> Seq(R)] /\ replReqs \subseteq R /\ replResps \subseteq LedgerReplicationResponse
  BY DEF IInv, TypeOK
<1>4. r \in R /\ replCh' \in [Nodes -> Seq(R)]
  <2> HIDE DEF R
  <2>1. replCh[n] \in Seq(R)
    BY <1>3
  <2>2. r \in R /\ Tail(replCh[n]) \in Seq(R)
    BY <1>1, <2>1, SMTT(20)
  <2> QED BY <1>1, <1>3, <2>2
<1>5. B \subseteq Block /\ \A b \in B : BlockOK(b, UCs)
  BY <1>2 DEF IInv, TypeOK, NodeState, NodeOK, BaseOK, DataOK
<1> HIDE DEF r
<1>6. replResps' \subseteq LedgerReplicationResponse
  <2>1. r.node \in Nodes
    BY <1>4 DEF LedgerReplicationRequest
  <2>2. [to |-> r.node, ok |-> TRUE, blocks |-> B] \in LedgerReplicationResponse
    BY <1>5, <2>1 DEF LedgerReplicationResponse
  <2> QED BY <1>1, <1>3, <2>2
<1>7. \A m \in replResps' : \A b \in m.blocks : BlockOK(b, UCs)
  BY <1>1, <1>5, SMTT(20) DEF IInv, MessagesOK
<1> QED BY <1>1, <1>3, <1>4, <1>6, <1>7, MessageStep

-----------------------------------------------------------------------------
(***************************************************************************)
(* Partition satisfies its safety properties, for every value of the       *)
(* constants.  First the lemmas for crashes and for the root chain's       *)
(* actions: they preserve IInv and nothing finalised is lost.  Then the    *)
(* theorems, each a consequence of IInv.                                   *)
(***************************************************************************)

\* Restarting a node on a store that extends the node's keeps the invariant.
LEMMA RebootStep ==
  ASSUME IInv, NEW n \in Nodes, NEW x, Reboot(n, x),
         x.blocks \subseteq Block, x.proposal = node[n].proposal,
         \A b \in x.blocks : BlockOK(b, UCs), NEW w, ChainOK(x.blocks, w, UCs),
         node[n].blocks \subseteq x.blocks,
         node[n].committedUC \in UCs => CommittedRound(node[n]) <= w.ir.round,
         proposals' \subseteq BlockProposal, \A p \in proposals' : ProposalOK(p, UCs)
  PROVE  IInv' /\ \A m \in Nodes : Durable(node[m], node'[m], UCs)
<1>1. PICK v \in Verdicts : node' = [node EXCEPT ![n] = Start(x, v)]
  BY DEF Reboot
<1> DEFINE y == Start(x, v)
<1>2. /\ node \in [Nodes -> NodeState] /\ CanStart(x)
      /\ replCh' = [replCh EXCEPT ![n] = << >>] /\ crashes' = crashes + 1
      /\ requests' = requests /\ replReqs' = replReqs /\ replResps' = replResps
      /\ root' = root /\ certs' = certs
  BY DEF Reboot, IInv, TypeOK, rootVars
<1>3. x.proposal \in Option(Block) /\ (x.proposal # Nil => PendingOK(x.proposal, UCs))
  BY <1>2 DEF IInv, NodeOK, BaseOK, DataOK, NodeState
<1>4. /\ NodeOK(y, UCs) /\ y.blocks = x.blocks
      /\ x.blocks # {} => CommittedRound(y) = w.ir.round
  <2>1. CertificatesOK(UCs)
    BY DEF IInv
  <2>2. /\ x.blocks \subseteq Block /\ \A b \in x.blocks : BlockOK(b, UCs)
        /\ ChainOK(x.blocks, w, UCs) /\ CanStart(x)
    BY <1>2
  <2> QED BY ONLY <1>3, <2>1, <2>2, StartOK, SMTT(20)
<1> HIDE DEF y
<1>5. UCs' = UCs
  BY <1>2 DEF UCs
<1>6. \A m \in Nodes : node'[m] = IF m = n THEN y ELSE node[m]
  BY <1>1, <1>2 DEF y
<1>7. \A m \in Nodes : NodeOK(node'[m], UCs)
  BY <1>4, <1>6 DEF IInv
<1>8. replCh' \in [Nodes -> Seq(LedgerReplicationRequest)]
  <2> DEFINE R == LedgerReplicationRequest
  <2>1. replCh \in [Nodes -> Seq(R)]
    BY DEF IInv, TypeOK
  <2> HIDE DEF R
  <2>2. << >> \in Seq(R)
    BY SMTT(20)
  <2>3. replCh' \in [Nodes -> Seq(R)]
    BY <1>2, <2>1, <2>2
  <2> QED BY <2>3 DEF R
<1>9. TypeOK'
  <2>1. y \in NodeState
    BY <1>4 DEF NodeOK, BaseOK
  <2>2. node' \in [Nodes -> NodeState]
    BY <1>1, <1>2, <2>1 DEF y
  <2> QED BY <1>2, <1>8, <2>2, SMTT(20) DEF IInv, TypeOK
<1>10. MessagesOK'
  BY <1>2, <1>5 DEF IInv, MessagesOK
<1>11. RootOK'
  BY <1>2, <1>5 DEF IInv, RootOK
<1>12. IInv'
  BY <1>5, <1>7, <1>9, <1>10, <1>11 DEF IInv
<1>13. Durable(node[n], y, UCs)
  <2>1. node[n].committedUC \in UCs => x.blocks # {}
    BY DEF IInv, NodeOK, BaseOK, ChainOK
  <2> QED BY <1>4, <2>1 DEF Durable
<1>14. ASSUME NEW m \in Nodes PROVE Durable(node[m], node'[m], UCs)
  <2>1. CASE m = n
    BY <1>6, <1>13, <2>1
  <2>2. CASE m # n
    BY <1>6, <2>2, SameIsDurable DEF IInv
  <2> QED BY <2>1, <2>2
<1> QED BY <1>12, <1>14

\* What the invariant says of the block store of a node.
LEMMA NodeStoreOK ==
  ASSUME IInv, NEW n \in Nodes
  PROVE  /\ node[n].blocks \subseteq Block /\ \A b \in node[n].blocks : BlockOK(b, UCs)
         /\ ChainOK(node[n].blocks, node[n].committedUC, UCs)
         /\ CommittedRound(node[n]) \in Nat
         /\ node[n].committedUC \in UCs => CommittedRound(node[n]) = node[n].committedUC.ir.round
<1>1. NodeOK(node[n], UCs) /\ CertificatesOK(UCs)
  BY DEF IInv
<1>2. CommittedRound(node[n]) \in Nat
  BY <1>1, GetType DEF NodeOK, BaseOK, NodeState, CommittedRound
<1>3. node[n].committedUC \in UCs => CommittedRound(node[n]) = node[n].committedUC.ir.round
  BY <1>1, IssuedType DEF CommittedRound
<1> QED BY <1>1, <1>2, <1>3 DEF NodeOK, BaseOK, DataOK, NodeState

\* A crash between handlers, or after sending a proposal, keeps the invariant.
LEMMA CrashStep ==
  ASSUME IInv, NEW n \in Nodes, Crash(n) \/ CrashInPropose(n)
  PROVE  IInv' /\ \A m \in Nodes : Durable(node[m], node'[m], UCs)
<1>1. Reboot(n, node[n])
  BY DEF Crash, CrashInPropose
<1>2. proposals' \subseteq BlockProposal /\ \A p \in proposals' : ProposalOK(p, UCs)
  BY ProposalType DEF Crash, CrashInPropose, IInv, TypeOK, MessagesOK
<1>3. /\ node[n].blocks \subseteq Block /\ \A b \in node[n].blocks : BlockOK(b, UCs)
      /\ ChainOK(node[n].blocks, node[n].committedUC, UCs)
      /\ node[n].committedUC \in UCs => CommittedRound(node[n]) <= node[n].committedUC.ir.round
  BY NodeStoreOK, SMTT(20)
<1> QED BY ONLY IInv, n \in Nodes, <1>1, <1>2, <1>3, RebootStep, SMTT(20)

\* A crash between storeBlock and Commit of finalizeBlock keeps the invariant.
LEMMA CrashAfterStoreStep ==
  ASSUME IInv, NEW n \in Nodes, NEW b \in Block, BlockOK(b, UCs),
         Round(b) = CommittedRound(node[n]) + 1,
         b.prevBlockHash = GetBlockHash(node[n].committedUC),
         Reboot(n, StoreBlock(node[n], b)), UNCHANGED proposals
  PROVE  IInv' /\ \A m \in Nodes : Durable(node[m], node'[m], UCs)
<1> DEFINE x == StoreBlock(node[n], b)
<1>1. /\ node[n].blocks \subseteq x.blocks /\ \A c \in x.blocks : BlockOK(c, UCs)
      /\ x.blocks \subseteq Block /\ ChainOK(x.blocks, b.uc, UCs)
  BY StoreChain DEF IInv, NodeOK
<1>2. x.proposal = node[n].proposal
  BY DEF StoreBlock, IInv, TypeOK, NodeState
<1>3. CommittedRound(node[n]) <= b.uc.ir.round
  <2>1. CommittedRound(node[n]) \in Nat
    BY NodeStoreOK
  <2> QED BY ONLY <2>1, Round(b) = CommittedRound(node[n]) + 1, SMTT(20) DEF Round
<1>4. Reboot(n, x)
  OBVIOUS
<1> HIDE DEF x
<1> QED BY <1>1, <1>2, <1>3, <1>4, RebootStep DEF IInv, TypeOK, MessagesOK

\* The same, when the block was the pending proposal.
LEMMA CrashInFinalizeStep ==
  ASSUME IInv, NEW n \in Nodes, CrashInFinalize(n)
  PROVE  IInv' /\ \A m \in Nodes : Durable(node[m], node'[m], UCs)
<1>1. PICK c \in certs : /\ CertifiesPending(node[n], c.uc)
                         /\ Reboot(n, StoreBlock(node[n], Certified(node[n].pending, c.uc)))
                         /\ UNCHANGED proposals
  BY DEF CrashInFinalize
<1>2. c.uc \in UCs
  BY DEF UCs
<1>3. LET b == Certified(node[n].pending, c.uc)
      IN  /\ b \in Block /\ BlockOK(b, UCs) /\ Round(b) = CommittedRound(node[n]) + 1
          /\ b.prevBlockHash = GetBlockHash(node[n].committedUC)
  BY <1>1, <1>2, CertifiedOK, SMTT(20) DEF CertifiesPending, ExtendsCommitted, IInv, NodeOK
<1> QED BY <1>1, <1>3, CrashAfterStoreStep

\* The same, when the block was a recovered one.
LEMMA CrashInRecoveryStep ==
  ASSUME IInv, NEW n \in Nodes, CrashInRecovery(n)
  PROVE  IInv' /\ \A m \in Nodes : Durable(node[m], node'[m], UCs)
<1> DEFINE b == First(node[n].batch)
<1>1. /\ node[n].applying /\ node[n].batch # {} /\ BlockExtends(node[n], b)
      /\ Reboot(n, StoreBlock(node[n], b)) /\ UNCHANGED proposals
  BY DEF CrashInRecovery, Idle
<1>2. /\ b \in Block /\ BlockOK(b, UCs) /\ Round(b) = CommittedRound(node[n]) + 1
      /\ b.prevBlockHash = GetBlockHash(node[n].committedUC)
  BY <1>1, BlockExtendsOK DEF IInv
<1> HIDE DEF b
<1> QED BY <1>1, <1>2, CrashAfterStoreStep

\* The root chain's next certificate, a repeat or an extension of the last, keeps the
\* invariant.
LEMMA IssueStep ==
  ASSUME IInv, NEW uc \in UnicityCertificate, NEW tr \in TechnicalRecord, Issue(uc, tr),
         tr.round = uc.ir.round + 1, tr.epoch \in Epochs,
         uc.rootRound = root.uc.rootRound + 1,
         \/ uc.ir = root.uc.ir
         \/ /\ uc.ir.round = root.uc.ir.round + 1 /\ uc.ir.prevHash = root.uc.ir.hash
            /\ RequestOK(uc.ir)
  PROVE  IInv' /\ \A m \in Nodes : Durable(node[m], node'[m], UCs)
<1>1. /\ root' = [uc |-> uc, tr |-> tr] /\ certs' = certs \cup {root'} /\ requests' = {}
      /\ UNCHANGED <<node, replCh, proposals, replReqs, replResps, crashes>>
  BY DEF Issue, nodeVars
<1>2. UCs' = UCs \cup {uc}
  BY <1>1, SMTT(20) DEF UCs
<1>3. root.uc \in UCs /\ CertificatesOK(UCs) /\ \A u \in UCs : u.rootRound <= root.uc.rootRound
  BY DEF IInv, RootOK
<1>4. /\ uc.ir.round \in Nat /\ uc.rootRound \in Nat /\ uc.ir.prevHash \in Hashes /\ uc.ir.hash \in Hashes
      /\ root.uc.ir.round \in Nat /\ root.uc.rootRound \in Nat /\ root.uc.ir.hash \in Hashes
  BY <1>3, IssuedType DEF UnicityCertificate, InputRecord
<1>5. CertificateOK(uc)
  <2>1. CertificateOK(root.uc)
    BY <1>3 DEF CertificatesOK
  <2> QED BY <1>4, <2>1, SMTT(20) DEF CertificateOK, RequestOK
<1>6. ASSUME NEW u \in UCs
      PROVE  /\ u.rootRound \in Nat /\ u.rootRound < uc.rootRound
             /\ u.ir.round \in Nat /\ u.ir.round <= uc.ir.round
             /\ u.ir.round = uc.ir.round => u.ir = uc.ir
             /\ u.ir.round < uc.ir.round => HeightOf(u.ir.hash) < HeightOf(uc.ir.hash)
             /\ u.ir.round + 1 = uc.ir.round => uc.ir.prevHash = u.ir.hash
  <2>1. u.rootRound \in Nat /\ u.ir.round \in Nat /\ u.ir.hash \in Hashes /\ u.rootRound < uc.rootRound
    <3>1. u.rootRound \in Nat /\ u.ir.round \in Nat /\ u.ir.hash \in Hashes
      BY <1>3, IssuedType
    <3>2. u.rootRound <= root.uc.rootRound
      BY <1>3
    <3> QED BY ONLY <1>4, <3>1, <3>2, uc.rootRound = root.uc.rootRound + 1, SMTT(20)
  <2>2. /\ u.ir.round <= root.uc.ir.round
        /\ u.ir.round = root.uc.ir.round => u.ir = root.uc.ir
        /\ u.ir.round < root.uc.ir.round => HeightOf(u.ir.hash) < HeightOf(root.uc.ir.hash)
        /\ u.ir.round + 1 = root.uc.ir.round => root.uc.ir.prevHash = u.ir.hash
    BY <1>3 DEF CertificatesOK, CertificatePairOK
  <2>3. CASE uc.ir = root.uc.ir
    BY <2>1, <2>2, <2>3
  <2>4. CASE /\ uc.ir.round = root.uc.ir.round + 1 /\ uc.ir.prevHash = root.uc.ir.hash
             /\ RequestOK(uc.ir)
    <3>1. HeightOf(root.uc.ir.hash) < HeightOf(uc.ir.hash)
      BY <2>4 DEF RequestOK
    <3>2. HeightOf(u.ir.hash) \in Nat /\ HeightOf(root.uc.ir.hash) \in Nat /\ HeightOf(uc.ir.hash) \in Nat
      BY <1>4, <2>1, HeightType
    <3>3. u.ir.round < uc.ir.round => HeightOf(u.ir.hash) < HeightOf(uc.ir.hash)
      BY <1>4, <2>1, <2>2, <3>1, <3>2, SMTT(20)
    <3>4. u.ir.round + 1 = uc.ir.round => uc.ir.prevHash = u.ir.hash
      BY <1>4, <2>1, <2>2, <2>4, SMTT(20)
    <3> QED BY ONLY <1>4, <2>1, <2>2, <2>4, <3>3, <3>4, SMTT(20)
  <2> QED BY <2>3, <2>4
<1>7. ASSUME NEW u \in UCs \cup {uc}, NEW w \in UCs \cup {uc}
      PROVE  CertificatePairOK(u, w)
  <2>1. CASE u \in UCs /\ w \in UCs
    BY <1>3, <2>1 DEF CertificatesOK
  <2>2. CASE u \in UCs /\ w = uc
    BY ONLY <1>4, <1>6, <2>2, SMTT(20) DEF CertificatePairOK
  <2>3. CASE u = uc /\ w \in UCs
    BY ONLY <1>4, <1>6, <2>3, SMTT(20) DEF CertificatePairOK
  <2>4. CASE u = uc /\ w = uc
    BY <1>4, <2>4, SMTT(20) DEF CertificatePairOK
  <2> QED BY <2>1, <2>2, <2>3, <2>4
<1>8. CertificatesOK(UCs')
  BY <1>2, <1>3, <1>5, <1>7 DEF CertificatesOK
<1>9. TypeOK'
  <2>1. root' \in CertificationResponse
    BY <1>1 DEF CertificationResponse
  <2> QED BY <1>1, <2>1 DEF IInv, TypeOK
<1>10. \A n \in Nodes : NodeOK(node'[n], UCs')
  BY <1>1, <1>2, <1>8, NodeMonotone DEF IInv
<1>11. MessagesOK'
  BY <1>1, <1>2 DEF IInv, MessagesOK, ProposalOK, BlockOK
<1>12. RootOK'
  <2>1. root'.uc = uc /\ root'.tr = tr
    BY <1>1
  <2>2. \A u \in UCs \cup {uc} : u.rootRound <= uc.rootRound
    BY ONLY <1>4, <1>6, SMTT(20)
  <2> QED BY <1>2, <2>1, <2>2 DEF RootOK
<1>13. IInv'
  BY <1>8, <1>9, <1>10, <1>11, <1>12 DEF IInv
<1> QED BY <1>1, <1>13, SameIsDurable DEF IInv

\* Certifying a round keeps the invariant.
LEMMA CertifyStep ==
  ASSUME IInv, Certify
  PROVE  IInv' /\ \A m \in Nodes : Durable(node[m], node'[m], UCs)
<1>0. PICK q \in requests, e \in Epochs :
        /\ q.ir.round = root.tr.round /\ q.ir.prevHash = root.uc.ir.hash
        /\ \E l \in Validators[e] :
             Issue([ir |-> q.ir, rootRound |-> root.uc.rootRound + 1],
                   [round |-> q.ir.round + 1, epoch |-> e, leader |-> l])
  BY DEF Certify
<1>1. PICK l \in Validators[e] :
        /\ q.ir.round = root.tr.round /\ q.ir.prevHash = root.uc.ir.hash
        /\ Issue([ir |-> q.ir, rootRound |-> root.uc.rootRound + 1],
                 [round |-> q.ir.round + 1, epoch |-> e, leader |-> l])
  BY <1>0
<1>2. q.ir \in InputRecord /\ RequestOK(q.ir) /\ q.ir.round \in Nat
  BY DEF IInv, TypeOK, MessagesOK, CertificationRequest, InputRecord
<1>3. root.uc.rootRound + 1 \in Nat
  BY IssuedType, SMTT(20) DEF IInv, RootOK
<1>4. l \in Nodes /\ e \in Nat
  BY ValidatorsAssumption, EpochsAssumption
<1> DEFINE uc == [ir |-> q.ir, rootRound |-> root.uc.rootRound + 1]
           tr == [round |-> q.ir.round + 1, epoch |-> e, leader |-> l]
<1>5. uc \in UnicityCertificate /\ tr \in TechnicalRecord
  BY <1>2, <1>3, <1>4, SMTT(20) DEF UnicityCertificate, TechnicalRecord
<1>6. /\ uc.ir = q.ir /\ uc.rootRound = root.uc.rootRound + 1
      /\ tr.round = q.ir.round + 1 /\ tr.epoch = e
  OBVIOUS
<1>7. Issue(uc, tr)
  BY <1>1
<1>8. q.ir.round = root.uc.ir.round + 1
  BY <1>1 DEF IInv, RootOK
<1> HIDE DEF uc, tr
<1> QED BY <1>1, <1>2, <1>5, <1>6, <1>7, <1>8, IssueStep

\* Repeating the last certificate keeps the invariant.
LEMMA RepeatStep ==
  ASSUME IInv, Repeat
  PROVE  IInv' /\ \A m \in Nodes : Durable(node[m], node'[m], UCs)
<1>1. PICK l \in Validators[root.tr.epoch] :
        Issue([root.uc EXCEPT !.rootRound = @ + 1], [root.tr EXCEPT !.leader = l])
  BY DEF Repeat
<1> DEFINE uc == [root.uc EXCEPT !.rootRound = @ + 1]
           tr == [root.tr EXCEPT !.leader = l]
<1>2. /\ root.uc \in UnicityCertificate /\ root.tr \in TechnicalRecord
      /\ root.tr.epoch \in Epochs /\ root.tr.round = root.uc.ir.round + 1
  BY DEF IInv, TypeOK, CertificationResponse, RootOK
<1>3. l \in Nodes
  BY <1>2, ValidatorsAssumption
<1>4. /\ uc \in UnicityCertificate /\ tr \in TechnicalRecord
      /\ uc.ir = root.uc.ir /\ uc.rootRound = root.uc.rootRound + 1
      /\ tr.round = root.tr.round /\ tr.epoch = root.tr.epoch
  BY <1>2, <1>3, SMTT(20) DEF UnicityCertificate, TechnicalRecord
<1>5. Issue(uc, tr)
  BY <1>1
<1> HIDE DEF uc, tr
<1> QED BY <1>2, <1>4, <1>5, IssueStep

\* The invariant holds when all nodes are started on empty stores.
LEMMA InitIInv ==
  ASSUME Init
  PROVE  IInv
<1> DEFINE y == Start(EmptyStore, FALSE)
<1>1. PICK l \in Validators[0] : root = [uc |-> InitialUC, tr |-> [round |-> 1, epoch |-> 0, leader |-> l]]
  BY DEF Init
<1>2. l \in Nodes /\ 0 \in Epochs
  BY ValidatorsAssumption, EpochsAssumption
<1>3. UCs = {InitialUC}
  BY <1>1, SMTT(20) DEF Init, UCs
<1>4. /\ InitialUC \in UnicityCertificate /\ InitialUC.rootRound = 1 /\ InitialUC.ir.round = 0
      /\ InitialUC.ir.hash = Nil /\ InitialUC.ir.blockHash = << >>
  BY SMTT(20) DEF InitialUC, InitialIR, UnicityCertificate, InputRecord, Hashes, BlockHashes
<1>5. CertificatesOK(UCs)
  BY <1>3, <1>4, SMTT(20) DEF CertificatesOK, CertificateOK, CertificatePairOK
<1>6. NodeOK(y, UCs)
  <2>1. EmptyStore.blocks = {} /\ EmptyStore.proposal = Nil
    BY DEF EmptyStore
  <2>2. CanStart(EmptyStore)
    BY <2>1, EpochsAssumption DEF CanStart, StoredEpoch, LastStoredUC
  <2>3. ChainOK({}, Nil, UCs)
    BY <1>5, IssuedType DEF ChainOK
  <2> QED BY <1>5, <2>1, <2>2, <2>3, StartOK DEF Option
<1> HIDE DEF y
<1>7. node = [n \in Nodes |-> y] /\ y \in NodeState
  BY <1>6 DEF Init, y, NodeOK, BaseOK
<1>8. \A n \in Nodes : NodeOK(node[n], UCs)
  BY <1>6, <1>7
<1>9. root \in CertificationResponse
  BY <1>1, <1>2, <1>4 DEF CertificationResponse, TechnicalRecord
<1>10. replCh \in [Nodes -> Seq(LedgerReplicationRequest)]
  <2> DEFINE R == LedgerReplicationRequest
  <2> HIDE DEF R
  <2>1. << >> \in Seq(R)
    BY SMTT(20)
  <2>2. replCh \in [Nodes -> Seq(R)]
    BY <2>1 DEF Init
  <2> QED BY <2>2 DEF R
<1>11. TypeOK
  BY <1>7, <1>9, <1>10 DEF Init, TypeOK
<1>12. MessagesOK
  BY DEF Init, MessagesOK
<1>13. RootOK
  BY <1>1, <1>2, <1>3, <1>4, SMTT(20) DEF RootOK
<1> QED BY <1>5, <1>8, <1>11, <1>12, <1>13 DEF IInv

\* Every step keeps the invariant and loses nothing finalised.
LEMMA NextIInv ==
  ASSUME IInv, [Next]_vars
  PROVE  IInv' /\ \A m \in Nodes : Durable(node[m], node'[m], UCs)
<1>1. ASSUME NEW n \in Nodes,
             \/ HandleCertificationResponse(n) \/ ReceiveBlockProposal(n)
             \/ HandleT1TimeoutEvent(n)
             \/ HandleLedgerReplicationRequest(n) \/ ProcessReplicationRequest(n)
             \/ ReceiveLedgerReplicationResponse(n) \/ ApplyBlock(n) \/ FinishReplication(n)
             \/ HandleMonitoring(n) \/ EpochChange(n)
             \/ Crash(n) \/ CrashInFinalize(n) \/ CrashInRecovery(n) \/ CrashInPropose(n)
      PROVE  IInv' /\ \A m \in Nodes : Durable(node[m], node'[m], UCs)
  BY <1>1, HandleCertificationResponseStep, ReceiveBlockProposalStep, HandleT1TimeoutEventStep,
     HandleLedgerReplicationRequestStep, ProcessReplicationRequestStep,
     ReceiveLedgerReplicationResponseStep, ApplyBlockStep, FinishReplicationStep,
     HandleMonitoringStep, EpochChangeStep, CrashStep, CrashInFinalizeStep, CrashInRecoveryStep
<1>2. CASE UNCHANGED vars
  BY <1>2, MessageStep DEF vars, nodeVars, msgVars, rootVars, IInv, TypeOK, MessagesOK
<1> QED BY <1>1, <1>2, CertifyStep, RepeatStep DEF Next

\* The inductive invariant holds for any number of nodes, rounds, epochs and crashes.
THEOREM Invariance == Spec => []IInv
<1>1. Init => IInv
  BY InitIInv
<1>2. IInv /\ [Next]_vars => IInv'
  BY NextIInv
<1> QED BY <1>1, <1>2, PTL DEF Spec

\* Every variable keeps its type.
THEOREM TypeCorrect == Spec => []TypeOK
<1>1. IInv => TypeOK
  BY DEF IInv
<1> QED BY <1>1, Invariance, PTL

\* finalizeBlock only ever stores a block under the certificate that certifies it.
THEOREM StoredBlocksAreCertified == Spec => []StoredBlocksCertified
<1>1. IInv => StoredBlocksCertified
  BY DEF IInv, NodeOK, BaseOK, DataOK, BlockOK, StoredBlocksCertified
<1> QED BY <1>1, Invariance, PTL

\* Two valid blocks with the same input record have the same header, since the block hash
\* in the record commits to it.
LEMMA ValidBlockInjective ==
  ASSUME NEW b \in Block, NEW c \in Block, ValidBlock(b), ValidBlock(c), b.uc.ir = c.uc.ir,
         b.uc.ir.hash # b.uc.ir.prevHash
  PROVE  b.proposer = c.proposer /\ b.prevBlockHash = c.prevBlockHash
<1> DEFINE R == [proposer : Nodes, prevHash : Hashes, hash : Hashes]
           e(d) == [proposer |-> d.proposer, prevHash |-> b.uc.ir.prevHash, hash |-> b.uc.ir.hash]
<1>1. /\ b.prevBlockHash \in Seq(R) /\ c.prevBlockHash \in Seq(R) /\ b.proposer \in Nodes
      /\ c.proposer \in Nodes /\ b.uc.ir.prevHash \in Hashes /\ b.uc.ir.hash \in Hashes
  BY DEF Block, BlockHashes, UnicityCertificate, InputRecord
<1>2. e(b) \in R /\ e(c) \in R
  BY <1>1
<1>3. Append(b.prevBlockHash, e(b)) = Append(c.prevBlockHash, e(c))
  BY DEF ValidBlock, CalculateBlockHash
<1>4. b.prevBlockHash = c.prevBlockHash /\ e(b) = e(c)
  <2> HIDE DEF R, e
  <2> QED BY <1>1, <1>2, <1>3, AppendInjective, SMTT(20)
<1> QED BY <1>4

\* Two nodes never store different blocks for a round: all ledgers agree, whatever was lost,
\* reordered, recovered or restarted in between.
THEOREM Agreement == Spec => []LedgersAgree
<1>1. IInv => LedgersAgree
  <2> SUFFICES ASSUME IInv, NEW m \in Nodes, NEW n \in Nodes,
                      NEW b \in node[m].blocks, NEW c \in node[n].blocks, Round(b) = Round(c)
               PROVE  /\ b.uc.ir = c.uc.ir
                      /\ b.proposer = c.proposer /\ b.prevBlockHash = c.prevBlockHash
    BY SMTT(20) DEF LedgersAgree
  <2>1. b \in Block /\ c \in Block /\ BlockOK(b, UCs) /\ BlockOK(c, UCs) /\ CertificatesOK(UCs)
    BY NodeStoreOK DEF IInv
  <2>2. b.uc.ir = c.uc.ir
    BY <2>1 DEF BlockOK, Round, CertificatesOK, CertificatePairOK
  <2>3. b.uc.ir.hash # b.uc.ir.prevHash
    <3>1. b.uc.ir.hash \in Hashes
      BY <2>1, IssuedType DEF BlockOK
    <3>2. HeightOf(b.uc.ir.prevHash) < HeightOf(b.uc.ir.hash)
      BY <2>1 DEF BlockOK, CertificatesOK, CertificateOK
    <3> QED BY <3>1, <3>2, HeightType, SMTT(20)
  <2> QED BY <2>1, <2>2, <2>3, ValidBlockInjective DEF BlockOK
<1> QED BY <1>1, Invariance, PTL

\* Every block store is a chain without gaps up to the committed block.
THEOREM ChainIntegrity == Spec => []LedgerIsChain
<1>1. IInv => LedgerIsChain
  <2> SUFFICES ASSUME IInv, NEW n \in Nodes
               PROVE  LET x == node[n] IN
                        /\ x.committedUC \in UCs => \E b \in x.blocks : b.uc = x.committedUC
                        /\ \A b \in x.blocks :
                             \/ b.uc.ir = x.committedUC.ir
                             \/ \E c \in x.blocks : /\ Round(c) = Round(b) + 1
                                                    /\ c.prevBlockHash = b.uc.ir.blockHash
                                                    /\ c.uc.ir.prevHash = b.uc.ir.hash
    BY DEF LedgerIsChain
  <2>1. ChainOK(node[n].blocks, node[n].committedUC, UCs) /\ \A b \in node[n].blocks : b.uc \in UCs
    BY NodeStoreOK DEF BlockOK
  <2>2. \A b \in node[n].blocks :
          Round(b) = node[n].committedUC.ir.round => b.uc.ir = node[n].committedUC.ir
    BY <2>1 DEF ChainOK, IInv, CertificatesOK, CertificatePairOK, Round
  <2> QED BY <2>1, <2>2 DEF ChainOK, Links
<1> QED BY <1>1, Invariance, PTL

\* A node in normal mode has committed what its latest certificate certifies, so what it
\* proposes or votes for builds on it.
THEOREM UpToDate == Spec => []NormalIsUpToDate
<1>1. IInv => NormalIsUpToDate
  BY InSyncHash DEF NormalIsUpToDate, IInv, NodeOK, ModesOK
<1> QED BY <1>1, Invariance, PTL

\* Every certified round finalises a higher PoW block than the rounds before it.
THEOREM HeightsIncrease == Spec => []FinalizedHeightsIncrease
<1>1. IInv => FinalizedHeightsIncrease
  BY DEF FinalizedHeightsIncrease, IInv, CertificatesOK, CertificatePairOK
<1> QED BY <1>1, Invariance, PTL

\* No proposal or state change is pending during recovery.
THEOREM RecoveryClean == Spec => []RecoveryStartsClean
<1>1. IInv => RecoveryStartsClean
  BY DEF RecoveryStartsClean, IInv, NodeOK, ModesOK
<1> QED BY <1>1, Invariance, PTL

\* No stored block and no certified commit is ever lost, through errors, recoveries and
\* crashes at any point.
THEOREM Durability == Spec => FinalityIsDurable
<1>1. IInv /\ [Next]_vars =>
        [\A n \in Nodes : /\ node[n].blocks \subseteq node[n].blocks'
                          /\ node[n].committedUC \in UCs
                               => CommittedRound(node[n]) <= CommittedRound(node[n])']_vars
  BY NextIInv DEF Durable
<1> QED BY <1>1, Invariance, PTL DEF Spec, FinalityIsDurable

-----------------------------------------------------------------------------
(***************************************************************************)
(* Partition implements FinalityLedger: a certification extends the list   *)
(* of final blocks, any other step that changes something the ledger shows *)
(* adds final blocks to the copies, and the rest are stuttering steps.     *)
(***************************************************************************)
\* What a certificate of a round that is not the initial one contributes to the ledger.
LEMMA EntryOK ==
  ASSUME IInv, NEW u \in UCs
  PROVE  /\ u.ir.round \in Nat /\ u.ir.hash \in Hashes
         /\ u.ir.round > 0 <=> u.ir.hash # Nil
         /\ u.ir.round > 0 => Entry(u) \in FinalBlocks
         /\ Entry(u).round = u.ir.round /\ Entry(u).hash = u.ir.hash
<1>1. CertificatesOK(UCs)
  BY DEF IInv
<1>2. u.ir.round \in Nat /\ u.ir.hash \in Hashes
  BY <1>1, IssuedType
<1>3. u.ir.round = 0 <=> u.ir.hash = Nil
  BY <1>1 DEF CertificatesOK, CertificateOK
<1> QED BY <1>2, <1>3, SMTT(20) DEF Entry, FinalBlocks

\* The copies of the ledger show final blocks only, and have no gaps.
LEMMA HeldOK ==
  ASSUME IInv, NEW n \in Nodes
  PROVE  /\ HeldBlocks[n] = {Entry(b.uc) : b \in node[n].blocks}
         /\ HeldBlocks[n] \subseteq FinalBlocks
         /\ Ledger!Gapless(HeldBlocks[n])
<1>1. HeldBlocks[n] = {Entry(b.uc) : b \in node[n].blocks}
  BY DEF HeldBlocks
<1>2. /\ \A b \in node[n].blocks : BlockOK(b, UCs)
      /\ ChainOK(node[n].blocks, node[n].committedUC, UCs)
  BY NodeStoreOK
<1>3. \A b \in node[n].blocks : /\ Entry(b.uc) \in FinalBlocks
                                /\ Entry(b.uc).round = Round(b) /\ Round(b) \in Nat
  BY <1>2, EntryOK DEF BlockOK, Round
<1>4. ASSUME NEW b \in node[n].blocks
      PROVE  \/ \E g \in HeldBlocks[n] : g.round = Entry(b.uc).round + 1
             \/ \A g \in HeldBlocks[n] : g.round <= Entry(b.uc).round
  <2>1. node[n].committedUC \in UCs
    BY <1>2 DEF ChainOK
  <2>2. CASE Round(b) = node[n].committedUC.ir.round
    <3>1. \A c \in node[n].blocks : Round(c) <= Round(b)
      BY <1>2, <1>3, <2>1, <2>2, EntryOK, SMTT(20) DEF ChainOK
    <3> QED BY <1>1, <1>3, <3>1
  <2>3. CASE \E c \in node[n].blocks : Links(b, c)
    BY <1>1, <1>3, <2>3 DEF Links
  <2> QED BY <1>2, <2>2, <2>3 DEF ChainOK
<1> QED BY <1>1, <1>3, <1>4 DEF Ledger!Gapless

\* A step that issues no certificate adds final blocks to the copies, or does nothing.
LEMMA StoreRefines ==
  ASSUME IInv, IInv', \A m \in Nodes : Durable(node[m], node'[m], UCs), certs' = certs
  PROVE  Ledger!Store
<1>1. UCs' = UCs
  BY DEF UCs
<1>2. FinalBlocks' = FinalBlocks
  BY <1>1 DEF FinalBlocks
<1>3. ASSUME NEW n \in Nodes
      PROVE  /\ HeldBlocks[n] \subseteq HeldBlocks'[n] /\ HeldBlocks'[n] \subseteq FinalBlocks
             /\ Ledger!Gapless(HeldBlocks'[n])
  <2>1. (HeldBlocks[n] \subseteq FinalBlocks /\ Ledger!Gapless(HeldBlocks[n]))'
    BY HeldOK, PTL
  <2>2. node[n].blocks \subseteq node'[n].blocks
    BY DEF Durable
  <2>3. /\ HeldBlocks[n] = {Entry(b.uc) : b \in node[n].blocks}
        /\ HeldBlocks'[n] = {Entry(b.uc) : b \in node'[n].blocks}
    BY DEF HeldBlocks
  <2> QED BY <1>2, <2>1, <2>2, <2>3
<1>4. HeldBlocks' \in [Nodes -> SUBSET FinalBlocks]
  <2>1. HeldBlocks' = [n \in Nodes |-> HeldBlocks'[n]]
    BY DEF HeldBlocks
  <2> QED BY <1>3, <2>1
<1> QED BY <1>2, <1>3, <1>4 DEF Ledger!Store

\* Repeating a certificate shows in no ledger.
LEMMA RepeatRefines ==
  ASSUME IInv, Repeat
  PROVE  UNCHANGED <<FinalBlocks, HeldBlocks>>
<1>1. PICK uc : certs' = certs \cup {[uc |-> uc, tr |-> root'.tr]} /\ uc.ir = root.uc.ir /\ node' = node
  <2>1. PICK l \in Validators[root.tr.epoch] :
          Issue([root.uc EXCEPT !.rootRound = @ + 1], [root.tr EXCEPT !.leader = l])
    BY DEF Repeat
  <2>2. root.uc \in UnicityCertificate
    BY DEF IInv, TypeOK, CertificationResponse
  <2>3. [root.uc EXCEPT !.rootRound = @ + 1].ir = root.uc.ir
    BY <2>2 DEF UnicityCertificate
  <2> QED BY <2>1, <2>3 DEF Issue, nodeVars
<1>2. UCs' = UCs \cup {uc} /\ root.uc \in UCs
  <2>1. root.uc \in UCs
    BY DEF IInv, RootOK
  <2>2. [uc |-> uc, tr |-> root'.tr].uc = uc
    OBVIOUS
  <2> QED BY <1>1, <2>1, <2>2 DEF UCs
<1>3. FinalBlocks' = FinalBlocks
  BY <1>1, <1>2 DEF FinalBlocks, Entry
<1>4. HeldBlocks' = HeldBlocks
  BY <1>1 DEF HeldBlocks
<1> QED BY <1>3, <1>4

\* Certifying a round makes the next, higher PoW block final.
LEMMA CertifyRefines ==
  ASSUME IInv, IInv', Certify
  PROVE  Ledger!Finalize
<1>1. PICK q \in requests, e \in Epochs :
        /\ q.ir.round = root.tr.round
        /\ \E l \in Validators[e] :
             Issue([ir |-> q.ir, rootRound |-> root.uc.rootRound + 1],
                   [round |-> q.ir.round + 1, epoch |-> e, leader |-> l])
  BY DEF Certify
<1> DEFINE uc == [ir |-> q.ir, rootRound |-> root.uc.rootRound + 1]
           r == uc.ir.round
           h == uc.ir.hash
<1>2. certs' = certs \cup {root'} /\ root'.uc = uc /\ node' = node
  BY <1>1, SMTT(20) DEF Issue, nodeVars
<1>3. UCs' = UCs \cup {uc} /\ root.uc \in UCs
  BY <1>2 DEF UCs, IInv, RootOK
<1>4. r = root.uc.ir.round + 1 /\ root.uc.ir.round \in Nat
  BY <1>1, <1>3, EntryOK DEF IInv, RootOK
<1>5. r \in Nat /\ r > 0 /\ h \in PoWBlocks
  <2>1. RequestOK(q.ir) /\ q.ir \in InputRecord
    BY DEF IInv, MessagesOK, TypeOK, CertificationRequest
  <2> QED BY <1>4, <2>1, SMTT(20) DEF RequestOK, InputRecord, Hashes
<1> HIDE DEF uc
<1>6. FinalBlocks' = FinalBlocks \cup {[round |-> r, hash |-> h]}
  BY <1>3, <1>5 DEF FinalBlocks, Entry
<1>7. r \in {1} \cup {f.round + 1 : f \in FinalBlocks}
  <2>1. root.uc.ir.round > 0 => /\ Entry(root.uc) \in FinalBlocks
                                /\ Entry(root.uc).round = root.uc.ir.round
    BY <1>3, EntryOK
  <2> QED BY <1>4, <2>1, SMTT(20)
<1>8. ASSUME NEW f \in FinalBlocks PROVE f.round < r /\ Height[f.hash] < Height[h]
  <2>1. PICK u \in UCs : u.ir.round > 0 /\ f = Entry(u)
    BY DEF FinalBlocks
  <2>2. /\ u.ir.round \in Nat /\ u.ir.hash # Nil
        /\ f.round = u.ir.round /\ f.hash = u.ir.hash
    BY <2>1, EntryOK
  <2>3. u.ir.round <= root.uc.ir.round
    BY <1>3 DEF IInv, CertificatesOK, CertificatePairOK, RootOK
  <2>4. u.ir.round < r
    BY <1>4, <2>2, <2>3, SMTT(20)
  <2>5. CertificatesOK(UCs')
    BY DEF IInv
  <2>6. HeightOf(u.ir.hash) < HeightOf(h)
    BY <1>3, <2>4, <2>5 DEF CertificatesOK, CertificatePairOK
  <2>7. h # Nil
    BY <1>5, NilAssumption
  <2> QED BY <2>2, <2>4, <2>6, <2>7 DEF HeightOf
<1>9. HeldBlocks' = HeldBlocks
  BY <1>2 DEF HeldBlocks
<1> HIDE DEF r, h
<1> QED BY <1>5, <1>6, <1>7, <1>8, <1>9 DEF Ledger!Finalize

\* Only the root chain issues certificates.
LEMMA OnlyRootCertifies ==
  ASSUME [Next]_vars
  PROVE  certs' = certs \/ Certify \/ Repeat
<1>1. ASSUME NEW n \in Nodes,
             \/ HandleCertificationResponse(n) \/ ReceiveBlockProposal(n)
             \/ HandleT1TimeoutEvent(n) \/ ReceiveLedgerReplicationResponse(n)
             \/ ApplyBlock(n) \/ FinishReplication(n) \/ EpochChange(n)
      PROVE  certs' = certs
  BY <1>1 DEF HandleCertificationResponse, ReceiveBlockProposal, HandleT1TimeoutEvent,
       ReceiveLedgerReplicationResponse, ApplyBlock, FinishReplication, EpochChange, Handle, rootVars
<1>2. ASSUME NEW n \in Nodes,
             \/ HandleLedgerReplicationRequest(n) \/ ProcessReplicationRequest(n)
             \/ HandleMonitoring(n)
      PROVE  certs' = certs
  BY <1>2 DEF HandleLedgerReplicationRequest, ProcessReplicationRequest, HandleMonitoring, rootVars
<1>3. ASSUME NEW n \in Nodes,
             \/ Crash(n) \/ CrashInFinalize(n) \/ CrashInRecovery(n) \/ CrashInPropose(n)
      PROVE  certs' = certs
  BY <1>3 DEF Crash, CrashInFinalize, CrashInRecovery, CrashInPropose, Reboot, rootVars
<1>4. CASE UNCHANGED vars
  BY <1>4 DEF vars, rootVars
<1> QED BY <1>1, <1>2, <1>3, <1>4 DEF Next

\* The nodes of a shard, with all their messages, failures and restarts, implement one
\* ledger of final PoW blocks that every node copies in order and never forgets.
THEOREM Refinement == Spec => ImplementsLedger
<1>1. ASSUME Init PROVE Ledger!Init
  <2>1. \A u \in UCs : u.ir.round = 0
    BY <1>1, SMTT(20) DEF Init, UCs, InitialUC, InitialIR
  <2>2. FinalBlocks = {}
    BY <2>1, SMTT(20) DEF FinalBlocks
  <2>3. \A n \in Nodes : node[n].blocks = {}
    BY <1>1 DEF Init, Start, EmptyStore
  <2>4. HeldBlocks = [n \in Nodes |-> {}]
    BY <2>3 DEF HeldBlocks
  <2> QED BY <2>2, <2>4 DEF Ledger!Init
<1>2. ASSUME IInv, [Next]_vars PROVE [Ledger!Next]_(Ledger!ledgerVars)
  <2>1. IInv' /\ \A m \in Nodes : Durable(node[m], node'[m], UCs)
    BY <1>2, NextIInv
  <2>2. CASE certs' = certs
    BY <1>2, <2>1, <2>2, StoreRefines DEF Ledger!Next
  <2>3. CASE Certify
    BY <1>2, <2>1, <2>3, CertifyRefines DEF Ledger!Next
  <2>4. CASE Repeat
    BY <1>2, <2>4, RepeatRefines DEF Ledger!ledgerVars
  <2> QED BY <1>2, <2>2, <2>3, <2>4, OnlyRootCertifies
<1> QED BY <1>1, <1>2, Invariance, PTL DEF Spec, ImplementsLedger, Ledger!Spec
=============================================================================
