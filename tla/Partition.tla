----------------------------- MODULE Partition -----------------------------
(***************************************************************************)
(* The nodes of one partition (shard), the messages between them and the   *)
(* root chain that certifies their blocks.                                 *)
(*                                                                         *)
(* Every message ever sent stays in its set and may be handled any number  *)
(* of times, in any order, or never: loss, delay, reordering and the       *)
(* duplicates that re-sent handshakes and repeated replication requests    *)
(* bring about are all behaviours of the model.  A handler is one step,    *)
(* except that the blocks of a replication response are applied one per    *)
(* step, so that other nodes, the node's own workers and crashes come in   *)
(* between.  A node is idle between two iterations of its main loop.       *)
(***************************************************************************)
EXTENDS PartitionNode

CONSTANTS
  Faults,           \* the faults handlers may run into
  MaxFetchBlocks,   \* replicationConfig.maxFetchBlocks
  MaxReturnBlocks,  \* replicationConfig.maxReturnBlocks
  MaxWorkers,       \* replicationConfig.maxWorkers, capacity of replicationCh
  MaxRootRound,     \* bound: root rounds of a behaviour
  MaxCrashes        \* bound: crashes of a behaviour

ASSUME ReplicationAssumption ==
  MaxFetchBlocks \in Nat /\ MaxReturnBlocks \in Nat \ {0} /\ MaxWorkers \in Nat \ {0}
ASSUME BoundsAssumption == MaxRootRound \in Nat /\ MaxCrashes \in Nat
ASSUME FaultsAssumption == Faults \subseteq {"storeBlock", "storeProposal", "send", "pow"}

VARIABLES
  node,       \* node[n]: the state of node n
  replCh,     \* replCh[n]: the requests queued for n's replication workers
  proposals,  \* block proposals sent
  requests,   \* block certification requests the root chain may still act on
  replReqs,   \* ledger replication requests sent
  replResps,  \* ledger replication responses sent
  root,       \* the root chain's latest response for the shard
  certs,      \* every certification response it has issued
  crashes     \* number of crashes so far

nodeVars == <<node, replCh>>
msgVars == <<proposals, requests, replReqs, replResps>>
rootVars == <<root, certs>>
vars == <<nodeVars, msgVars, rootVars, crashes>>

CertificationRequest == [node : Nodes, ir : InputRecord]
LedgerReplicationRequest == [node : Nodes, begin : Nat, to : SUBSET Nodes]
LedgerReplicationResponse == [to : Nodes, ok : BOOLEAN, blocks : SUBSET Block]

\* What the writes and sends of a handler come to: certificates and recovered blocks
\* make a node write blocks, the leader's round writes and sends its proposal.
Outcomes == {"ok"} \cup (Faults \ {"pow"})
BlockOutcomes == Outcomes \cap {"ok", "storeBlock"}
ProposalOutcomes == Outcomes \ {"storeBlock"}

\* Whether the PoW node vouches for a block.
Verdicts == {TRUE} \cup {"pow" \notin Faults}

-----------------------------------------------------------------------------
InitialIR == [round |-> 0, epoch |-> 0, prevHash |-> Nil, hash |-> Nil,
              ts |-> 0, blockHash |-> << >>]
InitialUC == [ir |-> InitialIR, rootRound |-> 1]

\* A node's data directory before its first start.
EmptyStore == [blocks |-> {}, proposal |-> Nil]

Init ==
  /\ node = [n \in Nodes |-> Start(EmptyStore, FALSE)]
  /\ replCh = [n \in Nodes |-> << >>]
  /\ proposals = {} /\ requests = {} /\ replReqs = {} /\ replResps = {}
  /\ \E l \in Validators[0] :
       root = [uc |-> InitialUC, tr |-> [round |-> 1, epoch |-> 0, leader |-> l]]
  /\ certs = {root}
  /\ crashes = 0

-----------------------------------------------------------------------------
(***************************************************************************)
(* What a handler that takes node n from x to y sends.                     *)
(***************************************************************************)
\* Whoever sends a request ends up with a state change of a proposal it did not have
\* before (after an error the leader may well propose, and request, the same again).
\* A request for a round the root chain has already closed is of no effect.
CertificationRequests(n, x, y, o) ==
  {q \in {[node |-> n, ir |-> b.uc.ir] : b \in {y.pending} \ {Nil}} :
     /\ y.pendingHash # Nil
     /\ <<y.pending, y.pendingHash>> # <<x.pending, x.pendingHash>>
     /\ o # "send" /\ q.ir.ts = root.uc.rootRound}

\* Fault model: the request starts at the wrong block.
LedgerRequestTooEarly(n, y) ==
  [node |-> n, begin |-> CommittedRound(y) - 1, to |-> Validators[y.confEpoch] \ {n}]

\* sendLedgerReplicationRequest tries the other validators in random order.
LedgerRequest(n, y) ==
  [node |-> n, begin |-> CommittedRound(y) + 1, to |-> Validators[y.confEpoch] \ {n}]

\* startRecovery sends a request when it is what made the node recover.
RecoveryRequests(n, x, y) ==
  IF x.status # "recovering" /\ y.status = "recovering" THEN {LedgerRequest(n, y)} ELSE {}

Handle(n, y, o) ==
  /\ node' = [node EXCEPT ![n] = y]
  /\ requests' = requests \cup CertificationRequests(n, node[n], y, o)
  /\ UNCHANGED <<replCh, replResps, rootVars, crashes>>

Idle(n) == ~ node[n].applying

(***************************************************************************)
(* Messages from the root chain and from the round's leader.               *)
(***************************************************************************)
HandleCertificationResponse(n) ==
  \E c \in certs, o \in BlockOutcomes :
    LET y == HandleUnicityCertificate(node[n], c.uc, c.tr, o)
    IN  /\ Idle(n)
        /\ o = "ok" \/ CertifiesPending(node[n], c.uc)
        /\ Handle(n, y, o)
        /\ replReqs' = replReqs \cup RecoveryRequests(n, node[n], y)
        /\ UNCHANGED proposals

ReceiveBlockProposal(n) ==
  \E p \in proposals, v \in Verdicts, o \in Outcomes :
    LET y == HandleBlockProposal(node[n], p, v, o)
    IN  /\ Idle(n)
        /\ n \in p.to
        /\ Handle(n, y, o)
        /\ replReqs' = replReqs \cup RecoveryRequests(n, node[n], y)
        /\ UNCHANGED proposals

(***************************************************************************)
(* The T1 timer fires on the leader.                                       *)
(***************************************************************************)
IsLeader(n) == node[n].status # "recovering" /\ Leader(node[n]) = n

Proposal(n, h) ==
  [node |-> n, uc |-> node[n].luc, tr |-> node[n].ltr, root |-> h,
   to |-> Validators[node[n].confEpoch] \ {n}]

\* LeaderPropose fails when the PoW chain has nothing new that is final enough.
NoCandidate(n) ==
  IF "pow" \in Faults \/ Candidates(node[n]) = {} THEN {Nil} ELSE {}

HandleT1TimeoutEvent(n) ==
  \E h \in Candidates(node[n]) \cup NoCandidate(n), o \in ProposalOutcomes :
    /\ Idle(n) /\ IsLeader(n)
    /\ Handle(n, LeaderRound(node[n], n, h, o), o)
    /\ proposals' = proposals \cup (IF h = Nil THEN {} ELSE {Proposal(n, h)})
    /\ UNCHANGED replReqs

(***************************************************************************)
(* Ledger replication: the side that has the blocks.                       *)
(***************************************************************************)
Respond(r, ok, blocks) ==
  replResps' = replResps \cup {[to |-> r.node, ok |-> ok, blocks |-> blocks]}

HandleLedgerReplicationRequest(n) ==
  \E r \in replReqs :
    LET missing == \/ r.begin <= GetRoundNumber(node[n].fuc)
                   \/ CommittedRound(node[n]) < r.begin
        full == Len(replCh[n]) = MaxWorkers
    IN  /\ Idle(n)
        /\ n \in r.to
        /\ \/ /\ missing \/ full            \* BlocksNotFound or Busy
              /\ Respond(r, FALSE, {})
              /\ UNCHANGED replCh
           \/ /\ ~ missing /\ ~ full
              /\ replCh' = [replCh EXCEPT ![n] = Append(@, r)]
              /\ UNCHANGED replResps
        /\ UNCHANGED <<node, proposals, requests, replReqs, rootVars, crashes>>

\* A worker, concurrent with the main loop, serves the oldest queued request.
ProcessReplicationRequest(n) ==
  /\ replCh[n] # << >>
  /\ LET r == Head(replCh[n])
     IN  Respond(r, TRUE, ReplicatedBlocks(node[n].blocks, r.begin,
                                         r.begin + MaxFetchBlocks, MaxReturnBlocks))
  /\ replCh' = [replCh EXCEPT ![n] = Tail(@)]
  /\ UNCHANGED <<node, proposals, requests, replReqs, rootVars, crashes>>

(***************************************************************************)
(* Ledger replication: the recovering side.                                *)
(***************************************************************************)
ReceiveLedgerReplicationResponse(n) ==
  \E m \in replResps :
    /\ Idle(n)
    /\ m.to = n
    /\ Handle(n, HandleLedgerReplicationResponse(node[n], m.ok, m.blocks), "ok")
    /\ UNCHANGED <<proposals, replReqs>>

ApplyBlock(n) ==
  \E v \in Verdicts, o \in BlockOutcomes :
    /\ ~ Idle(n) /\ node[n].batch # {}
    /\ Handle(n, HandleBlock(node[n], v, o), o)
    /\ UNCHANGED <<proposals, replReqs>>

FinishReplication(n) ==
  \E v \in Verdicts, o \in Outcomes :
    LET y == FinishBatch(node[n], v, o)
    IN  /\ ~ Idle(n) /\ node[n].batch = {}
        /\ Handle(n, y, o)
        /\ replReqs' = replReqs \cup
             (IF y.status = "recovering" THEN {LedgerRequest(n, y)} ELSE {})
        /\ UNCHANGED proposals

\* handleMonitoring: the last request has been unanswered for too long.
HandleMonitoring(n) ==
  /\ Idle(n) /\ node[n].status = "recovering"
  /\ replReqs' = replReqs \cup {LedgerRequest(n, node[n])}
  /\ UNCHANGED <<nodeVars, proposals, requests, replResps, rootVars, crashes>>

EpochChange(n) ==
  /\ Idle(n) /\ node[n].epochEvent
  /\ Handle(n, HandleEpochChangeEvent(node[n]), "ok")
  /\ UNCHANGED <<proposals, replReqs>>

(***************************************************************************)
(* A node stops at any moment and is started again on its block store.     *)
(* Three places inside a handler leave something other than the state      *)
(* before or after it: a block is in the store and not yet committed, the  *)
(* same for a recovered block, and a proposal is sent but not yet stored.  *)
(***************************************************************************)
Reboot(n, x) ==
  /\ crashes < MaxCrashes
  /\ CanStart(x)
  /\ \E v \in Verdicts : node' = [node EXCEPT ![n] = Start(x, v)]
  /\ replCh' = [replCh EXCEPT ![n] = << >>]
  /\ crashes' = crashes + 1
  /\ UNCHANGED <<requests, replReqs, replResps, rootVars>>

Crash(n) == Reboot(n, node[n]) /\ UNCHANGED proposals

CrashInFinalize(n) ==
  \E c \in certs :
    /\ Idle(n)
    /\ CertifiesPending(node[n], c.uc)
    /\ Reboot(n, StoreBlock(node[n], Certified(node[n].pending, c.uc)))
    /\ UNCHANGED proposals

CrashInRecovery(n) ==
  /\ ~ Idle(n) /\ node[n].batch # {}
  /\ LET b == First(node[n].batch)
     IN  BlockExtends(node[n], b) /\ Reboot(n, StoreBlock(node[n], b))
  /\ UNCHANGED proposals

CrashInPropose(n) ==
  \E h \in Candidates(node[n]) :
    /\ Idle(n) /\ IsLeader(n)
    /\ Reboot(n, node[n])
    /\ proposals' = proposals \cup {Proposal(n, h)}

-----------------------------------------------------------------------------
(***************************************************************************)
(* The root chain (bft-core, external): it certifies a record a majority   *)
(* of the epoch's validators agrees on, or repeats the last one when none  *)
(* arrives in time, and appoints the next leader.                          *)
(***************************************************************************)
Issue(uc, tr) ==
  /\ root.uc.rootRound < MaxRootRound
  /\ root' = [uc |-> uc, tr |-> tr]
  /\ certs' = certs \cup {root'}
  /\ requests' = {}
  /\ UNCHANGED <<nodeVars, proposals, replReqs, replResps, crashes>>

Certify ==
  \E ir \in {q.ir : q \in requests}, e \in Epochs :
    LET V == Validators[root.tr.epoch]
        votes == {n \in V : [node |-> n, ir |-> ir] \in requests}
    IN  /\ ir.round = root.tr.round /\ ir.epoch = root.tr.epoch
        /\ ir.prevHash = root.uc.ir.hash /\ ir.ts = root.uc.rootRound
        /\ 2 * Cardinality(votes) > Cardinality(V)
        /\ e \in {ir.epoch, ir.epoch + 1}
        /\ \E l \in Validators[e] :
             Issue([ir |-> ir, rootRound |-> root.uc.rootRound + 1],
                   [round |-> ir.round + 1, epoch |-> e, leader |-> l])

Repeat ==
  \E l \in Validators[root.tr.epoch] :
    Issue([root.uc EXCEPT !.rootRound = @ + 1], [root.tr EXCEPT !.leader = l])

-----------------------------------------------------------------------------
Next ==
  \/ \E n \in Nodes :
       \/ HandleCertificationResponse(n) \/ ReceiveBlockProposal(n)
       \/ HandleT1TimeoutEvent(n)
       \/ HandleLedgerReplicationRequest(n) \/ ProcessReplicationRequest(n)
       \/ ReceiveLedgerReplicationResponse(n) \/ ApplyBlock(n) \/ FinishReplication(n)
       \/ HandleMonitoring(n) \/ EpochChange(n)
       \/ Crash(n) \/ CrashInFinalize(n) \/ CrashInRecovery(n) \/ CrashInPropose(n)
  \/ Certify \/ Repeat

Spec == Init /\ [][Next]_vars

-----------------------------------------------------------------------------
(***************************************************************************)
(* Properties.                                                             *)
(***************************************************************************)

\* Every variable keeps the type the code gives it; a nil pointer is Nil.
TypeOK ==
  /\ node \in [Nodes -> NodeState]
  /\ replCh \in [Nodes -> Seq(LedgerReplicationRequest)]
  /\ proposals \subseteq BlockProposal
  /\ requests \subseteq CertificationRequest
  /\ replReqs \subseteq LedgerReplicationRequest
  /\ replResps \subseteq LedgerReplicationResponse
  /\ root \in CertificationResponse
  /\ certs \subseteq CertificationResponse
  /\ crashes \in Nat

UCs == {c.uc : c \in certs}

\* Only certified blocks get into a block store, with the header the certificate
\* commits to: finalizeBlock puts the right certificate on the right proposal,
\* whatever was proposed, reverted, restored or recovered before.
StoredBlocksCertified ==
  \A n \in Nodes : \A b \in node[n].blocks : b.uc \in UCs /\ ValidBlock(b)

\* Two nodes never hold different blocks for the same round (the root round of the
\* certificates may differ: a repeat certificate certifies the same record).
LedgersAgree ==
  \A m, n \in Nodes : \A b \in node[m].blocks, c \in node[n].blocks :
    Round(b) = Round(c) =>
      b.uc.ir = c.uc.ir /\ b.proposer = c.proposer /\ b.prevBlockHash = c.prevBlockHash

\* A block store is a chain without gaps that ends in the committed block: a certified
\* commit is stored, and the successor of any other stored block is stored too and names
\* its hash and state ("Do not allow gaps between blocks", handleUnicityCertificate).
LedgerIsChain ==
  \A n \in Nodes : LET x == node[n] IN
    /\ x.committedUC \in UCs => \E b \in x.blocks : b.uc = x.committedUC
    /\ \A b \in x.blocks :
         \/ b.uc.ir = x.committedUC.ir
         \/ \E c \in x.blocks : /\ Round(c) = Round(b) + 1
                                /\ c.prevBlockHash = b.uc.ir.blockHash
                                /\ c.uc.ir.prevHash = b.uc.ir.hash

\* A node outside recovery has committed exactly what its latest certificate
\* certifies; only then may it propose or vote on top of that certificate.
NormalIsUpToDate ==
  \A n \in Nodes : node[n].status = "normal" =>
    /\ node[n].luc \in UCs
    /\ CommittedRound(node[n]) = GetRoundNumber(node[n].luc)
    /\ CommittedHash(node[n]) = GetStateHash(node[n].luc)

\* Every newly certified round finalises a strictly higher PoW block (LeaderPropose,
\* "already finalized or older"), though followers do not compare heights.
FinalizedHeightsIncrease ==
  \A c, d \in UCs : c.ir.round < d.ir.round => HeightOf(c.ir.hash) < HeightOf(d.ir.hash)

\* A state change held by the transaction system belongs to a pending proposal, which
\* a certificate resolves one way or the other; without one, StateSummary fails until
\* a recovery or a repeat certificate comes by.
StateChangeHasProposal ==
  \A n \in Nodes : node[n].pendingHash # Nil => node[n].pending # Nil

\* Nothing is half done during recovery: handleBlock would fail forever if a state
\* change were still pending (StateSummary, ErrStateContainsUncommittedChanges).
RecoveryStartsClean ==
  \A n \in Nodes : node[n].status = "recovering" =>
    node[n].pending = Nil /\ node[n].pendingHash = Nil

\* The configuration is the one of the current epoch, or a reload is due, or the
\* operator has not imported it: no epoch change is forgotten by updateLUC.
EpochChangeNotLost ==
  \A n \in Nodes : LET x == node[n] IN
    x.confEpoch = CurrentEpoch(x) \/ x.epochEvent \/ CurrentEpoch(x) \notin ShardConfs

\* A stored block is never lost, replaced or rolled back, and neither is a certified
\* commit: not by recovery, an error in finalizeBlock, or a crash at any point.  (The
\* commit that is not certified is the one of CommittedIsCertified below.)
FinalityIsDurable ==
  [][\A n \in Nodes :
       /\ node[n].blocks \subseteq node[n].blocks'
       /\ node[n].committedUC \in UCs
            => CommittedRound(node[n]) <= CommittedRound(node[n])']_vars

\* The certificate a running node works from is never replaced by an older one, whichever
\* way they come: late from the root chain, with a block proposal, or in a block replayed by
\* a recovery, whose goal it is.  (A restart falls back to that of the last stored block.)
LatestCertificateAdvances ==
  [][crashes' = crashes =>
       \A n \in Nodes : GetRootRoundNumber(node[n].luc) <= GetRootRoundNumber(node[n].luc)']_vars

\* A certified block is not lost: some node has stored it, or still holds the proposal and
\* the state change that the certificate turns into it, whatever duplicates of older
\* certificates, repeated timeouts and failed requests came in between.  No other node can
\* supply the block in recovery.  (A sole validator loses it when T1 fires again and it
\* proposes another block while its first request is being certified.)
CertifiedBlockIsHeld ==
  \A u \in UCs : u.ir.round > 0 /\ Cardinality(Validators[u.ir.epoch]) > 1 =>
    \E n \in Nodes :
      \/ \E b \in node[n].blocks : b.uc.ir = u.ir
      \/ /\ node[n].pending # Nil /\ AssertEqualIR(node[n].pending.uc.ir, u.ir)
         /\ node[n].pendingHash = u.ir.hash

\* A final block is the proposal of the leader the root chain had appointed for the
\* certificate the block builds on.  Certification requests do not name the leader, so it
\* takes nodes that follow every change of leader: by a repeat certificate, by a certificate
\* that comes with a proposal, in recovery or after a restart.
BlocksAreByLeaders ==
  \A n \in Nodes : \A b \in node[n].blocks :
    \E c \in certs : /\ c.uc.rootRound = b.uc.ir.ts
                     /\ c.tr.round = Round(b) /\ c.tr.epoch = b.uc.ir.epoch
                     /\ c.tr.leader = b.proposer

\* A follower asks for one record per certificate, whatever a leader whose T1 fires again
\* proposes: only the leader itself may ask for another one.
FollowersVoteOnce ==
  \A q, r \in requests : q.node = r.node /\ q.node # root.tr.leader => q.ir = r.ir

(***************************************************************************)
(* What the shard promises, FinalityLedger: the final blocks are those the *)
(* root chain has certified, and a node holds what is in its block store.  *)
(***************************************************************************)
Entry(uc) == [round |-> uc.ir.round, hash |-> uc.ir.hash]

FinalBlocks == {Entry(u) : u \in {w \in UCs : w.ir.round > 0}}
HeldBlocks == [n \in Nodes |-> {Entry(b.uc) : b \in node[n].blocks}]

Ledger == INSTANCE FinalityLedger WITH final <- FinalBlocks, held <- HeldBlocks

\* All the votes, certificates, recoveries, failures and restarts of the nodes amount to
\* one growing list of final PoW blocks that every node copies without losing a block,
\* leaving one out or storing another in its place.
ImplementsLedger == Ledger!Spec

\* What CommittedUC returns is "the unicity certificate of the latest commit"
\* (partition/node.go), that is, a certificate the root chain has issued.
CommittedIsCertified ==
  \A n \in Nodes : node[n].committedUC # Nil => node[n].committedUC \in UCs

\* A node that refuses a replication request because "the node has been started with
\* a later state and does not have the needed data" (handleLedgerReplicationRequest)
\* does not have the data.
RefusedBlocksAreMissing ==
  \A n \in Nodes : \A r \in replReqs :
    n \in r.to /\ r.begin <= GetRoundNumber(node[n].fuc) =>
      ~ \E b \in node[n].blocks : Round(b) = r.begin
=============================================================================
