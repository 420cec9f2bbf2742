-------------------------- MODULE PartitionTheorems -------------------------
(***************************************************************************)
(* What Partition guarantees beyond its inductive invariant: no change of  *)
(* epoch is lost, no node goes back to an older certificate, no state      *)
(* change is left without its proposal, final blocks are those of the      *)
(* appointed leaders, and a certified block is not lost.                   *)
(***************************************************************************)
EXTENDS PartitionProofs, FiniteSetTheorems

\* Most steps are first-order; the ones that need more name SMT.
USE ZenonT(30)

-----------------------------------------------------------------------------
(***************************************************************************)
(* No epoch change is lost, no certificate is replaced by an older one,    *)
(* and, without restarts, no state change is left without its proposal.    *)
(***************************************************************************)
\* A node works with the configuration of the current epoch unless a reload is due or there
\* is none (EpochChangeNotLost), for any epochs, configurations, faults and crashes.
THEOREM EpochChangesNoticed == Spec => []EpochChangeNotLost
<1> DEFINE I == \A n \in Nodes : EpochOK(node[n])
<1>1. Init => I
  <2> SUFFICES ASSUME Init, NEW n \in Nodes PROVE EpochOK(node[n])
    OBVIOUS
  <2>1. node[n] = Start(EmptyStore, FALSE)
    BY DEF Init
  <2> QED BY <2>1, StartEpoch
<1>2. IInv /\ I /\ [Next]_vars => I'
  <2> SUFFICES ASSUME IInv, I, [Next]_vars PROVE I'
    OBVIOUS
  <2>1. node \in [Nodes -> NodeState]
    BY DEF IInv, TypeOK
  <2>2. ASSUME NEW n \in Nodes, NodeStep(n) PROVE I'
    BY <2>1, <2>2, NodeStepEffect DEF Handle, Effect, Keeps
  <2>3. ASSUME NEW n \in Nodes, Restart(n) PROVE I'
    <3>1. PICK x, v : node' = [node EXCEPT ![n] = Start(x, v)]
      BY <2>3 DEF Restart, Reboot
    <3> QED BY <2>1, <3>1, StartEpoch
  <2>4. CASE Certify \/ Repeat \/ UNCHANGED <<node, proposals, requests, rootVars, crashes>>
    <3>1. node' = node
      BY <2>4 DEF Certify, Repeat, Issue, nodeVars
    <3> QED BY <3>1
  <2> QED BY <2>2, <2>3, <2>4, OtherStep
<1>3. I => EpochChangeNotLost
  BY DEF EpochOK, EpochChangeNotLost
<1> QED BY <1>1, <1>2, <1>3, Invariance, PTL DEF Spec

\* A running node never goes back to an older certificate (LatestCertificateAdvances), in
\* whatever order certificates, proposals and replayed blocks reach it.
THEOREM CertificatesAdvance == Spec => LatestCertificateAdvances
<1> DEFINE A == crashes' = crashes =>
                  \A n \in Nodes : GetRootRoundNumber(node[n].luc) <= GetRootRoundNumber(node'[n].luc)
<1>1. IInv /\ IInv' /\ [Next]_vars => A
  <2> SUFFICES ASSUME IInv, IInv', [Next]_vars, crashes' = crashes, NEW m \in Nodes
               PROVE  GetRootRoundNumber(node[m].luc) <= GetRootRoundNumber(node'[m].luc)
    OBVIOUS
  <2>1. node \in [Nodes -> NodeState] /\ node' \in [Nodes -> NodeState] /\ crashes \in Nat
    BY DEF IInv, TypeOK
  <2>2. GetRootRoundNumber(node[m].luc) \in Nat /\ GetRootRoundNumber(node'[m].luc) \in Nat
    <3>1. node[m] \in NodeState /\ node'[m] \in NodeState
      BY <2>1
    <3>2. ASSUME NEW x \in NodeState PROVE GetRootRoundNumber(x.luc) \in Nat
      BY DEF NodeState, Option, GetRootRoundNumber, UnicityCertificate
    <3> QED BY <3>1, <3>2
  <2>3. node'[m].luc = node[m].luc \/ ~ OlderThanLUC(node[m], node'[m].luc)
    <3>1. ASSUME NEW n \in Nodes, NodeStep(n)
          PROVE  node'[m].luc = node[m].luc \/ ~ OlderThanLUC(node[m], node'[m].luc)
      BY <2>1, <3>1, NodeStepEffect DEF Handle, Effect, Keeps
    <3>2. ASSUME NEW n \in Nodes, Restart(n) PROVE FALSE
      BY <2>1, <3>2, SMTT(20) DEF Restart, Reboot
    <3>3. CASE Certify \/ Repeat \/ UNCHANGED <<node, proposals, requests, rootVars, crashes>>
      BY <3>3 DEF Certify, Repeat, Issue, nodeVars
    <3> QED BY <3>1, <3>2, <3>3, OtherStep
  <2> QED BY <2>2, <2>3, SMTT(20) DEF OlderThanLUC
<1>2. Spec => [][A]_vars
  BY <1>1, Invariance, PTL DEF Spec
<1>3. [A]_vars => [crashes' = crashes =>
        \A n \in Nodes : GetRootRoundNumber(node[n].luc) <= GetRootRoundNumber(node[n].luc)']_vars
  BY DEF GetRootRoundNumber
<1> QED BY <1>2, <1>3, PTL DEF LatestCertificateAdvances

\* As long as no node has restarted, every state change of the transaction system belongs to
\* a pending proposal (StateChangeHasProposal), whatever fails to be sent, stored or verified.
THEOREM ChangesHaveProposals == Spec => [](crashes = 0 => StateChangeHasProposal)
<1> DEFINE I == crashes = 0 => \A n \in Nodes : ChangeOK(node[n])
<1>1. Init => I
  <2> SUFFICES ASSUME Init, NEW n \in Nodes PROVE ChangeOK(node[n])
    OBVIOUS
  <2>1. node[n] = Start(EmptyStore, FALSE)
    BY DEF Init
  <2>2. node[n].pendingHash = Nil
    BY <2>1, SMTT(20) DEF Start, Restorable, EmptyStore
  <2> QED BY <2>2 DEF ChangeOK
<1>2. IInv /\ I /\ [Next]_vars => I'
  <2> SUFFICES ASSUME IInv, I, [Next]_vars, crashes' = 0
               PROVE  \A n \in Nodes : ChangeOK(node'[n])
    OBVIOUS
  <2>1. node \in [Nodes -> NodeState] /\ crashes \in Nat
    BY DEF IInv, TypeOK
  <2>2. ASSUME NEW n \in Nodes, NodeStep(n) PROVE \A m \in Nodes : ChangeOK(node'[m])
    <3>1. crashes' = crashes
      BY <2>2, NodeStepCrashes
    <3> QED BY <2>1, <2>2, <3>1, NodeStepEffect DEF Handle, Effect, Keeps
  <2>3. ASSUME NEW n \in Nodes, Restart(n) PROVE FALSE
    BY <2>1, <2>3, SMTT(20) DEF Restart, Reboot
  <2>4. CASE Certify \/ Repeat \/ UNCHANGED <<node, proposals, requests, rootVars, crashes>>
    <3>1. node' = node /\ crashes' = crashes
      BY <2>4 DEF Certify, Repeat, Issue, nodeVars
    <3> QED BY <3>1
  <2> QED BY <2>2, <2>3, <2>4, OtherStep
<1>3. I => (crashes = 0 => StateChangeHasProposal)
  BY DEF ChangeOK, StateChangeHasProposal
<1> QED BY <1>1, <1>2, <1>3, Invariance, PTL DEF Spec

-----------------------------------------------------------------------------
(***************************************************************************)
(* Final blocks are the blocks of the appointed leaders.                   *)
(***************************************************************************)

\* A block hash names the proposer.
LEMMA ValidProposer ==
  ASSUME NEW b \in Block, ValidBlock(b), HeightOf(b.uc.ir.prevHash) < HeightOf(b.uc.ir.hash)
  PROVE  ProposerOf(b.uc.ir) = b.proposer
<1> DEFINE R == [proposer : Nodes, prevHash : Hashes, hash : Hashes]
           e == [proposer |-> b.proposer, prevHash |-> b.uc.ir.prevHash, hash |-> b.uc.ir.hash]
           s == b.prevBlockHash
<1>1. /\ s \in Seq(R) /\ b.proposer \in Nodes
      /\ b.uc.ir.prevHash \in Hashes /\ b.uc.ir.hash \in Hashes
  BY DEF Block, BlockHashes, UnicityCertificate, InputRecord
<1>2. e \in R /\ e.proposer = b.proposer
  BY <1>1
<1>3. b.uc.ir.hash # b.uc.ir.prevHash
  BY <1>1, HeightType, SMTT(20)
<1>4. b.uc.ir.blockHash = Append(s, e)
  BY <1>3 DEF ValidBlock, CalculateBlockHash
<1>5. Append(s, e)[Len(Append(s, e))] = e
  <2> HIDE DEF R, e, s
  <2> QED BY <1>1, <1>2, AppendProperties, LenProperties, SMTT(20)
<1> QED BY <1>2, <1>4, <1>5 DEF ProposerOf

\* A block of the leader a node knows is one of a leader the root chain has appointed.
LEMMA LeaderLed ==
  ASSUME NEW U, NEW x, NodeOK(x, U), NEW C, SeenOK(x, C), NEW b, ByLeader(x, b)
  PROVE  Led(b.uc.ir, b.proposer, C)
<1> DEFINE c == [uc |-> x.luc, tr |-> x.ltr]
<1>1. x.ltr # Nil
  BY NilAssumption DEF ByLeader, Leader
<1>2. x.luc # Nil
  BY <1>1 DEF NodeOK, BaseOK, CertsOK
<1>3. c \in C /\ c.uc = x.luc /\ c.tr = x.ltr
  BY <1>1 DEF SeenOK
<1>4. /\ b.proposer = x.ltr.leader /\ b.uc.ir.ts = x.luc.rootRound
      /\ b.uc.ir.round = x.ltr.round /\ b.uc.ir.epoch = x.ltr.epoch
  BY <1>1, <1>2 DEF ByLeader, Leader, GetRootRoundNumber, CurrentRoundNumber, CurrentEpoch, EpochOf
<1> HIDE DEF c
<1> QED BY <1>3, <1>4 DEF Led

\* The leader's proposals go out with the certificate and the record they build on.
LEMMA SendsIssued ==
  ASSUME NEW n \in Nodes, Sends(n), SeenOK(node[n], certs), ProposalsIssued, certs' = certs
  PROVE  ProposalsIssued'
<1>1. ASSUME NEW h, IsLeader(n)
      PROVE  [uc |-> Proposal(n, h).uc, tr |-> Proposal(n, h).tr] \in certs
  <2>1. node[n].ltr # Nil
    BY <1>1, NilAssumption DEF IsLeader, Leader
  <2> QED BY <2>1 DEF Proposal, SeenOK
<1> QED BY <1>1 DEF Sends, ProposalsIssued

\* A handler takes up, and asks to certify, proposals of appointed leaders only.
LEMMA NodeStepLeaders ==
  ASSUME IInv, LeaderInv, [Next]_vars, NEW n \in Nodes, NodeStep(n)
  PROVE  LeaderInv'
<1> DEFINE x == node[n]
<1>1. PICK y, o : Handle(n, y, o) /\ Effect(n, x, y)
  BY NodeStepEffect
<1>2. IInv'
  BY NextIInv
<1>3. /\ node' = [node EXCEPT ![n] = y] /\ requests' = requests \cup CertificationRequests(n, x, y, o)
      /\ certs' = certs /\ UCs' = UCs
  BY <1>1 DEF Handle, rootVars, UCs
<1>4. node'[n] = y /\ \A m \in Nodes \ {n} : node'[m] = node[m]
  BY <1>3 DEF IInv, TypeOK
<1>5. NodeOK(y, UCs)
  BY <1>2, <1>3, <1>4 DEF IInv
<1>6. ProposalsIssued'
  BY <1>3, NodeStepSends, SendsIssued DEF LeaderInv
<1>7. SeenOK(y, certs)
  BY <1>1 DEF Effect, LeaderInv
<1>8. /\ y.pending # Nil => Led(y.pending.uc.ir, y.pending.proposer, certs)
      /\ y.proposal # Nil => Led(y.proposal.uc.ir, y.proposal.proposer, certs)
  BY <1>1, <1>5, <1>7, LeaderLed DEF Effect, Proposes, LeaderInv
<1>9. ASSUME NEW q \in CertificationRequests(n, x, y, o) PROVE Led(q.ir, ProposerOf(q.ir), certs)
  <2>0. y.pending # Nil /\ q = [node |-> n, ir |-> y.pending.uc.ir]
    BY <1>9 DEF CertificationRequests
  <2>1. y.pending # Nil /\ q.ir = y.pending.uc.ir
    BY <2>0
  <2>2. y.pending \in Block /\ PendingOK(y.pending, UCs)
    BY <1>5, <2>1 DEF NodeOK, BaseOK, DataOK, NodeState, Option
  <2>3. ProposerOf(q.ir) = y.pending.proposer
    BY <2>1, <2>2, ValidProposer DEF PendingOK
  <2> QED BY <1>8, <2>1, <2>3
<1>10. \A q \in requests' : Led(q.ir, ProposerOf(q.ir), certs)
  BY <1>3, <1>9 DEF LeaderInv
<1>11. \A u \in UCs' : u.ir.round # 0 => Led(u.ir, ProposerOf(u.ir), certs)
  BY <1>3 DEF LeaderInv
<1>12. ASSUME NEW m \in Nodes
       PROVE  LET z == node'[m] IN
                /\ SeenOK(z, certs')
                /\ z.pending # Nil => Led(z.pending.uc.ir, z.pending.proposer, certs')
                /\ z.proposal # Nil => Led(z.proposal.uc.ir, z.proposal.proposer, certs')
  BY <1>3, <1>4, <1>7, <1>8 DEF LeaderInv
<1> HIDE DEF x
<1> QED BY <1>3, <1>6, <1>10, <1>11, <1>12 DEF LeaderInv

\* A restarted node has at most the proposal it has stored.
LEMMA RestartLeaders ==
  ASSUME IInv, LeaderInv, NEW n \in Nodes, Restart(n)
  PROVE  LeaderInv'
<1>1. PICK x : Reboot(n, x) /\ x.proposal = node[n].proposal
  BY DEF Restart
<1>2. PICK v \in Verdicts : node' = [node EXCEPT ![n] = Start(x, v)]
  BY <1>1 DEF Reboot
<1> DEFINE y == Start(x, v)
<1>3. y.ltr = Nil /\ y.lastProp = Nil /\ y.pending \in {Nil, x.proposal} /\ y.proposal = x.proposal
  BY SMTT(20) DEF Start
<1> HIDE DEF y
<1>4. requests' = requests /\ certs' = certs /\ UCs' = UCs
  BY <1>1 DEF Reboot, rootVars, UCs
<1>5. node'[n] = y /\ \A m \in Nodes \ {n} : node'[m] = node[m]
  BY <1>2 DEF IInv, TypeOK, y
<1>6. ProposalsIssued'
  BY <1>4, SendsIssued DEF Restart, LeaderInv
<1>7. ASSUME NEW m \in Nodes
      PROVE  LET z == node'[m] IN
               /\ SeenOK(z, certs')
               /\ z.pending # Nil => Led(z.pending.uc.ir, z.pending.proposer, certs')
               /\ z.proposal # Nil => Led(z.proposal.uc.ir, z.proposal.proposer, certs')
  <2>1. CASE m = n
    BY <1>1, <1>3, <1>4, <1>5, <2>1 DEF LeaderInv, SeenOK
  <2>2. CASE m # n
    BY <1>4, <1>5, <2>2 DEF LeaderInv
  <2> QED BY <2>1, <2>2
<1> QED BY <1>4, <1>6, <1>7 DEF LeaderInv

\* The root chain certifies what it was asked for, or the last record once more.
LEMMA IssueLeaders ==
  ASSUME LeaderInv, NEW uc, NEW tr, Issue(uc, tr),
         uc.ir.round # 0 => Led(uc.ir, ProposerOf(uc.ir), certs)
  PROVE  LeaderInv'
<1>1. /\ root' = [uc |-> uc, tr |-> tr] /\ certs' = certs \cup {root'} /\ requests' = {}
      /\ proposals' = proposals /\ node' = node
  BY DEF Issue, nodeVars
<1>2. UCs' = UCs \cup {uc}
  BY <1>1, SMTT(20) DEF UCs
<1>3. ASSUME NEW ir, NEW l, Led(ir, l, certs) PROVE Led(ir, l, certs')
  BY <1>1, <1>3 DEF Led
<1>4. ASSUME NEW x, SeenOK(x, certs) PROVE SeenOK(x, certs')
  BY <1>1, <1>4 DEF SeenOK
<1>5. ProposalsIssued'
  BY <1>1 DEF ProposalsIssued, LeaderInv
<1>6. ASSUME NEW m \in Nodes
      PROVE  LET z == node'[m] IN
               /\ SeenOK(z, certs')
               /\ z.pending # Nil => Led(z.pending.uc.ir, z.pending.proposer, certs')
               /\ z.proposal # Nil => Led(z.proposal.uc.ir, z.proposal.proposer, certs')
  BY <1>1, <1>3, <1>4 DEF LeaderInv
<1>7. \A u \in UCs' : u.ir.round # 0 => Led(u.ir, ProposerOf(u.ir), certs')
  BY <1>2, <1>3 DEF LeaderInv
<1> QED BY <1>1, <1>5, <1>6, <1>7 DEF LeaderInv

\* Every final block was proposed by the leader the root chain had appointed with the
\* certificate the block builds on (BlocksAreByLeaders), for any nodes, epochs and validator
\* sets, and whatever is lost, repeated, recovered or restarted and whatever fails.
THEOREM FinalBlocksAreByLeaders == Spec => []BlocksAreByLeaders
<1>1. Init => LeaderInv
  <2> SUFFICES ASSUME Init PROVE LeaderInv
    OBVIOUS
  <2>1. /\ root.uc = InitialUC /\ InitialUC.ir.round = 0 /\ certs = {root}
        /\ proposals = {} /\ requests = {}
    BY SMTT(20) DEF Init, InitialUC, InitialIR
  <2>2. ASSUME NEW n \in Nodes
        PROVE  /\ node[n].ltr = Nil /\ node[n].lastProp = Nil
               /\ node[n].pending = Nil /\ node[n].proposal = Nil
    <3>1. node[n] = Start(EmptyStore, FALSE) /\ EmptyStore.proposal = Nil
      BY DEF Init, EmptyStore
    <3> QED BY <3>1, SMTT(20) DEF Start
  <2> QED BY <2>1, <2>2 DEF LeaderInv, ProposalsIssued, SeenOK, UCs
<1>2. IInv /\ LeaderInv /\ [Next]_vars => LeaderInv'
  <2> SUFFICES ASSUME IInv, LeaderInv, [Next]_vars PROVE LeaderInv'
    OBVIOUS
  <2>1. CASE Certify
    <3>1. PICK q \in requests : \E tr : Issue([ir |-> q.ir, rootRound |-> root.uc.rootRound + 1], tr)
      BY <2>1 DEF Certify
    <3> DEFINE uc == [ir |-> q.ir, rootRound |-> root.uc.rootRound + 1]
    <3>2. uc.ir = q.ir /\ Led(q.ir, ProposerOf(q.ir), certs)
      BY DEF LeaderInv
    <3> HIDE DEF uc
    <3> QED BY <3>1, <3>2, IssueLeaders DEF uc
  <2>2. CASE Repeat
    <3>1. PICK l \in Validators[root.tr.epoch] :
            Issue([root.uc EXCEPT !.rootRound = @ + 1], [root.tr EXCEPT !.leader = l])
      BY <2>2 DEF Repeat
    <3> DEFINE uc == [root.uc EXCEPT !.rootRound = @ + 1]
    <3>2. root.uc \in UCs /\ root.uc \in UnicityCertificate
      BY DEF IInv, RootOK, CertificatesOK
    <3>3. uc.ir = root.uc.ir
      BY <3>2 DEF UnicityCertificate
    <3> HIDE DEF uc
    <3>4. uc.ir.round # 0 => Led(uc.ir, ProposerOf(uc.ir), certs)
      BY <3>2, <3>3 DEF LeaderInv
    <3> QED BY <3>1, <3>4, IssueLeaders DEF uc
  <2>3. CASE UNCHANGED <<node, proposals, requests, rootVars, crashes>>
    <3>1. /\ node' = node /\ proposals' = proposals /\ requests' = requests
          /\ certs' = certs /\ UCs' = UCs
      BY <2>3 DEF rootVars, UCs
    <3> QED BY <3>1 DEF LeaderInv, ProposalsIssued
  <2> QED BY <2>1, <2>2, <2>3, NodeStepLeaders, RestartLeaders, OtherStep
<1>3. IInv /\ LeaderInv => BlocksAreByLeaders
  <2> SUFFICES ASSUME IInv, LeaderInv, NEW n \in Nodes, NEW b \in node[n].blocks
               PROVE  Led(b.uc.ir, b.proposer, certs)
    BY DEF BlocksAreByLeaders, Led, Round
  <2>1. b \in Block /\ b.uc \in UCs /\ ValidBlock(b) /\ b.uc.ir.hash # Nil
    BY DEF IInv, NodeOK, BaseOK, DataOK, BlockOK, NodeState
  <2>2. b.uc.ir.round # 0 /\ HeightOf(b.uc.ir.prevHash) < HeightOf(b.uc.ir.hash)
    BY <2>1 DEF IInv, CertificatesOK, CertificateOK
  <2> QED BY <2>1, <2>2, ValidProposer DEF LeaderInv
<1> QED BY <1>1, <1>2, <1>3, Invariance, PTL DEF Spec

-----------------------------------------------------------------------------
(***************************************************************************)
(* A certified block is not lost.                                          *)
(***************************************************************************)

\* A request the root chain may act on comes from a node that is where the root chain is,
\* and waits if it is not the leader.
LEMMA NewVote ==
  ASSUME IInv, HeldInv, NEW n \in Nodes, NEW x, NEW y, NEW o, NodeOK(y, UCs), HistoryOK(y, certs),
         NoVote(x, y) \/ Voted(y), NEW q \in CertificationRequests(n, x, y, o)
  PROVE  /\ q.node = n /\ y.status = "normal" /\ y.luc = root.uc /\ y.ltr = root.tr
         /\ n # root.tr.leader => Waiting(n, y, q.ir, UCs)
<1>1. /\ y.pending # Nil /\ q = [node |-> n, ir |-> y.pending.uc.ir] /\ y.pendingHash # Nil
      /\ <<y.pending, y.pendingHash>> # <<x.pending, x.pendingHash>>
      /\ q.ir.ts = root.uc.rootRound
  BY DEF CertificationRequests
<1>2. q.node = n /\ q.ir = y.pending.uc.ir
  BY <1>1
<1>3. Voted(y)
  BY <1>1 DEF NoVote
<1>4. y.status = "normal" /\ InSync(y, UCs) /\ y.ltr \in TechnicalRecord /\ y.luc \in UCs
  BY <1>3, LeaderIsNormal DEF Voted, ByLeader
<1>5. CertificatesOK(UCs) /\ RootOK /\ root.uc \in UCs
  BY DEF IInv, RootOK
<1>6. y.luc = root.uc
  <2>1. y.luc.rootRound = root.uc.rootRound
    BY <1>1, <1>2, <1>3, <1>4, <1>5, IssuedType DEF Voted, ByLeader
  <2> QED BY <1>4, <1>5, <2>1 DEF CertificatesOK, CertificatePairOK
<1>7. y.ltr # Nil
  BY <1>4, NilAssumption
<1>8. y.ltr = root.tr
  <2> DEFINE c == [uc |-> y.luc, tr |-> y.ltr]
  <2>1. c \in certs /\ c.uc = root.uc /\ c.tr = y.ltr
    BY <1>6, <1>7 DEF HistoryOK, SeenOK
  <2> HIDE DEF c
  <2>2. c = root
    BY <2>1 DEF HeldInv
  <2> QED BY <2>1, <2>2
<1>9. ASSUME n # root.tr.leader PROVE Waiting(n, y, q.ir, UCs)
  <2>1. Leader(y) # n
    BY <1>7, <1>8, <1>9 DEF Leader
  <2>2. q.ir.round = y.luc.ir.round + 1
    BY <1>2, <1>3, <1>5, <1>6, <1>7, <1>8 DEF Voted, ByLeader, CurrentRoundNumber, RootOK
  <2>3. \A w \in UCs : ~ (w.rootRound > y.luc.rootRound)
    <3> SUFFICES ASSUME NEW w \in UCs PROVE ~ (w.rootRound > y.luc.rootRound)
      OBVIOUS
    <3>1. w.rootRound \in Nat /\ root.uc.rootRound \in Nat
      BY <1>5, IssuedType
    <3> QED BY <1>5, <1>6, <3>1, SMTT(20) DEF RootOK
  <2> QED BY <1>1, <1>2, <1>3, <1>4, <1>7, <2>1, <2>2, <2>3 DEF Waiting, Voted
<1> QED BY <1>2, <1>4, <1>6, <1>8, <1>9

\* A handler keeps certified blocks.
LEMMA NodeStepHeld ==
  ASSUME IInv, HeldInv, [Next]_vars, NEW n \in Nodes, NodeStep(n), "storeBlock" \notin Faults
  PROVE  HeldInv'
<1> DEFINE x == node[n]
<1>1. PICK y, o : Handle(n, y, o) /\ Effect(n, x, y)
  BY NodeStepEffect
<1>2. IInv' /\ \A m \in Nodes : node[m].blocks \subseteq node'[m].blocks
  BY NextIInv DEF Durable
<1>3. /\ node' = [node EXCEPT ![n] = y] /\ requests' = requests \cup CertificationRequests(n, x, y, o)
      /\ root' = root /\ certs' = certs /\ UCs' = UCs
  BY <1>1 DEF Handle, rootVars, UCs
<1>4. node'[n] = y /\ \A m \in Nodes \ {n} : node'[m] = node[m]
  BY <1>3 DEF IInv, TypeOK
<1>5. NodeOK(y, UCs)
  BY <1>2, <1>3, <1>4 DEF IInv
<1>6. HistoryOK(y, certs) /\ \A m \in Nodes : HistoryOK(node'[m], certs)
  <2>1. HistoryOK(x, certs) /\ ProposalsIssued
    BY DEF HeldInv
  <2>2. HistoryOK(y, certs)
    BY <1>1, <2>1 DEF Effect, HistoryOK
  <2> QED BY <1>4, <2>2 DEF HeldInv
<1>7. Stays(n, x, y, UCs)
  BY <1>1 DEF Effect
<1>8. ProposalsIssued'
  BY <1>3, NodeStepSends, SendsIssued DEF HeldInv, HistoryOK
<1>9. ASSUME NEW m \in Nodes, NEW ir, Waiting(m, node[m], ir, UCs)
      PROVE  Waiting(m, node'[m], ir, UCs) \/ \E b \in node'[m].blocks : b.uc.ir = ir
  BY <1>4, <1>7, <1>9 DEF Stays
<1>10. ASSUME NEW q \in requests' PROVE VoteOK(q)'
  <2>1. CASE q \in CertificationRequests(n, x, y, o)
    <3>1. /\ q.node = n /\ y.status = "normal" /\ y.luc = root.uc /\ y.ltr = root.tr
          /\ n # root.tr.leader => Waiting(n, y, q.ir, UCs)
      BY <1>1, <1>5, <1>6, <2>1, NewVote DEF Effect
    <3> QED BY <1>3, <1>4, <3>1 DEF VoteOK
  <2>2. CASE q \in requests
    <3> DEFINE m == q.node
    <3>1. /\ m \in Nodes /\ node[m].status = "normal" /\ node[m].luc = root.uc /\ node[m].ltr = root.tr
          /\ m # root.tr.leader => Waiting(m, node[m], q.ir, UCs)
      BY <2>2 DEF HeldInv, VoteOK, IInv, TypeOK, CertificationRequest
    <3>2. node'[m].status = "normal" /\ node'[m].luc = root.uc /\ node'[m].ltr = root.tr
      <4>1. CASE m = n
        <5>1. root.tr # Nil /\ \A w \in UCs : w.rootRound <= root.uc.rootRound
          BY NilAssumption DEF IInv, TypeOK, RootOK, CertificationResponse
        <5> QED BY <1>4, <1>7, <3>1, <4>1, <5>1 DEF Stays
      <4>2. CASE m # n
        BY <1>4, <3>1, <4>2
      <4> QED BY <4>1, <4>2
    <3>3. ASSUME m # root.tr.leader PROVE Waiting(m, node'[m], q.ir, UCs)
      <4>1. Waiting(m, node[m], q.ir, UCs) /\ q.ir.round = root.uc.ir.round + 1
        BY <3>1, <3>3 DEF Waiting
      <4>2. ASSUME NEW b \in node'[m].blocks, b.uc.ir = q.ir PROVE FALSE
        <5>1. b.uc \in UCs
          BY <1>2, <1>3, <3>1, <4>2 DEF IInv, NodeOK, BaseOK, DataOK, BlockOK
        <5>2. CertificatesOK(UCs) /\ root.uc \in UCs /\ b.uc.rootRound <= root.uc.rootRound
          BY <5>1 DEF IInv, RootOK
        <5>3. b.uc.ir.round <= root.uc.ir.round
          BY <5>1, <5>2 DEF CertificatesOK, CertificatePairOK
        <5>4. root.uc.ir.round \in Nat
          BY <5>2, IssuedType
        <5> QED BY <4>1, <4>2, <5>3, <5>4, SMTT(20)
      <4> QED BY <1>9, <3>1, <4>1, <4>2, SMTT(20)
    <3> QED BY <1>3, <3>2, <3>3 DEF VoteOK
  <2> QED BY <1>3, <2>1, <2>2
<1>11. ASSUME NEW ir, IsStored(ir) PROVE IsStored(ir)'
  BY <1>2, <1>11 DEF IsStored
<1>12. ASSUME NEW ir, \E m \in Nodes : Waiting(m, node[m], ir, UCs)
       PROVE  IsStored(ir)' \/ \E m \in Nodes : Waiting(m, node'[m], ir, UCs)
  BY <1>9, <1>12 DEF IsStored
<1>13. ASSUME NEW u \in UCs, 0 < u.ir.round
       PROVE  /\ u.ir.round < root.uc.ir.round => IsStored(u.ir)'
              /\ u.ir.round = root.uc.ir.round /\ Cardinality(Validators[u.ir.epoch]) > 1 =>
                   IsStored(u.ir)' \/ \E m \in Nodes : Waiting(m, node'[m], u.ir, UCs)
  <2>1. /\ u.ir.round < root.uc.ir.round => IsStored(u.ir)
        /\ u.ir.round = root.uc.ir.round /\ Cardinality(Validators[u.ir.epoch]) > 1 =>
             IsStored(u.ir) \/ \E m \in Nodes : Waiting(m, node[m], u.ir, UCs)
    BY <1>13 DEF HeldInv
  <2> QED BY <1>11, <1>12, <2>1
<1>14. root' \in certs' /\ \A c, d \in certs' : c.uc.rootRound = d.uc.rootRound => c = d
  BY <1>3 DEF HeldInv
<1>15. \A m \in Nodes : HistoryOK(node[m], certs)'
  BY <1>3, <1>6 DEF HistoryOK, SeenOK
<1>16. \A u \in UCs' : 0 < u.ir.round =>
         /\ u.ir.round < root'.uc.ir.round => IsStored(u.ir)'
         /\ u.ir.round = root'.uc.ir.round /\ Cardinality(Validators[u.ir.epoch]) > 1 =>
              IsStored(u.ir)' \/ \E m \in Nodes : Waiting(m, node[m], u.ir, UCs)'
  BY <1>3, <1>13, SMTT(20) DEF Waiting
<1> QED BY <1>8, <1>10, <1>14, <1>15, <1>16 DEF HeldInv

\* Whoever has voted for the next round has committed the last one.
LEMMA VoterHasCommitted ==
  ASSUME IInv, HeldInv, NEW q \in requests, 0 < root.uc.ir.round
  PROVE  IsStored(root.uc.ir)
<1> DEFINE x == node[q.node]
<1>1. q.node \in Nodes /\ x.status = "normal" /\ x.luc = root.uc
  BY DEF HeldInv, VoteOK, IInv, TypeOK, CertificationRequest
<1>2. NodeOK(x, UCs) /\ HistoryOK(x, certs)
  BY <1>1 DEF IInv, HeldInv
<1>3. x.committedUC # Nil /\ root.uc.ir = x.committedUC.ir
  BY <1>1, <1>2, SMTT(20) DEF NodeOK, ModesOK, InSync
<1>4. x.committedUC \in UCs
  BY <1>2, <1>3 DEF HistoryOK, UCs
<1>5. \E b \in x.blocks : b.uc = x.committedUC
  BY <1>2, <1>4 DEF NodeOK, BaseOK, ChainOK
<1> QED BY <1>1, <1>3, <1>5 DEF IsStored

\* A majority of two or more voters has one that is not the leader.
LEMMA VoterWaits ==
  ASSUME NEW V, IsFiniteSet(V), NEW W \in SUBSET V, Cardinality(V) > 1,
         2 * Cardinality(W) > Cardinality(V), NEW l
  PROVE  \E m \in W : m # l
<1>1. Cardinality(V) \in Nat /\ IsFiniteSet(W) /\ Cardinality(W) \in Nat
  BY FS_CardinalityType, FS_Subset
<1>2. Cardinality(W) # 0 /\ Cardinality(W) # 1
  BY <1>1, SMTT(20)
<1>3. W # {} /\ W # {l}
  BY <1>1, <1>2, FS_EmptySet, FS_Singleton
<1> QED BY <1>3

\* A certificate for the record a node waits for does not make it wait less.
LEMMA WaitingIssued ==
  ASSUME NEW U, NEW n, NEW x, NEW ir, Waiting(n, x, ir, U), NEW w, w.ir = ir
  PROVE  Waiting(n, x, ir, U \cup {w})
BY DEF Waiting, InSync

\* What holds whenever the root chain issues a certificate.
LEMMA IssueHeld ==
  ASSUME IInv, HeldInv, NEW uc, NEW tr, Issue(uc, tr), uc.rootRound = root.uc.rootRound + 1,
         uc.ir.round \in Nat,
         ASSUME NEW u \in UCs \cup {uc}, 0 < u.ir.round
         PROVE  /\ u.ir.round < uc.ir.round => IsStored(u.ir)
                /\ u.ir.round = uc.ir.round /\ Cardinality(Validators[u.ir.epoch]) > 1 =>
                     IsStored(u.ir) \/ \E n \in Nodes : Waiting(n, node[n], u.ir, UCs \cup {uc})
  PROVE  HeldInv'
<1>1. /\ root' = [uc |-> uc, tr |-> tr] /\ certs' = certs \cup {root'} /\ requests' = {}
      /\ proposals' = proposals /\ node' = node
  BY DEF Issue, nodeVars
<1>2. UCs' = UCs \cup {uc} /\ root'.uc = uc
  BY <1>1, SMTT(20) DEF UCs
<1>3. \A c \in certs : c.uc.rootRound < uc.rootRound
  <2> SUFFICES ASSUME NEW c \in certs PROVE c.uc.rootRound < uc.rootRound
    OBVIOUS
  <2>1. c.uc \in UCs /\ root.uc \in UCs /\ c.uc.rootRound <= root.uc.rootRound
    BY DEF UCs, IInv, RootOK
  <2>2. c.uc.rootRound \in Nat /\ root.uc.rootRound \in Nat
    BY <2>1, IssuedType DEF IInv
  <2> QED BY <2>1, <2>2, SMTT(20)
<1>4. \A c, d \in certs' : c.uc.rootRound = d.uc.rootRound => c = d
  <2>1. \A c, d \in certs : c.uc.rootRound = d.uc.rootRound => c = d
    BY DEF HeldInv
  <2>2. uc.rootRound \in Nat /\ \A c \in certs : c.uc.rootRound \in Nat
    BY IssuedType, SMTT(20) DEF IInv, RootOK, UCs
  <2> QED BY <1>1, <1>2, <1>3, <2>1, <2>2, SMTT(20)
<1>5. ProposalsIssued'
  BY <1>1 DEF ProposalsIssued, HeldInv
<1>6. \A n \in Nodes : HistoryOK(node[n], certs)'
  BY <1>1 DEF HistoryOK, SeenOK, HeldInv
<1>7. \A u \in UCs' : 0 < u.ir.round =>
        /\ u.ir.round < root'.uc.ir.round => IsStored(u.ir)'
        /\ u.ir.round = root'.uc.ir.round /\ Cardinality(Validators[u.ir.epoch]) > 1 =>
             IsStored(u.ir)' \/ \E n \in Nodes : Waiting(n, node[n], u.ir, UCs)'
  <2> SUFFICES ASSUME NEW u \in UCs', 0 < u.ir.round
               PROVE  /\ u.ir.round < uc.ir.round => IsStored(u.ir)
                      /\ u.ir.round = uc.ir.round /\ Cardinality(Validators[u.ir.epoch]) > 1 =>
                           IsStored(u.ir) \/ \E n \in Nodes : Waiting(n, node[n], u.ir, UCs \cup {uc})
    <3>1. \A u : IsStored(u.ir)' <=> IsStored(u.ir)
      BY <1>1 DEF IsStored
    <3>2. \A n \in Nodes : \A u : Waiting(n, node[n], u.ir, UCs)' <=> Waiting(n, node[n], u.ir, UCs \cup {uc})
      BY <1>1, <1>2, ZenonT(30) DEF Waiting, InSync, Leader
    <3> QED BY <1>2, <3>1, <3>2
  <2> QED BY <1>2
<1> QED BY <1>1, <1>4, <1>5, <1>6, <1>7 DEF HeldInv

\* Certifying the next block keeps certified blocks: the votes are still held.
LEMMA CertifyHeld ==
  ASSUME IInv, HeldInv, Certify
  PROVE  HeldInv'
<1> DEFINE V == Validators[root.tr.epoch]
           votes(ir) == {n \in V : [node |-> n, ir |-> ir] \in requests}
<1>1. PICK q \in requests, e \in Epochs :
        /\ q.ir.round = root.tr.round /\ q.ir.epoch = root.tr.epoch
        /\ 2 * Cardinality(votes(q.ir)) > Cardinality(V)
        /\ \E l \in Validators[e] :
             Issue([ir |-> q.ir, rootRound |-> root.uc.rootRound + 1],
                   [round |-> q.ir.round + 1, epoch |-> e, leader |-> l])
  BY DEF Certify
<1>2. PICK l \in Validators[e] : Issue([ir |-> q.ir, rootRound |-> root.uc.rootRound + 1],
                                       [round |-> q.ir.round + 1, epoch |-> e, leader |-> l])
  BY <1>1
<1> DEFINE uc == [ir |-> q.ir, rootRound |-> root.uc.rootRound + 1]
           tr == [round |-> q.ir.round + 1, epoch |-> e, leader |-> l]
<1>3. uc.ir = q.ir /\ uc.rootRound = root.uc.rootRound + 1 /\ Issue(uc, tr)
  BY <1>2
<1> HIDE DEF uc, tr
<1>4. /\ root.uc \in UCs /\ CertificatesOK(UCs) /\ root.tr.epoch \in Epochs
      /\ q.ir.round = root.uc.ir.round + 1 /\ root.uc.ir.round \in Nat
      /\ \A u \in UCs : u.rootRound <= root.uc.rootRound
  BY <1>1, IssuedType DEF IInv, RootOK
<1>5. uc.ir.round \in Nat
  BY <1>3, <1>4, SMTT(20)
<1>6. ASSUME NEW u \in UCs \cup {uc}, 0 < u.ir.round
      PROVE  /\ u.ir.round < uc.ir.round => IsStored(u.ir)
             /\ u.ir.round = uc.ir.round /\ Cardinality(Validators[u.ir.epoch]) > 1 =>
                  IsStored(u.ir) \/ \E n \in Nodes : Waiting(n, node[n], u.ir, UCs \cup {uc})
  <2>1. CASE u \in UCs
    <3>1. u.ir.round \in Nat /\ u.ir.round <= root.uc.ir.round
          /\ (u.ir.round = root.uc.ir.round => u.ir = root.uc.ir)
      BY <1>4, <2>1, IssuedType DEF CertificatesOK, CertificatePairOK
    <3>2. u.ir.round < root.uc.ir.round => IsStored(u.ir)
      BY <1>6, <2>1 DEF HeldInv
    <3>3. u.ir.round = root.uc.ir.round => IsStored(u.ir)
      BY <1>6, <3>1, VoterHasCommitted
    <3> QED BY <1>3, <1>4, <3>1, <3>2, <3>3, SMTT(20)
  <2>2. CASE u = uc
    <3> SUFFICES ASSUME Cardinality(Validators[u.ir.epoch]) > 1
                 PROVE  \E n \in Nodes : Waiting(n, node[n], u.ir, UCs \cup {uc})
      <4>1. ~ (u.ir.round < uc.ir.round)
        BY <1>5, <2>2, SMTT(20)
      <4> QED BY <4>1
    <3>1. Cardinality(V) > 1 /\ IsFiniteSet(V) /\ V \subseteq Nodes
      BY <1>1, <1>3, <1>4, <2>2, FiniteAssumption, ValidatorsAssumption
    <3>2. PICK m \in votes(q.ir) : m # root.tr.leader
      <4> DEFINE W == votes(q.ir)
      <4>1. W \in SUBSET V /\ 2 * Cardinality(W) > Cardinality(V)
        BY <1>1
      <4> HIDE DEF W, V
      <4>2. \E m \in W : m # root.tr.leader
        BY <3>1, <4>1, VoterWaits, SMTT(20)
      <4> QED BY <4>2 DEF W, V
    <3> DEFINE w == [node |-> m, ir |-> q.ir]
    <3>3. w \in requests /\ w.node = m /\ w.ir = q.ir /\ m \in Nodes
      BY <3>1
    <3> HIDE DEF w, V
    <3>4. Waiting(m, node[m], q.ir, UCs)
      BY <3>2, <3>3 DEF HeldInv, VoteOK
    <3> QED BY <1>3, <2>2, <3>3, <3>4, WaitingIssued
  <2> QED BY <2>1, <2>2
<1> HIDE DEF V
<1> QED BY <1>3, <1>6, <1>5, IssueHeld

\* Repeating the last certificate keeps certified blocks.
LEMMA RepeatHeld ==
  ASSUME IInv, HeldInv, Repeat
  PROVE  HeldInv'
<1>1. PICK l \in Validators[root.tr.epoch] :
        Issue([root.uc EXCEPT !.rootRound = @ + 1], [root.tr EXCEPT !.leader = l])
  BY DEF Repeat
<1> DEFINE uc == [root.uc EXCEPT !.rootRound = @ + 1]
           tr == [root.tr EXCEPT !.leader = l]
<1>2. root.uc \in UCs /\ CertificatesOK(UCs) /\ root.uc \in UnicityCertificate /\ root.uc.ir.round \in Nat
  BY IssuedType DEF IInv, RootOK
<1>3. uc.ir = root.uc.ir /\ uc.rootRound = root.uc.rootRound + 1 /\ Issue(uc, tr)
  BY <1>1, <1>2 DEF UnicityCertificate
<1> HIDE DEF uc, tr
<1>4. ASSUME NEW u \in UCs \cup {uc}, 0 < u.ir.round
      PROVE  /\ u.ir.round < uc.ir.round => IsStored(u.ir)
             /\ u.ir.round = uc.ir.round /\ Cardinality(Validators[u.ir.epoch]) > 1 =>
                  IsStored(u.ir) \/ \E n \in Nodes : Waiting(n, node[n], u.ir, UCs \cup {uc})
  <2>1. PICK w \in UCs : w.ir = u.ir
    BY <1>2, <1>3
  <2>2. /\ w.ir.round < root.uc.ir.round => IsStored(w.ir)
        /\ w.ir.round = root.uc.ir.round /\ Cardinality(Validators[w.ir.epoch]) > 1 =>
             IsStored(w.ir) \/ \E n \in Nodes : Waiting(n, node[n], w.ir, UCs)
    BY <1>4, <2>1 DEF HeldInv
  <2>3. w.ir.round = root.uc.ir.round => uc.ir = u.ir
    BY <1>2, <1>3, <2>1 DEF CertificatesOK, CertificatePairOK
  <2>4. ASSUME NEW n \in Nodes, Waiting(n, node[n], u.ir, UCs), uc.ir = u.ir
        PROVE  Waiting(n, node[n], u.ir, UCs \cup {uc})
    BY <2>4, WaitingIssued
  <2> QED BY <1>3, <2>1, <2>2, <2>3, <2>4
<1> QED BY <1>2, <1>3, <1>4, IssueHeld

\* Nothing is certified yet when the nodes start on empty stores.
LEMMA InitHeld ==
  ASSUME Init
  PROVE  HeldInv
<1>1. root.uc = InitialUC /\ InitialUC.ir.round = 0 /\ certs = {root}
  BY SMTT(20) DEF Init, InitialUC, InitialIR
<1>2. \A u \in UCs : u.ir.round = 0
  BY <1>1 DEF UCs
<1>3. ASSUME NEW n \in Nodes PROVE HistoryOK(node[n], certs)
  <2>1. node[n] = Start(EmptyStore, FALSE) /\ LastStoredUC(EmptyStore) = Nil
    BY DEF Init, EmptyStore, LastStoredUC
  <2>2. node[n].ltr = Nil /\ node[n].committedUC = Nil /\ node[n].lastProp = Nil
    BY <2>1, SMTT(20) DEF Start
  <2> QED BY <2>2 DEF HistoryOK, SeenOK
<1>4. proposals = {} /\ requests = {}
  BY DEF Init
<1>5. \A u \in UCs : ~ (0 < u.ir.round)
  BY <1>2, SMTT(20)
<1>6. root \in certs /\ \A c, d \in certs : c = d
  BY <1>1
<1> QED BY <1>3, <1>4, <1>5, <1>6 DEF HeldInv, ProposalsIssued

\* HeldInv holds as long as no block write has failed and no node has restarted.
THEOREM HeldInvariance ==
  ASSUME "storeBlock" \notin Faults
  PROVE  Spec => [](crashes = 0 => HeldInv)
<1> DEFINE I == crashes = 0 => HeldInv
<1>1. Init => I
  BY InitHeld
<1>2. IInv /\ I /\ [Next]_vars => I'
  <2> SUFFICES ASSUME IInv, I, [Next]_vars, crashes' = 0 PROVE HeldInv'
    OBVIOUS
  <2>1. crashes \in Nat
    BY DEF IInv, TypeOK
  <2>2. ASSUME NEW n \in Nodes, NodeStep(n) PROVE HeldInv'
    <3>1. HeldInv
      BY <2>2, NodeStepCrashes
    <3> QED BY <2>2, <3>1, NodeStepHeld
  <2>3. ASSUME NEW n \in Nodes, Restart(n) PROVE FALSE
    BY <2>1, <2>3, SMTT(20) DEF Restart, Reboot
  <2>4. CASE Certify \/ Repeat
    <3>1. HeldInv
      BY <2>4 DEF Certify, Repeat, Issue
    <3> QED BY <2>4, <3>1, CertifyHeld, RepeatHeld
  <2>5. CASE UNCHANGED <<node, proposals, requests, rootVars, crashes>>
    <3>1. HeldInv
      BY <2>5
    <3>2. /\ node' = node /\ proposals' = proposals /\ requests' = requests
          /\ root' = root /\ certs' = certs /\ UCs' = UCs
      BY <2>5 DEF rootVars, UCs
    <3>3. /\ \A n \in Nodes : HistoryOK(node[n], certs)' <=> HistoryOK(node[n], certs)
          /\ \A q : VoteOK(q)' <=> VoteOK(q)
          /\ ProposalsIssued' <=> ProposalsIssued
      BY <3>2 DEF HistoryOK, SeenOK, VoteOK, ProposalsIssued, Waiting, InSync, Leader
    <3>4. /\ \A u : IsStored(u.ir)' <=> IsStored(u.ir)
          /\ \A u : \A n \in Nodes : Waiting(n, node[n], u.ir, UCs)' <=> Waiting(n, node[n], u.ir, UCs)
      BY <3>2 DEF IsStored, Waiting, InSync, Leader
    <3> QED BY <3>1, <3>2, <3>3, <3>4 DEF HeldInv
  <2> QED BY <2>2, <2>3, <2>4, <2>5, OtherStep
<1> QED BY <1>1, <1>2, Invariance, PTL DEF Spec

\* As long as no block write has failed and no node has restarted, a certified block of a
\* shard with more than one validator is stored by some node or still held as the pending
\* proposal of one (CertifiedBlockIsHeld), for any nodes, epochs and validator sets, and
\* whatever else fails or is repeated, delayed and lost.
THEOREM CertifiedBlocksAreHeld ==
  ASSUME "storeBlock" \notin Faults
  PROVE  Spec => [](crashes = 0 => CertifiedBlockIsHeld)
<1>1. IInv /\ (crashes = 0 => HeldInv) => (crashes = 0 => CertifiedBlockIsHeld)
  <2> SUFFICES ASSUME IInv, HeldInv, NEW u \in UCs, u.ir.round > 0,
                      Cardinality(Validators[u.ir.epoch]) > 1
               PROVE  \E n \in Nodes :
                        \/ \E b \in node[n].blocks : b.uc.ir = u.ir
                        \/ /\ node[n].pending # Nil /\ AssertEqualIR(node[n].pending.uc.ir, u.ir)
                           /\ node[n].pendingHash = u.ir.hash
    BY DEF CertifiedBlockIsHeld
  <2>1. root.uc \in UCs /\ CertificatesOK(UCs) /\ u.rootRound <= root.uc.rootRound
    BY DEF IInv, RootOK
  <2>2. u.ir.round <= root.uc.ir.round /\ u.ir.round \in Nat /\ root.uc.ir.round \in Nat
    BY <2>1, IssuedType DEF CertificatesOK, CertificatePairOK
  <2>3. IsStored(u.ir) \/ \E n \in Nodes : Waiting(n, node[n], u.ir, UCs)
    BY <2>2, SMTT(20) DEF HeldInv
  <2> QED BY <2>3 DEF IsStored, Waiting, AssertEqualIR
<1> QED BY <1>1, Invariance, HeldInvariance, PTL

\* Under the same hypotheses a follower asks for one record per certificate, however often
\* the leader's T1 timer fires and whatever the leader proposes then (FollowersVoteOnce).
THEOREM NoSecondVote ==
  ASSUME "storeBlock" \notin Faults
  PROVE  Spec => [](crashes = 0 => FollowersVoteOnce)
<1>1. (crashes = 0 => HeldInv) => (crashes = 0 => FollowersVoteOnce)
  BY DEF HeldInv, VoteOK, Waiting, FollowersVoteOnce
<1> QED BY <1>1, HeldInvariance, PTL
=============================================================================
