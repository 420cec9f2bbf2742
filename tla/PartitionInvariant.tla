------------------------- MODULE PartitionInvariant -------------------------
(***************************************************************************)
(* The inductive invariant behind the safety properties of Partition.      *)
(* U is a set of issued certificates throughout, so that what is said of a *)
(* node's state remains true when more certificates are issued.            *)
(***************************************************************************)
EXTENDS Partition

(***************************************************************************)
(* The certificates: one record per round, one certificate per root round, *)
(* in the same order, each extending the state before it with a higher PoW *)
(* block.                                                                  *)
(***************************************************************************)
CertificateOK(u) ==
  /\ u.rootRound # 0
  /\ u.ir.round = 0 <=> u.ir.hash = Nil
  /\ u.ir.round = 0 => u.ir.blockHash = << >>
  /\ u.ir.round # 0 => HeightOf(u.ir.prevHash) < HeightOf(u.ir.hash)

CertificatePairOK(u, w) ==
  /\ u.rootRound = w.rootRound => u = w
  /\ u.rootRound <= w.rootRound => u.ir.round <= w.ir.round
  /\ u.ir.round = w.ir.round => u.ir = w.ir
  /\ u.ir.round < w.ir.round => HeightOf(u.ir.hash) < HeightOf(w.ir.hash)
  /\ u.ir.round + 1 = w.ir.round => w.ir.prevHash = u.ir.hash

CertificatesOK(U) ==
  /\ U \subseteq UnicityCertificate
  /\ \A u \in U : CertificateOK(u)
  /\ \A u, w \in U : CertificatePairOK(u, w)

(***************************************************************************)
(* Blocks and proposals a node holds.                                      *)
(***************************************************************************)
BlockOK(b, U) == b.uc \in U /\ ValidBlock(b) /\ b.uc.ir.hash # Nil

PendingOK(b, U) ==
  /\ ValidBlock(b)
  /\ b.uc.rootRound = 0
  /\ HeightOf(b.uc.ir.prevHash) < HeightOf(b.uc.ir.hash)
  /\ \E u \in U : /\ u.ir.hash = b.uc.ir.prevHash
                  /\ u.ir.blockHash = b.prevBlockHash

ProposalOK(p, U) == p.uc \in U /\ HeightOf(p.uc.ir.hash) < HeightOf(p.root)

DataOK(x, U) ==
  /\ \A b \in x.blocks \cup x.batch : BlockOK(b, U)
  /\ x.pending # Nil => PendingOK(x.pending, U)
  /\ x.proposal # Nil => PendingOK(x.proposal, U)
  /\ x.lastProp # Nil => ProposalOK(x.lastProp, U)

(***************************************************************************)
(* The block store as a chain, and the certificates a node acts on.        *)
(***************************************************************************)
Links(b, c) ==
  /\ Round(c) = Round(b) + 1
  /\ c.prevBlockHash = b.uc.ir.blockHash
  /\ c.uc.ir.prevHash = b.uc.ir.hash

ChainOK(S, uc, U) ==
  /\ uc \in U => \E b \in S : b.uc = uc
  /\ S # {} => uc \in U
  /\ \A b \in S : \/ Round(b) = uc.ir.round
                  \/ Round(b) < uc.ir.round /\ \E c \in S : Links(b, c)

CertsOK(x, U) ==
  /\ x.ltr # Nil => x.luc # Nil
  /\ x.luc # Nil => x.luc \in U \/ (x.luc.rootRound = 0 /\ x.ltr = Nil)
  /\ x.committedUC # Nil => /\ x.committedUC.ir.hash # Nil
                            /\ x.committedUC \in U \/ x.committedUC.rootRound = 0
                            /\ x.luc # Nil
                            /\ x.committedUC.ir.round <= x.luc.ir.round
                            /\ x.committedUC.ir.round = x.luc.ir.round
                                 => x.committedUC.ir = x.luc.ir
  /\ x.pending # Nil => x.pending.prevBlockHash = GetBlockHash(x.committedUC)

BaseOK(x, U) ==
  x \in NodeState /\ DataOK(x, U) /\ ChainOK(x.blocks, x.committedUC, U) /\ CertsOK(x, U)

\* The latest certificate certifies what is committed.
InSync(x, U) ==
  /\ x.luc \in U
  /\ IF x.committedUC = Nil THEN x.luc.ir.round = 0 ELSE x.luc.ir = x.committedUC.ir

ModesOK(x, U) ==
  /\ x.status = "initializing" => x.ltr = Nil /\ x.luc = x.committedUC
  /\ x.status = "normal" => InSync(x, U)
  /\ x.status = "recovering" => x.luc \in U /\ x.pending = Nil /\ x.pendingHash = Nil
  /\ x.applying => x.status = "recovering"

NodeOK(x, U) == BaseOK(x, U) /\ ModesOK(x, U)

\* What FinalityIsDurable says of a node that goes from x to y.
Durable(x, y, U) ==
  /\ x.blocks \subseteq y.blocks
  /\ x.committedUC \in U => CommittedRound(x) <= CommittedRound(y)

(***************************************************************************)
(* The inductive invariant.                                                *)
(***************************************************************************)
RequestOK(ir) == ir.hash # Nil /\ HeightOf(ir.prevHash) < HeightOf(ir.hash)

MessagesOK ==
  /\ \A p \in proposals : ProposalOK(p, UCs)
  /\ \A q \in requests : RequestOK(q.ir)
  /\ \A m \in replResps : \A b \in m.blocks : BlockOK(b, UCs)

RootOK ==
  /\ root.uc \in UCs
  /\ root.tr.round = root.uc.ir.round + 1 /\ root.tr.epoch \in Epochs
  /\ \A u \in UCs : u.rootRound <= root.uc.rootRound

IInv ==
  /\ TypeOK
  /\ CertificatesOK(UCs)
  /\ \A n \in Nodes : NodeOK(node[n], UCs)
  /\ MessagesOK
  /\ RootOK

-----------------------------------------------------------------------------
(***************************************************************************)
(* What two more properties need of a node.  EpochOK and ChangeOK are what *)
(* EpochChangeNotLost and StateChangeHasProposal say of it; the second is  *)
(* preserved as long as nodes do not restart.                              *)
(***************************************************************************)
EpochOK(x) ==
  x.confEpoch = CurrentEpoch(x) \/ x.epochEvent \/ CurrentEpoch(x) \notin ShardConfs

ChangeOK(x) ==
  /\ x.pendingHash # Nil => x.pending # Nil
  /\ x.status = "initializing" => x.pendingHash = Nil

(***************************************************************************)
(* Why final blocks are the leaders' blocks.  A node knows the leader from *)
(* a response of the root chain, proposals carry such a response too, and  *)
(* what is proposed, asked for and certified is the block of the leader    *)
(* that was appointed with the certificate it builds on.  C is a set of    *)
(* issued certification responses.                                         *)
(***************************************************************************)
SeenOK(x, C) ==
  /\ x.ltr # Nil => [uc |-> x.luc, tr |-> x.ltr] \in C
  /\ x.lastProp # Nil => [uc |-> x.lastProp.uc, tr |-> x.lastProp.tr] \in C

ProposalsIssued == \A p \in proposals : [uc |-> p.uc, tr |-> p.tr] \in certs

Led(ir, l, C) ==
  \E c \in C : /\ c.uc.rootRound = ir.ts
              /\ c.tr.round = ir.round /\ c.tr.epoch = ir.epoch /\ c.tr.leader = l

\* The proposer of a block, as its hash in the input record commits to it.
ProposerOf(ir) == ir.blockHash[Len(ir.blockHash)].proposer

LeaderInv ==
  /\ ProposalsIssued
  /\ \A n \in Nodes : LET x == node[n] IN
       /\ SeenOK(x, certs)
       /\ x.pending # Nil => Led(x.pending.uc.ir, x.pending.proposer, certs)
       /\ x.proposal # Nil => Led(x.proposal.uc.ir, x.proposal.proposer, certs)
  /\ \A q \in requests : Led(q.ir, ProposerOf(q.ir), certs)
  /\ \A u \in UCs : u.ir.round # 0 => Led(u.ir, ProposerOf(u.ir), certs)

(***************************************************************************)
(* Why a certified block is not lost.  Every superseded record is stored:  *)
(* whoever voted for the next one had committed it.  The latest one is     *)
(* stored by a node, or held by a follower that voted for it; such a node  *)
(* waits, and nothing but a certificate for its vote makes it move.        *)
(***************************************************************************)
HistoryOK(x, C) ==
  /\ SeenOK(x, C)
  /\ x.committedUC # Nil => \E c \in C : c.uc = x.committedUC

\* Node n, in state x, has voted for the record ir and is not its leader.
Waiting(n, x, ir, U) ==
  /\ x.status = "normal" /\ InSync(x, U)
  /\ x.ltr # Nil /\ Leader(x) # n
  /\ x.pending # Nil /\ x.pending.uc.ir = ir
  /\ ir.hash # Nil /\ x.pendingHash = ir.hash
  /\ ir.round = x.luc.ir.round + 1
  /\ \A w \in U : w.rootRound > x.luc.rootRound => w.ir = ir

VoteOK(q) ==
  LET x == node[q.node]
  IN  /\ x.status = "normal" /\ x.luc = root.uc /\ x.ltr = root.tr
      /\ q.node # root.tr.leader => Waiting(q.node, x, q.ir, UCs)

IsStored(ir) == \E n \in Nodes : \E b \in node[n].blocks : b.uc.ir = ir

HeldInv ==
  /\ root \in certs
  /\ \A c, d \in certs : c.uc.rootRound = d.uc.rootRound => c = d
  /\ ProposalsIssued
  /\ \A n \in Nodes : HistoryOK(node[n], certs)
  /\ \A q \in requests : VoteOK(q)
  /\ \A u \in UCs : 0 < u.ir.round =>
       /\ u.ir.round < root.uc.ir.round => IsStored(u.ir)
       /\ u.ir.round = root.uc.ir.round /\ Cardinality(Validators[u.ir.epoch]) > 1 =>
            IsStored(u.ir) \/ \E n \in Nodes : Waiting(n, node[n], u.ir, UCs)
=============================================================================
