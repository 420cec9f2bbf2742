--------------------------- MODULE PartitionNode ---------------------------
(***************************************************************************)
(* The consensus state of one partition node and what the handlers of its  *)
(* main loop do to it: partition/*.go and the transaction system they      *)
(* drive, txsystem/fgp_txsystem.go.                                        *)
(*                                                                         *)
(* The main loop is one goroutine, so a handler is an operator from node   *)
(* states to node states and one handler calling another is composition.   *)
(* The messages a handler sends, and the interleaving with the workers,    *)
(* the network, crashes and the root chain, are the business of Partition. *)
(*                                                                         *)
(* Two inputs recur: v is the PoW node's verdict on a block (every         *)
(* condition of FollowerVerify that depends on the PoW chain), and o is    *)
(* the I/O error, if any, the handler runs into.                           *)
(***************************************************************************)
EXTENDS UnicityCertificates, FiniteSets

CONSTANTS
  Epochs,      \* shard epochs that may occur, an initial segment of Nat
  Validators,  \* Validators[e]: the validators of epoch e
  ShardConfs,  \* epochs whose configuration the operator has imported
  ValidConfs,  \* those of them whose dFG parameter UpdateConfig accepts
  Height       \* height of each PoW block

\* A signed BlockProposal and the peers it was sent to.
BlockProposal ==
  [node : Nodes, uc : UnicityCertificate, tr : TechnicalRecord,
   root : PoWBlocks, to : SUBSET Nodes]

ASSUME EpochsAssumption ==
  /\ Epochs \subseteq Nat /\ 0 \in Epochs
  /\ 0 \in ValidConfs /\ ValidConfs \subseteq ShardConfs /\ ShardConfs \subseteq Epochs
ASSUME ValidatorsAssumption == Validators \in [Epochs -> SUBSET Nodes]
ASSUME FiniteAssumption == \A e \in Epochs : IsFiniteSet(Validators[e])
ASSUME HeightAssumption == Height \in [PoWBlocks -> Nat \ {0}]
ASSUME NilAssumption ==
  /\ Nil \notin PoWBlocks /\ Nil \notin Nodes
  /\ Nil \notin UnicityCertificate /\ Nil \notin TechnicalRecord
  /\ Nil \notin Block /\ Nil \notin BlockProposal

Statuses == {"initializing", "normal", "recovering"}

Option(S) == S \cup {Nil}

\* Blocks are kept and sent by round number.
Round(b) == b.uc.ir.round
First(S) == CHOOSE b \in S : \A c \in S : Round(b) <= Round(c)
Last(S) == CHOOSE b \in S : \A c \in S : Round(c) <= Round(b)

(***************************************************************************)
(* ConsensusState, the part of FGPTxSystem that outlives a handler, the    *)
(* channels and, last, the block store.  The leader is that of ltr and the *)
(* committed state hash that of committedUC.  applying: the main loop is   *)
(* in the middle of a replication response, and batch is what is left.     *)
(***************************************************************************)
NodeState ==
  [status : Statuses,
   fuc : Option(UnicityCertificate),        \* first UC of this run of the node
   luc : Option(UnicityCertificate),        \* latest UC seen
   ltr : Option(TechnicalRecord),           \* the TR of luc, if known
   pending : Option(Block),                 \* pendingBlockProposal
   lastProp : Option(BlockProposal),        \* recoveryLastProp
   committedUC : Option(UnicityCertificate),
   pendingHash : Hashes,                    \* pendingStateHash
   confEpoch : Epochs,                      \* epoch of n.shardConf
   txEpoch : Epochs,                        \* epoch of FGPTxSystem.shardConf
   epochEvent : BOOLEAN,                    \* epochChangeEvent holds a token
   applying : BOOLEAN,
   batch : SUBSET Block,
   blocks : SUBSET Block,                   \* blockStore, at the rounds' keys
   proposal : Option(Block)]                \* blockStore, at proposalKey

Leader(x) == IF x.ltr = Nil THEN Nil ELSE x.ltr.leader

\* The epoch by the TR if there is one, by the certificate otherwise.
EpochOf(uc, tr) == IF tr # Nil THEN tr.epoch ELSE IF uc # Nil THEN uc.ir.epoch ELSE 0
CurrentEpoch(x) == EpochOf(x.luc, x.ltr)

CurrentRoundNumber(x) ==
  IF x.ltr # Nil THEN x.ltr.round ELSE GetRoundNumber(x.luc) + 1

CommittedRound(x) == GetRoundNumber(x.committedUC)
CommittedHash(x) == GetStateHash(x.committedUC)

-----------------------------------------------------------------------------
(***************************************************************************)
(* Transaction system.                                                     *)
(***************************************************************************)
Revert(x) == [x EXCEPT !.pendingHash = Nil]

\* StateSummary fails while a state change is pending.
StateIs(x, hash) == x.pendingHash = Nil /\ hash = CommittedHash(x)

HeightOf(hash) == IF hash = Nil THEN 0 ELSE Height[hash]

\* Fault model: a block as high as the last finalised one counts as new.
CandidatesAtLeast(x) == {h \in PoWBlocks : Height[h] >= HeightOf(CommittedHash(x))}

\* Candidates LeaderPropose may pick, by the PoW chain's shape at the time.
Candidates(x) == {h \in PoWBlocks : Height[h] > HeightOf(CommittedHash(x))}

\* The proposed root is the committed one, or the PoW node vouches for it.
FollowerVerify(x, root, v) == root = CommittedHash(x) \/ v

-----------------------------------------------------------------------------
(***************************************************************************)
(* Rounds, recovery mode and the block store.                              *)
(***************************************************************************)
StartNewRound(x) == [x EXCEPT !.pending = Nil, !.proposal = Nil]

\* Fault model: recovery starts on top of an uncommitted change.
StartRecoveryUnreverted(x) ==
  IF x.status = "recovering" THEN x
  ELSE [x EXCEPT !.status = "recovering", !.pending = Nil]

StartRecovery(x) ==
  IF x.status = "recovering"
  THEN x
  ELSE [x EXCEPT !.status = "recovering", !.pendingHash = Nil, !.pending = Nil]

StopRecovery(x) == [x EXCEPT !.status = "normal"]

\* Fault model: off by one.
IsRecoveryAlmostComplete(x) == CommittedRound(x) + 1 >= GetRoundNumber(x.luc)

IsRecoveryComplete(x) == CommittedRound(x) = GetRoundNumber(x.luc)

\* Fault model: every block is written to the same key.
StoreLatestBlock(x, b) == [x EXCEPT !.blocks = {b}]

\* The key is the round of the block's certificate; a write overwrites.
StoreBlock(x, b) ==
  [x EXCEPT !.blocks = {c \in @ : Round(c) # Round(b)} \cup {b}]

\* finalizeBlock stores the block, commits, and deletes it if Commit fails.
Finalizes(x, b, o) == o # "storeBlock" /\ x.pendingHash = b.uc.ir.hash

\* Fault model: a recovered block is committed without being stored.
CommitRecovered(x, b) ==
  [(IF x.status = "recovering" THEN x ELSE StoreBlock(x, b))
     EXCEPT !.committedUC = b.uc, !.pendingHash = Nil]

FinalizeBlock(x, b) ==
  [StoreBlock(x, b) EXCEPT !.committedUC = b.uc, !.pendingHash = Nil]

-----------------------------------------------------------------------------
(***************************************************************************)
(* Unicity certificates.                                                   *)
(***************************************************************************)
OlderThanLUC(x, uc) == GetRootRoundNumber(x.luc) > GetRootRoundNumber(uc)

\* updateLUC returns no error.
AcceptsUC(x, uc) ==
  /\ Verify(uc)
  /\ \/ x.status = "recovering" /\ OlderThanLUC(x, uc)
     \/ x.luc # Nil => CheckNonEquivocatingCertificates(x.luc, uc)

\* Fault model: the epoch of the certificate is watched, not that of the round.
UpdateLUCByCertificateEpoch(x, uc, tr) ==
  IF \/ x.status = "recovering" /\ OlderThanLUC(x, uc)
     \/ IsDuplicate(uc, x.luc) /\ x.ltr # Nil
  THEN x
  ELSE [x EXCEPT !.luc = uc, !.ltr = tr,
                 !.epochEvent = @ \/ x.confEpoch # uc.ir.epoch]

\* Fault model: a repeat certificate does not bring a new leader.
UpdateLUCKeepingLeader(x, uc, tr) ==
  IF \/ x.status = "recovering" /\ OlderThanLUC(x, uc)
     \/ IsDuplicate(uc, x.luc) /\ x.ltr # Nil
  THEN x
  ELSE [x EXCEPT !.luc = uc, !.ltr = IF IsRepeat(uc, x.luc) /\ @ # Nil THEN @ ELSE tr,
                 !.epochEvent = @ \/ {CurrentEpoch(x), x.confEpoch} # {EpochOf(uc, tr)}]

\* Fault model: during recovery an older certificate replaces the latest one.
UpdateLUCWithOlder(x, uc, tr) ==
  IF IsDuplicate(uc, x.luc) /\ x.ltr # Nil
  THEN x
  ELSE [x EXCEPT !.luc = uc, !.ltr = tr,
                 !.epochEvent = @ \/ {CurrentEpoch(x), x.confEpoch} # {EpochOf(uc, tr)}]

UpdateLUC(x, uc, tr) ==
  IF \/ x.status = "recovering" /\ OlderThanLUC(x, uc)
     \/ IsDuplicate(uc, x.luc) /\ x.ltr # Nil
  THEN x
  ELSE [x EXCEPT !.luc = uc, !.ltr = tr,
                 !.epochEvent = @ \/ {CurrentEpoch(x), x.confEpoch} # {EpochOf(uc, tr)}]

\* The certificate is the next one after a certificate the node has acted on.
ExtendsCommitted(x, uc) ==
  /\ AcceptsUC(x, uc)
  /\ x.status # "recovering"
  /\ ~ IsDuplicate(uc, x.luc)
  /\ ~ IsRepeat(uc, x.luc)
  /\ IsSuccessor(uc, x.committedUC)

\* The certificate certifies the pending proposal, so finalizeBlock is called.
CertifiesPending(x, uc) ==
  /\ ExtendsCommitted(x, uc)
  /\ x.pending # Nil
  /\ AssertEqualIR(x.pending.uc.ir, uc.ir)

\* Fault model: the block keeps the unsealed certificate it was proposed with.
StillUncertified(b, uc) == b

Certified(b, uc) == [b EXCEPT !.uc = uc]

\* Fault model: any duplicate starts the round over.
RestartOnDuplicate(x, z) == StartNewRound(Revert(z))

\* The latest certificate once more, in state x (z: no longer initializing).  The round
\* is in progress, unless the node has just been started.
HandleDuplicate(x, z) == IF x.status = "initializing" THEN StartNewRound(z) ELSE z

HandleUnicityCertificate(x, uc, tr, o) ==
  LET y == UpdateLUC(x, uc, tr)
      z == [y EXCEPT !.status = "normal"]
  IN  IF ~ AcceptsUC(x, uc) THEN x
      ELSE IF x.status = "recovering" THEN y
      ELSE IF IsDuplicate(uc, x.luc) THEN HandleDuplicate(x, z)
      ELSE IF IsRepeat(uc, x.luc) THEN StartNewRound(Revert(z))
      ELSE IF ~ IsSuccessor(uc, x.committedUC) THEN StartRecovery(z)
      ELSE IF x.pending = Nil
           THEN IF IsInitial(uc) \/ StateIs(x, uc.ir.hash)
                THEN StartNewRound(z)
                ELSE StartRecovery(z)
      ELSE IF /\ AssertEqualIR(x.pending.uc.ir, uc.ir)
              /\ Finalizes(x, Certified(x.pending, uc), o)
           THEN StartNewRound(FinalizeBlock(z, Certified(x.pending, uc)))
           ELSE StartRecovery(z)

-----------------------------------------------------------------------------
(***************************************************************************)
(* Block proposals and certification requests.                             *)
(***************************************************************************)
\* The block a node stores and asks the root chain to certify.
PendingBlock(x, author) ==
  LET prevHash == GetStateHash(x.luc)
      prevBlockHash == GetBlockHash(x.committedUC)
  IN  [proposer |-> author,
       prevBlockHash |-> prevBlockHash,
       uc |-> [ir |-> [round |-> CurrentRoundNumber(x),
                       epoch |-> CurrentEpoch(x),
                       prevHash |-> prevHash,
                       hash |-> x.pendingHash,
                       ts |-> GetRootRoundNumber(x.luc),
                       blockHash |-> CalculateBlockHash(author, prevBlockHash,
                                                        prevHash, x.pendingHash)],
               rootRound |-> 0]]

\* Fault model: the state change outlives the failed write of the proposal.
SendUnreverted(x, author, o) ==
  IF o = "storeProposal"
  THEN x
  ELSE [x EXCEPT !.proposal = PendingBlock(x, author),
                 !.pending = PendingBlock(x, author)]

SendCertificationRequest(x, author, o) ==
  IF o = "storeProposal"
  THEN Revert(x)
  ELSE [x EXCEPT !.proposal = PendingBlock(x, author),
                 !.pending = PendingBlock(x, author)]

HandleBlockProposal(x, p, v, o) ==
  LET newer == GetRootRoundNumber(p.uc) > GetRootRoundNumber(x.luc)
      y == IF newer THEN HandleUnicityCertificate(x, p.uc, p.tr, o) ELSE x
  IN  IF x.status = "recovering" THEN [x EXCEPT !.lastProp = p]
      ELSE IF p.node \notin Validators[x.confEpoch] \/ OlderThanLUC(x, p.uc) THEN x
      ELSE IF \/ newer /\ ~ AcceptsUC(x, p.uc)
              \/ y.status = "recovering"
              \/ Leader(y) # p.node
              \/ y.pendingHash # Nil
              \/ ~ IsInitial(p.uc) /\ p.uc.ir.hash # CommittedHash(y)
           THEN y
      ELSE IF ~ FollowerVerify(y, p.root, v) THEN Revert(y)
      ELSE SendCertificationRequest([y EXCEPT !.pendingHash = p.root], p.node, o)

\* handleT1TimeoutEvent on the leader n; h is what LeaderPropose comes up with.
LeaderRound(x, n, h, o) ==
  LET y == SendCertificationRequest([x EXCEPT !.pendingHash = h], n, o)
  IN  IF h = Nil THEN Revert(x)            \* no candidate, or the PoW node fails
      ELSE IF o \in {"storeProposal", "send"} THEN Revert(y)
      ELSE y

-----------------------------------------------------------------------------
(***************************************************************************)
(* Recovery from other nodes' blocks.                                      *)
(***************************************************************************)
\* The blocks processReplicationRequest reads: from begin on, until maxReturn
\* of them are collected or one at or after end has been.
ReplicatedBlocks(S, begin, end, maxReturn) ==
  LET before(b) == {c \in S : begin <= Round(c) /\ Round(c) < Round(b)}
  IN  {b \in S : /\ begin <= Round(b)
                 /\ Cardinality(before(b)) < maxReturn
                 /\ \A c \in before(b) : Round(c) < end}

\* handleLedgerReplicationResponse up to its loop over the blocks.  FirstBlockNumber
\* is 0 in a response without blocks.
HandleLedgerReplicationResponse(x, ok, blocks) ==
  IF x.status # "recovering" THEN x
  ELSE IF ~ ok
       THEN IF IsRecoveryComplete(x) THEN StopRecovery(x) ELSE x
  ELSE IF blocks = {} \/ Round(First(blocks)) <= CommittedRound(x) THEN x
  ELSE [x EXCEPT !.applying = TRUE, !.batch = blocks]

\* A recovered block extends the ledger: every check before FollowerVerify passes.
BlockExtends(x, b) ==
  /\ ValidBlock(b)
  /\ AcceptsUC(x, b.uc)
  /\ Round(b) > CommittedRound(x)
  /\ IsSuccessor(b.uc, x.committedUC)
  /\ b.prevBlockHash = GetBlockHash(x.committedUC)
  /\ x.pendingHash = Nil
  /\ x.committedUC # Nil => b.uc.ir.prevHash = CommittedHash(x)

\* handleBlock on the next block of the batch; an error abandons the batch.
HandleBlock(x, v, o) ==
  LET b == First(x.batch)
      y == IF ValidBlock(b) /\ AcceptsUC(x, b.uc) THEN UpdateLUC(x, b.uc, Nil) ELSE x
      next(z) == [z EXCEPT !.batch = @ \ {b}]
      fail(z) == [z EXCEPT !.applying = FALSE, !.batch = {}]
  IN  IF BlockExtends(x, b)
      THEN IF FollowerVerify(x, b.uc.ir.hash, v) /\ o # "storeBlock"
           THEN next(FinalizeBlock(y, b))
           ELSE fail(Revert(y))
      ELSE IF ValidBlock(b) /\ AcceptsUC(x, b.uc) /\ Round(b) <= CommittedRound(x)
           THEN next(y)
           ELSE fail(y)

\* The rest of handleLedgerReplicationResponse, after its loop.
FinishBatch(x, v, o) ==
  LET y == StartNewRound([StopRecovery(x) EXCEPT !.applying = FALSE])
  IN  IF ~ IsRecoveryComplete(x) THEN [x EXCEPT !.applying = FALSE]
      ELSE IF x.lastProp = Nil THEN y
      ELSE [HandleBlockProposal(y, x.lastProp, v, o) EXCEPT !.lastProp = Nil]

-----------------------------------------------------------------------------
(***************************************************************************)
(* Epoch changes and start-up.                                             *)
(***************************************************************************)
HandleEpochChangeEvent(x) ==
  LET e == CurrentEpoch(x)
  IN  [x EXCEPT !.epochEvent = FALSE,
                !.confEpoch = IF e \in ShardConfs THEN e ELSE @,
                !.txEpoch = IF e \in ValidConfs THEN e ELSE @]

\* Fault model: the iterator starts at the other end of the store.
FirstStoredUC(x) ==
  IF x.blocks # {} THEN First(x.blocks).uc
  ELSE IF x.proposal # Nil THEN x.proposal.uc
  ELSE Nil

\* The UC initState finds at the last key of the block store.  The proposal's
\* key sorts before every block's, so it is last when it is the only one.
LastStoredUC(x) ==
  IF x.blocks # {} THEN Last(x.blocks).uc
  ELSE IF x.proposal # Nil THEN x.proposal.uc
  ELSE Nil

StoredEpoch(x) == IF LastStoredUC(x) = Nil THEN 0 ELSE LastStoredUC(x).ir.epoch

\* NewNode succeeds only with a usable configuration for that epoch.
CanStart(x) == StoredEpoch(x) \in ValidConfs

\* restoreBlockProposal accepts the stored proposal.
Restorable(x, v) ==
  /\ x.proposal # Nil
  /\ x.proposal.uc.ir.prevHash = GetStateHash(LastStoredUC(x))
  /\ x.proposal.uc.ir.hash = GetStateHash(LastStoredUC(x)) \/ v

\* NewNode on what x left in its block store.
Start(x, v) ==
  [status |-> "initializing",
   fuc |-> LastStoredUC(x), luc |-> LastStoredUC(x), ltr |-> Nil,
   pending |-> IF Restorable(x, v) THEN x.proposal ELSE Nil,
   lastProp |-> Nil,
   committedUC |-> LastStoredUC(x),
   pendingHash |-> IF Restorable(x, v) THEN x.proposal.uc.ir.hash ELSE Nil,
   confEpoch |-> StoredEpoch(x), txEpoch |-> StoredEpoch(x), epochEvent |-> FALSE,
   applying |-> FALSE, batch |-> {},
   blocks |-> x.blocks, proposal |-> x.proposal]
=============================================================================
