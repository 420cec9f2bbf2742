------------------------- MODULE PartitionNodeProofs --------------------------
(***************************************************************************)
(* Every operation of a node keeps the invariant of the node: one lemma    *)
(* per handler, stated for a node state x and a set U of issued            *)
(* certificates.  The second half says what a handler may change.          *)
(***************************************************************************)
EXTENDS PartitionInvariant, WellFoundedInduction, TLAPS

\* Most steps are first-order; the ones that need more name SMT.
USE ZenonT(30)

-----------------------------------------------------------------------------
(***************************************************************************)
(* Handling a certificate keeps the invariant of a node: updateLUC,        *)
(* storeBlock, finalizeBlock and handleUnicityCertificate, with the facts  *)
(* about certificates, heights and block hashes that the other proofs use. *)
(***************************************************************************)

\* updateLUC keeps a well-typed node state well typed.
LEMMA UpdateLUCType ==
  ASSUME NEW x \in NodeState, NEW uc \in UnicityCertificate, NEW tr \in Option(TechnicalRecord)
  PROVE  UpdateLUC(x, uc, tr) \in NodeState
<1> DEFINE e == x.epochEvent \/ {CurrentEpoch(x), x.confEpoch} # {EpochOf(uc, tr)}
<1>1. e \in BOOLEAN
  OBVIOUS
<1> HIDE DEF e
<1>2. [x EXCEPT !.luc = uc, !.ltr = tr, !.epochEvent = e] \in NodeState
  BY <1>1 DEF NodeState, Option
<1>3. UpdateLUC(x, uc, tr) \in {x, [x EXCEPT !.luc = uc, !.ltr = tr, !.epochEvent = e]}
  BY Zenon DEF UpdateLUC, e
<1> QED BY <1>2, <1>3

\* The block hash of a header and two state hashes is a block hash.
LEMMA CalculateBlockHashType ==
  ASSUME NEW p \in Nodes, NEW b \in BlockHashes, NEW g \in Hashes, NEW h \in Hashes
  PROVE  CalculateBlockHash(p, b, g, h) \in BlockHashes
<1> DEFINE R == [proposer : Nodes, prevHash : Hashes, hash : Hashes]
<1>1. [proposer |-> p, prevHash |-> g, hash |-> h] \in R
  OBVIOUS
<1> HIDE DEF R
<1>2. << >> \in Seq(R)
  BY SMTT(20)
<1>3. \A e \in R, s \in Seq(R) : Append(s, e) \in Seq(R)
  BY SMTT(20)
<1>4. b \in Seq(R)
  BY DEF BlockHashes, R
<1> QED BY <1>1, <1>2, <1>3, <1>4 DEF CalculateBlockHash, BlockHashes, R

\* The nil-safe getters of a certificate return a value of their type for nil too.
LEMMA GetType ==
  ASSUME NEW uc \in Option(UnicityCertificate)
  PROVE  /\ GetRoundNumber(uc) \in Nat
         /\ GetRootRoundNumber(uc) \in Nat
         /\ GetStateHash(uc) \in Hashes
         /\ GetBlockHash(uc) \in BlockHashes
<1>1. CASE uc = Nil
  BY <1>1, SMTT(20) DEF GetRoundNumber, GetRootRoundNumber, GetStateHash, GetBlockHash, Hashes, BlockHashes
<1>2. CASE uc \in UnicityCertificate
  BY <1>2, NilAssumption DEF GetRoundNumber, GetRootRoundNumber, GetStateHash, GetBlockHash, UnicityCertificate, InputRecord
<1> QED BY <1>1, <1>2 DEF Option

\* currentRoundNumber and currentEpoch are numbers in every node state.
LEMMA CurrentType ==
  ASSUME NEW x \in NodeState
  PROVE  CurrentRoundNumber(x) \in Nat /\ CurrentEpoch(x) \in Nat
<1>1. x.ltr \in Option(TechnicalRecord) /\ x.luc \in Option(UnicityCertificate)
  BY DEF NodeState
<1>2. GetRoundNumber(x.luc) + 1 \in Nat
  BY <1>1, GetType, SMTT(20)
<1>3. CurrentRoundNumber(x) \in Nat
  BY <1>1, <1>2 DEF CurrentRoundNumber, Option, TechnicalRecord
<1>4. CurrentEpoch(x) \in Nat
  BY <1>1 DEF CurrentEpoch, EpochOf, Option, TechnicalRecord, UnicityCertificate, InputRecord
<1> QED BY <1>3, <1>4

\* What sendCertificationRequest builds is a block.
LEMMA PendingBlockType ==
  ASSUME NEW x \in NodeState, NEW author \in Nodes
  PROVE  PendingBlock(x, author) \in Block
<1>1. /\ x.luc \in Option(UnicityCertificate) /\ x.committedUC \in Option(UnicityCertificate)
      /\ x.pendingHash \in Hashes
  BY DEF NodeState
<1> DEFINE prevHash == GetStateHash(x.luc)
           prevBlockHash == GetBlockHash(x.committedUC)
           bh == CalculateBlockHash(author, prevBlockHash, prevHash, x.pendingHash)
<1>2. prevHash \in Hashes /\ prevBlockHash \in BlockHashes /\ GetRootRoundNumber(x.luc) \in Nat
  BY <1>1, GetType
<1>3. bh \in BlockHashes
  BY <1>1, <1>2, CalculateBlockHashType
<1>4. [ir |-> [round |-> CurrentRoundNumber(x), epoch |-> CurrentEpoch(x),
               prevHash |-> prevHash, hash |-> x.pendingHash,
               ts |-> GetRootRoundNumber(x.luc), blockHash |-> bh],
       rootRound |-> 0] \in UnicityCertificate
  BY <1>1, <1>2, <1>3, CurrentType DEF UnicityCertificate, InputRecord
<1> QED BY <1>2, <1>4 DEF PendingBlock, Block
-----------------------------------------------------------------------------
\* A handler that leaves the certificates and the block store alone, and at most drops the
\* pending proposal or blocks still to be applied, keeps what BaseOK says of them.
LEMMA BaseFrame ==
  ASSUME NEW U, NEW x, NEW y \in NodeState, BaseOK(x, U),
         y.blocks = x.blocks, y.batch \subseteq x.batch,
         y.luc = x.luc, y.ltr = x.ltr, y.committedUC = x.committedUC,
         y.pending \in {Nil, x.pending}, y.proposal \in {Nil, x.proposal},
         y.lastProp \in {Nil, x.lastProp}
  PROVE  BaseOK(y, U)
<1>1. DataOK(y, U)
  BY DEF BaseOK, DataOK
<1>2. CertsOK(y, U)
  BY DEF BaseOK, CertsOK
<1> QED BY <1>1, <1>2 DEF BaseOK

\* updateLUC on an accepted certificate keeps the node consistent with the issued ones, and
\* the latest certificate is then that one, unless recovery skipped it as older.
LEMMA UpdateLUCBase ==
  ASSUME NEW U, CertificatesOK(U), NEW x, BaseOK(x, U), NEW uc \in U,
         NEW tr \in Option(TechnicalRecord), AcceptsUC(x, uc)
  PROVE  LET y == UpdateLUC(x, uc, tr)
         IN  /\ BaseOK(y, U)
             /\ y.luc = uc \/ (x.status = "recovering" /\ OlderThanLUC(x, uc) /\ y = x)
<1> DEFINE y == UpdateLUC(x, uc, tr)
<1>1. x \in NodeState /\ uc \in UnicityCertificate /\ uc.rootRound # 0
  BY DEF BaseOK, CertificatesOK, CertificateOK
<1>2. y \in NodeState
  BY <1>1, UpdateLUCType
<1>3. CASE x.status = "recovering" /\ OlderThanLUC(x, uc)
  BY <1>3 DEF UpdateLUC
<1>4. CASE ~ (x.status = "recovering" /\ OlderThanLUC(x, uc)) /\ IsDuplicate(uc, x.luc) /\ x.ltr # Nil
  <2>1. y = x
    BY <1>4 DEF UpdateLUC
  <2>2. x.luc \in U /\ x.luc # Nil
    BY <1>4 DEF BaseOK, CertsOK
  <2>3. x.luc.rootRound = uc.rootRound
    BY <1>1, <1>4, <2>2, NilAssumption DEF IsDuplicate, GetRootRoundNumber
  <2>4. x.luc = uc
    BY <2>2, <2>3 DEF CertificatesOK, CertificatePairOK
  <2> QED BY <2>1, <2>4
<1>5. CASE ~ (x.status = "recovering" /\ OlderThanLUC(x, uc)) /\ ~ (IsDuplicate(uc, x.luc) /\ x.ltr # Nil)
  <2>1. /\ y.luc = uc /\ y.ltr = tr
        /\ y.blocks = x.blocks /\ y.batch = x.batch /\ y.committedUC = x.committedUC
        /\ y.pending = x.pending /\ y.proposal = x.proposal /\ y.lastProp = x.lastProp
    BY <1>1, <1>5 DEF UpdateLUC, NodeState
  <2>2. DataOK(y, U)
    BY <2>1 DEF BaseOK, DataOK
  <2>3. uc # Nil
    BY <1>1, NilAssumption
  <2>4. ASSUME x.committedUC # Nil
        PROVE  /\ x.committedUC.ir.round <= uc.ir.round
               /\ x.committedUC.ir.round = uc.ir.round => x.committedUC.ir = uc.ir
    <3>1. /\ x.luc # Nil /\ x.luc \in UnicityCertificate /\ x.committedUC \in UnicityCertificate
          /\ x.committedUC.ir.round <= x.luc.ir.round
          /\ x.committedUC.ir.round = x.luc.ir.round => x.committedUC.ir = x.luc.ir
      BY <2>4 DEF BaseOK, CertsOK, NodeState, Option
    <3>2. CheckNonEquivocatingCertificates(x.luc, uc)
      BY <1>5, <3>1 DEF AcceptsUC
    <3>3. x.luc.ir.round <= uc.ir.round /\ (x.luc.ir.round = uc.ir.round => x.luc.ir = uc.ir)
      BY <2>3, <3>1, <3>2 DEF CheckNonEquivocatingCertificates, GetRoundNumber
    <3>4. x.committedUC.ir.round \in Nat /\ x.luc.ir.round \in Nat /\ uc.ir.round \in Nat
      BY <1>1, <3>1 DEF UnicityCertificate, InputRecord
    <3> QED BY <3>1, <3>3, <3>4, SMTT(20)
  <2>5. CertsOK(y, U)
    BY <2>1, <2>3, <2>4 DEF BaseOK, CertsOK
  <2> QED BY <1>2, <2>1, <2>2, <2>5 DEF BaseOK
<1> QED BY <1>3, <1>4, <1>5

\* updateLUC changes the latest certificate, its technical record and the epoch event only.
LEMMA UpdateLUCFrame ==
  ASSUME NEW x \in NodeState, NEW uc, NEW tr
  PROVE  LET y == UpdateLUC(x, uc, tr)
         IN  /\ y.blocks = x.blocks /\ y.batch = x.batch /\ y.committedUC = x.committedUC
             /\ y.pending = x.pending /\ y.proposal = x.proposal /\ y.lastProp = x.lastProp
             /\ y.status = x.status /\ y.pendingHash = x.pendingHash /\ y.applying = x.applying
BY DEF UpdateLUC, NodeState

\* Heights of finalised PoW blocks are positive; nothing finalised counts as height 0.
LEMMA HeightType ==
  /\ \A h \in Hashes : HeightOf(h) \in Nat
  /\ \A h \in Hashes : h # Nil => HeightOf(h) > 0
  /\ HeightOf(Nil) = 0
BY HeightAssumption, SMTT(20) DEF HeightOf, Hashes

\* An issued certificate is not nil, has a seal, and the getters read its fields.
LEMMA IssuedType ==
  ASSUME NEW U, CertificatesOK(U), NEW u \in U
  PROVE  /\ u \in UnicityCertificate /\ u # Nil /\ u.rootRound \in Nat \ {0}
         /\ u.ir.round \in Nat /\ u.ir.hash \in Hashes /\ u.ir.prevHash \in Hashes
         /\ GetRoundNumber(u) = u.ir.round /\ GetRootRoundNumber(u) = u.rootRound
         /\ GetStateHash(u) = u.ir.hash /\ GetBlockHash(u) = u.ir.blockHash
<1>1. u \in UnicityCertificate /\ u.rootRound # 0
  BY DEF CertificatesOK, CertificateOK
<1>2. u # Nil
  BY <1>1, NilAssumption
<1> QED BY <1>1, <1>2 DEF UnicityCertificate, InputRecord, GetRoundNumber, GetRootRoundNumber, GetStateHash, GetBlockHash

\* storeBlock of the next certified block keeps the store a chain and overwrites nothing.
LEMMA StoreChain ==
  ASSUME NEW U, CertificatesOK(U), NEW x, BaseOK(x, U), NEW b \in Block, BlockOK(b, U),
         Round(b) = CommittedRound(x) + 1, b.prevBlockHash = GetBlockHash(x.committedUC)
  PROVE  LET S == StoreBlock(x, b).blocks
         IN  /\ S = {c \in x.blocks : Round(c) # Round(b)} \cup {b}
             /\ x.blocks \subseteq S
             /\ \A c \in S : BlockOK(c, U)
             /\ S \subseteq Block
             /\ ChainOK(S, b.uc, U)
<1> DEFINE S == StoreBlock(x, b).blocks
           w == x.committedUC
<1>1. x \in NodeState /\ x.blocks \subseteq Block
  BY DEF BaseOK, NodeState
<1>2. S = {c \in x.blocks : Round(c) # Round(b)} \cup {b}
  BY <1>1 DEF StoreBlock, NodeState
<1>3. \A c \in x.blocks : BlockOK(c, U)
  BY DEF BaseOK, DataOK
<1>4. ASSUME NEW c \in x.blocks
      PROVE  /\ w \in U /\ c.uc \in U /\ Round(c) \in Nat /\ CommittedRound(x) = w.ir.round
             /\ CommittedRound(x) \in Nat /\ Round(c) <= CommittedRound(x)
             /\ Round(c) < CommittedRound(x) => \E d \in x.blocks : Links(c, d)
  <2>1. w \in U /\ c.uc \in U
    BY <1>3 DEF BaseOK, ChainOK, BlockOK
  <2>2. Round(c) \in Nat /\ CommittedRound(x) = w.ir.round /\ w.ir.round \in Nat
    BY <2>1, IssuedType DEF Round, CommittedRound
  <2> QED BY <2>1, <2>2, SMTT(20) DEF BaseOK, ChainOK
<1>5. x.blocks \subseteq S
  <2> SUFFICES ASSUME NEW c \in x.blocks PROVE Round(c) # Round(b)
    BY <1>2
  <2> QED BY <1>4, SMTT(20)
<1>6. ASSUME NEW c \in S
      PROVE  \/ Round(c) = b.uc.ir.round
             \/ Round(c) < b.uc.ir.round /\ \E d \in S : Links(c, d)
  <2>1. CASE c = b
    BY <2>1 DEF Round
  <2>2. CASE c \in x.blocks /\ Round(c) < CommittedRound(x)
    BY <1>4, <1>5, <2>2, SMTT(20) DEF Round
  <2>3. CASE c \in x.blocks /\ Round(c) = CommittedRound(x)
    <3>1. w \in U /\ c.uc \in U /\ b.uc \in U
      BY <1>4, <2>3 DEF BlockOK
    <3>2. c.uc.ir = w.ir /\ b.uc.ir.prevHash = c.uc.ir.hash
      BY <1>4, <2>3, <3>1, SMTT(20) DEF CertificatesOK, CertificatePairOK, Round
    <3>3. b.prevBlockHash = c.uc.ir.blockHash
      BY <3>1, <3>2, IssuedType
    <3>4. Links(c, b)
      BY <2>3, <3>2, <3>3 DEF Links
    <3>5. Round(c) < b.uc.ir.round
      BY <1>4, <2>3, SMTT(20) DEF Round
    <3> QED BY <1>2, <3>4, <3>5
  <2>4. Round(c) < CommittedRound(x) \/ Round(c) = CommittedRound(x) \/ c \notin x.blocks
    BY <1>4, SMTT(20)
  <2> QED BY <1>2, <2>1, <2>2, <2>3, <2>4
<1>7. ChainOK(S, b.uc, U)
  BY <1>2, <1>6 DEF ChainOK, BlockOK
<1> QED BY <1>1, <1>2, <1>3, <1>5, <1>7

\* finalizeBlock of the next certified block keeps the node consistent, provided the latest
\* certificate is not behind that block.
LEMMA FinalizeBase ==
  ASSUME NEW U, CertificatesOK(U), NEW x, BaseOK(x, U), NEW b \in Block, BlockOK(b, U),
         Round(b) = CommittedRound(x) + 1, b.prevBlockHash = GetBlockHash(x.committedUC),
         x.luc # Nil, Round(b) <= x.luc.ir.round, Round(b) = x.luc.ir.round => b.uc.ir = x.luc.ir,
         NEW y \in NodeState, y.blocks = StoreBlock(x, b).blocks, y.committedUC = b.uc,
         y.batch \subseteq x.batch, y.luc = x.luc, y.ltr = x.ltr, y.pending = Nil,
         y.proposal \in {Nil, x.proposal}, y.lastProp \in {Nil, x.lastProp}
  PROVE  BaseOK(y, U)
<1>1. ChainOK(y.blocks, y.committedUC, U) /\ \A c \in y.blocks : BlockOK(c, U)
  BY StoreChain, SMTT(20)
<1>2. DataOK(y, U)
  BY <1>1 DEF BaseOK, DataOK
<1>3. CertsOK(y, U)
  BY DEF BaseOK, CertsOK, BlockOK, Round
<1> QED BY <1>1, <1>2, <1>3 DEF BaseOK

\* finalizeBlock writes the block, the committed certificate and the pending state hash.
LEMMA FinalizeBlockType ==
  ASSUME NEW x \in NodeState, NEW b \in Block
  PROVE  LET y == FinalizeBlock(x, b)
         IN  /\ y \in NodeState
             /\ y = [x EXCEPT !.blocks = StoreBlock(x, b).blocks, !.committedUC = b.uc,
                              !.pendingHash = Nil]
<1>1. b.uc \in Option(UnicityCertificate) /\ Nil \in Hashes
  BY DEF Block, Option, Hashes
<1>2. StoreBlock(x, b).blocks \subseteq Block
  BY DEF StoreBlock, NodeState
<1>3. FinalizeBlock(x, b) = [x EXCEPT !.blocks = StoreBlock(x, b).blocks, !.committedUC = b.uc,
                              !.pendingHash = Nil]
  BY DEF FinalizeBlock, StoreBlock, NodeState
<1> HIDE DEF StoreBlock
<1>4. [x EXCEPT !.blocks = StoreBlock(x, b).blocks, !.committedUC = b.uc,
                              !.pendingHash = Nil] \in NodeState
  BY <1>1, <1>2 DEF NodeState
<1> QED BY <1>3, <1>4

\* As BaseFrame, for a handler that does not change the status either.
LEMMA NodeFrame ==
  ASSUME NEW U, NEW x, NEW y \in NodeState, NodeOK(x, U),
         y.blocks = x.blocks, y.batch \subseteq x.batch,
         y.luc = x.luc, y.ltr = x.ltr, y.committedUC = x.committedUC,
         y.pending \in {Nil, x.pending}, y.proposal \in {Nil, x.proposal},
         y.lastProp \in {Nil, x.lastProp},
         y.status = x.status, y.pendingHash \in {Nil, x.pendingHash}, y.applying => x.applying
  PROVE  NodeOK(y, U)
<1>1. BaseOK(y, U)
  BY BaseFrame DEF NodeOK
<1>2. ModesOK(y, U)
  BY DEF NodeOK, ModesOK, InSync
<1> QED BY <1>1, <1>2 DEF NodeOK

\* A pending proposal changes the state to a PoW block, never to the empty state.
LEMMA PendingHash ==
  ASSUME NEW U, NEW b \in Block, PendingOK(b, U)
  PROVE  b.uc.ir.hash # Nil
<1>1. b.uc.ir.prevHash \in Hashes /\ b.uc.ir.hash \in Hashes
  BY DEF Block, UnicityCertificate, InputRecord
<1> QED BY <1>1, HeightType, SMTT(20) DEF PendingOK

\* The pending proposal under the certificate that certifies it is the next certified block
\* (handleUnicityCertificate, just before finalizeBlock).
LEMMA CertifiedOK ==
  ASSUME NEW U, CertificatesOK(U), NEW x, BaseOK(x, U), x.pending # Nil, NEW uc \in U,
         AssertEqualIR(x.pending.uc.ir, uc.ir), IsSuccessor(uc, x.committedUC)
  PROVE  LET b == Certified(x.pending, uc)
         IN  /\ b \in Block /\ BlockOK(b, U) /\ Round(b) = CommittedRound(x) + 1
             /\ b.prevBlockHash = GetBlockHash(x.committedUC) /\ b.uc = uc
<1> DEFINE b == Certified(x.pending, uc)
<1>1. x.pending \in Block /\ PendingOK(x.pending, U)
  BY DEF BaseOK, DataOK, NodeState, Option
<1>2. uc \in UnicityCertificate /\ GetRoundNumber(uc) = uc.ir.round
  BY IssuedType
<1>3. /\ b \in Block /\ b.uc = uc /\ b.prevBlockHash = x.pending.prevBlockHash
      /\ b.proposer = x.pending.proposer
  BY <1>1, <1>2 DEF Certified, Block
<1>4. x.pending.uc.ir = uc.ir
  BY DEF AssertEqualIR
<1>5. uc.ir.hash # Nil
  BY <1>1, <1>4, PendingHash
<1>6. ValidBlock(b)
  BY <1>1, <1>3, <1>4 DEF ValidBlock, PendingOK
<1>7. Round(b) = CommittedRound(x) + 1
  BY <1>2, <1>3, <1>5 DEF IsSuccessor, IsInitial, Round, CommittedRound
<1>8. b.prevBlockHash = GetBlockHash(x.committedUC)
  BY <1>3 DEF BaseOK, CertsOK
<1> QED BY <1>3, <1>5, <1>6, <1>7, <1>8 DEF BlockOK

\* handleUnicityCertificate keeps the invariant of a node whatever the certificate, its order
\* of arrival and the outcome of finalizeBlock; nothing stored or committed is lost.
LEMMA HandleUnicityCertificateOK ==
  ASSUME NEW U, CertificatesOK(U), NEW x, NodeOK(x, U), ~ x.applying, NEW uc \in U,
         NEW tr \in TechnicalRecord, NEW o
  PROVE  LET r == HandleUnicityCertificate(x, uc, tr, o)
         IN  /\ NodeOK(r, U)
             /\ Durable(x, r, U)
             /\ ~ r.applying
             /\ AcceptsUC(x, uc) /\ x.status # "recovering" => r.luc = uc
<1> DEFINE r == HandleUnicityCertificate(x, uc, tr, o)
           y == UpdateLUC(x, uc, tr)
           z == [y EXCEPT !.status = "normal"]
           Goal == /\ NodeOK(r, U)
                   /\ Durable(x, r, U)
                   /\ ~ r.applying
                   /\ AcceptsUC(x, uc) /\ x.status # "recovering" => r.luc = uc
<1>0. /\ x \in NodeState /\ BaseOK(x, U) /\ ModesOK(x, U)
      /\ x.committedUC \in Option(UnicityCertificate)
      /\ x.status \in Statuses
      /\ x.pending \in Option(Block)
      /\ CommittedRound(x) \in Nat
  BY GetType DEF NodeOK, BaseOK, NodeState, CommittedRound
<1>u. /\ uc \in UnicityCertificate /\ uc # Nil /\ uc.rootRound \in Nat \ {0}
      /\ uc.ir.round \in Nat /\ uc.ir.hash \in Hashes /\ uc.ir.prevHash \in Hashes
      /\ GetRoundNumber(uc) = uc.ir.round /\ GetRootRoundNumber(uc) = uc.rootRound
  BY IssuedType
<1>1. CASE ~ AcceptsUC(x, uc)
  <2>1. r = x
    BY <1>1 DEF HandleUnicityCertificate
  <2> QED BY <1>0, <1>1, <2>1, SMTT(20) DEF Durable
<1>2. CASE AcceptsUC(x, uc)
  <2>1. /\ BaseOK(y, U)
        /\ y.luc = uc \/ (x.status = "recovering" /\ OlderThanLUC(x, uc) /\ y = x)
        /\ y \in NodeState
    BY <1>0, <1>2, UpdateLUCBase, SMTT(20) DEF Option, BaseOK
  <2>2. /\ y.blocks = x.blocks /\ y.batch = x.batch /\ y.committedUC = x.committedUC
        /\ y.pending = x.pending /\ y.proposal = x.proposal /\ y.lastProp = x.lastProp
        /\ y.status = x.status /\ y.pendingHash = x.pendingHash /\ y.applying = x.applying
    BY <1>0, UpdateLUCFrame, SMTT(20)
  <2> HIDE DEF y
  <2>3. CASE x.status = "recovering"
    <3>1. r = y
      BY <1>2, <2>3 DEF HandleUnicityCertificate, y
    <3>2. ModesOK(y, U)
      BY <1>0, <2>1, <2>2, <2>3 DEF ModesOK
    <3>3. Durable(x, y, U)
      BY <1>0, <2>2, SMTT(20) DEF Durable, CommittedRound
    <3> QED BY <2>1, <2>2, <2>3, <3>1, <3>2, <3>3 DEF NodeOK
  <2>4. CASE x.status # "recovering"
    <3>1. /\ y.luc = uc
          /\ z \in NodeState
          /\ z.blocks = x.blocks /\ z.batch = x.batch /\ z.committedUC = x.committedUC
          /\ z.pending = x.pending /\ z.proposal = x.proposal /\ z.lastProp = x.lastProp
          /\ z.status = "normal" /\ z.pendingHash = x.pendingHash /\ z.applying = x.applying
          /\ z.luc = uc /\ z.ltr = y.ltr
      BY <2>1, <2>2, <2>4 DEF NodeState, Statuses
    <3>2. BaseOK(z, U)
      BY <2>1, <2>2, <3>1, BaseFrame
    <3> DEFINE snr == StartNewRound(z)
               rsnr == StartNewRound(Revert(z))
               rec == StartRecovery(z)
    <3>3. ASSUME IF x.committedUC = Nil THEN uc.ir.round = 0 ELSE uc.ir = x.committedUC.ir
          PROVE  /\ NodeOK(z, U) /\ NodeOK(snr, U) /\ NodeOK(rsnr, U)
                 /\ snr.luc = uc /\ rsnr.luc = uc
                 /\ snr.blocks = x.blocks /\ snr.committedUC = x.committedUC /\ ~ snr.applying
                 /\ rsnr.blocks = x.blocks /\ rsnr.committedUC = x.committedUC /\ ~ rsnr.applying
      <4>1. NodeOK(z, U)
        BY <1>0, <3>1, <3>2, <3>3 DEF NodeOK, ModesOK, InSync
      <4>2. /\ snr = [z EXCEPT !.pending = Nil, !.proposal = Nil] /\ snr \in NodeState
            /\ rsnr = [z EXCEPT !.pending = Nil, !.proposal = Nil, !.pendingHash = Nil]
            /\ rsnr \in NodeState
        <5>1. z \in NodeState
          BY <3>1
        <5>2. snr = [z EXCEPT !.pending = Nil, !.proposal = Nil] /\ snr \in NodeState
          BY ONLY <5>1 DEF StartNewRound, NodeState, Option
        <5>3. /\ rsnr = [z EXCEPT !.pending = Nil, !.proposal = Nil, !.pendingHash = Nil]
              /\ rsnr \in NodeState
          BY ONLY <5>1 DEF StartNewRound, Revert, NodeState, Option, Hashes
        <5> QED BY <5>2, <5>3
      <4>3. NodeOK(snr, U)
        BY <3>1, <4>1, <4>2, NodeFrame DEF NodeState
      <4>4. NodeOK(rsnr, U)
        BY <3>1, <4>1, <4>2, NodeFrame DEF NodeState
      <4> QED BY <3>1, <4>1, <4>2, <4>3, <4>4 DEF NodeState
    <3>4. /\ NodeOK(rec, U) /\ rec.luc = uc /\ ~ rec.applying
          /\ rec.blocks = x.blocks /\ rec.committedUC = x.committedUC
      <4>1. /\ rec = [z EXCEPT !.status = "recovering", !.pendingHash = Nil, !.pending = Nil]
            /\ rec \in NodeState
        BY <3>1 DEF StartRecovery, NodeState, Option, Hashes, Statuses
      <4>2. BaseOK(rec, U)
        BY <3>1, <3>2, <4>1, BaseFrame DEF NodeState
      <4>3. /\ rec.luc = uc /\ rec.applying = x.applying /\ rec.status = "recovering"
            /\ rec.pending = Nil /\ rec.pendingHash = Nil
            /\ rec.blocks = x.blocks /\ rec.committedUC = x.committedUC
        BY <3>1, <4>1 DEF NodeState
      <4> HIDE DEF rec
      <4>4. ModesOK(rec, U)
        BY <4>3 DEF ModesOK
      <4> QED BY <4>2, <4>3, <4>4 DEF NodeOK
    <3>5. ASSUME r \in {z, snr, rsnr, rec},
                 r # rec => IF x.committedUC = Nil THEN uc.ir.round = 0 ELSE uc.ir = x.committedUC.ir
          PROVE  Goal
      <4> HIDE DEF r, z, snr, rsnr, rec
      <4>1. NodeOK(r, U) /\ r.luc = uc /\ ~ r.applying
        BY <3>1, <3>3, <3>4, <3>5
      <4>2. r.blocks = x.blocks /\ r.committedUC = x.committedUC
        BY <3>1, <3>3, <3>4, <3>5
      <4>3. Durable(x, r, U)
        BY <1>0, <4>2, SMTT(20) DEF Durable, CommittedRound
      <4> QED BY <4>1, <4>3
    <3>6. CASE IsDuplicate(uc, x.luc)
      <4>1. x.luc # Nil /\ x.luc.rootRound = uc.rootRound
        BY <1>u, <3>6 DEF IsDuplicate, GetRootRoundNumber
      <4>2. x.luc = uc
        BY <1>0, <1>u, <4>1 DEF BaseOK, CertsOK, CertificatesOK, CertificatePairOK
      <4>3. IF x.committedUC = Nil THEN uc.ir.round = 0 ELSE uc.ir = x.committedUC.ir
        BY <1>0, <1>u, <2>4, <4>2 DEF ModesOK, InSync, Statuses
      <4>4. r \in {z, snr}
        BY <1>2, <2>4, <3>6, Zenon DEF HandleUnicityCertificate, HandleDuplicate, y
      <4> QED BY <3>5, <4>3, <4>4
    <3>7. CASE ~ IsDuplicate(uc, x.luc) /\ IsRepeat(uc, x.luc)
      <4>1. x.luc # Nil /\ uc.ir = x.luc.ir
        BY <3>7 DEF IsRepeat
      <4>2. IF x.committedUC = Nil THEN uc.ir.round = 0 ELSE uc.ir = x.committedUC.ir
        BY <1>0, <2>4, <4>1 DEF ModesOK, InSync, Statuses
      <4>3. r = rsnr
        BY <1>2, <2>4, <3>7, Zenon DEF HandleUnicityCertificate, y
      <4> QED BY <3>5, <4>2, <4>3
    <3>8. CASE ~ IsDuplicate(uc, x.luc) /\ ~ IsRepeat(uc, x.luc) /\ ~ IsSuccessor(uc, x.committedUC)
      <4>1. r = rec
        BY <1>2, <2>4, <3>8, Zenon DEF HandleUnicityCertificate, y
      <4> QED BY <3>5, <4>1
    <3>9. CASE /\ ~ IsDuplicate(uc, x.luc) /\ ~ IsRepeat(uc, x.luc) /\ IsSuccessor(uc, x.committedUC)
               /\ x.pending = Nil
      <4>1. CASE ~ IsInitial(uc) /\ ~ StateIs(x, uc.ir.hash)
        <5>1. r = rec
          BY <1>2, <2>4, <3>9, <4>1, Zenon DEF HandleUnicityCertificate, y
        <5> QED BY <3>5, <5>1
      <4>2. CASE IsInitial(uc) \/ StateIs(x, uc.ir.hash)
        <5>1. r = snr
          BY <1>2, <2>4, <3>9, <4>2, Zenon DEF HandleUnicityCertificate, y
        <5>2. IsInitial(uc) => uc.ir.round = 0 /\ x.committedUC = Nil
          BY <1>0, <1>u, <3>9, SMTT(20) DEF IsInitial, IsSuccessor, CertificatesOK, CertificateOK, CommittedRound
        <5>3. ASSUME ~ IsInitial(uc), StateIs(x, uc.ir.hash) PROVE FALSE
          <6>1. x.committedUC # Nil /\ x.committedUC.ir.hash = uc.ir.hash /\ uc.ir.hash # Nil
            BY <5>3 DEF StateIs, IsInitial, CommittedHash, GetStateHash
          <6>2. uc.ir.round = x.committedUC.ir.round + 1
            BY <1>u, <3>9, <5>3, <6>1 DEF IsSuccessor, GetRoundNumber
          <6>3. x.luc # Nil /\ x.luc.ir = x.committedUC.ir
            BY <1>0, <2>4, <6>1 DEF ModesOK, InSync, Statuses, BaseOK, CertsOK
          <6>4. uc.ir.prevHash = x.luc.ir.hash
            BY <1>2, <1>u, <2>4, <6>2, <6>3 DEF AcceptsUC, CheckNonEquivocatingCertificates, GetRoundNumber
          <6>5. uc.ir.round # 0 /\ HeightOf(uc.ir.prevHash) < HeightOf(uc.ir.hash)
            BY <6>1 DEF CertificatesOK, CertificateOK
          <6> QED BY <1>u, <6>1, <6>3, <6>4, <6>5, HeightType, SMTT(20)
        <5> QED BY <3>5, <4>2, <5>1, <5>2, <5>3
      <4> QED BY <4>1, <4>2
    <3>10. CASE /\ ~ IsDuplicate(uc, x.luc) /\ ~ IsRepeat(uc, x.luc) /\ IsSuccessor(uc, x.committedUC)
                /\ x.pending # Nil
      <4> DEFINE b == Certified(x.pending, uc)
      <4>1. CASE ~ (AssertEqualIR(x.pending.uc.ir, uc.ir) /\ Finalizes(x, b, o))
        <5>1. r = rec
          BY <1>2, <2>4, <3>10, <4>1, Zenon DEF HandleUnicityCertificate, y
        <5> QED BY <3>5, <5>1
      <4>2. CASE AssertEqualIR(x.pending.uc.ir, uc.ir) /\ Finalizes(x, b, o)
        <5>1. r = StartNewRound(FinalizeBlock(z, b))
          BY <1>2, <2>4, <3>10, <4>2, Zenon DEF HandleUnicityCertificate, y
        <5>2. /\ b \in Block /\ BlockOK(b, U) /\ Round(b) = CommittedRound(x) + 1
              /\ b.prevBlockHash = GetBlockHash(x.committedUC) /\ b.uc = uc
          <6>1. /\ CertificatesOK(U) /\ uc \in U /\ BaseOK(x, U) /\ x.pending # Nil
                /\ AssertEqualIR(x.pending.uc.ir, uc.ir) /\ IsSuccessor(uc, x.committedUC)
            BY <1>0, <3>10, <4>2
          <6> QED BY ONLY <6>1, CertifiedOK
        <5> HIDE DEF b
        <5> DEFINE f == FinalizeBlock(z, b)
        <5>3. /\ f \in NodeState
              /\ f = [z EXCEPT !.blocks = StoreBlock(z, b).blocks, !.committedUC = b.uc, !.pendingHash = Nil]
          BY <3>1, <5>2, FinalizeBlockType
        <5>4. StoreBlock(z, b).blocks = StoreBlock(x, b).blocks
          BY <1>0, <3>1 DEF StoreBlock, NodeState
        <5>5. /\ f.blocks = StoreBlock(x, b).blocks /\ f.committedUC = uc
              /\ f.batch = z.batch /\ f.luc = uc /\ f.ltr = z.ltr /\ f.proposal = z.proposal
              /\ f.lastProp = z.lastProp /\ f.status = "normal" /\ ~ f.applying
          BY <3>1, <5>2, <5>3, <5>4 DEF NodeState
        <5>t. r = StartNewRound(f)
          BY <5>1
        <5> HIDE DEF f, r, z
        <5>6. /\ r \in NodeState /\ r.blocks = StoreBlock(x, b).blocks /\ r.committedUC = uc
              /\ r.batch = z.batch /\ r.luc = uc /\ r.ltr = z.ltr /\ r.proposal = Nil /\ r.pending = Nil
              /\ r.lastProp = z.lastProp /\ r.status = "normal" /\ ~ r.applying
          <6>1. f \in NodeState
            BY <5>3
          <6>2. r = [f EXCEPT !.pending = Nil, !.proposal = Nil]
            BY <5>t DEF StartNewRound
          <6>3. r \in NodeState
            BY ONLY <6>1, <6>2 DEF NodeState, Option
          <6> QED BY ONLY <5>5, <6>1, <6>2, <6>3 DEF NodeState
        <5>7. CommittedRound(z) = CommittedRound(x) /\ Round(b) = uc.ir.round
          BY <3>1, <5>2 DEF CommittedRound, Round
        <5>8. BaseOK(r, U)
          <6>1. /\ Round(b) = CommittedRound(z) + 1 /\ b.prevBlockHash = GetBlockHash(z.committedUC)
                /\ z.luc # Nil /\ Round(b) <= z.luc.ir.round /\ b.uc.ir = z.luc.ir
            BY <1>u, <3>1, <5>2, <5>7, SMTT(20)
          <6>2. /\ r.blocks = StoreBlock(z, b).blocks /\ r.committedUC = b.uc /\ r.luc = z.luc
                /\ r.batch \subseteq z.batch /\ r.ltr = z.ltr /\ r.pending = Nil
                /\ r.proposal \in {Nil, z.proposal} /\ r.lastProp \in {Nil, z.lastProp}
            BY <3>1, <5>2, <5>4, <5>6
          <6> QED BY ONLY CertificatesOK(U), <3>2, <5>2, <5>6, <6>1, <6>2, FinalizeBase
        <5>9. ModesOK(r, U)
          BY <1>u, <5>6 DEF ModesOK, InSync
        <5>10. x.blocks \subseteq r.blocks
          <6>1. BaseOK(x, U) /\ r.blocks = StoreBlock(x, b).blocks
            BY <1>0, <5>6
          <6> QED BY ONLY CertificatesOK(U), <5>2, <6>1, StoreChain
        <5>11. CommittedRound(r) = CommittedRound(x) + 1
          BY <1>u, <5>2, <5>6, <5>7 DEF CommittedRound
        <5>12. Durable(x, r, U)
          BY <1>0, <5>10, <5>11, SMTT(20) DEF Durable
        <5> QED BY <5>6, <5>8, <5>9, <5>12 DEF NodeOK, r
      <4> QED BY <4>1, <4>2
    <3> QED BY <3>6, <3>7, <3>8, <3>9, <3>10
  <2> QED BY <2>3, <2>4
<1> QED BY <1>1, <1>2

-----------------------------------------------------------------------------
(***************************************************************************)
(* Proposing and voting keep the invariant of a node: one lemma for each   *)
(* of sendCertificationRequest, handleBlockProposal, the leader's round,   *)
(* an epoch change and a replication response.                             *)
(***************************************************************************)

\* Reverting the transaction system keeps the invariant of a node.
LEMMA RevertOK ==
  ASSUME NEW U, NEW x, NodeOK(x, U)
  PROVE  /\ NodeOK(Revert(x), U) /\ Revert(x).pending = x.pending
         /\ Revert(x).blocks = x.blocks /\ Revert(x).committedUC = x.committedUC
         /\ Revert(x).status = x.status /\ Revert(x).applying = x.applying
<1>1. x \in NodeState
  BY DEF NodeOK, BaseOK
<1>2. Revert(x) \in NodeState
  BY <1>1 DEF Revert, NodeState, Hashes
<1> QED BY <1>1, <1>2, NodeFrame DEF Revert, NodeState

\* A handler that leaves the block store and the commit alone loses nothing.
LEMMA SameIsDurable ==
  ASSUME NEW U, NEW x, NodeOK(x, U), NEW y,
         y.blocks = x.blocks, y.committedUC = x.committedUC
  PROVE  Durable(x, y, U)
<1>1. CommittedRound(x) \in Nat
  BY GetType DEF NodeOK, BaseOK, NodeState, CommittedRound
<1> QED BY <1>1, SMTT(20) DEF Durable, CommittedRound

\* A node in sync has committed the round, state and block of its latest certificate.
LEMMA InSyncHash ==
  ASSUME NEW U, CertificatesOK(U), NEW x, InSync(x, U), NodeOK(x, U)
  PROVE  /\ x.luc \in U
         /\ GetStateHash(x.luc) = CommittedHash(x)
         /\ GetBlockHash(x.luc) = GetBlockHash(x.committedUC)
         /\ GetRoundNumber(x.luc) = CommittedRound(x)
<1>1. /\ x.luc \in U /\ x.luc # Nil
      /\ x.luc.ir.round = 0 => x.luc.ir.hash = Nil /\ x.luc.ir.blockHash = << >>
  BY IssuedType DEF InSync, CertificatesOK, CertificateOK
<1>2. IF x.committedUC = Nil THEN x.luc.ir.round = 0 ELSE x.luc.ir = x.committedUC.ir
  BY DEF InSync
<1> QED BY <1>1, <1>2 DEF GetStateHash, CommittedHash, GetBlockHash, GetRoundNumber, CommittedRound

\* sendCertificationRequest on a node in normal mode, for a PoW block higher than the
\* committed one, keeps the invariant: the proposal builds on the latest certificate.
LEMMA SendOK ==
  ASSUME NEW U, CertificatesOK(U), NEW x, NodeOK(x, U), x.status = "normal", ~ x.applying,
         NEW h \in PoWBlocks, HeightOf(CommittedHash(x)) < HeightOf(h), NEW a \in Nodes, NEW o
  PROVE  LET r == SendCertificationRequest([x EXCEPT !.pendingHash = h], a, o)
         IN  /\ NodeOK(r, U) /\ r.blocks = x.blocks /\ r.committedUC = x.committedUC
             /\ ~ r.applying
<1> DEFINE s == [x EXCEPT !.pendingHash = h]
           b == PendingBlock(s, a)
           r == SendCertificationRequest(s, a, o)
<1>1. x \in NodeState /\ BaseOK(x, U) /\ InSync(x, U)
  BY DEF NodeOK, BaseOK, ModesOK
<1>2. /\ s \in NodeState /\ s.luc = x.luc /\ s.committedUC = x.committedUC /\ s.pendingHash = h
      /\ s.pending = x.pending /\ s.proposal = x.proposal /\ s.lastProp = x.lastProp
      /\ s.batch = x.batch /\ s.blocks = x.blocks /\ s.ltr = x.ltr /\ s.status = x.status
      /\ s.applying = x.applying
  BY <1>1 DEF NodeState, Hashes
<1> HIDE DEF s
<1>3. NodeOK(s, U)
  <2>1. BaseOK(s, U)
    BY <1>1, <1>2, BaseFrame
  <2>2. ModesOK(s, U)
    BY <1>1, <1>2 DEF ModesOK, InSync
  <2> QED BY <2>1, <2>2 DEF NodeOK
<1>4. CASE o = "storeProposal"
  <2>1. r = Revert(s)
    BY <1>4 DEF SendCertificationRequest
  <2>2. /\ NodeOK(Revert(s), U) /\ Revert(s).blocks = s.blocks
        /\ Revert(s).committedUC = s.committedUC /\ Revert(s).applying = s.applying
    BY ONLY <1>3, RevertOK
  <2> QED BY ONLY <1>2, <2>1, <2>2, ~ x.applying DEF s
<1>5. CASE o # "storeProposal"
  <2>1. b \in Block
    BY <1>2, PendingBlockType
  <2>2. /\ b.proposer = a /\ b.prevBlockHash = GetBlockHash(x.committedUC)
        /\ b.uc.ir.prevHash = GetStateHash(x.luc) /\ b.uc.ir.hash = h /\ b.uc.rootRound = 0
        /\ b.uc.ir.blockHash = CalculateBlockHash(a, GetBlockHash(x.committedUC), GetStateHash(x.luc), h)
    BY <1>2 DEF PendingBlock
  <2> HIDE DEF b
  <2>3. r = [s EXCEPT !.proposal = b, !.pending = b]
    BY <1>5 DEF SendCertificationRequest, b
  <2>4. /\ r \in NodeState /\ r.luc = s.luc /\ r.committedUC = s.committedUC
        /\ r.pending = b /\ r.proposal = b /\ r.lastProp = s.lastProp
        /\ r.batch = s.batch /\ r.blocks = s.blocks /\ r.ltr = s.ltr /\ r.status = s.status
        /\ r.applying = s.applying
    BY <1>2, <2>1, <2>3 DEF NodeState, Option
  <2> HIDE DEF r
  <2>5. PendingOK(b, U)
    <3>1. ValidBlock(b)
      BY <2>2 DEF ValidBlock
    <3>2. /\ x.luc \in U /\ GetStateHash(x.luc) = CommittedHash(x)
          /\ GetBlockHash(x.luc) = GetBlockHash(x.committedUC)
      BY <1>1, InSyncHash
    <3>3. x.luc.ir.hash = b.uc.ir.prevHash /\ x.luc.ir.blockHash = b.prevBlockHash
      BY <2>2, <3>2, IssuedType
    <3> QED BY <2>2, <3>1, <3>2, <3>3 DEF PendingOK
  <2>6. DataOK(r, U)
    BY <1>3, <2>4, <2>5 DEF NodeOK, BaseOK, DataOK
  <2>7. CertsOK(r, U)
    BY <1>2, <1>3, <2>2, <2>4 DEF NodeOK, BaseOK, CertsOK
  <2>8. ModesOK(r, U)
    BY <1>1, <1>2, <2>4 DEF ModesOK, InSync
  <2>9. NodeOK(r, U)
    BY <1>3, <2>4, <2>6, <2>7, <2>8 DEF NodeOK, BaseOK
  <2> QED BY <1>2, <2>4, <2>9 DEF r, s
<1> QED BY <1>4, <1>5

\* Only a node in normal mode knows the leader of the round.
LEMMA LeaderIsNormal ==
  ASSUME NEW U, NEW x, NodeOK(x, U), x.status # "recovering", Leader(x) \in Nodes
  PROVE  x.status = "normal" /\ InSync(x, U) /\ x.ltr \in TechnicalRecord /\ x.luc \in U
<1>1. x \in NodeState /\ ModesOK(x, U)
  BY DEF NodeOK, BaseOK
<1>2. x.ltr # Nil
  BY NilAssumption DEF Leader
<1> QED BY <1>1, <1>2 DEF NodeState, Statuses, Option, ModesOK, InSync

\* handleBlockProposal keeps the invariant of a node: a proposal that gets as far as a
\* certification request was made on top of the certificate the node holds.
LEMMA HandleBlockProposalOK ==
  ASSUME NEW U, CertificatesOK(U), NEW x, NodeOK(x, U), ~ x.applying,
         NEW p \in BlockProposal, ProposalOK(p, U), NEW v, NEW o
  PROVE  LET r == HandleBlockProposal(x, p, v, o)
         IN  NodeOK(r, U) /\ Durable(x, r, U) /\ ~ r.applying
<1> DEFINE r == HandleBlockProposal(x, p, v, o)
           newer == GetRootRoundNumber(p.uc) > GetRootRoundNumber(x.luc)
           y == IF newer THEN HandleUnicityCertificate(x, p.uc, p.tr, o) ELSE x
           s == SendCertificationRequest([y EXCEPT !.pendingHash = p.root], p.node, o)
<1>1. p.uc \in U /\ p.tr \in TechnicalRecord /\ p.node \in Nodes /\ p.root \in PoWBlocks
  BY DEF ProposalOK, BlockProposal
<1>2. /\ NodeOK(y, U) /\ Durable(x, y, U) /\ ~ y.applying
      /\ newer /\ AcceptsUC(x, p.uc) /\ x.status # "recovering" => y.luc = p.uc
      /\ ~ newer => y = x
  <2>1. CASE newer
    <3>1. y = HandleUnicityCertificate(x, p.uc, p.tr, o)
      BY <2>1
    <3> DEFINE w == HandleUnicityCertificate(x, p.uc, p.tr, o)
    <3>2. /\ NodeOK(w, U) /\ Durable(x, w, U) /\ ~ w.applying
          /\ AcceptsUC(x, p.uc) /\ x.status # "recovering" => w.luc = p.uc
      BY <1>1, HandleUnicityCertificateOK, SMTT(20)
    <3> HIDE DEF y, newer, w
    <3>3. y = w
      BY <3>1 DEF w
    <3> QED BY ONLY <2>1, <3>2, <3>3
  <2>2. CASE ~ newer
    <3>1. y = x
      BY <2>2
    <3> HIDE DEF y, newer
    <3> QED BY <2>2, <3>1, SameIsDurable
  <2> QED BY <2>1, <2>2
<1>3. CASE x.status = "recovering"
  <2>1. r = [x EXCEPT !.lastProp = p]
    BY <1>3 DEF HandleBlockProposal
  <2>2. x \in NodeState
    BY DEF NodeOK, BaseOK
  <2>3. /\ r \in NodeState /\ r.luc = x.luc /\ r.committedUC = x.committedUC
        /\ r.pending = x.pending /\ r.proposal = x.proposal /\ r.lastProp = p
        /\ r.batch = x.batch /\ r.blocks = x.blocks /\ r.ltr = x.ltr /\ r.status = x.status
        /\ r.applying = x.applying /\ r.pendingHash = x.pendingHash
    BY <2>1, <2>2 DEF NodeState, Option
  <2> HIDE DEF r
  <2>4. DataOK(r, U) /\ CertsOK(r, U)
    BY <2>3 DEF NodeOK, BaseOK, DataOK, CertsOK
  <2>5. ModesOK(r, U)
    BY <1>3, <2>3 DEF NodeOK, ModesOK
  <2>6. NodeOK(r, U)
    BY <2>3, <2>4, <2>5 DEF NodeOK, BaseOK
  <2> QED BY <2>3, <2>6, SameIsDurable DEF r
<1>4. CASE x.status # "recovering" /\ (p.node \notin Validators[x.confEpoch] \/ OlderThanLUC(x, p.uc))
  <2>1. r = x
    BY <1>4 DEF HandleBlockProposal
  <2> QED BY <2>1, SameIsDurable
<1> DEFINE stop == \/ newer /\ ~ AcceptsUC(x, p.uc)
                   \/ y.status = "recovering"
                   \/ Leader(y) # p.node
                   \/ y.pendingHash # Nil
                   \/ ~ IsInitial(p.uc) /\ p.uc.ir.hash # CommittedHash(y)
<1>5. CASE x.status # "recovering" /\ ~ (p.node \notin Validators[x.confEpoch] \/ OlderThanLUC(x, p.uc))
  <2>1. CASE stop
    <3>1. r = y
      BY <1>5, <2>1, Zenon DEF HandleBlockProposal
    <3> HIDE DEF y, r
    <3> QED BY <1>2, <3>1 DEF r
  <2>2. CASE ~ stop /\ ~ FollowerVerify(y, p.root, v)
    <3>1. r = Revert(y)
      BY <1>5, <2>2, Zenon DEF HandleBlockProposal
    <3> HIDE DEF y, r
    <3>2. NodeOK(r, U) /\ ~ r.applying /\ r.blocks = y.blocks /\ r.committedUC = y.committedUC
      BY <1>2, <3>1, RevertOK
    <3>3. Durable(x, r, U)
      BY <1>2, <3>2 DEF Durable, CommittedRound
    <3> QED BY <3>2, <3>3 DEF r
  <2>3. CASE ~ stop /\ FollowerVerify(y, p.root, v)
    <3>1. r = s
      BY <1>5, <2>3, Zenon DEF HandleBlockProposal
    <3>2. y.status # "recovering" /\ Leader(y) \in Nodes /\ (newer => AcceptsUC(x, p.uc))
      BY <1>1, <2>3
    <3>3. ~ OlderThanLUC(x, p.uc)
      BY <1>5
    <3> HIDE DEF y, r, s
    <3>4. y.status = "normal" /\ InSync(y, U) /\ y.luc \in U
      BY <1>2, <3>2, LeaderIsNormal
    <3>5. y.luc = p.uc
      <4>1. CASE newer
        BY <1>2, <1>5, <3>2, <4>1
      <4>2. CASE ~ newer
        <5>1. x.luc \in U
          BY <1>2, <3>4, <4>2
        <5>2. GetRootRoundNumber(x.luc) = x.luc.rootRound /\ GetRootRoundNumber(p.uc) = p.uc.rootRound
              /\ x.luc.rootRound \in Nat /\ p.uc.rootRound \in Nat
          BY <1>1, <5>1, IssuedType
        <5>3. x.luc.rootRound = p.uc.rootRound
          BY <3>3, <4>2, <5>2, SMTT(20) DEF OlderThanLUC
        <5> QED BY <1>1, <1>2, <4>2, <5>1, <5>3, SMTT(20) DEF CertificatesOK, CertificatePairOK
      <4> QED BY <4>1, <4>2
    <3>6. HeightOf(CommittedHash(y)) < HeightOf(p.root)
      BY <1>1, <1>2, <3>4, <3>5, InSyncHash, IssuedType DEF ProposalOK
    <3>7. NodeOK(s, U) /\ s.blocks = y.blocks /\ s.committedUC = y.committedUC /\ ~ s.applying
      BY <1>1, <1>2, <3>4, <3>6, SendOK DEF s
    <3>8. Durable(x, s, U)
      BY <1>2, <3>7 DEF Durable, CommittedRound
    <3> QED BY <3>1, <3>7, <3>8 DEF r
  <2> QED BY <2>1, <2>2, <2>3
<1> QED BY <1>3, <1>4, <1>5

\* handleT1TimeoutEvent on the leader keeps the invariant of a node.
LEMMA LeaderRoundOK ==
  ASSUME NEW U, CertificatesOK(U), NEW x, NodeOK(x, U), ~ x.applying, x.status # "recovering",
         NEW n \in Nodes, Leader(x) = n, NEW h \in Candidates(x) \cup {Nil}, NEW o
  PROVE  LET r == LeaderRound(x, n, h, o)
         IN  NodeOK(r, U) /\ Durable(x, r, U) /\ ~ r.applying
<1> DEFINE r == LeaderRound(x, n, h, o)
           y == SendCertificationRequest([x EXCEPT !.pendingHash = h], n, o)
<1>1. x.status = "normal"
  BY LeaderIsNormal
<1>2. CASE h = Nil
  <2>1. r = Revert(x)
    BY <1>2 DEF LeaderRound
  <2> QED BY <2>1, RevertOK, SameIsDurable
<1>3. CASE h # Nil
  <2>1. h \in PoWBlocks /\ HeightOf(CommittedHash(x)) < HeightOf(h)
    <3>1. h \in PoWBlocks /\ Height[h] > HeightOf(CommittedHash(x))
      BY <1>3 DEF Candidates
    <3>2. CommittedHash(x) \in Hashes
      BY GetType DEF NodeOK, BaseOK, NodeState, CommittedHash
    <3> QED BY <3>1, <3>2, HeightType, HeightAssumption, NilAssumption DEF HeightOf
  <2>2. NodeOK(y, U) /\ y.blocks = x.blocks /\ y.committedUC = x.committedUC /\ ~ y.applying
    BY <1>1, <2>1, SendOK, SMTT(20)
  <2>3. r \in {y, Revert(y)}
    BY <1>3, Zenon DEF LeaderRound
  <2> HIDE DEF r, y
  <2>4. NodeOK(r, U) /\ r.blocks = x.blocks /\ r.committedUC = x.committedUC /\ ~ r.applying
    BY <2>2, <2>3, RevertOK
  <2> QED BY <2>4, SameIsDurable DEF r
<1> QED BY <1>2, <1>3

\* handleEpochChangeEvent keeps the invariant of a node.
LEMMA HandleEpochChangeEventOK ==
  ASSUME NEW U, NEW x, NodeOK(x, U), ~ x.applying
  PROVE  LET r == HandleEpochChangeEvent(x)
         IN  NodeOK(r, U) /\ Durable(x, r, U) /\ ~ r.applying
<1> DEFINE r == HandleEpochChangeEvent(x)
           c == IF CurrentEpoch(x) \in ShardConfs THEN CurrentEpoch(x) ELSE x.confEpoch
           t == IF CurrentEpoch(x) \in ValidConfs THEN CurrentEpoch(x) ELSE x.txEpoch
<1>1. x \in NodeState
  BY DEF NodeOK, BaseOK
<1>2. c \in Epochs /\ t \in Epochs
  BY <1>1, EpochsAssumption DEF NodeState
<1>3. r = [x EXCEPT !.epochEvent = FALSE, !.confEpoch = c, !.txEpoch = t]
  BY <1>1 DEF HandleEpochChangeEvent, NodeState
<1> HIDE DEF c, t
<1>4. /\ r \in NodeState /\ r.luc = x.luc /\ r.committedUC = x.committedUC
      /\ r.pending = x.pending /\ r.proposal = x.proposal /\ r.lastProp = x.lastProp
      /\ r.batch = x.batch /\ r.blocks = x.blocks /\ r.ltr = x.ltr /\ r.status = x.status
      /\ r.applying = x.applying /\ r.pendingHash = x.pendingHash
  BY <1>1, <1>2, <1>3 DEF NodeState
<1> HIDE DEF r
<1>5. NodeOK(r, U)
  BY <1>4, NodeFrame
<1> QED BY <1>4, <1>5, SameIsDurable DEF r

\* Comparing round numbers is enough for isRecoveryComplete: equal rounds mean the committed
\* block is the one the latest certificate certifies.
LEMMA RecoveryCompleteInSync ==
  ASSUME NEW U, CertificatesOK(U), NEW x, NodeOK(x, U), x.status = "recovering",
         IsRecoveryComplete(x)
  PROVE  InSync(x, U)
<1>1. x.luc \in U /\ BaseOK(x, U)
  BY DEF NodeOK, ModesOK
<1>2. GetRoundNumber(x.luc) = x.luc.ir.round
  BY <1>1, IssuedType
<1>3. CommittedRound(x) = x.luc.ir.round
  BY <1>2 DEF IsRecoveryComplete
<1> QED BY <1>1, <1>3 DEF InSync, CommittedRound, GetRoundNumber, BaseOK, CertsOK

\* handleLedgerReplicationResponse, up to its loop, keeps the invariant of a node.
LEMMA HandleLedgerReplicationResponseOK ==
  ASSUME NEW U, CertificatesOK(U), NEW x, NodeOK(x, U), ~ x.applying, NEW ok,
         NEW blocks \in SUBSET Block, \A b \in blocks : BlockOK(b, U)
  PROVE  LET r == HandleLedgerReplicationResponse(x, ok, blocks)
         IN  NodeOK(r, U) /\ Durable(x, r, U)
<1> DEFINE r == HandleLedgerReplicationResponse(x, ok, blocks)
           s == StopRecovery(x)
           a == [x EXCEPT !.applying = TRUE, !.batch = blocks]
<1>1. x \in NodeState
  BY DEF NodeOK, BaseOK
<1>2. \/ r = x
      \/ r = s /\ x.status = "recovering" /\ IsRecoveryComplete(x)
      \/ r = a /\ x.status = "recovering"
  BY Zenon DEF HandleLedgerReplicationResponse
<1>3. CASE r = x
  BY <1>3, SameIsDurable
<1>4. CASE r = s /\ x.status = "recovering" /\ IsRecoveryComplete(x)
  <2>1. /\ s \in NodeState /\ s.luc = x.luc /\ s.committedUC = x.committedUC
        /\ s.pending = x.pending /\ s.proposal = x.proposal /\ s.lastProp = x.lastProp
        /\ s.batch = x.batch /\ s.blocks = x.blocks /\ s.ltr = x.ltr /\ s.status = "normal"
        /\ s.applying = x.applying
    BY <1>1 DEF StopRecovery, NodeState, Statuses
  <2> HIDE DEF s, r
  <2>2. BaseOK(s, U)
    BY <2>1, BaseFrame DEF NodeOK
  <2>3. ModesOK(s, U)
    BY <1>4, <2>1, RecoveryCompleteInSync DEF ModesOK, InSync
  <2> QED BY <1>4, <2>1, <2>2, <2>3, SameIsDurable DEF NodeOK, r
<1>5. CASE r = a /\ x.status = "recovering"
  <2>1. /\ a \in NodeState /\ a.luc = x.luc /\ a.committedUC = x.committedUC
        /\ a.pending = x.pending /\ a.proposal = x.proposal /\ a.lastProp = x.lastProp
        /\ a.batch = blocks /\ a.blocks = x.blocks /\ a.ltr = x.ltr /\ a.status = x.status
        /\ a.pendingHash = x.pendingHash
    BY <1>1 DEF NodeState
  <2> HIDE DEF a, r
  <2>2. DataOK(a, U) /\ CertsOK(a, U)
    BY <2>1 DEF NodeOK, BaseOK, DataOK, CertsOK
  <2>3. ModesOK(a, U)
    BY <1>5, <2>1 DEF NodeOK, ModesOK
  <2>4. NodeOK(a, U)
    BY <2>1, <2>2, <2>3 DEF NodeOK, BaseOK
  <2> QED BY <1>5, <2>1, <2>4, SameIsDurable DEF r
<1> QED BY <1>2, <1>3, <1>4, <1>5

-----------------------------------------------------------------------------
(***************************************************************************)
(* Applying replicated blocks and restarting from the stores keep the      *)
(* invariant of a node (handleBlock, the end of recovery and StartOK), and *)
(* so does issuing another certificate (NodeMonotone).                     *)
(***************************************************************************)

\* A replication response with blocks has a first one.
LEMMA FirstIsMember ==
  ASSUME NEW S, S # {}, \A b \in S : Round(b) \in Nat
  PROVE  First(S) \in S
<1> DEFINE T == {Round(b) : b \in S}
           R == OpToRel(<, Nat)
<1>1. T \subseteq Nat /\ T # {}
  OBVIOUS
<1>2. \E m \in T : \A k \in T : ~ (<<k, m>> \in R)
  BY <1>1, WFMin, NatLessThanWellFounded
<1>3. PICK b \in S : \A c \in S : ~ (<<Round(c), Round(b)>> \in R)
  BY <1>2
<1>4. \A i, j \in Nat : i < j => <<i, j>> \in R
  BY DEF OpToRel
<1> HIDE DEF R
<1>5. \A c \in S : Round(b) <= Round(c)
  <2> SUFFICES ASSUME NEW c \in S PROVE Round(b) <= Round(c)
    OBVIOUS
  <2>1. ~ (Round(c) < Round(b))
    BY <1>3, <1>4
  <2>2. Round(b) \in Nat /\ Round(c) \in Nat
    OBVIOUS
  <2> QED BY <2>1, <2>2, SMTT(20)
<1> QED BY <1>5 DEF First

\* A recovered block that passes the checks of handleBlock is the next certified block.
LEMMA BlockExtendsOK ==
  ASSUME NEW U, CertificatesOK(U), NEW x, NodeOK(x, U), x.applying, x.batch # {},
         BlockExtends(x, First(x.batch))
  PROVE  LET b == First(x.batch)
         IN  /\ b \in Block /\ BlockOK(b, U) /\ Round(b) = CommittedRound(x) + 1
             /\ b.prevBlockHash = GetBlockHash(x.committedUC)
<1> DEFINE b == First(x.batch)
<1>1. x.batch \subseteq Block /\ \A c \in x.batch : BlockOK(c, U)
  BY DEF NodeOK, BaseOK, DataOK, NodeState
<1>2. b \in x.batch
  BY <1>1, IssuedType, FirstIsMember DEF BlockOK, Round
<1> HIDE DEF b
<1>3. GetRoundNumber(b.uc) = Round(b) /\ ~ IsInitial(b.uc)
  BY <1>1, <1>2, IssuedType DEF BlockOK, Round, IsInitial
<1> QED BY <1>1, <1>2, <1>3 DEF BlockExtends, IsSuccessor, CommittedRound, b

\* handleBlock keeps the invariant of a node whether the block is applied, skipped or refused.
LEMMA HandleBlockOK ==
  ASSUME NEW U, CertificatesOK(U), NEW x, NodeOK(x, U), x.applying, x.batch # {}, NEW v, NEW o
  PROVE  LET r == HandleBlock(x, v, o)
         IN  NodeOK(r, U) /\ Durable(x, r, U) /\ r.pending = Nil
<1> DEFINE r == HandleBlock(x, v, o)
           b == First(x.batch)
           y == IF ValidBlock(b) /\ AcceptsUC(x, b.uc) THEN UpdateLUC(x, b.uc, Nil) ELSE x
           next(z) == [z EXCEPT !.batch = @ \ {b}]
           fail(z) == [z EXCEPT !.applying = FALSE, !.batch = {}]
<1>1. /\ x \in NodeState /\ BaseOK(x, U) /\ ModesOK(x, U) /\ CommittedRound(x) \in Nat
      /\ x.batch \subseteq Block /\ \A c \in x.batch : BlockOK(c, U)
      /\ x.status = "recovering" /\ x.luc \in U /\ x.pending = Nil /\ x.pendingHash = Nil
  BY GetType DEF NodeOK, BaseOK, DataOK, NodeState, ModesOK, CommittedRound
<1>2. b \in x.batch
  BY <1>1, IssuedType, FirstIsMember DEF BlockOK, Round
<1>r. r = IF BlockExtends(x, b)
          THEN IF FollowerVerify(x, b.uc.ir.hash, v) /\ o # "storeBlock"
               THEN next(FinalizeBlock(y, b))
               ELSE fail(Revert(y))
          ELSE IF ValidBlock(b) /\ AcceptsUC(x, b.uc) /\ Round(b) <= CommittedRound(x)
               THEN next(y)
               ELSE fail(y)
  BY Zenon DEF HandleBlock
<1> HIDE DEF r
<1>b. BlockExtends(x, b) => /\ BlockOK(b, U) /\ Round(b) = CommittedRound(x) + 1
                            /\ b.prevBlockHash = GetBlockHash(x.committedUC)
                            /\ ValidBlock(b) /\ AcceptsUC(x, b.uc)
  BY BlockExtendsOK DEF BlockExtends
<1> HIDE DEF b
<1>3. b \in Block /\ b.uc \in U
  BY <1>1, <1>2 DEF BlockOK
<1>4. /\ BaseOK(y, U)
      /\ ValidBlock(b) /\ AcceptsUC(x, b.uc) => y.luc = b.uc \/ (OlderThanLUC(x, b.uc) /\ y = x)
      /\ y.luc \in U
  <2>1. CASE ValidBlock(b) /\ AcceptsUC(x, b.uc)
    <3>0. y = UpdateLUC(x, b.uc, Nil) /\ Nil \in Option(TechnicalRecord)
      BY <2>1 DEF Option
    <3> HIDE DEF y
    <3>1. BaseOK(y, U) /\ (y.luc = b.uc \/ (OlderThanLUC(x, b.uc) /\ y = x))
      BY <1>1, <1>3, <2>1, <3>0, UpdateLUCBase, SMTT(20)
    <3> QED BY <1>1, <1>3, <3>1
  <2>2. CASE ~ (ValidBlock(b) /\ AcceptsUC(x, b.uc))
    BY <1>1, <2>2
  <2> QED BY <2>1, <2>2
<1>5. /\ y.blocks = x.blocks /\ y.batch = x.batch /\ y.committedUC = x.committedUC
      /\ y.pending = Nil /\ y.proposal = x.proposal /\ y.lastProp = x.lastProp
      /\ y.status = "recovering" /\ y.pendingHash = Nil /\ y.applying = x.applying
  <2> DEFINE w == UpdateLUC(x, b.uc, Nil)
  <2>1. /\ w.blocks = x.blocks /\ w.batch = x.batch /\ w.committedUC = x.committedUC
        /\ w.pending = x.pending /\ w.proposal = x.proposal /\ w.lastProp = x.lastProp
        /\ w.status = x.status /\ w.pendingHash = x.pendingHash /\ w.applying = x.applying
    <3>1. x \in NodeState
      BY <1>1
    <3> HIDE DEF b
    <3> QED BY ONLY <3>1 DEF UpdateLUC, NodeState
  <2>2. y \in {x, w}
    BY Zenon
  <2> HIDE DEF w, y
  <2> QED BY <1>1, <2>1, <2>2
<1> HIDE DEF y
<1>6. y \in NodeState /\ NodeOK(y, U)
  BY <1>4, <1>5 DEF NodeOK, BaseOK, ModesOK
<1>7. CASE BlockExtends(x, b) /\ FollowerVerify(x, b.uc.ir.hash, v) /\ o # "storeBlock"
  <2> DEFINE f == FinalizeBlock(y, b)
  <2>1. r = next(f)
    BY <1>r, <1>7
  <2>2. /\ f \in NodeState
        /\ f = [y EXCEPT !.blocks = StoreBlock(y, b).blocks, !.committedUC = b.uc, !.pendingHash = Nil]
    BY <1>3, <1>6, FinalizeBlockType
  <2>3. /\ f.blocks = StoreBlock(y, b).blocks /\ f.committedUC = b.uc /\ f.pending = Nil
        /\ f.batch = y.batch /\ f.luc = y.luc /\ f.ltr = y.ltr /\ f.proposal = y.proposal
        /\ f.lastProp = y.lastProp /\ f.status = "recovering" /\ f.applying = y.applying
        /\ f.pendingHash = Nil
    BY <1>5, <1>6, <2>2 DEF NodeState
  <2> HIDE DEF f
  <2>4. /\ r \in NodeState
        /\ r.blocks = StoreBlock(y, b).blocks /\ r.committedUC = b.uc /\ r.pending = Nil
        /\ r.batch \subseteq y.batch /\ r.luc = y.luc /\ r.ltr = y.ltr /\ r.proposal = y.proposal
        /\ r.lastProp = y.lastProp /\ r.status = "recovering" /\ r.pendingHash = Nil
    BY <2>1, <2>2, <2>3, ZenonT(30) DEF NodeState
  <2>5. Round(b) = CommittedRound(y) + 1 /\ b.prevBlockHash = GetBlockHash(y.committedUC)
    BY <1>b, <1>5, <1>7 DEF CommittedRound
  <2>6. y.luc # Nil /\ Round(b) <= y.luc.ir.round /\ (Round(b) = y.luc.ir.round => b.uc.ir = y.luc.ir)
    <3>1. y.luc # Nil /\ b.uc.ir.round \in Nat
      BY <1>3, <1>4, IssuedType
    <3>2. CASE y.luc = b.uc
      BY <3>1, <3>2, SMTT(20) DEF Round
    <3>3. CASE OlderThanLUC(x, b.uc) /\ y = x
      <4>1. x.luc.rootRound > b.uc.rootRound /\ x.luc.rootRound \in Nat /\ b.uc.rootRound \in Nat
        BY <1>1, <1>3, <3>3, IssuedType DEF OlderThanLUC
      <4>2. CertificatePairOK(b.uc, x.luc)
        BY <1>1, <1>3 DEF CertificatesOK
      <4> QED BY <3>1, <3>3, <4>1, <4>2, SMTT(20) DEF CertificatePairOK, Round
    <3> QED BY <1>b, <1>4, <1>7, <3>2, <3>3
  <2>7. BaseOK(r, U)
    BY <1>b, <1>3, <1>4, <1>7, <2>4, <2>5, <2>6, FinalizeBase
  <2>8. ModesOK(r, U)
    BY <1>4, <2>4 DEF ModesOK
  <2>9. x.blocks \subseteq r.blocks
    BY <1>b, <1>3, <1>4, <1>5, <1>7, <2>4, <2>5, StoreChain
  <2>10. CommittedRound(r) = CommittedRound(x) + 1
    <3>1. GetRoundNumber(b.uc) = b.uc.ir.round
      BY <1>3, IssuedType
    <3> QED BY <1>b, <1>7, <2>4, <3>1 DEF CommittedRound, Round
  <2>11. Durable(x, r, U)
    BY <1>1, <2>9, <2>10, SMTT(20) DEF Durable
  <2> QED BY <2>4, <2>7, <2>8, <2>11 DEF NodeOK, r
<1>8. CASE ~ (BlockExtends(x, b) /\ FollowerVerify(x, b.uc.ir.hash, v) /\ o # "storeBlock")
  <2>1. NodeOK(Revert(y), U) /\ Revert(y) = y
    BY <1>5, <1>6, RevertOK DEF Revert, NodeState
  <2>2. r = next(y) \/ r = fail(y)
    BY <1>r, <1>8, <2>1
  <2>3. /\ r \in NodeState
        /\ r.blocks = y.blocks /\ r.committedUC = y.committedUC /\ r.pending = Nil
        /\ r.batch \subseteq y.batch /\ r.luc = y.luc /\ r.ltr = y.ltr /\ r.proposal = y.proposal
        /\ r.lastProp = y.lastProp /\ r.status = y.status /\ r.pendingHash = y.pendingHash
        /\ r.applying \in {FALSE, y.applying}
    <3>1. y \in NodeState /\ y.pending = Nil
      BY <1>5, <1>6
    <3>2. CASE r = next(y)
      BY ONLY <3>1, <3>2 DEF NodeState
    <3>3. CASE r = fail(y)
      BY ONLY <3>1, <3>3 DEF NodeState
    <3> QED BY <2>2, <3>2, <3>3
  <2>4. NodeOK(r, U)
    BY <1>6, <2>3, NodeFrame
  <2>5. Durable(x, r, U)
    BY <1>5, <2>3, SameIsDurable
  <2> QED BY <2>3, <2>4, <2>5 DEF r
<1> QED BY <1>7, <1>8

\* The end of handleLedgerReplicationResponse keeps the invariant of a node, the proposal
\* kept from during recovery included.
LEMMA FinishBatchOK ==
  ASSUME NEW U, CertificatesOK(U), NEW x, NodeOK(x, U), x.applying, NEW v, NEW o
  PROVE  LET r == FinishBatch(x, v, o)
         IN  NodeOK(r, U) /\ Durable(x, r, U) /\ ~ r.applying
<1> DEFINE r == FinishBatch(x, v, o)
           q == [x EXCEPT !.applying = FALSE]
           y == StartNewRound([StopRecovery(x) EXCEPT !.applying = FALSE])
           h == HandleBlockProposal(y, x.lastProp, v, o)
           g == [h EXCEPT !.lastProp = Nil]
<1>1. x \in NodeState /\ x.status = "recovering" /\ BaseOK(x, U)
  BY DEF NodeOK, BaseOK, ModesOK
<1>2. \/ r = q
      \/ r = y /\ IsRecoveryComplete(x)
      \/ r = g /\ IsRecoveryComplete(x) /\ x.lastProp # Nil
  BY Zenon DEF FinishBatch
<1>3. CASE r = q
  <2>1. /\ q \in NodeState /\ q.luc = x.luc /\ q.committedUC = x.committedUC
        /\ q.pending = x.pending /\ q.proposal = x.proposal /\ q.lastProp = x.lastProp
        /\ q.batch = x.batch /\ q.blocks = x.blocks /\ q.ltr = x.ltr /\ q.status = x.status
        /\ q.applying = FALSE /\ q.pendingHash = x.pendingHash
    BY <1>1 DEF NodeState
  <2> HIDE DEF q, r
  <2>2. NodeOK(q, U)
    BY <2>1, NodeFrame
  <2> QED BY <1>3, <2>1, <2>2, SameIsDurable DEF r
<1>4. ASSUME IsRecoveryComplete(x)
      PROVE  NodeOK(y, U) /\ ~ y.applying /\ y.blocks = x.blocks /\ y.committedUC = x.committedUC
  <2>1. /\ y \in NodeState /\ y.luc = x.luc /\ y.committedUC = x.committedUC
        /\ y.pending = Nil /\ y.proposal = Nil /\ y.lastProp = x.lastProp
        /\ y.batch = x.batch /\ y.blocks = x.blocks /\ y.ltr = x.ltr /\ y.status = "normal"
        /\ y.applying = FALSE
    BY <1>1 DEF NodeState, StopRecovery, StartNewRound, Statuses, Option
  <2> HIDE DEF y
  <2>2. BaseOK(y, U)
    BY <1>1, <2>1, BaseFrame
  <2>3. InSync(y, U)
    BY <1>1, <1>4, <2>1, RecoveryCompleteInSync DEF InSync
  <2> QED BY <2>1, <2>2, <2>3 DEF NodeOK, ModesOK
<1>5. CASE r = y /\ IsRecoveryComplete(x)
  <2> HIDE DEF r, y
  <2> QED BY <1>4, <1>5, SameIsDurable DEF r
<1>6. CASE r = g /\ IsRecoveryComplete(x) /\ x.lastProp # Nil
  <2> HIDE DEF y, r
  <2>1. x.lastProp \in BlockProposal /\ ProposalOK(x.lastProp, U)
    BY <1>1, <1>6 DEF BaseOK, DataOK, NodeState, Option
  <2>2. NodeOK(h, U) /\ Durable(y, h, U) /\ ~ h.applying
    BY <1>4, <1>6, <2>1, HandleBlockProposalOK
  <2> HIDE DEF h
  <2>3. h \in NodeState
    BY <2>2 DEF NodeOK, BaseOK
  <2>4. /\ g \in NodeState /\ g.luc = h.luc /\ g.committedUC = h.committedUC
        /\ g.pending = h.pending /\ g.proposal = h.proposal /\ g.lastProp = Nil
        /\ g.batch = h.batch /\ g.blocks = h.blocks /\ g.ltr = h.ltr /\ g.status = h.status
        /\ g.applying = h.applying /\ g.pendingHash = h.pendingHash
    BY <2>3 DEF NodeState, Option
  <2> HIDE DEF g
  <2>5. NodeOK(g, U)
    BY <2>2, <2>4, NodeFrame
  <2>6. Durable(x, g, U)
    BY <1>4, <1>6, <2>2, <2>4 DEF Durable, CommittedRound
  <2> QED BY <1>6, <2>2, <2>4, <2>5, <2>6 DEF r
<1> QED BY <1>2, <1>3, <1>4, <1>5, <1>6

\* The last key of the block store is the committed block.
LEMMA LastOfChain ==
  ASSUME NEW U, CertificatesOK(U), NEW S, S # {}, \A b \in S : BlockOK(b, U), NEW w,
         ChainOK(S, w, U)
  PROVE  /\ Last(S) \in S /\ Last(S).uc \in U /\ Last(S).uc.ir.hash # Nil
         /\ Round(Last(S)) = w.ir.round /\ ChainOK(S, Last(S).uc, U)
<1>1. w \in U /\ w.ir.round \in Nat /\ \A b \in S : Round(b) \in Nat /\ Round(b) <= w.ir.round
  <2>1. w \in U /\ \A b \in S : b.uc \in U
    BY DEF ChainOK, BlockOK
  <2>2. w.ir.round \in Nat /\ \A b \in S : Round(b) \in Nat
    BY <2>1, IssuedType DEF Round
  <2> QED BY <2>1, <2>2, SMTT(20) DEF ChainOK
<1>2. PICK b \in S : b.uc = w
  BY <1>1 DEF ChainOK
<1>3. Last(S) \in S /\ \A c \in S : Round(c) <= Round(Last(S))
  BY <1>1, <1>2 DEF Last, Round
<1>4. Round(Last(S)) = w.ir.round
  BY <1>1, <1>2, <1>3, SMTT(20) DEF Round
<1>5. Last(S).uc \in U /\ Last(S).uc.ir.hash # Nil
  BY <1>3 DEF BlockOK
<1>6. ChainOK(S, Last(S).uc, U)
  BY <1>3, <1>4, <1>5 DEF ChainOK, Round
<1> QED BY <1>3, <1>4, <1>5, <1>6

\* NewNode on a block store that is a chain brings up a node that satisfies the invariant and
\* has committed the end of the chain; a restored proposal fits onto it.
LEMMA StartOK ==
  ASSUME NEW U, CertificatesOK(U), NEW x, x.blocks \subseteq Block, x.proposal \in Option(Block),
         \A b \in x.blocks : BlockOK(b, U), x.proposal # Nil => PendingOK(x.proposal, U),
         NEW w, ChainOK(x.blocks, w, U), CanStart(x), NEW v
  PROVE  LET r == Start(x, v)
         IN  /\ NodeOK(r, U) /\ ~ r.applying /\ r.blocks = x.blocks
             /\ x.blocks # {} => CommittedRound(r) = w.ir.round
<1> DEFINE r == Start(x, v)
           l == LastStoredUC(x)
           ok == Restorable(x, v)
<1>1. x.blocks # {} => /\ l = Last(x.blocks).uc /\ l \in U /\ l.ir.hash # Nil
                       /\ l.ir.round = w.ir.round /\ ChainOK(x.blocks, l, U)
  BY LastOfChain DEF LastStoredUC, Round
<1>2. x.blocks = {} => /\ l = IF x.proposal # Nil THEN x.proposal.uc ELSE Nil
                       /\ x.proposal # Nil => /\ l \in UnicityCertificate /\ l # Nil
                                              /\ l.rootRound = 0 /\ l.ir.hash # Nil
  <2> SUFFICES ASSUME x.blocks = {}, x.proposal # Nil
               PROVE  /\ x.proposal.uc \in UnicityCertificate /\ x.proposal.uc # Nil
                      /\ x.proposal.uc.rootRound = 0 /\ x.proposal.uc.ir.hash # Nil
    BY DEF LastStoredUC
  <2>1. x.proposal \in Block /\ PendingOK(x.proposal, U)
    BY DEF Option
  <2>2. x.proposal.uc \in UnicityCertificate /\ x.proposal.uc.rootRound = 0
    BY <2>1 DEF Block, PendingOK
  <2> QED BY <2>1, <2>2, PendingHash, NilAssumption
<1>3. ok => /\ x.proposal # Nil /\ x.proposal.prevBlockHash = GetBlockHash(l)
  <2> SUFFICES ASSUME ok PROVE x.proposal.prevBlockHash = GetBlockHash(l) /\ x.proposal # Nil
    OBVIOUS
  <2>1. /\ x.proposal # Nil /\ x.proposal \in Block /\ PendingOK(x.proposal, U)
        /\ x.proposal.uc.ir.prevHash = GetStateHash(l)
    BY DEF Restorable, Option
  <2>2. x.blocks # {}
    <3> SUFFICES ASSUME x.blocks = {} PROVE FALSE
      OBVIOUS
    <3>1. x.proposal.uc.ir.prevHash = x.proposal.uc.ir.hash
      BY <1>2, <2>1 DEF GetStateHash
    <3>2. x.proposal.uc.ir.hash \in Hashes
      BY <2>1 DEF Block, UnicityCertificate, InputRecord
    <3>3. HeightOf(x.proposal.uc.ir.hash) \in Nat
      BY <3>2, HeightType
    <3>4. HeightOf(x.proposal.uc.ir.prevHash) < HeightOf(x.proposal.uc.ir.hash)
      BY <2>1 DEF PendingOK
    <3> QED BY ONLY <3>1, <3>3, <3>4, SMTT(20)
  <2>3. PICK u \in U : u.ir.hash = x.proposal.uc.ir.prevHash /\ u.ir.blockHash = x.proposal.prevBlockHash
    BY <2>1 DEF PendingOK
  <2>4. l \in U /\ GetStateHash(l) = l.ir.hash /\ GetBlockHash(l) = l.ir.blockHash
    BY <1>1, <2>2, IssuedType
  <2>5. u.ir.round = l.ir.round
    <3>1. /\ u.ir.round < l.ir.round => HeightOf(u.ir.hash) < HeightOf(l.ir.hash)
          /\ l.ir.round < u.ir.round => HeightOf(l.ir.hash) < HeightOf(u.ir.hash)
      BY <2>4 DEF CertificatesOK, CertificatePairOK
    <3>2. u.ir.round \in Nat /\ l.ir.round \in Nat /\ l.ir.hash \in Hashes /\ u.ir.hash = l.ir.hash
      BY <2>1, <2>3, <2>4, IssuedType
    <3>3. HeightOf(l.ir.hash) \in Nat
      BY <3>2, HeightType
    <3> QED BY ONLY <3>1, <3>2, <3>3, SMTT(20)
  <2>6. u.ir = l.ir
    BY <2>4, <2>5 DEF CertificatesOK, CertificatePairOK
  <2> QED BY <2>1, <2>3, <2>4, <2>6
<1>4. l \in Option(UnicityCertificate)
  BY <1>1, <1>2, IssuedType DEF Option
<1>5. StoredEpoch(x) \in Epochs
  BY EpochsAssumption DEF CanStart
<1>6. /\ r.status = "initializing" /\ r.fuc = l /\ r.luc = l /\ r.ltr = Nil
      /\ r.pending = IF ok THEN x.proposal ELSE Nil
      /\ r.lastProp = Nil /\ r.committedUC = l
      /\ r.pendingHash = IF ok THEN x.proposal.uc.ir.hash ELSE Nil
      /\ r.applying = FALSE /\ r.batch = {} /\ r.blocks = x.blocks /\ r.proposal = x.proposal
  BY DEF Start
<1>7. r \in NodeState
  <2>1. (IF ok THEN x.proposal ELSE Nil) \in Option(Block)
    BY DEF Option
  <2>2. (IF ok THEN x.proposal.uc.ir.hash ELSE Nil) \in Hashes
    BY <1>3 DEF Option, Block, UnicityCertificate, InputRecord, Hashes
  <2>3. Nil \in Option(TechnicalRecord) /\ Nil \in Option(BlockProposal)
    BY DEF Option
  <2> QED BY <1>4, <1>5, <2>1, <2>2, <2>3 DEF Start, NodeState, Statuses
<1> HIDE DEF r, l, ok
<1>8. DataOK(r, U)
  BY <1>3, <1>6 DEF DataOK
<1>9. ChainOK(r.blocks, r.committedUC, U)
  <2>1. CASE x.blocks # {}
    BY <1>1, <1>6, <2>1
  <2>2. CASE x.blocks = {}
    <3>1. l \notin U
      BY <1>2, <2>2, IssuedType
    <3> QED BY <1>6, <2>2, <3>1 DEF ChainOK
  <2> QED BY <2>1, <2>2
<1>10. CertsOK(r, U)
  <2>1. l # Nil => l.ir.hash # Nil /\ (l \in U \/ l.rootRound = 0) /\ l.ir.round \in Nat
    BY <1>1, <1>2, IssuedType DEF UnicityCertificate, InputRecord
  <2>2. r.pending # Nil => r.pending.prevBlockHash = GetBlockHash(r.committedUC)
    BY <1>3, <1>6
  <2>3. r.luc = l /\ r.ltr = Nil /\ r.committedUC = l
    BY <1>6
  <2> QED BY ONLY <2>1, <2>2, <2>3, SMTT(20) DEF CertsOK
<1>11. ModesOK(r, U)
  BY <1>6 DEF ModesOK
<1>12. x.blocks # {} => CommittedRound(r) = w.ir.round
  BY <1>1, <1>6, IssuedType DEF CommittedRound
<1> QED BY <1>6, <1>7, <1>8, <1>9, <1>10, <1>11, <1>12 DEF NodeOK, BaseOK, r

\* What the invariant says of a node stays true when more certificates are issued.
LEMMA NodeMonotone ==
  ASSUME NEW U, NEW V, U \subseteq V, CertificatesOK(V), NEW x, NodeOK(x, U)
  PROVE  NodeOK(x, V)
<1>1. x \in NodeState
  BY DEF NodeOK, BaseOK
<1>2. \A b \in x.blocks \cup x.batch : BlockOK(b, V)
  BY DEF NodeOK, BaseOK, DataOK, BlockOK
<1>3. /\ x.pending # Nil => PendingOK(x.pending, V)
      /\ x.proposal # Nil => PendingOK(x.proposal, V)
  BY DEF NodeOK, BaseOK, DataOK, PendingOK
<1>4. x.lastProp # Nil => ProposalOK(x.lastProp, V)
  BY DEF NodeOK, BaseOK, DataOK, ProposalOK
<1>5. x.committedUC \in V => x.committedUC \in U
  BY IssuedType DEF NodeOK, BaseOK, CertsOK
<1>6. ChainOK(x.blocks, x.committedUC, V)
  BY <1>5 DEF NodeOK, BaseOK, ChainOK
<1>7. CertsOK(x, V)
  BY DEF NodeOK, BaseOK, CertsOK
<1>8. ModesOK(x, V)
  BY DEF NodeOK, ModesOK, InSync
<1> QED BY <1>1, <1>2, <1>3, <1>4, <1>6, <1>7, <1>8 DEF NodeOK, BaseOK, DataOK

-----------------------------------------------------------------------------
(***************************************************************************)
(* What the handlers may change, branch by branch.                         *)
(***************************************************************************)
\* What updateLUC may have done between x and y: nothing, or the certificate is replaced
\* by one that is no older and a change of epoch is noticed.
Updated(x, y, uc, tr) ==
  /\ y.confEpoch = x.confEpoch
  /\ \/ y.luc = x.luc /\ y.ltr = x.ltr /\ y.epochEvent = x.epochEvent
     \/ /\ y.luc = uc /\ y.ltr = tr /\ (y.epochEvent \/ x.confEpoch = EpochOf(uc, tr))
        /\ ~ OlderThanLUC(x, uc)

\* Between x and y no certification request was sent.
NoVote(x, y) ==
  \/ y.pending = Nil \/ y.pendingHash = Nil
  \/ y.pending = x.pending /\ y.pendingHash = x.pendingHash

\* The block b is the current leader's and builds on the latest certificate of x.
ByLeader(x, b) ==
  /\ Leader(x) \in Nodes /\ b.proposer = Leader(x)
  /\ b.uc.ir.ts = GetRootRoundNumber(x.luc)
  /\ b.uc.ir.round = CurrentRoundNumber(x) /\ b.uc.ir.epoch = CurrentEpoch(x)

\* Between x and y no other proposal than the leader's was taken up.
Proposes(x, y) ==
  /\ y.pending \in {Nil, x.pending} \/ ByLeader(y, y.pending)
  /\ y.proposal \in {Nil, x.proposal} \/ ByLeader(y, y.proposal)

\* A certification request was sent on the way to y.
Voted(y) ==
  /\ y.status # "recovering" /\ ByLeader(y, y.pending)
  /\ y.pending # Nil /\ y.pending.uc.ir.hash = y.pendingHash

\* A certificate was handled, which is the new committed one at most.
Processed(x, y, uc, tr) ==
  /\ Updated(x, y, uc, tr)
  /\ y.committedUC \in {x.committedUC, uc} /\ y.lastProp = x.lastProp
  /\ y.pending \in {Nil, x.pending} /\ y.proposal \in {Nil, x.proposal}
  /\ NoVote(x, y)
  /\ ChangeOK(x) => ChangeOK(y)

\* An epoch change is noticed by updateLUC.
LEMMA UpdatedEpoch ==
  ASSUME NEW x, NEW y, NEW uc, NEW tr, Updated(x, y, uc, tr), EpochOK(x)
  PROVE  EpochOK(y)
BY DEF Updated, EpochOK, CurrentEpoch

\* updateLUC replaces the certificate by one that is no older, and watches the epoch.
LEMMA UpdateLUCShape ==
  ASSUME NEW x \in NodeState, NEW uc \in UnicityCertificate, NEW tr, AcceptsUC(x, uc)
  PROVE  Updated(x, UpdateLUC(x, uc, tr), uc, tr)
<1> DEFINE e == x.epochEvent \/ {CurrentEpoch(x), x.confEpoch} # {EpochOf(uc, tr)}
           y == [x EXCEPT !.luc = uc, !.ltr = tr, !.epochEvent = e]
<1>0. CheckNonEquivocatingCertificates(x.luc, uc) \/ x.luc = Nil => ~ OlderThanLUC(x, uc)
  <2>1. GetRootRoundNumber(uc) \in Nat /\ GetRootRoundNumber(x.luc) \in Nat
    BY DEF NodeState, Option, GetRootRoundNumber, UnicityCertificate
  <2>2. x.luc = Nil => GetRootRoundNumber(x.luc) = 0
    BY DEF GetRootRoundNumber
  <2> QED BY <2>1, <2>2, SMTT(20) DEF CheckNonEquivocatingCertificates, OlderThanLUC
<1>1. \/ UpdateLUC(x, uc, tr) = x
      \/ UpdateLUC(x, uc, tr) = y /\ ~ OlderThanLUC(x, uc)
  BY <1>0, Zenon DEF UpdateLUC, AcceptsUC
<1>2. e \/ x.confEpoch = EpochOf(uc, tr)
  OBVIOUS
<1> HIDE DEF e
<1>3. y.luc = uc /\ y.ltr = tr /\ y.epochEvent = e /\ y.confEpoch = x.confEpoch
  BY DEF NodeState
<1> HIDE DEF y
<1> QED BY <1>1, <1>2, <1>3 DEF Updated

\* handleUnicityCertificate, branch by branch.
LEMMA HandleUnicityCertificateShape ==
  ASSUME NEW x \in NodeState, NEW uc \in UnicityCertificate, NEW tr \in TechnicalRecord, NEW o
  PROVE  Processed(x, HandleUnicityCertificate(x, uc, tr, o), uc, tr)
<1> DEFINE r == HandleUnicityCertificate(x, uc, tr, o)
           y == UpdateLUC(x, uc, tr)
           z == [y EXCEPT !.status = "normal"]
           b == Certified(x.pending, uc)
<1> SUFFICES Processed(x, r, uc, tr)
  OBVIOUS
<1>0. CASE ~ AcceptsUC(x, uc)
  <2>1. r = x
    BY <1>0, Zenon DEF HandleUnicityCertificate
  <2> HIDE DEF r
  <2>2. Updated(x, r, uc, tr)
    BY <2>1, Zenon DEF Updated
  <2> QED BY <2>1, <2>2 DEF Processed, NoVote
<1> SUFFICES ASSUME AcceptsUC(x, uc) PROVE Processed(x, r, uc, tr)
  BY <1>0
<1>1. \/ r = y \/ r = z
      \/ r = StartNewRound(z) /\ (x.status = "initializing" \/ x.pending = Nil)
      \/ r = StartNewRound(Revert(z)) \/ r = StartRecovery(z)
      \/ r = StartNewRound(FinalizeBlock(z, b)) /\ x.pending # Nil
  BY Zenon DEF HandleUnicityCertificate, HandleDuplicate
<1>2. y \in NodeState /\ Updated(x, y, uc, tr)
  BY UpdateLUCType, UpdateLUCShape DEF Option
<1>3. /\ y.committedUC = x.committedUC /\ y.pending = x.pending /\ y.lastProp = x.lastProp
      /\ y.status = x.status /\ y.pendingHash = x.pendingHash /\ y.proposal = x.proposal
  BY UpdateLUCFrame, SMTT(20)
<1> HIDE DEF y, r
<1>4. /\ z \in NodeState /\ z.status = "normal" /\ z.confEpoch = y.confEpoch
      /\ z.luc = y.luc /\ z.ltr = y.ltr /\ z.epochEvent = y.epochEvent
      /\ z.committedUC = y.committedUC /\ z.pending = y.pending /\ z.lastProp = y.lastProp
      /\ z.pendingHash = y.pendingHash /\ z.proposal = y.proposal
  BY <1>2 DEF NodeState, Statuses
<1> HIDE DEF z
<1>5. CASE r = y \/ r = z
  <2>1. Updated(x, r, uc, tr)
    BY <1>2, <1>4, <1>5, Zenon DEF Updated
  <2> QED BY <1>3, <1>4, <1>5, <2>1 DEF Processed, NoVote, ChangeOK
<1>6. ASSUME /\ r.confEpoch = z.confEpoch /\ r.luc = z.luc /\ r.ltr = z.ltr
             /\ r.epochEvent = z.epochEvent
      PROVE  Updated(x, r, uc, tr)
  BY <1>2, <1>4, <1>6, Zenon DEF Updated
<1>7. CASE r = StartNewRound(z) /\ (x.status = "initializing" \/ x.pending = Nil)
  <2>1. /\ r.status = z.status /\ r.confEpoch = z.confEpoch
        /\ r.luc = z.luc /\ r.ltr = z.ltr /\ r.epochEvent = z.epochEvent
        /\ r.committedUC = z.committedUC /\ r.pending = Nil /\ r.lastProp = z.lastProp
        /\ r.pendingHash = z.pendingHash /\ r.proposal = Nil
    BY <1>4, <1>7 DEF StartNewRound, NodeState
  <2> QED BY <1>3, <1>4, <1>6, <1>7, <2>1 DEF Processed, NoVote, ChangeOK
<1>8. CASE r = StartNewRound(Revert(z)) \/ r = StartRecovery(z)
  <2>1. /\ r.status # "initializing" /\ r.confEpoch = z.confEpoch
        /\ r.luc = z.luc /\ r.ltr = z.ltr /\ r.epochEvent = z.epochEvent
        /\ r.committedUC = z.committedUC /\ r.pending = Nil /\ r.lastProp = z.lastProp
        /\ r.pendingHash = Nil /\ r.proposal \in {Nil, z.proposal}
    BY <1>4, <1>8 DEF StartNewRound, Revert, StartRecovery, NodeState
  <2> QED BY <1>3, <1>4, <1>6, <2>1 DEF Processed, NoVote, ChangeOK
<1>9. CASE r = StartNewRound(FinalizeBlock(z, b)) /\ x.pending # Nil
  <2>1. b \in Block /\ b.uc = uc
    <3>1. x.pending \in Block
      BY <1>9 DEF NodeState, Option
    <3> QED BY <3>1 DEF Certified, Block
  <2> HIDE DEF b
  <2>2. FinalizeBlock(z, b) = [z EXCEPT !.blocks = StoreBlock(z, b).blocks, !.committedUC = b.uc,
                                        !.pendingHash = Nil]
    BY <1>4, <2>1, FinalizeBlockType
  <2>3. /\ r.status = z.status /\ r.confEpoch = z.confEpoch
        /\ r.luc = z.luc /\ r.ltr = z.ltr /\ r.epochEvent = z.epochEvent
        /\ r.committedUC = b.uc /\ r.pending = Nil /\ r.lastProp = z.lastProp
        /\ r.pendingHash = Nil /\ r.proposal = Nil
    BY <1>4, <1>9, <2>2 DEF StartNewRound, NodeState
  <2> QED BY <1>3, <1>4, <1>6, <2>1, <2>3 DEF Processed, NoVote, ChangeOK
<1> QED BY <1>1, <1>5, <1>7, <1>8, <1>9

\* What a node in state x remembers is also what it remembers in state y.
SameView(x, y) ==
  /\ y.confEpoch = x.confEpoch /\ y.epochEvent = x.epochEvent
  /\ y.luc = x.luc /\ y.ltr = x.ltr /\ y.committedUC = x.committedUC
  /\ y.lastProp = x.lastProp /\ y.status = x.status /\ y.blocks = x.blocks

\* Reverting the transaction system forgets nothing else.
LEMMA RevertView ==
  ASSUME NEW x \in NodeState
  PROVE  SameView(x, Revert(x)) /\ Revert(x).pendingHash = Nil /\ Proposes(x, Revert(x))
BY DEF SameView, Proposes, Revert, NodeState

\* sendCertificationRequest leaves a proposal with its state change, or no state change.
LEMMA SendShape ==
  ASSUME NEW x \in NodeState, NEW h \in PoWBlocks, NEW a \in Nodes, NEW o,
         x.status = "normal", Leader(x) = a
  PROVE  LET r == SendCertificationRequest([x EXCEPT !.pendingHash = h], a, o)
         IN  /\ r \in NodeState /\ SameView(x, r) /\ Proposes(x, r)
             /\ r.pendingHash = Nil \/ Voted(r)
<1> DEFINE w == [x EXCEPT !.pendingHash = h]
           b == PendingBlock(w, a)
           r == SendCertificationRequest(w, a, o)
<1>1. /\ w \in NodeState /\ SameView(x, w) /\ w.pendingHash = h
      /\ w.pending = x.pending /\ w.proposal = x.proposal
  BY DEF NodeState, Hashes, SameView
<1>2. b \in Block
  BY <1>1, PendingBlockType
<1>3. /\ b.uc.ir.hash = w.pendingHash /\ b.uc.ir.ts = GetRootRoundNumber(w.luc)
      /\ b.uc.ir.round = CurrentRoundNumber(w) /\ b.uc.ir.epoch = CurrentEpoch(w)
      /\ b.proposer = a
  BY DEF PendingBlock
<1> HIDE DEF w
<1>4. CASE o = "storeProposal"
  <2>1. r = Revert(w)
    BY <1>4 DEF SendCertificationRequest
  <2>2. Revert(w) \in NodeState
    BY <1>1 DEF Revert, NodeState, Hashes
  <2>3. Revert(w).pending = x.pending /\ Revert(w).proposal = x.proposal
    BY <1>1 DEF Revert, NodeState
  <2> QED BY <1>1, <2>1, <2>2, <2>3, RevertView DEF w, SameView, Proposes
<1>5. CASE o # "storeProposal"
  <2>1. r = [w EXCEPT !.proposal = b, !.pending = b]
    BY <1>5 DEF SendCertificationRequest
  <2> HIDE DEF b, r
  <2>2. /\ r \in NodeState /\ SameView(w, r) /\ r.pendingHash = w.pendingHash
        /\ r.pending = b /\ r.proposal = b
    BY <1>1, <1>2, <2>1 DEF NodeState, Option, SameView
  <2>3. /\ CurrentRoundNumber(r) = CurrentRoundNumber(w) /\ CurrentEpoch(r) = CurrentEpoch(w)
        /\ Leader(r) = Leader(x)
    BY <1>1, <2>2 DEF SameView, CurrentRoundNumber, CurrentEpoch, Leader
  <2>4. b # Nil /\ r.status = "normal"
    BY <1>1, <1>2, <2>2, NilAssumption DEF SameView
  <2>5. ByLeader(r, b)
    BY <1>3, <2>2, <2>3 DEF SameView, ByLeader
  <2>6. Voted(r) /\ Proposes(x, r)
    BY <1>3, <2>2, <2>4, <2>5 DEF Voted, Proposes
  <2> QED BY <1>1, <2>2, <2>6 DEF SameView, w, r
<1> QED BY <1>4, <1>5

\* The same view, or an unchanged one after a certificate was handled, stays an update.
LEMMA UpdatedView ==
  ASSUME NEW x, NEW y, NEW r, NEW uc, NEW tr, Updated(x, y, uc, tr), SameView(y, r)
  PROVE  Updated(x, r, uc, tr)
BY Zenon DEF Updated, SameView

\* A certification request, if there is one, is for the proposal it was sent with.
Acted(x, r, uc, tr) ==
  /\ Updated(x, r, uc, tr)
  /\ r.committedUC \in {x.committedUC, uc}
  /\ NoVote(x, r) \/ Voted(r)
  /\ Proposes(x, r)
  /\ ChangeOK(x) => ChangeOK(r)

\* Handling a certificate is a special case.
LEMMA SameActed ==
  ASSUME NEW x, NEW y, NEW r, NEW uc, NEW tr, Processed(x, y, uc, tr) \/ y = x,
         SameView(y, r), Proposes(y, r),
         r.pendingHash = Nil \/ (Voted(r) /\ r.status # "initializing")
  PROVE  Acted(x, r, uc, tr)
<1>1. Updated(x, r, uc, tr)
  BY UpdatedView, Zenon DEF Processed, Updated, SameView
<1>2. r.committedUC \in {x.committedUC, uc}
  BY DEF Processed, SameView
<1>3. ChangeOK(r)
  BY DEF ChangeOK, Voted
<1>4. Proposes(x, r)
  BY DEF Processed, Proposes
<1> QED BY <1>1, <1>2, <1>3, <1>4 DEF Acted, NoVote

\* handleBlockProposal, branch by branch.
LEMMA HandleBlockProposalShape ==
  ASSUME NEW U, CertificatesOK(U), NEW x, NodeOK(x, U), ~ x.applying,
         NEW p \in BlockProposal, ProposalOK(p, U), NEW v, NEW o
  PROVE  LET r == HandleBlockProposal(x, p, v, o)
         IN  Acted(x, r, p.uc, p.tr) /\ r.lastProp \in {x.lastProp, p}
<1> DEFINE r == HandleBlockProposal(x, p, v, o)
           newer == GetRootRoundNumber(p.uc) > GetRootRoundNumber(x.luc)
           y == IF newer THEN HandleUnicityCertificate(x, p.uc, p.tr, o) ELSE x
           s == SendCertificationRequest([y EXCEPT !.pendingHash = p.root], p.node, o)
<1> SUFFICES Acted(x, r, p.uc, p.tr) /\ r.lastProp \in {x.lastProp, p}
  OBVIOUS
<1>1. \/ r = x \/ r = y \/ r = Revert(y) \/ r = [x EXCEPT !.lastProp = p]
      \/ r = s /\ y.status # "recovering" /\ Leader(y) = p.node
  BY Zenon DEF HandleBlockProposal
<1>2. /\ p.uc \in U /\ p.uc \in UnicityCertificate /\ p.tr \in TechnicalRecord
      /\ p.node \in Nodes /\ p.root \in PoWBlocks
  BY DEF ProposalOK, BlockProposal
<1>3. x \in NodeState
  BY DEF NodeOK, BaseOK
<1>4. Processed(x, y, p.uc, p.tr) \/ y = x
  BY <1>2, <1>3, HandleUnicityCertificateShape
<1>5. NodeOK(y, U)
  BY <1>2, HandleUnicityCertificateOK
<1> HIDE DEF y, r, newer
<1>6. y \in NodeState /\ y.lastProp = x.lastProp
  BY <1>4, <1>5 DEF NodeOK, BaseOK, Processed
<1>7. CASE r = x \/ r = y
  <2>1. Updated(x, r, p.uc, p.tr)
    BY <1>4, <1>7, Zenon DEF Processed, Updated
  <2> QED BY <1>4, <1>6, <1>7, <2>1 DEF Processed, Acted, NoVote, Proposes
<1>8. CASE r = Revert(y)
  BY <1>4, <1>6, <1>8, RevertView, SameActed DEF SameView
<1>9. CASE r = [x EXCEPT !.lastProp = p]
  <2>1. /\ r.confEpoch = x.confEpoch /\ r.epochEvent = x.epochEvent /\ r.luc = x.luc
        /\ r.ltr = x.ltr /\ r.committedUC = x.committedUC /\ r.pending = x.pending
        /\ r.pendingHash = x.pendingHash /\ r.status = x.status /\ r.lastProp = p
        /\ r.proposal = x.proposal
    BY <1>3, <1>9 DEF NodeState
  <2>2. Updated(x, r, p.uc, p.tr)
    BY <2>1, Zenon DEF Updated
  <2> QED BY <2>1, <2>2 DEF Acted, NoVote, Proposes, ChangeOK
<1>10. CASE r = s /\ y.status # "recovering" /\ Leader(y) = p.node
  <2>1. y.status = "normal"
    BY <1>2, <1>5, <1>10, LeaderIsNormal
  <2>2. SameView(y, s) /\ Proposes(y, s) /\ (s.pendingHash = Nil \/ Voted(s))
    BY <1>2, <1>6, <1>10, <2>1, SendShape
  <2>3. s.status = "normal" /\ s.lastProp = y.lastProp
    BY <2>1, <2>2 DEF SameView
  <2> QED BY <1>4, <1>6, <1>10, <2>2, <2>3, SameActed
<1> QED BY <1>1, <1>7, <1>8, <1>9, <1>10

\* A step that leaves the view of a node, its proposal and its state change alone.
LEMMA FrameActed ==
  ASSUME NEW x, NEW r, NEW uc, NEW tr,
         r.confEpoch = x.confEpoch, r.epochEvent = x.epochEvent, r.luc = x.luc, r.ltr = x.ltr,
         r.committedUC = x.committedUC, r.pending = x.pending, r.proposal \in {Nil, x.proposal},
         r.pendingHash \in {Nil, x.pendingHash}, r.status = "initializing" => x.status = r.status
  PROVE  Acted(x, r, uc, tr)
<1>1. Updated(x, r, uc, tr)
  BY Zenon DEF Updated
<1> QED BY <1>1 DEF Acted, NoVote, Proposes, ChangeOK

\* The leader's round: a proposal with its state change, or no state change.
LEMMA LeaderRoundShape ==
  ASSUME NEW U, NEW x, NodeOK(x, U), x.status # "recovering", NEW n \in Nodes, Leader(x) = n,
         NEW h \in Candidates(x) \cup {Nil}, NEW o
  PROVE  LET r == LeaderRound(x, n, h, o)
         IN  SameView(x, r) /\ Acted(x, r, x.luc, x.ltr)
<1> DEFINE r == LeaderRound(x, n, h, o)
           y == SendCertificationRequest([x EXCEPT !.pendingHash = h], n, o)
<1> SUFFICES SameView(x, r) /\ Acted(x, r, x.luc, x.ltr)
  OBVIOUS
<1>1. x \in NodeState /\ x.status = "normal"
  BY LeaderIsNormal DEF NodeOK, BaseOK
<1>2. r = Revert(x) \/ (h # Nil /\ (r = Revert(y) \/ r = y))
  BY Zenon DEF LeaderRound
<1>3. h # Nil => /\ y \in NodeState /\ SameView(x, y) /\ Proposes(x, y)
                 /\ y.pendingHash = Nil \/ Voted(y)
  BY <1>1, SendShape DEF Candidates
<1> HIDE DEF y, r
<1>4. SameView(x, r) /\ (r.pendingHash = Nil \/ Voted(r))
  BY <1>1, <1>2, <1>3, RevertView DEF SameView
<1>5. r.status = "normal"
  BY <1>1, <1>4 DEF SameView
<1>6. h # Nil => Proposes(x, Revert(y))
  <2>1. ASSUME h # Nil, NEW b, ByLeader(y, b) PROVE ByLeader(Revert(y), b)
    BY <1>3, <2>1, RevertView DEF SameView, ByLeader, Leader, CurrentRoundNumber, CurrentEpoch
  <2>2. h # Nil => Revert(y).pending = y.pending /\ Revert(y).proposal = y.proposal
    BY <1>3 DEF Revert, NodeState
  <2> QED BY <1>3, <2>1, <2>2 DEF Proposes
<1>7. Proposes(x, r)
  BY <1>1, <1>2, <1>3, <1>6, RevertView
<1> QED BY <1>4, <1>5, <1>7, SameActed

\* handleLedgerReplicationResponse up to its loop touches the mode of the node only.
LEMMA HandleLedgerReplicationResponseShape ==
  ASSUME NEW x \in NodeState, NEW ok, NEW blocks
  PROVE  LET r == HandleLedgerReplicationResponse(x, ok, blocks)
         IN  /\ Acted(x, r, x.luc, x.ltr) /\ r.committedUC = x.committedUC /\ r.lastProp = x.lastProp
             /\ x.status # "recovering" => r = x
<1> DEFINE r == HandleLedgerReplicationResponse(x, ok, blocks)
<1> SUFFICES /\ Acted(x, r, x.luc, x.ltr) /\ r.committedUC = x.committedUC /\ r.lastProp = x.lastProp
             /\ x.status # "recovering" => r = x
  OBVIOUS
<1>1. r = x \/ r = StopRecovery(x) \/ r = [x EXCEPT !.applying = TRUE, !.batch = blocks]
  BY Zenon DEF HandleLedgerReplicationResponse
<1>2. x.status # "recovering" => r = x
  BY Zenon DEF HandleLedgerReplicationResponse
<1> HIDE DEF r
<1>3. /\ r.confEpoch = x.confEpoch /\ r.epochEvent = x.epochEvent /\ r.luc = x.luc /\ r.ltr = x.ltr
      /\ r.committedUC = x.committedUC /\ r.pending = x.pending /\ r.lastProp = x.lastProp
      /\ r.pendingHash = x.pendingHash /\ (r.status = "initializing" => x.status = r.status)
      /\ r.proposal = x.proposal
  BY <1>1 DEF StopRecovery, NodeState
<1> QED BY <1>2, <1>3, FrameActed

\* handleBlock on the next block of the batch, branch by branch.
LEMMA HandleBlockShape ==
  ASSUME NEW U, CertificatesOK(U), NEW x, NodeOK(x, U), x.applying, x.batch # {}, NEW v, NEW o
  PROVE  LET r == HandleBlock(x, v, o)
             b == First(x.batch)
         IN  b.uc \in U /\ Acted(x, r, b.uc, Nil) /\ r.lastProp = x.lastProp
<1> DEFINE r == HandleBlock(x, v, o)
           b == First(x.batch)
           y == IF ValidBlock(b) /\ AcceptsUC(x, b.uc) THEN UpdateLUC(x, b.uc, Nil) ELSE x
           next(z) == [z EXCEPT !.batch = @ \ {b}]
           fail(z) == [z EXCEPT !.applying = FALSE, !.batch = {}]
<1> SUFFICES b.uc \in U /\ Acted(x, r, b.uc, Nil) /\ r.lastProp = x.lastProp
  OBVIOUS
<1>1. r = next(FinalizeBlock(y, b)) \/ r = fail(Revert(y)) \/ r = next(y) \/ r = fail(y)
  BY Zenon DEF HandleBlock
<1>2. x \in NodeState /\ x.status = "recovering"
  BY DEF NodeOK, BaseOK, ModesOK
<1>3. b \in x.batch /\ b \in Block /\ b.uc \in U
  <2>1. x.batch \subseteq Block /\ \A c \in x.batch : c.uc \in U /\ Round(c) \in Nat
    BY <1>2 DEF NodeOK, BaseOK, DataOK, BlockOK, NodeState, Round, Block, UnicityCertificate, InputRecord
  <2>2. b \in x.batch
    BY <2>1, FirstIsMember
  <2> QED BY <2>1, <2>2
<1> HIDE DEF b, r
<1>4. y \in NodeState /\ Updated(x, y, b.uc, Nil)
  <2>1. b.uc \in UnicityCertificate
    BY <1>3 DEF Block
  <2>2. Updated(x, x, b.uc, Nil)
    BY Zenon DEF Updated
  <2> QED BY <1>2, <2>1, <2>2, UpdateLUCType, UpdateLUCShape DEF Option
<1>5. /\ y.committedUC = x.committedUC /\ y.pending = x.pending /\ y.lastProp = x.lastProp
      /\ y.status = x.status /\ y.pendingHash = x.pendingHash /\ y.proposal = x.proposal
  BY <1>2, UpdateLUCFrame, SMTT(20)
<1> HIDE DEF y
<1>6. FinalizeBlock(y, b) = [y EXCEPT !.blocks = StoreBlock(y, b).blocks, !.committedUC = b.uc,
                                      !.pendingHash = Nil]
  BY <1>3, <1>4, FinalizeBlockType
<1>7. /\ r.confEpoch = y.confEpoch /\ r.epochEvent = y.epochEvent /\ r.luc = y.luc /\ r.ltr = y.ltr
      /\ r.committedUC \in {y.committedUC, b.uc} /\ r.pending = y.pending
      /\ r.pendingHash \in {Nil, y.pendingHash} /\ r.status = y.status /\ r.lastProp = y.lastProp
      /\ r.proposal = y.proposal
  <2>1. CASE r = next(FinalizeBlock(y, b))
    BY <1>4, <1>6, <2>1 DEF NodeState
  <2>2. CASE r = fail(Revert(y)) \/ r = next(y) \/ r = fail(y)
    BY <1>4, <2>2 DEF NodeState, Revert
  <2> QED BY <1>1, <2>1, <2>2
<1>8. Updated(x, r, b.uc, Nil)
  BY <1>4, <1>7, Zenon DEF Updated
<1> QED BY <1>2, <1>3, <1>5, <1>7, <1>8 DEF Acted, NoVote, Proposes, ChangeOK

\* The end of handleLedgerReplicationResponse, where the last proposal may get its vote.
LEMMA FinishBatchShape ==
  ASSUME NEW U, CertificatesOK(U), NEW x, NodeOK(x, U), x.applying, NEW v, NEW o
  PROVE  LET r == FinishBatch(x, v, o)
         IN  /\ x.lastProp = Nil => Acted(x, r, x.luc, x.ltr) /\ r.committedUC = x.committedUC
             /\ x.lastProp # Nil => Acted(x, r, x.lastProp.uc, x.lastProp.tr) /\ x.lastProp.uc \in U
             /\ r.lastProp \in {Nil, x.lastProp}
<1> DEFINE r == FinishBatch(x, v, o)
           y == StartNewRound([StopRecovery(x) EXCEPT !.applying = FALSE])
           s == HandleBlockProposal(y, x.lastProp, v, o)
<1> SUFFICES /\ x.lastProp = Nil => Acted(x, r, x.luc, x.ltr) /\ r.committedUC = x.committedUC
             /\ x.lastProp # Nil => Acted(x, r, x.lastProp.uc, x.lastProp.tr) /\ x.lastProp.uc \in U
             /\ r.lastProp \in {Nil, x.lastProp}
  OBVIOUS
<1>1. \/ r = [x EXCEPT !.applying = FALSE]
      \/ r = y /\ x.lastProp = Nil /\ IsRecoveryComplete(x)
      \/ r = [s EXCEPT !.lastProp = Nil] /\ x.lastProp # Nil /\ IsRecoveryComplete(x)
  BY Zenon DEF FinishBatch
<1>2. /\ x \in NodeState /\ x.status = "recovering" /\ x.pending = Nil /\ x.pendingHash = Nil
      /\ x.lastProp # Nil => x.lastProp \in BlockProposal /\ ProposalOK(x.lastProp, U)
  BY DEF NodeOK, BaseOK, ModesOK, NodeState, Option, DataOK
<1>3. x.lastProp # Nil => x.lastProp.uc \in U
  BY <1>2 DEF ProposalOK
<1>4. /\ y \in NodeState /\ y.status = "normal" /\ y.confEpoch = x.confEpoch
      /\ y.epochEvent = x.epochEvent /\ y.luc = x.luc /\ y.ltr = x.ltr
      /\ y.committedUC = x.committedUC /\ y.pending = x.pending /\ y.pendingHash = x.pendingHash
      /\ y.lastProp = x.lastProp /\ y.applying = FALSE /\ y.blocks = x.blocks /\ y.batch = x.batch
      /\ y.proposal = Nil
  BY <1>2, ZenonT(30) DEF StartNewRound, StopRecovery, NodeState, Statuses, Option
<1> HIDE DEF y, r
<1>5. CASE r = [x EXCEPT !.applying = FALSE] \/ r = y
  <2>1. /\ r.confEpoch = x.confEpoch /\ r.epochEvent = x.epochEvent /\ r.luc = x.luc
        /\ r.ltr = x.ltr /\ r.committedUC = x.committedUC /\ r.pending = x.pending
        /\ r.lastProp = x.lastProp /\ r.proposal \in {Nil, x.proposal}
        /\ r.pendingHash = x.pendingHash /\ (r.status = "initializing" => x.status = r.status)
    BY <1>2, <1>4, <1>5, SMTT(20) DEF NodeState
  <2> QED BY <1>3, <2>1, FrameActed
<1>6. CASE r = [s EXCEPT !.lastProp = Nil] /\ x.lastProp # Nil /\ IsRecoveryComplete(x)
  <2>1. NodeOK(y, U)
    <3>1. BaseOK(y, U)
      BY <1>4, BaseFrame DEF NodeOK
    <3>2. InSync(x, U)
      BY <1>2, <1>6, RecoveryCompleteInSync
    <3> QED BY <1>4, <3>1, <3>2 DEF NodeOK, ModesOK, InSync
  <2>2. Acted(y, s, x.lastProp.uc, x.lastProp.tr) /\ s \in NodeState
    BY <1>2, <1>4, <1>6, <2>1, HandleBlockProposalShape, HandleBlockProposalOK DEF NodeOK, BaseOK
  <2> HIDE DEF s
  <2>3. /\ r.confEpoch = s.confEpoch /\ r.epochEvent = s.epochEvent /\ r.luc = s.luc
        /\ r.ltr = s.ltr /\ r.committedUC = s.committedUC /\ r.pending = s.pending
        /\ r.lastProp = Nil /\ r.pendingHash = s.pendingHash /\ r.status = s.status
        /\ r.proposal = s.proposal
    BY <1>6, <2>2 DEF NodeState
  <2>4. Updated(x, r, x.lastProp.uc, x.lastProp.tr)
    <3>1. Updated(y, s, x.lastProp.uc, x.lastProp.tr)
      BY <2>2 DEF Acted
    <3> QED BY <1>4, <2>3, <3>1, Zenon DEF Updated, OlderThanLUC
  <2>5. ASSUME NEW b, ByLeader(s, b) PROVE ByLeader(r, b)
    BY <2>3, <2>5 DEF ByLeader, Leader, CurrentRoundNumber, CurrentEpoch
  <2>6. /\ Voted(s) => Voted(r)
        /\ NoVote(y, s) => NoVote(x, r)
        /\ Proposes(y, s) => Proposes(x, r)
    BY <1>4, <2>3, <2>5 DEF Voted, NoVote, Proposes
  <2>7. ChangeOK(r)
    <3>1. ChangeOK(y) /\ ChangeOK(s)
      BY <1>2, <1>4, <2>2 DEF ChangeOK, Acted
    <3> QED BY <2>3, <3>1 DEF ChangeOK
  <2> QED BY <1>3, <1>4, <1>6, <2>2, <2>3, <2>4, <2>6, <2>7 DEF Acted
<1> QED BY <1>1, <1>5, <1>6

\* handleEpochChangeEvent loads the configuration of the current epoch, if there is one, and
\* touches nothing else.
LEMMA HandleEpochChangeEventShape ==
  ASSUME NEW x \in NodeState
  PROVE  LET r == HandleEpochChangeEvent(x)
         IN  /\ EpochOK(r)
             /\ r.luc = x.luc /\ r.ltr = x.ltr /\ r.committedUC = x.committedUC
             /\ r.pending = x.pending /\ r.pendingHash = x.pendingHash /\ r.status = x.status
             /\ r.lastProp = x.lastProp /\ r.blocks = x.blocks /\ r.proposal = x.proposal
<1> DEFINE r == HandleEpochChangeEvent(x)
           e == CurrentEpoch(x)
           c == IF e \in ShardConfs THEN e ELSE x.confEpoch
           t == IF e \in ValidConfs THEN e ELSE x.txEpoch
<1>1. r = [x EXCEPT !.epochEvent = FALSE, !.confEpoch = c, !.txEpoch = t]
  BY DEF HandleEpochChangeEvent
<1> HIDE DEF r, c, t
<1>2. /\ r.luc = x.luc /\ r.ltr = x.ltr /\ r.committedUC = x.committedUC
      /\ r.pending = x.pending /\ r.pendingHash = x.pendingHash /\ r.status = x.status
      /\ r.lastProp = x.lastProp /\ r.blocks = x.blocks /\ r.proposal = x.proposal
      /\ r.confEpoch = c
  BY <1>1 DEF NodeState
<1>3. CurrentEpoch(r) = CurrentEpoch(x)
  BY <1>2 DEF CurrentEpoch
<1>4. EpochOK(r)
  BY <1>2, <1>3 DEF EpochOK, c
<1> QED BY <1>2, <1>4 DEF r

-----------------------------------------------------------------------------
(***************************************************************************)
(* A node in normal mode that knows the leader moves for a newer           *)
(* certificate only; and one that waits for its vote to be certified moves *)
(* for that certificate only, and then stores the block.                   *)
(***************************************************************************)

\* A certificate that is not newer than the latest one changes nothing.
LEMMA QuietCertificate ==
  ASSUME NEW U, CertificatesOK(U), NEW x, NodeOK(x, U), x.status = "normal", x.ltr # Nil,
         NEW uc \in U, uc.rootRound <= x.luc.rootRound, NEW tr, NEW o
  PROVE  HandleUnicityCertificate(x, uc, tr, o) = x
<1> DEFINE y == UpdateLUC(x, uc, tr)
           z == [y EXCEPT !.status = "normal"]
<1>1. x \in NodeState /\ x.luc \in U
  BY DEF NodeOK, BaseOK, ModesOK, InSync
<1>2. /\ GetRootRoundNumber(uc) = uc.rootRound /\ GetRootRoundNumber(x.luc) = x.luc.rootRound
      /\ uc.rootRound \in Nat /\ x.luc.rootRound \in Nat
  BY <1>1, IssuedType
<1>3. CASE uc.rootRound < x.luc.rootRound
  <2>1. ~ AcceptsUC(x, uc)
    <3>1. x.luc # Nil
      BY <1>1, IssuedType
    <3> QED BY <1>2, <1>3, <3>1, SMTT(20) DEF AcceptsUC, CheckNonEquivocatingCertificates
  <2> QED BY <2>1, Zenon DEF HandleUnicityCertificate
<1>4. CASE uc.rootRound = x.luc.rootRound
  <2>1. IsDuplicate(uc, x.luc)
    BY <1>2, <1>4 DEF IsDuplicate
  <2>2. y = x
    BY <2>1, Zenon DEF UpdateLUC
  <2> HIDE DEF y
  <2>3. z = x
    <3>1. z = [x EXCEPT !.status = "normal"]
      BY <2>2
    <3> QED BY <1>1, <3>1 DEF NodeState
  <2> HIDE DEF z
  <2>4. \/ HandleUnicityCertificate(x, uc, tr, o) = x
        \/ HandleUnicityCertificate(x, uc, tr, o) = HandleDuplicate(x, z)
    BY <2>1, Zenon DEF HandleUnicityCertificate, y, z
  <2>5. HandleDuplicate(x, z) = z
    BY DEF HandleDuplicate
  <2> QED BY <2>3, <2>4, <2>5
<1> QED BY <1>2, <1>3, <1>4, SMTT(20)

\* A waiting node finalises its block, if it accepts a newer certificate.
LEMMA WaitingCertificate ==
  ASSUME NEW U, CertificatesOK(U), NEW x, NodeOK(x, U), NEW n, NEW ir, Waiting(n, x, ir, U),
         NEW uc \in U, NEW tr \in TechnicalRecord, NEW o, o # "storeBlock"
  PROVE  LET r == HandleUnicityCertificate(x, uc, tr, o)
         IN  r = x \/ \E b \in r.blocks : b.uc.ir = ir
<1> DEFINE r == HandleUnicityCertificate(x, uc, tr, o)
           y == UpdateLUC(x, uc, tr)
           z == [y EXCEPT !.status = "normal"]
           b == Certified(x.pending, uc)
<1>1. x \in NodeState /\ x.luc \in U /\ x.status = "normal" /\ x.ltr # Nil /\ InSync(x, U)
  BY DEF NodeOK, BaseOK, Waiting, InSync
<1>2. /\ uc \in UnicityCertificate /\ uc.ir.round \in Nat /\ x.luc.ir.round \in Nat
      /\ GetRootRoundNumber(uc) = uc.rootRound /\ GetRootRoundNumber(x.luc) = x.luc.rootRound
      /\ uc.rootRound \in Nat /\ x.luc.rootRound \in Nat
      /\ GetRoundNumber(uc) = uc.ir.round /\ GetRoundNumber(x.luc) = x.luc.ir.round
  BY <1>1, IssuedType
<1>3. CASE uc.rootRound <= x.luc.rootRound
  BY <1>1, <1>3, QuietCertificate
<1>4. CASE uc.rootRound > x.luc.rootRound
  <2>1. uc.ir = ir /\ uc.ir.round = x.luc.ir.round + 1
    BY <1>4 DEF Waiting
  <2>2. ~ IsDuplicate(uc, x.luc)
    BY <1>2, <1>4, SMTT(20) DEF IsDuplicate
  <2>3. ~ IsRepeat(uc, x.luc)
    BY <1>2, <2>1, SMTT(20) DEF IsRepeat
  <2>4. IsSuccessor(uc, x.committedUC)
    <3>1. GetRoundNumber(x.luc) = CommittedRound(x)
      BY <1>1, InSyncHash
    <3> QED BY <1>2, <2>1, <3>1 DEF IsSuccessor, CommittedRound
  <2>5. x.pending \in Block /\ x.pending # Nil /\ AssertEqualIR(x.pending.uc.ir, uc.ir)
    BY <1>1, <2>1 DEF Waiting, NodeState, Option, AssertEqualIR
  <2>6. b \in Block /\ b.uc = uc
    BY <1>2, <2>5 DEF Certified, Block
  <2>7. Finalizes(x, b, o)
    BY <2>1, <2>6 DEF Finalizes, Waiting
  <2>8. r = x \/ r = StartNewRound(FinalizeBlock(z, b))
    BY <1>1, <2>2, <2>3, <2>4, <2>5, <2>7, Zenon DEF HandleUnicityCertificate
  <2>9. z \in NodeState
    <3>1. y \in NodeState
      BY <1>1, <1>2, UpdateLUCType DEF Option
    <3> HIDE DEF y
    <3> QED BY <3>1 DEF NodeState, Statuses
  <2> HIDE DEF b, r, z
  <2>10. b \in StartNewRound(FinalizeBlock(z, b)).blocks
    <3> DEFINE S == {c \in z.blocks : Round(c) # Round(b)} \cup {b}
    <3>1. StoreBlock(z, b).blocks = S
      BY <2>9 DEF StoreBlock, NodeState
    <3>2. FinalizeBlock(z, b) \in NodeState /\ FinalizeBlock(z, b) =
            [z EXCEPT !.blocks = StoreBlock(z, b).blocks, !.committedUC = b.uc, !.pendingHash = Nil]
      BY <2>6, <2>9, FinalizeBlockType
    <3>3. FinalizeBlock(z, b).blocks = S
      BY <2>9, <3>1, <3>2 DEF NodeState
    <3>4. StartNewRound(FinalizeBlock(z, b)).blocks = FinalizeBlock(z, b).blocks
      BY <3>2 DEF StartNewRound, NodeState
    <3> QED BY <3>3, <3>4
  <2>11. r = x \/ \E c \in r.blocks : c.uc.ir = ir
    BY <2>1, <2>6, <2>8, <2>10
  <2> QED BY <2>11 DEF r
<1> QED BY <1>2, <1>3, <1>4, SMTT(20)

\* A proposal on a certificate that is not newer changes the state change at most, and not
\* even that if there is one already.
LEMMA QuietProposal ==
  ASSUME NEW U, CertificatesOK(U), NEW x, NodeOK(x, U), x.status = "normal", x.ltr # Nil,
         NEW p \in BlockProposal, ProposalOK(p, U), p.uc.rootRound <= x.luc.rootRound, NEW v, NEW o
  PROVE  LET r == HandleBlockProposal(x, p, v, o)
         IN  SameView(x, r) /\ (x.pendingHash # Nil => r = x)
<1> DEFINE r == HandleBlockProposal(x, p, v, o)
           newer == GetRootRoundNumber(p.uc) > GetRootRoundNumber(x.luc)
           s == SendCertificationRequest([x EXCEPT !.pendingHash = p.root], p.node, o)
<1>1. x \in NodeState /\ x.luc \in U /\ p.uc \in U /\ p.node \in Nodes /\ p.root \in PoWBlocks
  BY DEF NodeOK, BaseOK, ModesOK, InSync, ProposalOK, BlockProposal
<1>2. ~ newer
  <2>1. /\ GetRootRoundNumber(p.uc) = p.uc.rootRound /\ GetRootRoundNumber(x.luc) = x.luc.rootRound
        /\ p.uc.rootRound \in Nat /\ x.luc.rootRound \in Nat
    BY <1>1, IssuedType
  <2> QED BY <2>1, SMTT(20)
<1> HIDE DEF newer
<1>3. /\ r = x \/ (x.pendingHash = Nil /\ (r = Revert(x) \/ (r = s /\ Leader(x) = p.node)))
  BY <1>2, Zenon DEF HandleBlockProposal, newer
<1> HIDE DEF r, s
<1>4. CASE r = s /\ Leader(x) = p.node /\ x.pendingHash = Nil
  <2>1. SameView(x, s)
    BY <1>1, <1>4, SendShape DEF s
  <2> QED BY <1>4, <2>1 DEF r
<1>5. CASE r = Revert(x) /\ x.pendingHash = Nil
  BY <1>1, <1>5, RevertView DEF r
<1>6. CASE r = x
  BY <1>6 DEF r, SameView
<1> QED BY <1>3, <1>4, <1>5, <1>6

\* No proposal makes a waiting node drop its vote.
LEMMA WaitingProposal ==
  ASSUME NEW U, CertificatesOK(U), NEW x, NodeOK(x, U), NEW n, NEW ir, Waiting(n, x, ir, U),
         ~ x.applying, NEW p \in BlockProposal, ProposalOK(p, U), NEW v, NEW o, o # "storeBlock"
  PROVE  LET r == HandleBlockProposal(x, p, v, o)
         IN  r = x \/ \E b \in r.blocks : b.uc.ir = ir
<1> DEFINE r == HandleBlockProposal(x, p, v, o)
           newer == GetRootRoundNumber(p.uc) > GetRootRoundNumber(x.luc)
           y == IF newer THEN HandleUnicityCertificate(x, p.uc, p.tr, o) ELSE x
           s == SendCertificationRequest([y EXCEPT !.pendingHash = p.root], p.node, o)
<1>1. p.uc \in U /\ p.tr \in TechnicalRecord /\ p.node \in Nodes /\ p.root \in PoWBlocks
  BY DEF ProposalOK, BlockProposal
<1>2. x.status = "normal" /\ x.pendingHash # Nil
  BY DEF Waiting
<1>3. y = x \/ \E b \in y.blocks : b.uc.ir = ir
  BY <1>1, WaitingCertificate, SMTT(20)
<1>4. NodeOK(y, U)
  BY <1>1, HandleUnicityCertificateOK
<1>5. /\ r = x \/ r = y \/ r = Revert(y) \/ (r = s /\ y.status # "recovering" /\ Leader(y) = p.node)
      /\ y.pendingHash # Nil => r = x \/ r = y
  BY <1>2, Zenon DEF HandleBlockProposal
<1> HIDE DEF y, r, newer
<1>6. CASE y = x
  BY <1>2, <1>5, <1>6 DEF r
<1>7. CASE \E b \in y.blocks : b.uc.ir = ir
  <2>1. y \in NodeState
    BY <1>4 DEF NodeOK, BaseOK
  <2>2. Revert(y).blocks = y.blocks
    BY <2>1, RevertView DEF SameView
  <2>3. y.status # "recovering" /\ Leader(y) = p.node => s.blocks = y.blocks
    BY <1>1, <1>4, <2>1, LeaderIsNormal, SendShape, SMTT(20) DEF SameView
  <2> HIDE DEF s
  <2> QED BY <1>5, <1>7, <2>2, <2>3 DEF r
<1> QED BY <1>3, <1>6, <1>7

-----------------------------------------------------------------------------
(***************************************************************************)
(* What a step of the system may do to a node, in one word: Effect for the *)
(* handlers, Restart for the crashes.                                      *)
(***************************************************************************)
\* No epoch change is forgotten, no state change left without its proposal, and no
\* certificate replaced by an older one.
Keeps(x, r) ==
  /\ EpochOK(x) => EpochOK(r)
  /\ ChangeOK(x) => ChangeOK(r)
  /\ r.luc = x.luc \/ ~ OlderThanLUC(x, r.luc)

\* What every handler guarantees, in one word.
LEMMA ActedKeeps ==
  ASSUME NEW x, NEW r, NEW uc, NEW tr, Acted(x, r, uc, tr)
  PROVE  Keeps(x, r)
BY UpdatedEpoch DEF Acted, Keeps, Updated

\* The steps in which node n handles something.
NodeStep(n) ==
  \/ HandleCertificationResponse(n) \/ ReceiveBlockProposal(n) \/ HandleT1TimeoutEvent(n)
  \/ ReceiveLedgerReplicationResponse(n) \/ ApplyBlock(n) \/ FinishReplication(n)
  \/ EpochChange(n)

\* Node n, going from x to y, moves for a newer certificate only, and for the one it waits for.
Stays(n, x, y, U) ==
  /\ x.status = "normal" /\ x.ltr # Nil /\ (\A w \in U : w.rootRound <= x.luc.rootRound)
       => y.status = "normal" /\ y.luc = x.luc /\ y.ltr = x.ltr
  /\ \A ir : Waiting(n, x, ir, U) => Waiting(n, y, ir, U) \/ \E b \in y.blocks : b.uc.ir = ir

\* What a handler does to node n, going from x to y.
Effect(n, x, y) ==
  /\ Keeps(x, y)
  /\ NoVote(x, y) \/ Voted(y)
  /\ Proposes(x, y)
  /\ ProposalsIssued /\ SeenOK(x, certs) => SeenOK(y, certs)
  /\ y.committedUC = x.committedUC \/ \E c \in certs : c.uc = y.committedUC
  /\ "storeBlock" \notin Faults => Stays(n, x, y, UCs)

\* The certificates a node remembers stay issued ones.
LEMMA ActedSeen ==
  ASSUME NEW C, NEW x, NEW y, NEW uc, NEW tr, Acted(x, y, uc, tr), SeenOK(x, C),
         tr # Nil => [uc |-> uc, tr |-> tr] \in C,
         y.lastProp \in {Nil, x.lastProp} \/ [uc |-> y.lastProp.uc, tr |-> y.lastProp.tr] \in C
  PROVE  SeenOK(y, C)
<1>1. y.ltr # Nil => [uc |-> y.luc, tr |-> y.ltr] \in C
  BY DEF Acted, Updated, SeenOK
<1>2. y.lastProp # Nil => [uc |-> y.lastProp.uc, tr |-> y.lastProp.tr] \in C
  BY DEF SeenOK
<1> QED BY <1>1, <1>2 DEF SeenOK

\* What a handler commits is what was committed before or what it has just seen.
LEMMA ActedCommitted ==
  ASSUME NEW x, NEW y, NEW uc \in UCs, NEW tr, Acted(x, y, uc, tr)
  PROVE  y.committedUC = x.committedUC \/ \E c \in certs : c.uc = y.committedUC
BY DEF Acted, UCs

\* Three trivial ways of staying: nothing changes that matters, the node is recovering, or it
\* is the leader.
LEMMA StayFrame ==
  ASSUME NEW U, NEW n, NEW x, NEW y, y.status = x.status, y.luc = x.luc, y.ltr = x.ltr,
         y.committedUC = x.committedUC, y.pending = x.pending, y.pendingHash = x.pendingHash
  PROVE  Stays(n, x, y, U)
BY DEF Stays, Waiting, InSync, Leader

LEMMA StayRecovering ==
  ASSUME NEW U, NEW n, NEW x, NEW y, x.status = "recovering"
  PROVE  Stays(n, x, y, U)
BY DEF Stays, Waiting

LEMMA StayLeader ==
  ASSUME NEW U, NEW n, NEW x, NEW y, SameView(x, y), Leader(x) = n
  PROVE  Stays(n, x, y, U)
BY DEF Stays, Waiting, SameView

\* Every handler has such an effect.
LEMMA NodeStepEffect ==
  ASSUME IInv, NEW n \in Nodes, NodeStep(n)
  PROVE  \E y, o : Handle(n, y, o) /\ Effect(n, node[n], y)
<1> DEFINE x == node[n]
<1>1. NodeOK(x, UCs) /\ CertificatesOK(UCs) /\ x \in NodeState
  BY DEF IInv, NodeOK, BaseOK
<1>0. "storeBlock" \notin Faults => \A o \in Outcomes : o # "storeBlock"
  BY DEF Outcomes
<1>2. CASE HandleCertificationResponse(n)
  <2>1. PICK c \in certs, o \in Outcomes :
          Idle(n) /\ Handle(n, HandleUnicityCertificate(x, c.uc, c.tr, o), o)
    BY <1>2 DEF HandleCertificationResponse, BlockOutcomes
  <2> DEFINE y == HandleUnicityCertificate(x, c.uc, c.tr, o)
  <2>2. c.uc \in UnicityCertificate /\ c.tr \in TechnicalRecord /\ c = [uc |-> c.uc, tr |-> c.tr]
    BY DEF IInv, TypeOK, CertificationResponse
  <2>3. Processed(x, y, c.uc, c.tr)
    BY <1>1, <2>2, HandleUnicityCertificateShape
  <2>4. c.uc \in UCs
    BY DEF UCs
  <2>5. ASSUME x.status = "normal", x.ltr # Nil, \A w \in UCs : w.rootRound <= x.luc.rootRound
        PROVE  y = x
    BY <1>1, <2>4, <2>5, QuietCertificate, SMTT(20)
  <2>6. ASSUME "storeBlock" \notin Faults, NEW ir, Waiting(n, x, ir, UCs)
        PROVE  y = x \/ \E b \in y.blocks : b.uc.ir = ir
    BY <1>0, <1>1, <2>2, <2>4, <2>6, WaitingCertificate, SMTT(20)
  <2>7. Handle(n, y, o)
    BY <2>1
  <2> HIDE DEF y
  <2>8. "storeBlock" \notin Faults => Stays(n, x, y, UCs)
    BY <2>5, <2>6 DEF Stays
  <2>9. Acted(x, y, c.uc, c.tr) /\ y.lastProp = x.lastProp
    BY <2>3 DEF Processed, Acted, Proposes
  <2>10. SeenOK(x, certs) => SeenOK(y, certs)
    BY <2>2, <2>9, ActedSeen
  <2>11. Keeps(x, y) /\ (NoVote(x, y) \/ Voted(y)) /\ Proposes(x, y)
    BY <2>9, ActedKeeps DEF Acted
  <2>12. y.committedUC = x.committedUC \/ \E d \in certs : d.uc = y.committedUC
    BY <2>4, <2>9, ActedCommitted
  <2> QED BY <2>7, <2>8, <2>10, <2>11, <2>12 DEF Effect
<1>3. CASE ReceiveBlockProposal(n)
  <2>1. PICK p \in proposals, v \in Verdicts, o \in Outcomes :
          Idle(n) /\ Handle(n, HandleBlockProposal(x, p, v, o), o)
    BY <1>3 DEF ReceiveBlockProposal
  <2> DEFINE y == HandleBlockProposal(x, p, v, o)
  <2>2. p \in BlockProposal /\ ProposalOK(p, UCs) /\ ~ x.applying /\ p.uc \in UCs
    BY <2>1 DEF IInv, TypeOK, MessagesOK, Idle, ProposalOK
  <2>3. Acted(x, y, p.uc, p.tr) /\ y.lastProp \in {x.lastProp, p}
    BY <1>1, <2>2, HandleBlockProposalShape
  <2>4. ASSUME x.status = "normal", x.ltr # Nil, \A w \in UCs : w.rootRound <= x.luc.rootRound
        PROVE  SameView(x, y)
    BY <1>1, <2>2, <2>4, QuietProposal
  <2>5. ASSUME "storeBlock" \notin Faults, NEW ir, Waiting(n, x, ir, UCs)
        PROVE  y = x \/ \E b \in y.blocks : b.uc.ir = ir
    BY <1>0, <1>1, <2>2, <2>5, WaitingProposal, SMTT(20)
  <2>6. Handle(n, y, o)
    BY <2>1
  <2> HIDE DEF y
  <2>7. "storeBlock" \notin Faults => Stays(n, x, y, UCs)
    BY <2>4, <2>5 DEF Stays, SameView
  <2>8. ProposalsIssued /\ SeenOK(x, certs) => SeenOK(y, certs)
    <3> SUFFICES ASSUME ProposalsIssued, SeenOK(x, certs) PROVE SeenOK(y, certs)
      OBVIOUS
    <3>1. [uc |-> p.uc, tr |-> p.tr] \in certs
      BY DEF ProposalsIssued
    <3>2. y.lastProp = x.lastProp \/ [uc |-> y.lastProp.uc, tr |-> y.lastProp.tr] \in certs
      BY <2>3, <3>1
    <3> QED BY <2>3, <3>1, <3>2, ActedSeen
  <2>9. Keeps(x, y) /\ (NoVote(x, y) \/ Voted(y)) /\ Proposes(x, y)
    BY <2>3, ActedKeeps DEF Acted
  <2>10. y.committedUC = x.committedUC \/ \E d \in certs : d.uc = y.committedUC
    BY <2>2, <2>3, ActedCommitted
  <2> QED BY <2>6, <2>7, <2>8, <2>9, <2>10 DEF Effect
<1>4. CASE HandleT1TimeoutEvent(n)
  <2>1. PICK h \in Candidates(x) \cup NoCandidate(n), o \in Outcomes :
          IsLeader(n) /\ Handle(n, LeaderRound(x, n, h, o), o)
    BY <1>4 DEF HandleT1TimeoutEvent, ProposalOutcomes
  <2> DEFINE y == LeaderRound(x, n, h, o)
  <2>2. h \in Candidates(x) \cup {Nil} /\ x.status # "recovering" /\ Leader(x) = n
    BY <2>1 DEF NoCandidate, IsLeader
  <2>3. Acted(x, y, x.luc, x.ltr) /\ SameView(x, y)
    BY <1>1, <2>2, LeaderRoundShape
  <2>4. Handle(n, y, o)
    BY <2>1
  <2> HIDE DEF y
  <2>5. Stays(n, x, y, UCs)
    BY <2>2, <2>3, StayLeader
  <2>6. (SeenOK(x, certs) => SeenOK(y, certs)) /\ y.committedUC = x.committedUC
    BY <2>3 DEF SameView, SeenOK
  <2>7. Keeps(x, y) /\ (NoVote(x, y) \/ Voted(y)) /\ Proposes(x, y)
    BY <2>3, ActedKeeps DEF Acted
  <2> QED BY <2>4, <2>5, <2>6, <2>7 DEF Effect
<1>5. CASE ReceiveLedgerReplicationResponse(n)
  <2>1. PICK m \in replResps : Handle(n, HandleLedgerReplicationResponse(x, m.ok, m.blocks), "ok")
    BY <1>5 DEF ReceiveLedgerReplicationResponse
  <2> DEFINE y == HandleLedgerReplicationResponse(x, m.ok, m.blocks)
  <2>2. /\ Acted(x, y, x.luc, x.ltr) /\ y.committedUC = x.committedUC /\ y.lastProp = x.lastProp
        /\ x.status # "recovering" => y = x
    BY <1>1, HandleLedgerReplicationResponseShape, SMTT(20)
  <2>3. Handle(n, y, "ok")
    BY <2>1
  <2> HIDE DEF y
  <2>4. Stays(n, x, y, UCs)
    BY <2>2, StayRecovering, StayFrame
  <2>5. SeenOK(x, certs) => SeenOK(y, certs)
    BY <2>2 DEF Acted, Updated, SeenOK
  <2>6. Keeps(x, y) /\ (NoVote(x, y) \/ Voted(y)) /\ Proposes(x, y)
    BY <2>2, ActedKeeps DEF Acted
  <2> QED BY <2>2, <2>3, <2>4, <2>5, <2>6 DEF Effect
<1>6. CASE ApplyBlock(n)
  <2>1. PICK v \in Verdicts, o \in Outcomes :
          ~ Idle(n) /\ x.batch # {} /\ Handle(n, HandleBlock(x, v, o), o)
    BY <1>6 DEF ApplyBlock, BlockOutcomes
  <2> DEFINE y == HandleBlock(x, v, o)
             b == First(x.batch)
  <2>2. x.applying /\ x.status = "recovering"
    BY <1>1, <2>1 DEF Idle, NodeOK, ModesOK
  <2>3. b.uc \in UCs /\ Acted(x, y, b.uc, Nil) /\ y.lastProp = x.lastProp
    BY <1>1, <2>1, <2>2, HandleBlockShape, SMTT(20)
  <2>4. Handle(n, y, o)
    BY <2>1
  <2> HIDE DEF y, b
  <2>5. SeenOK(x, certs) => SeenOK(y, certs)
    BY <2>3, ActedSeen
  <2>6. Keeps(x, y) /\ (NoVote(x, y) \/ Voted(y)) /\ Proposes(x, y)
    BY <2>3, ActedKeeps DEF Acted
  <2>7. y.committedUC = x.committedUC \/ \E d \in certs : d.uc = y.committedUC
    BY <2>3, ActedCommitted
  <2> QED BY <2>2, <2>4, <2>5, <2>6, <2>7, StayRecovering DEF Effect
<1>7. CASE FinishReplication(n)
  <2>1. PICK v \in Verdicts, o \in Outcomes : ~ Idle(n) /\ Handle(n, FinishBatch(x, v, o), o)
    BY <1>7 DEF FinishReplication
  <2> DEFINE y == FinishBatch(x, v, o)
  <2>2. x.applying /\ x.status = "recovering"
    BY <1>1, <2>1 DEF Idle, NodeOK, ModesOK
  <2>3. /\ x.lastProp = Nil => Acted(x, y, x.luc, x.ltr) /\ y.committedUC = x.committedUC
        /\ x.lastProp # Nil => Acted(x, y, x.lastProp.uc, x.lastProp.tr) /\ x.lastProp.uc \in UCs
        /\ y.lastProp \in {Nil, x.lastProp}
    BY <1>1, <2>2, FinishBatchShape
  <2>4. Handle(n, y, o)
    BY <2>1
  <2> HIDE DEF y
  <2>5. SeenOK(x, certs) => SeenOK(y, certs)
    <3> SUFFICES ASSUME SeenOK(x, certs) PROVE SeenOK(y, certs)
      OBVIOUS
    <3>1. CASE x.lastProp = Nil
      <4>1. x.ltr # Nil => [uc |-> x.luc, tr |-> x.ltr] \in certs
        BY DEF SeenOK
      <4> QED BY <2>3, <3>1, <4>1, ActedSeen
    <3>2. CASE x.lastProp # Nil
      <4>1. [uc |-> x.lastProp.uc, tr |-> x.lastProp.tr] \in certs
        BY <3>2 DEF SeenOK
      <4> QED BY <2>3, <3>2, <4>1, ActedSeen
    <3> QED BY <3>1, <3>2
  <2>6. Keeps(x, y) /\ (NoVote(x, y) \/ Voted(y)) /\ Proposes(x, y)
    BY <2>3, ActedKeeps DEF Acted
  <2>7. y.committedUC = x.committedUC \/ \E d \in certs : d.uc = y.committedUC
    BY <2>3, ActedCommitted
  <2> QED BY <2>2, <2>4, <2>5, <2>6, <2>7, StayRecovering DEF Effect
<1>8. CASE EpochChange(n)
  <2> DEFINE y == HandleEpochChangeEvent(x)
  <2>1. Handle(n, y, "ok")
    BY <1>8 DEF EpochChange
  <2>2. /\ EpochOK(y) /\ y.luc = x.luc /\ y.ltr = x.ltr /\ y.committedUC = x.committedUC
        /\ y.pending = x.pending /\ y.pendingHash = x.pendingHash /\ y.status = x.status
        /\ y.lastProp = x.lastProp /\ y.proposal = x.proposal
    BY <1>1, HandleEpochChangeEventShape
  <2> HIDE DEF y
  <2>3. Stays(n, x, y, UCs)
    BY <2>2, StayFrame
  <2>4. /\ Keeps(x, y) /\ NoVote(x, y) /\ Proposes(x, y)
        /\ SeenOK(x, certs) => SeenOK(y, certs)
    BY <2>2 DEF Keeps, ChangeOK, NoVote, Proposes, SeenOK
  <2> QED BY <2>1, <2>2, <2>3, <2>4 DEF Effect
<1> QED BY <1>2, <1>3, <1>4, <1>5, <1>6, <1>7, <1>8 DEF NodeStep

\* A handler is no restart.
LEMMA NodeStepCrashes ==
  ASSUME NEW n \in Nodes, NodeStep(n)
  PROVE  crashes' = crashes /\ root' = root /\ certs' = certs
BY DEF NodeStep, HandleCertificationResponse, ReceiveBlockProposal, HandleT1TimeoutEvent,
       ReceiveLedgerReplicationResponse, ApplyBlock, FinishReplication, EpochChange, Handle, rootVars

\* A restarted node has the configuration of the epoch it starts in.
LEMMA StartEpoch ==
  ASSUME NEW x, NEW v
  PROVE  EpochOK(Start(x, v))
BY DEF EpochOK, Start, CurrentEpoch, EpochOf, StoredEpoch

\* Node n sends a block proposal at most, and only as the leader.
Sends(n) ==
  \/ proposals' = proposals
  \/ \E h \in PoWBlocks : IsLeader(n) /\ proposals' = proposals \cup {Proposal(n, h)}

\* Node n is restarted with the proposal it has stored.
Restart(n) == Sends(n) /\ \E x : Reboot(n, x) /\ x.proposal = node[n].proposal

\* A handler sends nothing else.
LEMMA NodeStepSends ==
  ASSUME NEW n \in Nodes, NodeStep(n)
  PROVE  Sends(n)
BY DEF NodeStep, HandleCertificationResponse, ReceiveBlockProposal, HandleT1TimeoutEvent,
       ReceiveLedgerReplicationResponse, ApplyBlock, FinishReplication, EpochChange,
       NoCandidate, Candidates, Sends

\* The steps of the other parties leave the nodes alone.
LEMMA OtherStep ==
  ASSUME IInv, [Next]_vars, \A n \in Nodes : ~ NodeStep(n)
  PROVE  \/ \E n \in Nodes : Restart(n)
         \/ Certify \/ Repeat
         \/ UNCHANGED <<node, proposals, requests, rootVars, crashes>>
<1>1. CASE UNCHANGED vars
  BY <1>1 DEF vars, nodeVars, msgVars
<1>2. CASE \E n \in Nodes : \/ HandleLedgerReplicationRequest(n) \/ ProcessReplicationRequest(n)
                            \/ HandleMonitoring(n)
  BY <1>2 DEF HandleLedgerReplicationRequest, ProcessReplicationRequest, HandleMonitoring, nodeVars
<1>3. CASE \E n \in Nodes : Crash(n) \/ CrashInFinalize(n) \/ CrashInRecovery(n) \/ CrashInPropose(n)
  <2>1. ASSUME NEW n \in Nodes, NEW b PROVE StoreBlock(node[n], b).proposal = node[n].proposal
    BY DEF StoreBlock, IInv, TypeOK, NodeState
  <2> QED BY <1>3, <2>1 DEF Crash, CrashInFinalize, CrashInRecovery, CrashInPropose, Candidates,
                            Restart, Sends
<1> QED BY <1>1, <1>2, <1>3 DEF Next, NodeStep
=============================================================================
