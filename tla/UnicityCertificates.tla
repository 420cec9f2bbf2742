------------------------ MODULE UnicityCertificates ------------------------
(***************************************************************************)
(* The certificates the BFT root chain issues to a partition, and the      *)
(* predicates the partition node evaluates on them.  The types live in     *)
(* bft-go-base, outside this repository: the definitions are what the      *)
(* calls in partition/ rely on.                                            *)
(*                                                                         *)
(* A nil *UnicityCertificate is Nil; the Get... methods are nil-safe and   *)
(* return the zero value, as the code expects of a genesis node.           *)
(***************************************************************************)
EXTENDS Integers, Sequences

CONSTANTS
  Nil,        \* the nil pointer, the empty hash and the empty peer ID
  Nodes,      \* identifiers of the partition nodes
  PoWBlocks   \* hashes of PoW blocks that may be finalised

Hashes == PoWBlocks \cup {Nil}

(***************************************************************************)
(* A block hash commits to a header, the new state hash and the previous   *)
(* one; the header commits to the previous block hash.  It is modelled by  *)
(* everything it commits to, which makes it injective; << >> is nil.       *)
(***************************************************************************)
BlockHashes == Seq([proposer : Nodes, prevHash : Hashes, hash : Hashes])

CalculateBlockHash(proposer, prevBlockHash, prevHash, hash) ==
  IF hash = prevHash
  THEN << >>                        \* no transactions and no state change
  ELSE Append(prevBlockHash, [proposer |-> proposer, prevHash |-> prevHash,
                              hash |-> hash])

(***************************************************************************)
(* InputRecord, UnicityCertificate and TechnicalRecord.  SummaryValue,     *)
(* SumOfEarnedFees and ETHash are constants of this transaction system and *)
(* are left out.  The seal's timestamp tells one root round from another,  *)
(* so ts is the root round of the certificate the request builds on.       *)
(* rootRound 0 stands for a certificate without a seal, which is what a    *)
(* stored block proposal carries.                                          *)
(***************************************************************************)
InputRecord ==
  [round : Nat, epoch : Nat, prevHash : Hashes, hash : Hashes,
   ts : Nat, blockHash : BlockHashes]
UnicityCertificate == [ir : InputRecord, rootRound : Nat]
TechnicalRecord == [round : Nat, epoch : Nat, leader : Nodes]

GetRoundNumber(uc) == IF uc = Nil THEN 0 ELSE uc.ir.round
GetRootRoundNumber(uc) == IF uc = Nil THEN 0 ELSE uc.rootRound
GetStateHash(uc) == IF uc = Nil THEN Nil ELSE uc.ir.hash
GetBlockHash(uc) == IF uc = Nil THEN << >> ELSE uc.ir.blockHash

\* uc.Verify: root node signatures on the seal; a proposal's record has no seal.
Verify(uc) == uc.rootRound # 0

IsInitial(uc) == uc.ir.hash = Nil
IsDuplicate(uc, prev) == GetRootRoundNumber(uc) = GetRootRoundNumber(prev)
IsRepeat(uc, prev) ==
  /\ prev # Nil
  /\ uc.ir = prev.ir
  /\ GetRootRoundNumber(prev) < GetRootRoundNumber(uc)
IsSuccessor(uc, prev) ==
  \/ GetRoundNumber(uc) = GetRoundNumber(prev) + 1
  \/ prev = Nil /\ IsInitial(uc)

\* Fault model: records are compared by the state they certify only.
EqualStateOnly(a, b) == a.hash = b.hash

\* types.AssertEqualIR compares all fields.
AssertEqualIR(a, b) == a = b

(***************************************************************************)
(* The certificate uc may replace the latest one, luc: no older in either  *)
(* round number, the same record for the same round, and an extension of   *)
(* the certified state when the rounds are consecutive.                    *)
(***************************************************************************)
CheckNonEquivocatingCertificates(luc, uc) ==
  /\ GetRootRoundNumber(luc) <= GetRootRoundNumber(uc)
  /\ GetRoundNumber(luc) <= GetRoundNumber(uc)
  /\ GetRoundNumber(luc) = GetRoundNumber(uc) => luc.ir = uc.ir
  /\ GetRoundNumber(luc) + 1 = GetRoundNumber(uc) => uc.ir.prevHash = luc.ir.hash

(***************************************************************************)
(* Messages.  A CertificationResponse carries the certificate and the      *)
(* technical record its TRHash commits to.                                 *)
(***************************************************************************)
CertificationResponse == [uc : UnicityCertificate, tr : TechnicalRecord]

\* A types.Block: the header's proposer and previous block hash, and the UC.
Block == [proposer : Nodes, prevBlockHash : BlockHashes, uc : UnicityCertificate]

\* b.IsValid: the header and the state hashes give the block hash in the UC.
ValidBlock(b) ==
  b.uc.ir.blockHash = CalculateBlockHash(b.proposer, b.prevBlockHash,
                                         b.uc.ir.prevHash, b.uc.ir.hash)
=============================================================================
