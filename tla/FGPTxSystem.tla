---------------------------- MODULE FGPTxSystem ----------------------------
(***************************************************************************)
(* The transaction system of one node, txsystem/fgp_txsystem.go, and the   *)
(* PoW node it queries, at the granularity of the queries: the PoW chain   *)
(* grows and reorganises between any two of them.                          *)
(*                                                                         *)
(* A query that takes two calls (GetTip, GetBlockHeaderByHeight) is one    *)
(* step, as the second call fetches the header of the hash the first one   *)
(* returned and only its height, which never changes, is used.  For the    *)
(* same reason the header of the committed block is not a step of its own. *)
(* The mutex is held throughout a call, so calls do not overlap.           *)
(***************************************************************************)
EXTENDS Integers, FiniteSetsExt

CONSTANTS
  Nil,       \* no block
  Blocks,    \* PoW blocks that may be mined
  Genesis,   \* the PoW genesis block
  Parent,    \* previous block of every other block
  Height,    \* height of every block
  Depths     \* values of dFG the shard configurations have

ASSUME BlocksAssumption ==
  /\ Nil \notin Blocks /\ Genesis \in Blocks
  /\ Parent \in [Blocks \ {Genesis} -> Blocks] /\ Height \in [Blocks -> Nat]
  /\ \A b \in Blocks \ {Genesis} : Height[b] = Height[Parent[b]] + 1
ASSUME DepthsAssumption == Depths \subseteq Nat \ {0}    \* NewFGPTxSystem, UpdateConfig

VARIABLES
  known,      \* blocks the PoW node has
  active,     \* tip of its active chain
  dFG,        \* confirmations required for finalisation
  committed,  \* committedStateHash
  pending,    \* pendingStateHash
  proposed,   \* blocks LeaderPropose has come up with
  call,       \* the call in progress and what it has learnt so far
  calm        \* history: the PoW chain and the leaders have behaved (see below)

powVars == <<known, active>>
stateVars == <<dFG, committed, pending, proposed>>
vars == <<powVars, stateVars, call, calm>>

Idle == [op |-> "idle"]
Calls ==
  {Idle}
    \cup [op : {"candidate"}, height : Int]
    \cup [op : {"forks"}, block : Blocks]
    \cup [op : {"depth"}, block : Blocks]

Init ==
  /\ known = {Genesis} /\ active = Genesis
  /\ dFG \in Depths
  /\ committed = Nil /\ pending = Nil /\ proposed = {}
  /\ call = Idle /\ calm = TRUE

-----------------------------------------------------------------------------
(***************************************************************************)
(* The PoW node: blocks become known in any order that respects parents;   *)
(* a longer branch becomes the active chain.                               *)
(***************************************************************************)
Ancestors[b \in Blocks] ==
  {b} \cup (IF b = Genesis THEN {} ELSE Ancestors[Parent[b]])

OnChain(b, tip) == b \in Ancestors[tip]

\* Height of the block where the branch of tip t leaves the active chain.
ForkHeight(t) ==
  Max({Height[b] : b \in Ancestors[t] \cap Ancestors[active]})

\* Switching to the branch of b disconnects fewer blocks than any dFG.
Shallow(b) == \A d \in Depths : Height[active] - ForkHeight(b) < d

Mine ==
  \E b \in Blocks \ known :
    /\ b # Genesis /\ Parent[b] \in known
    /\ known' = known \cup {b}
    /\ active' = IF Height[b] > Height[active] THEN b ELSE active
    /\ calm' = (calm /\ (active' = b => Shallow(b)))
    /\ UNCHANGED <<stateVars, call>>

\* getchaintips, without the active one.
OtherTips ==
  {t \in known \ {active} : \A b \in known : b # Genesis => Parent[b] # t}

-----------------------------------------------------------------------------
(***************************************************************************)
(* LeaderPropose.                                                          *)
(***************************************************************************)
HeightFG == IF committed = Nil THEN 0 ELSE Height[committed]

\* candidateHeight; the tip counts as the first confirmation.
CandidateHeight(tipHeight) == tipHeight - (dFG - 1)

\* Fault model: only the tip is compared with what is final.
ProposeTipUnchecked ==
  /\ call = Idle
  /\ Height[active] > HeightFG
  /\ call' = [op |-> "candidate", height |-> CandidateHeight(Height[active])]
  /\ UNCHANGED <<powVars, stateVars, calm>>

\* The tip is read and the candidate's height computed.
ProposeTip ==
  /\ call = Idle
  /\ Height[active] > HeightFG
  /\ Height[active] - HeightFG >= dFG - 1
  /\ CandidateHeight(Height[active]) > HeightFG
  /\ call' = [op |-> "candidate", height |-> CandidateHeight(Height[active])]
  /\ UNCHANGED <<powVars, stateVars, calm>>

ProposeCandidate ==
  /\ call.op = "candidate"
  /\ \E b \in Ancestors[active] :
       /\ Height[b] = call.height
       /\ call' = [op |-> "forks", block |-> b]
  /\ UNCHANGED <<powVars, stateVars, calm>>

\* Fault model: any tip will do.
NoFork(height) == FALSE

\* A competing fork is visible at the height.
CompetingFork(height) ==
  \E t \in OtherTips : Height[t] >= height /\ ForkHeight(t) < height

ProposeForkCheck ==
  /\ call.op = "forks"
  /\ ~ CompetingFork(Height[call.block])
  /\ pending' = call.block /\ call' = Idle
  /\ proposed' = proposed \cup {call.block}
  /\ UNCHANGED <<powVars, dFG, committed, calm>>

(***************************************************************************)
(* FollowerVerify.  The leader may see another PoW chain than this node    *)
(* does, so the proposed block is any block; it is a calm behaviour when   *)
(* this node could have proposed it as well.                               *)
(***************************************************************************)
VerifyNoChange ==
  /\ call = Idle
  /\ committed # Nil /\ pending' = committed
  /\ UNCHANGED <<powVars, dFG, committed, proposed, call, calm>>

\* The proposed block is known and in the active chain.
VerifyActive ==
  /\ call = Idle
  /\ \E b \in known \ {committed} :
       /\ OnChain(b, active)
       /\ call' = [op |-> "depth", block |-> b]
       /\ calm' = (calm /\ b \in proposed)
  /\ UNCHANGED <<powVars, stateVars>>

\* Fault model: off by one.
AlmostDeep(block) == Height[active] - Height[block] >= dFG - 2

SufficientlyDeep(block) ==
  Height[active] >= Height[block] /\ Height[active] - Height[block] >= dFG - 1

VerifyDepth ==
  /\ call.op = "depth"
  /\ SufficientlyDeep(call.block)
  /\ pending' = call.block /\ call' = Idle
  /\ UNCHANGED <<powVars, dFG, committed, proposed, calm>>

\* A check or a query fails.
Fail ==
  /\ call # Idle /\ call' = Idle
  /\ UNCHANGED <<powVars, stateVars, calm>>

-----------------------------------------------------------------------------
(***************************************************************************)
(* The other calls: the round's certificate commits the pending state, or  *)
(* the state is reverted; a new epoch brings new parameters; a restart     *)
(* restores the committed state.                                           *)
(***************************************************************************)
Commit ==
  /\ call = Idle /\ pending # Nil
  /\ committed' = pending /\ pending' = Nil
  /\ UNCHANGED <<powVars, dFG, proposed, call, calm>>

\* Revert, and RestoreState with the certificate of what is committed.
Revert ==
  /\ call = Idle
  /\ pending' = Nil
  /\ UNCHANGED <<powVars, dFG, committed, proposed, call, calm>>

\* Fault model: the new parameter is taken for the number of blocks on top.
UpdateConfigOffByOne ==
  /\ call = Idle
  /\ dFG' \in {d - 1 : d \in Depths}
  /\ UNCHANGED <<powVars, committed, pending, proposed, call, calm>>

UpdateConfig ==
  /\ call = Idle
  /\ dFG' \in Depths
  /\ UNCHANGED <<powVars, committed, pending, proposed, call, calm>>

Next ==
  \/ Mine
  \/ ProposeTip \/ ProposeCandidate \/ ProposeForkCheck
  \/ VerifyNoChange \/ VerifyActive \/ VerifyDepth
  \/ Fail
  \/ Commit \/ Revert \/ UpdateConfig

Spec == Init /\ [][Next]_vars

-----------------------------------------------------------------------------
(***************************************************************************)
(* Properties.                                                             *)
(***************************************************************************)

\* Every variable keeps its type; candidateHeight never drops below zero.
TypeOK ==
  /\ known \subseteq Blocks /\ active \in known
  /\ dFG \in Nat \ {0}
  /\ committed \in Blocks \cup {Nil} /\ pending \in Blocks \cup {Nil}
  /\ proposed \subseteq Blocks
  /\ call \in Calls
  /\ call.op = "candidate" => call.height > 0
  /\ calm \in BOOLEAN

\* The active chain gives a block at least dFG confirmations.
Confirmed(b) == OnChain(b, active) /\ Height[active] - Height[b] >= dFG - 1

\* What LeaderPropose settles on is, at that moment, in the active chain with dFG
\* confirmations, higher than what is final and without a rival at its height, whatever
\* happened to the chain between the three queries it took.
LeaderProposalIsFinal ==
  [][call.op = "forks" /\ pending' # pending =>
       /\ Confirmed(pending')
       /\ Height[pending'] > HeightFG
       /\ \A b \in known : Height[b] = Height[pending'] => b = pending']_vars

\* As long as the PoW chain and the leaders are calm (no reorganisation as deep as some
\* dFG, and followers asked only about candidates of leaders that see the same PoW chain),
\* a node finalises nothing that is not, or does not stay, in the active chain, in either
\* role and across changes of dFG: what the gadget promises is "preventing deep reorgs on
\* the base layer" (README.md).
FinalizedStaysActive == calm /\ committed # Nil => OnChain(committed, active)

\* In a calm behaviour the two queries FollowerVerify makes at two moments are enough: the
\* block it accepts has dFG confirmations when it is accepted.
CalmVerifiedIsConfirmed ==
  [][calm /\ call.op = "depth" /\ pending' # pending => Confirmed(pending')]_vars

\* "Ensure the block has sufficient confirmations" (FollowerVerify): the block a
\* follower accepts has, when it is accepted, dFG confirmations, although two queries
\* at two moments are all it knows of the chain.
VerifiedIsConfirmed ==
  [][call.op = "depth" /\ pending' # pending => Confirmed(pending')]_vars
=============================================================================
