# TLA+ verification of the finality gadget

The finality gadget is a partition ("shard") of a BFT root chain whose state is
the hash of one PoW block: the last one it has finalised. Its validators take
turns at proposing a block of the PoW chain that is deep enough, the others check
it against their own PoW node, everyone asks the root chain to certify it, and a
certificate makes it final. This project models the nodes, checks the models with
TLC and proves their main safety properties with TLAPS.

## Parts of the system

| Part | Code | Module | State | Operations |
|---|---|---|---|---|
| Consensus state machine | `partition/{node,state,round,certificate_handler,proposal_*,consensus_helpers,store_helpers}.go` | `PartitionNode`, `Partition` | `ConsensusState`, `epochChangeEvent`, block store | handlers of the main loop |
| Finalised ledger | the promise behind the above | `FinalityLedger` | final blocks, a copy per node | finalise, store |
| Recovery | `partition/{recovery,block_processor}.go` | `PartitionNode`, `Partition` (what it does), `LedgerReplication` (that it ends) | status, `replicationCh`, rest of a response, workers | request, serve, refuse, replay, repeat |
| Contact with the root chain | `partition/{node,consensus_helpers,root_node_selector}.go` | `RootContact` | age of the latest certificate, handshakes under way | ask, answer, select |
| Start-up | `partition/node_init.go` | `PartitionNode`, `Partition` | block store | `initState`, `restoreBlockProposal` |
| Certificates | `network/protocol/certification`, bft-go-base | `UnicityCertificates` | none | predicates on certificates |
| Root chain | external (bft-core) | `Partition` | latest certificate | certify, repeat |
| T1 timer | `partition/round.go` | `RoundTimer` | `roundTimer`, timer goroutines | start, stop, expire, send |
| Transaction system | `txsystem/fgp_txsystem.go` | `FGPTxSystem` (queries), `PartitionNode` (state) | committed and pending hash, dFG | propose, verify, commit, revert, configure |
| PoW node | external, through `pow/` | `FGPTxSystem` | block tree, active tip | mine, reorganise |
| Transport | `network/libp2p_network.go` | `LibP2PNetwork`, abstractly `MessagePool` | streams, `receivedMsgs` | send, read, drop, receive |
| Shard configurations | `partition/shard_conf_store.go` | `ShardConfStore` | database, cache | `Store`, `Get`, `GetFirst`, `verifyDb` |
| Bootstrap | `network/peer.go` | `BootstrapConnect` | one goroutine per bootstrap peer | dial, retry, give up |
| Process | `cmd/{run,main}.go`, `partition/{configuration,node_init}.go`, `network/validator_network.go` | `NodeProcess`, over the two above | phase of the start, registered protocols, databases | start, store, create, register, run, quit, crash |

How the parts interact: the main loop of a node is one goroutine that takes
messages from the transport, T1 events from the timer, epoch change events it has
sent itself and a monitoring tick. Handlers call the transaction system, which
queries the PoW node. Replication workers read the block store concurrently.
Several T1 goroutines and stream handlers exist at a time.

What is hard here: certificates reach a node by three routes (the root chain, a
proposal, a recovered block) in any order; a handler of one message runs the
handler of another (a proposal with a newer certificate; the last proposal after
a recovery); the store, the memory and the transaction system are written one
after the other; the PoW chain changes between two queries; cancelled timers
still write shared flags. `PROJECT.json` lists the hazards line by line.

## Modules

`UnicityCertificates` has the types of bft-go-base as the node uses them. A block
hash is modelled by everything it commits to, hence injective. `rootRound` 0 is a
certificate without a seal, as stored proposals carry.

`PartitionNode` has one record per node, `NodeState`, and one operator per
handler or helper, from node state to node state. The main loop is sequential, so a
handler calling another is composition and an error path is a branch. Inputs: `v`, the PoW
node's verdict on a block, and `o`, the I/O error the handler meets.

`Partition` composes nodes, workers, network, root chain and crashes. Messages
are sets that only grow, and any message may be handled any number of times:
loss, reordering, delay and duplication are behaviours. This is weaker than what
the transport gives (`MessagePool`: each message at most once), since nodes
repeat requests and root nodes repeat answers. Certification requests are the
exception: `requests` holds those of the current root round, as others have no
effect. A handler is one step, except that a replication response is applied
block by block (`ApplyBlock`, `FinishReplication`). A crash (`Crash`) restarts the
node on its block store; `CrashInFinalize`, `CrashInRecovery` and
`CrashInPropose` are crashes at points inside a handler where the store or the messages differ
from those before and after it. A node whose last configuration is unusable cannot
restart (`CanStart`), as `NewNode` fails.

The root chain is what the node's code relies on: a majority of the validators of
the epoch certifies a record that extends the last one; otherwise the last one is
repeated with a new root round; each answer names the next leader and epoch.

`FinalityLedger` is what all this is for: a list of final PoW blocks that grows by
higher and higher blocks, and per node a copy that may lag behind but never
shows another block, loses one or skips one. `Partition` implements it under the
mapping `final <- FinalBlocks` (what has been certified), `held <- HeldBlocks`
(what is in the block stores).

`LedgerReplication` looks at one recovering node and the validators it asks, at a
finer grain: `finalizeBlock` is split into its writes, workers read the store
in between, requests and responses get lost, the queue fills up, the shuffle picks
a validator that is down or was restarted. Blocks are round numbers there.

`RootContact` is the node's side of the handshake with the root chain and the
choice of root nodes. Certificates are the latest or older; of the latest one the node
has only its age, whether its technical record is known, and the hash that
`rootNodesSelector` uses matter.

`RoundTimer` is the T1 timer at the granularity of the accesses to `isRunning`,
`event` and `cancel`. `FGPTxSystem` is the transaction system of one node at the
granularity of PoW queries; its history variable `calm` records whether
reorganisations have stayed shallower than every dFG and followers were asked only about
candidates of leaders that see the same PoW chain. `LibP2PNetwork` is the transport
at the granularity of stream reads and writes, and implements `MessagePool`
(`sent` and `handled` are mapped to themselves; streams and channels are hidden).

`NodeProcess` is the life of the process `fgp run` over restarts: it composes
`ShardConfStore` and `BootstrapConnect`, whose operators are its actions or parts of
them. What outlives a process is the database of configurations and the epoch of the
last stored block.

`MC*` modules and `.cfg` files are the instances for TLC. Operators commented
"Fault model" are plausible bugs, each the substitute of the definition below
it; no specification uses them, and each breaks the property it is paired with.

## Runs

| Run | Configuration | Shows | States |
|---|---|---|---|
| votes | `MCVotes` | agreement, clean recovery, final blocks by the appointed leaders and no lost certified block among three validators whose PoW queries fail, proposals fail to be stored or requests to be sent | 188 thousand |
| crash | `MCCrash` | types, certified stores, chains, up-to-date nodes, increasing heights, no lost epoch change, no way back to an older certificate, and the abstract ledger, with a crash anywhere, an epoch change and failing writes of blocks | 245 thousand |
| replication | `MCLedgerReplication` | a worker never serves a response with a gap; a recovery ends, and not too early | 26 thousand |
| root_contact | `MCRootContact` | the latest certificate is found, and requests arrive, with dead and lagging root nodes | 9 thousand |
| timer | `MCRoundTimer` | the leader has a timer, and keeps proposing | 3 thousand |
| forks | `MCForks` | the leader's candidate is final at the moment it is proposed; finalised blocks stay active, and verified ones are confirmed, in calm behaviours | 415 thousand |
| network | `MCLibP2PNetwork` | per-stream order; the transport implements the pool | 1.2 million |
| startup | `MCNodeProcess` | stored configurations without gaps and cached as stored, a connection before the node runs, handlers before the first question, and an end to retries and after a quit signal | 44 thousand |

### Disagreements between the code and its comments

Four runs end in a violation, each of a statement quoted from the code:

* `genesis_crash`: a node that crashes before its first block is finalised finds
  its own proposal at the last key of the store and takes it for the committed
  state (`node_init.go:65`; `node.go:58`, `store_helpers.go:13`).
* `refusal`: a restarted node refuses to replicate blocks it has
  (`recovery.go:112` against the comment on line 111).
* `restored_proposal`: the duplicate certificate that ends initialisation drops
  the restored proposal and keeps its state change (`certificate_handler.go:70`;
  `node_init.go:165`). The block is recovered from other nodes instead.
* `reorg_race`: a reorganisation between the two queries of `FollowerVerify` lets
  it accept an inactive block (`fgp_txsystem.go:188-210`; comments on lines 25
  and 203). `forks` shows it cannot happen in calm behaviours
  (`CalmVerifiedIsConfirmed`).

### Bounds

* `MaxRootRound` 3: the initial certificate and two more, enough for two blocks,
  or a block and a repeat certificate: the shortest behaviours with a gap to recover, a stale certificate after a newer one, and a proposal
  overtaken by its certificate. Bounds on rounds cut behaviours short and remove
  none of their prefixes; the proofs have no bound.
* Two or three nodes: with two validators a majority is both, with three one can
  miss everything. In `crash` the second node does not vote before the epoch
  changes, so that it has to recover.
* `MaxCrashes` 1; `MaxReturnBlocks` 2 where there are two blocks, so that a
  response has one or two and a recovery takes one response or two; `MaxWorkers`
  1, so the queue is full at once.
* Two epochs in `crash`, the second with one more validator; both have a usable
  configuration. The proofs allow missing and rejected ones.
* The faults are spread over the runs (`pow`, `send` and `storeProposal` in `votes`,
  `storeBlock` in `crash`) to keep each small; the proofs have them all at once. Only
  the proofs have a restart whose PoW node does not vouch for the stored proposal.
* `replication`: three rounds, so that a recovery takes two responses; one peer of
  each kind (steady, restarted, unreachable); one worker; one request and one
  response under way at a time, a further one takes the place of the one before.
* `root_contact`: four root nodes, more than either selector picks; the two that
  are up are neighbours, so that there is a hash for which both selected ones are down.
* `startup`: epochs 0 to 2, two shards, so that a file can be of the wrong one; two
  bootstrap peers and at most one retry, or retries for ever; any number of restarts.
* Three timer goroutines: the current one and two late ones. A fourth start waits
  until one has ended, which the code does not need to do; the proof has no such
  bound.
* The PoW tree has a main branch and two side branches; dFG is 2 or 3.
  There is no limit on reorganisations; those of one block are the calm ones.
* Two streams, a channel of capacity one, batches of two: the smallest with a
  drop in the middle of a stream and two streams competing.

Symmetry is used in `votes`, which checks invariants only. Deadlock is checked
except in `network` and `replication`, where nothing is left to do once all messages
are sent and handled or all rounds are recovered, and in `startup`: a process
whose store `verifyDb` rejects does not start again, which is what the code does.

### Fairness

* `RoundTimer`: `WF` of the loop's own steps and of each goroutine: the Go
  runtime runs what can run. `SF` of `HandleT1` and of a goroutine's send: a
  `select` with several ready cases chooses at random, so one that is ready again
  and again is chosen. No fairness is assumed of other events or of the leader's
  choice. `LeaderKeepsProposing` fails if the timer is restarted on every event,
  which is what the check of `isRunning` avoids.
* `LedgerReplication`: `WF` of the ticker and of the workers; `SF` of asking each
  steady validator, as the shuffle picks each again and again; `SF` of a
  message being handled and of a block being stored and committed: what is tried
  again and again succeeds now and then. Nothing is assumed of
  validators that are down or were restarted. With no steady validator recovery does not
  end; see the `refusal` run.
* `RootContact`: `WF` of time, of the ticker, of the end of a recovery and of
  the root chain, which repeats a round nobody asks it to certify; `SF` that the shuffle
  picks an up-to-date root node now and then, that a handshake and its answer
  get through before the next certificate is out, and that a request does. Nothing is
  assumed about certificates sent unasked. `RequestArrives` has the premise that
  the hashes of certificates take every value modulo the number of root nodes.
* `NodeProcess`: `WF` of the process and of each dial; `SF` of a goroutine's end
  in a pause with the context cancelled, as `select` chooses at random. Nothing is assumed of
  bootstrap peers.

## Proofs

`PartitionInvariant` states the inductive invariant. What each handler does to one
node (certificates and finalisation; proposals, votes, epochs; replicated blocks,
restarts), and what a handler or a step can at most change, is proved in
`PartitionNodeProofs`. `PartitionProofs` lifts this to the
steps of the system, one lemma per action, crashes and the root chain included, and concludes:

* `TypeCorrect`, `StoredBlocksAreCertified`, `Agreement`, `ChainIntegrity`,
  `UpToDate`, `HeightsIncrease`, `RecoveryClean`, `Durability`: the properties
  `TypeOK`, `StoredBlocksCertified`, `LedgersAgree`, `LedgerIsChain`,
  `NormalIsUpToDate`, `FinalizedHeightsIncrease`, `RecoveryStartsClean` and
  `FinalityIsDurable` of `Partition`, for every set of nodes, validators, epochs and PoW blocks and
  any number of rounds, crashes and faults. (`FinalityIsDurable` is in no run:
  `ImplementsLedger` and `LedgerIsChain` are, and say as much on an instance.)

The invariant `IInv` says of the certificates issued so far that there is one
record per round and one certificate per root round, in the same order, each
extending the one before with a higher PoW block (`CertificatesOK`); of a node
that its blocks are certified, its store is a chain up to the committed
certificate, its pending proposal extends what it has committed, and that a
normal node is in sync, a recovering one clean and an initialising one as its
store says (`NodeOK`); of messages that they carry such blocks and records
(`MessagesOK`); and that the root chain's answer is the latest (`RootOK`). None of
the properties is inductive alone: a normal node stays up to date because two
certificates of a round agree; the chain survives a restart because the last
stored block is the committed one; agreement follows from certified records
because block hashes are injective. What is said of a node refers to a set `U` of
certificates and only gets easier as `U` grows, so issuing a certificate
disturbs no node.

`PartitionProofs` ends with

* `Refinement`: `Partition` implements `FinalityLedger` (`ImplementsLedger`), for the same
  constants. From `IInv` the stores show final blocks only, and have no gaps since
  they are chains; the lemmas behind `Durability` give that they only grow. So a
  step that leaves the certificates alone is a `Store` step, perhaps an idle one;
  `Certify` is `Finalize`, the new record being of the next round and of a higher
  block; `Repeat` changes nothing the ledger shows, as it certifies the last
  record again.

`PartitionTheorems` builds on these and proves, of `Partition`:

* `EpochChangesNoticed` (`EpochChangeNotLost`), with any faults and crashes: a handler that
  moves a node to another epoch leaves the event for the reload behind, and a restart
  takes the configuration of the last stored block's epoch.
* `CertificatesAdvance` (`LatestCertificateAdvances`), with any faults, for every step but
  a restart: outside recovery `CheckNonEquivocatingCertificates` refuses an older
  certificate, in recovery `updateLUC` passes it over, and only a restart sets `luc` otherwise.
* `FinalBlocksAreByLeaders` (`BlocksAreByLeaders`), with any faults and crashes. Certification
  requests and certificates do not name a leader; that a final block has the right
  author rests on the nodes. `LeaderInv` is the strengthening: a node knows a leader only
  from a response the root chain has issued; pending and stored proposals,
  requests and certified records (`Led`) are those of the leader that came with the
  certificate they build on; and the block hash names the author (`ProposerOf`).
* `ChangesHaveProposals` (`StateChangeHasProposal`), as long as no node has
  restarted (`crashes = 0`). A restart between the two may break it; the
  `restored_proposal` run shows how.
* `CertifiedBlocksAreHeld` (`CertifiedBlockIsHeld`), as long as no node has restarted and
  with no block write failing (`"storeBlock" \notin Faults`); messages may be
  lost or repeated, proposals fail to be stored and PoW nodes fail.
  `HeldInv` is the strengthening: every superseded record is stored, since whoever
  voted for the next one had committed it; the latest is stored, or a follower that
  voted for it holds it and waits, and nothing but the certificate for its
  vote makes it move; a vote the root chain may still count comes from a node that is where
  it was when it voted.
* `NoSecondVote` (`FollowersVoteOnce`), under the same two conditions and from the same
  invariant (`HeldInvariance`): a follower that voted still has the state change, so it
  rejects the next proposal. It is in no run: it says something only where a leader has two
  PoW blocks to choose from, and with three validators that instance is too large.

`NodeProcessProofs` proves `EpochsAreContiguous` (`NoEpochMissing`),
`ConfigurationIsCurrent` (`CacheIsCurrent`), `NodeIsConnected` (`RunsConnected`),
`ProcessTypes` (`TypeOK`), `HandlersComeFirst` (`AnswerHasHandler`) and the action
property `OnlyReplacementBreaksStore` (`OnlyReplacingBreaksStore`) for any number
of epochs, shards, bootstrap peers, retries and files. `ProcessInv` adds to them that the cache is empty until all files are stored (so that
nothing stale can be in it), that a goroutine that ended without an error and without
a connection was cancelled, and that `flags` names the peers being dialled.

`RoundTimerProofs` proves `LeaderAlwaysHasTimer` (`LeaderHasTimer`) from the
invariant that the flag is set only while the current goroutine has yet to clear
it, and that a leader without event or goroutine is on its way to start one.

`LedgerReplicationProofs` proves `ServedSolid` (`ServedBlocksAreSolid`) and
`RecoveryEndsComplete` (`NormalHasAll`) for any validators, workers, limits and
rounds. A worker reads the store while the main loop stores a block and commits it or deletes it again,
so `ServingInv` says what a store may look like at such a moment: the whole
chain, perhaps with the block being stored on top, and every queued request within it.
`RecoveringInv` adds that the loop is inside a response only in recovery.

`FGPTxSystemProofs` proves `TypeCorrect` (`TypeOK`), `FinalizedIsActive`
(`FinalizedStaysActive`), and the action properties `ProposalIsFinal`
(`LeaderProposalIsFinal`) and `CalmVerification` (`CalmVerifiedIsConfirmed`), for
every tree of PoW blocks, finite or not, and every set of depths. The
invariant has three parts: what the PoW node knows is a tree and its tip is as
high as any block (`ChainInv`); what a call has learnt of heights remains true while the
tip rises (`CallInv`); in a calm behaviour every block taken for final is so deep
that no switch of branches drops it (`CalmInv`). `Ancestors` is a recursive
function: the least sets closed under parents solve its equation, and a
counterexample of least height shows that nothing else does.

`LibP2PNetworkProofs` proves `StreamsArriveInOrder` (`StreamsInOrder`) and
`NetworkRefinement` (`ImplementsPool`) for any peers, messages, streams, batches
and capacity of the channel. The invariant: what has arrived at a peer was sent to it and
arrived once; of a stream exactly the messages read have arrived, in order; no
two streams bring a peer the same message. The last part is what keeps an
arrival on one stream from disturbing another. `Send` and `SendMsgs` are steps
`PoolSend`; `Receive` is a `PoolDeliver`, as what is in the channel was sent to
the peer and is not yet handled; the streams are invisible to the pool.

Assumptions: those named in the modules (`EpochsAssumption`,
`ValidatorsAssumption`, `FiniteAssumption`, `HeightAssumption`, `NilAssumption`,
`ReplicationAssumption`, `BoundsAssumption`, `FaultsAssumption`,
`TimersAssumption`, `ShardsAssumption`, `RetriesAssumption`, `FilesAssumption`,
`BlocksAssumption`, `DepthsAssumption`, `PeersAssumption`,
`CapacityAssumption`), the two hypotheses of `CertifiedBlocksAreHeld` and `NoSecondVote`,
injective block hashes, and a root chain that issues certificates as `Certify` and `Repeat` do.

Model-checked only: liveness (`Recovers`, `LeaderKeepsProposing`, `QuitStops`,
`BootstrapEnds` and the two properties of `RootContact`), which is out of the
prover's reach, as is `ENABLED`; and what the violation runs refute.

`CertifiedBlockIsHeld` is about runs without crashes and failing block writes, and shards
of two validators or more: a crash of every holder, or T1 firing again at a sole
validator, does lose a certified block, and nothing in the code claims otherwise.

## Not modelled

* Encodings, signatures and the field checks of messages: who sent a message is
  part of the message, and block hashes are injective.
* JSON-RPC over the socket of the PoW node, the libp2p host and its keys: plain I/O
  through libraries; their failures are modelled where the code handles them.
* The trust base store and changes of the root chain's epoch: the root nodes are
  fixed. A missing trust base stops handshakes and requests until an operator
  restarts the node.
* Flags, configuration files, the logger, the commands `block` and `pow`: no state of
  the protocol.
* A failing deletion of the stored proposal: a restart finds the store a crash
  just before the deletion leaves, or a proposal that `restoreBlockProposal` ignores.
* Blocks in the store that cannot be decoded: `processReplicationRequest` then sends
  fewer blocks.
* Several nodes each with a PoW node of its own: `Partition` has the verdict of
  each node's PoW node as a free choice, and `FGPTxSystem` has one node in detail; their
  product is beyond TLC.
