---------------------------- MODULE NodeProcess ----------------------------
(***************************************************************************)
(* The life of the process `fgp run`: runNode of cmd/run.go with NewNode   *)
(* and Run of package partition, over the shard configuration store and    *)
(* the bootstrap of the network, with quit signals, crashes and restarts   *)
(* with other command lines.                                               *)
(***************************************************************************)
EXTENDS ShardConfStore, BootstrapConnect

CONSTANT
  MaxFiles  \* bound: shard configuration files on the command line

ASSUME FilesAssumption == MaxFiles \in Nat

VARIABLES
  phase,       \* how far the process is
  flags,       \* flags on its command line that concern the bootstrap
  files,       \* number of shard configuration files still to be stored
  conf,        \* the node's shard configuration
  blockEpoch,  \* epoch of the last block in the block database, -1 if there is none
  registered,  \* protocols with a handler
  asked        \* a handshake has been sent

storeVars == <<db, cache>>
dialVars == <<dial, countdown>>
vars == <<storeVars, dialVars, cancelled, phase, flags, files, conf, blockEpoch,
          registered, asked>>

Phases == {"stopped", "storing", "connecting", "created", "registered", "running"}
Flags == [bootnodes : SUBSET Bootnodes, isBootnode : BOOLEAN, count : -1 .. MaxRetries]
Replication == {"LedgerReplicationRequest", "LedgerReplicationResponse"}
Validator == {"BlockProposal", "CertificationResponse"}

TypeOK ==
  /\ db \in [Epochs -> Shards \cup {NoConf}] /\ cache \in [Epochs -> Shards \cup {NoConf}]
  /\ dial \in [Bootnodes -> DialStates] /\ countdown \in [Bootnodes -> 0 .. Forever]
  /\ phase \in Phases /\ flags \in Flags /\ files \in 0 .. MaxFiles /\ conf \in Epochs
  /\ blockEpoch \in Epochs \cup {-1} /\ registered \subseteq Replication \cup Validator
  /\ cancelled \in BOOLEAN /\ asked \in BOOLEAN

NoFlags == [bootnodes |-> {}, isBootnode |-> FALSE, count |-> 0]

Init ==
  /\ db = Empty /\ blockEpoch = -1
  /\ phase = "stopped" /\ flags = NoFlags /\ files = 0 /\ conf = 0
  /\ dial = [p \in Bootnodes |-> "idle"] /\ countdown = [p \in Bootnodes |-> 0]
  /\ cache = Empty /\ cancelled = FALSE /\ registered = {} /\ asked = FALSE

-----------------------------------------------------------------------------
(***************************************************************************)
(* runNode.                                                                *)
(***************************************************************************)
\* A new process: NewShardConfStore verifies the database, or the process ends at once.
Start(n) ==
  /\ phase = "stopped" /\ VerifyDb(db)
  /\ phase' = "storing" /\ files' = n
  /\ UNCHANGED <<storeVars, dialVars, cancelled, flags, conf, blockEpoch, registered, asked>>

\* The process ends: the databases are all that is left of it.
Stop ==
  /\ phase' = "stopped" /\ flags' = NoFlags /\ files' = 0 /\ conf' = 0
  /\ dial' = [p \in Bootnodes |-> "idle"] /\ countdown' = [p \in Bootnodes |-> 0]
  /\ cache' = Empty /\ cancelled' = FALSE /\ registered' = {} /\ asked' = FALSE
  /\ UNCHANGED <<db, blockEpoch>>

\* Fault model: the configuration is loaded before the new one is written.
LoadAndStore(c) ==
  /\ phase = "storing" /\ files > 0 /\ files' = files - 1
  /\ CanStore(c) /\ Store(c) /\ Get(c.epoch)
  /\ UNCHANGED <<dialVars, cancelled, phase, flags, conf, blockEpoch, registered, asked>>

\* c is what the next file holds.
StoreShardConf(c) ==
  /\ phase = "storing" /\ files > 0 /\ files' = files - 1
  /\ CanStore(c) /\ Store(c)
  /\ UNCHANGED <<cache, dialVars, cancelled, phase, flags, conf, blockEpoch, registered, asked>>

StoreFails(c) == phase = "storing" /\ files > 0 /\ ~ CanStore(c) /\ Stop

\* NewNodeConf needs a first configuration.
NewNodeConf == Stored(db) # {}

\* initState: the configuration is that of the last block's epoch, or else the first one.
InitState ==
  /\ blockEpoch # -1 => Cached(blockEpoch) # NoConf
  /\ conf' = IF blockEpoch = -1 THEN First ELSE blockEpoch

\* A protocol is not registered twice.
RegisterReceiveProtocols(protocols) ==
  /\ protocols \cap registered = {}
  /\ registered' = registered \cup protocols

\* The network is there, with the replication protocols, before the bootstrap peers are
\* dialled.
NewNode(f) ==
  /\ phase = "storing" /\ files = 0
  /\ NewNodeConf /\ InitState
  /\ cache' = [e \in Epochs |-> IF e \in {First, conf'} THEN Cached(e) ELSE cache[e]]
  /\ RegisterReceiveProtocols(Replication)
  /\ flags' = f /\ StartDialing(f.bootnodes, f.isBootnode, f.count)
  /\ phase' = "connecting"
  /\ UNCHANGED <<db, cancelled, files, blockEpoch, asked>>

\* Keys, trust bases, options, the PoW node, the network and the configuration of the
\* last block's epoch can all fail.
NewNodeFails == phase = "storing" /\ files = 0 /\ Stop

\* BootstrapConnect has joined its goroutines.
BootstrapReturns ==
  /\ phase = "connecting" /\ AllDone /\ ~ AllFailed(flags.isBootnode)
  /\ phase' = "created" /\ countdown' = [p \in Bootnodes |-> 0]
  /\ UNCHANGED <<storeVars, dial, cancelled, flags, files, conf, blockEpoch, registered, asked>>

BootstrapFails == phase = "connecting" /\ AllDone /\ AllFailed(flags.isBootnode) /\ Stop

-----------------------------------------------------------------------------
(***************************************************************************)
(* Node.Run.                                                               *)
(***************************************************************************)
\* Fault model: the handshake is sent first.
AskFirst ==
  /\ phase = "created" /\ phase' = "registered" /\ asked' = TRUE
  /\ UNCHANGED <<storeVars, dialVars, cancelled, flags, files, conf, blockEpoch, registered>>

RegisterValidatorProtocols ==
  /\ phase = "created" /\ phase' = "registered"
  /\ RegisterReceiveProtocols(Validator)
  /\ UNCHANGED <<storeVars, dialVars, cancelled, flags, files, conf, blockEpoch, asked>>

SendHandshake ==
  /\ phase = "registered" /\ phase' = "running" /\ asked' = TRUE
  /\ UNCHANGED <<storeVars, dialVars, cancelled, flags, files, conf, blockEpoch, registered>>

\* handleEpochChangeEvent: without a configuration for it the node keeps the old one.
HandleEpochChange(e) ==
  /\ phase = "running"
  /\ Get(e) /\ conf' = IF Cached(e) # NoConf THEN e ELSE conf
  /\ UNCHANGED <<db, dialVars, cancelled, phase, flags, files, blockEpoch, registered, asked>>

\* The node stores a block, whose epoch may be one it has no configuration for.
FinalizeBlock(e) ==
  /\ phase = "running" /\ blockEpoch < e /\ blockEpoch' = e
  /\ UNCHANGED <<storeVars, dialVars, cancelled, phase, flags, files, conf, registered, asked>>

\* loop and the workers end; errors are not reported after a quit signal.
Exit == phase = "running" /\ cancelled /\ Stop

-----------------------------------------------------------------------------
Dial(p) ==
  /\ phase = "connecting"
  /\ Connect(p) \/ DialFails(p) \/ Retry(p) \/ GiveUp(p)
  /\ UNCHANGED <<storeVars, cancelled, phase, flags, files, conf, blockEpoch, registered, asked>>

\* quitSignalContext.
Quit ==
  /\ phase # "stopped" /\ ~ cancelled /\ cancelled' = TRUE
  /\ UNCHANGED <<storeVars, dialVars, phase, flags, files, conf, blockEpoch, registered, asked>>

Crash == phase # "stopped" /\ Stop

Process ==
  \/ \E c \in Conf : StoreShardConf(c) \/ StoreFails(c)
  \/ (\E f \in Flags : NewNode(f)) \/ NewNodeFails \/ BootstrapReturns \/ BootstrapFails
  \/ RegisterValidatorProtocols \/ SendHandshake \/ Exit

Next ==
  \/ \E n \in 1 .. MaxFiles : Start(n)
  \/ Process \/ (\E p \in Bootnodes : Dial(p)) \/ Quit \/ Crash
  \/ \E e \in Epochs : HandleEpochChange(e) \/ FinalizeBlock(e)

Spec == Init /\ [][Next]_vars

\* Goroutines run: a dial ends, and so does the pause before the next one, by the
\* cancelled context at the latest.
Fairness ==
  /\ WF_vars(Process)
  /\ \A p \in Bootnodes : WF_vars(Dial(p)) /\ SF_vars(Dial(p) /\ dial'[p] = "gone")

FairSpec == Spec /\ Fairness

-----------------------------------------------------------------------------
(***************************************************************************)
(* Properties.                                                             *)
(***************************************************************************)

\* What ShardConfStore.Get hands out from its cache is what the database holds, also
\* after a restart that replaced a configuration: every Store comes before any Get.
CacheIsCurrent == \A e \in Epochs : cache[e] \in {NoConf, db[e]}

\* However processes end and restart, no epoch between two stored ones is missing
\* (ShardConfStore.Store loads the previous epoch).
NoEpochMissing == \A e \in Stored(db) : 0 .. e \subseteq Stored(db)

\* A store that verifyDb accepts is made one it rejects only by another shard's
\* configuration for an epoch that a later epoch was verified against, which Store
\* replaces without a look at the later one.
OnlyReplacingBreaksStore ==
  [][VerifyDb(db) /\ ~ VerifyDb(db') =>
       \E e \in Stored(db) : e + 1 \in Stored(db) /\ db'[e] # db[e]]_db

\* A node that has been created is connected to a bootstrap peer, if it was given any
\* and is not one itself, or is about to quit (BootstrapConnect: "our failure
\* condition is when no connection attempt succeeded").
RunsConnected ==
  phase \in {"created", "registered", "running"} =>
    \/ flags.bootnodes = {} \/ flags.isBootnode \/ cancelled
    \/ \E p \in flags.bootnodes : dial[p] = "connected"

\* The root chain is not asked for a certificate before there is a handler for its
\* answer, or for the proposal that may follow on it (Node.Run).
AnswerHasHandler == asked => Validator \subseteq registered

\* The process stops after a quit signal at whatever point of its start it comes, also
\* when bootstrap peers are retried for ever.
QuitStops == cancelled ~> phase = "stopped"

\* With a limit on the retries BootstrapConnect returns even if no peer ever answers.
BootstrapEnds == (phase = "connecting" /\ flags.count >= 0) ~> phase # "connecting"
=============================================================================
