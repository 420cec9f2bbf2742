------------------------- MODULE NodeProcessProofs --------------------------
(***************************************************************************)
(* The safety properties of the process, for any number of shards, epochs, *)
(* bootstrap peers, retries, files, restarts and crashes.                  *)
(***************************************************************************)
EXTENDS NodeProcess, TLAPS

\* The cache stays empty while configurations are being stored; a goroutine that ended
\* without an error did so for the cancelled context, and one that waits has a retry left;
\* a handshake is sent only by a node whose protocols are registered.
ProcessInv ==
  /\ TypeOK
  /\ CacheIsCurrent /\ NoEpochMissing /\ RunsConnected
  /\ phase \in {"stopped", "storing"} => cache = Empty
  /\ phase = "connecting" => flags.bootnodes = Dialled
  /\ \A p \in Bootnodes : dial[p] = "gone" => cancelled
  /\ \A p \in Bootnodes : dial[p] = "waiting" => countdown[p] > 0
  /\ phase \in {"registered", "running"} => Validator \subseteq registered
  /\ asked => phase = "running"

\* The smallest epoch of a store without gaps is 0.
LEMMA FirstIsZero ==
  ASSUME NoEpochMissing, Stored(db) # {}
  PROVE  First = 0 /\ 0 \in Stored(db)
<1>1. Stored(db) \subseteq 0 .. MaxEpoch /\ MaxEpoch \in Nat
  BY ShardsAssumption DEF Stored, Epochs
<1>2. 0 \in Stored(db)
  BY <1>1 DEF NoEpochMissing
<1>3. \A e \in Stored(db) : 0 <= e /\ (e <= 0 => e = 0)
  BY <1>1
<1> HIDE DEF Stored
<1> QED BY <1>2, <1>3 DEF First, Min

\* Whenever the process ends, what is left satisfies the invariant.
LEMMA StopStep ==
  ASSUME ProcessInv, Stop
  PROVE  ProcessInv'
<1>1. /\ Empty \in [Epochs -> Shards \cup {NoConf}] /\ \A e \in Epochs : Empty[e] = NoConf
      /\ 0 \in Epochs /\ 0 \in 0 .. Forever /\ NoFlags \in Flags /\ 0 \in 0 .. MaxFiles
  BY ShardsAssumption, RetriesAssumption, FilesAssumption
     DEF Empty, Epochs, Forever, NoFlags, Flags
<1>2. TypeOK'
  BY <1>1 DEF ProcessInv, Stop, TypeOK, Phases, DialStates
<1>3. CacheIsCurrent' /\ NoEpochMissing'
  BY <1>1 DEF ProcessInv, Stop, CacheIsCurrent, NoEpochMissing, Stored
<1> QED BY <1>2, <1>3 DEF ProcessInv, Stop, RunsConnected

\* Storing configurations in order leaves no epoch out, and nothing stale in the cache.
LEMMA StoreStep ==
  ASSUME ProcessInv, NEW c \in Conf, StoreShardConf(c)
  PROVE  ProcessInv'
<1>1. c.epoch \in Epochs /\ c.shard \in Shards /\ c.shard # NoConf
  BY ShardsAssumption DEF Conf
<1>2. /\ db' = [db EXCEPT ![c.epoch] = c.shard] /\ cache' = cache /\ cache = Empty
      /\ phase' = phase /\ phase = "storing"
      /\ c.epoch > 0 => db[c.epoch - 1] # NoConf
  BY DEF ProcessInv, StoreShardConf, CanStore, Store
<1>3. db \in [Epochs -> Shards \cup {NoConf}]
  BY DEF ProcessInv, TypeOK
<1>4. TypeOK'
  <2>1. files' \in 0 .. MaxFiles
    BY FilesAssumption DEF StoreShardConf, ProcessInv, TypeOK
  <2>2. db' \in [Epochs -> Shards \cup {NoConf}]
    BY <1>1, <1>2, <1>3
  <2> QED BY <2>1, <2>2 DEF StoreShardConf, ProcessInv, TypeOK, dialVars
<1>5. CacheIsCurrent'
  BY <1>2 DEF CacheIsCurrent, Empty
<1>6. NoEpochMissing'
  <2>1. Stored(db') = Stored(db) \cup {c.epoch}
    BY <1>1, <1>2, <1>3 DEF Stored
  <2>2. Epochs = 0 .. MaxEpoch /\ MaxEpoch \in Nat /\ Stored(db) \subseteq Epochs
    BY ShardsAssumption DEF Epochs, Stored
  <2>3. c.epoch > 0 => c.epoch - 1 \in Stored(db)
    BY <1>1, <1>2, <2>2 DEF Stored
  <2>4. \A e \in Stored(db) : 0 .. e \subseteq Stored(db)
    BY DEF ProcessInv, NoEpochMissing
  <2>5. 0 .. c.epoch \subseteq Stored(db) \cup {c.epoch}
    BY ONLY <1>1, <2>2, <2>3, <2>4
  <2>6. \A e \in Stored(db') : 0 .. e \subseteq Stored(db')
    BY ONLY <2>1, <2>4, <2>5
  <2> QED BY <2>6 DEF NoEpochMissing
<1> QED BY <1>2, <1>4, <1>5, <1>6 DEF ProcessInv, StoreShardConf, dialVars, RunsConnected, Dialled

\* A node is created with configurations as they are in the database.
LEMMA NewNodeStep ==
  ASSUME ProcessInv, NEW f \in Flags, NewNode(f)
  PROVE  ProcessInv'
<1>1. /\ cache = Empty /\ db' = db /\ phase' = "connecting" /\ flags' = f /\ Stored(db) # {}
      /\ cache' = [e \in Epochs |-> IF e \in {First, conf'} THEN Cached(e) ELSE cache[e]]
      /\ dial' = [p \in Bootnodes |-> IF p \in f.bootnodes THEN "dialing" ELSE "idle"]
      /\ registered' = registered \cup Replication /\ asked' = asked /\ asked = FALSE
  BY DEF ProcessInv, NewNode, NewNodeConf, InitState, RegisterReceiveProtocols, StartDialing, TypeOK
<1>2. First \in Epochs
  BY <1>1, FirstIsZero DEF ProcessInv, Stored
<1>3. \A e \in Epochs : cache'[e] \in {NoConf, db[e]} /\ db[e] \in Shards \cup {NoConf}
  BY <1>1 DEF ProcessInv, TypeOK, Cached, Empty
<1>4. f.count \in -1 .. MaxRetries /\ f.bootnodes \subseteq Bootnodes
  BY DEF Flags
<1>5. TypeOK'
  <2>1. countdown' \in [Bootnodes -> 0 .. Forever]
    BY <1>4, RetriesAssumption DEF NewNode, NewNodeConf, InitState, RegisterReceiveProtocols, StartDialing, Forever
  <2>2. cache' \in [Epochs -> Shards \cup {NoConf}]
    BY <1>1, <1>3
  <2>3. conf' \in Epochs
    BY <1>2 DEF NewNode, NewNodeConf, InitState, RegisterReceiveProtocols, ProcessInv, TypeOK
  <2>4. dial' \in [Bootnodes -> DialStates]
    BY <1>1 DEF DialStates
  <2> QED BY <1>1, <2>1, <2>2, <2>3, <2>4 DEF NewNode, NewNodeConf, InitState, RegisterReceiveProtocols, ProcessInv, TypeOK, Phases
<1>6. CacheIsCurrent' /\ NoEpochMissing'
  BY <1>1, <1>3 DEF ProcessInv, CacheIsCurrent, NoEpochMissing
<1>7. f.bootnodes = Dialled'
  BY <1>1, <1>4 DEF Dialled
<1>8. \A p \in Bootnodes : dial'[p] # "gone" /\ dial'[p] # "waiting"
  BY <1>1
<1> QED BY <1>1, <1>5, <1>6, <1>7, <1>8 DEF ProcessInv, RunsConnected

\* Dialling ends connected, failed, or given up because of the cancelled context.
LEMMA DialStep ==
  ASSUME ProcessInv, NEW p \in Bootnodes, Dial(p)
  PROVE  ProcessInv'
<1>1. /\ phase = "connecting" /\ dial[p] \in {"dialing", "waiting"}
      /\ dial \in [Bootnodes -> DialStates] /\ countdown \in [Bootnodes -> 0 .. Forever]
      /\ flags.bootnodes = Dialled
  BY DEF ProcessInv, TypeOK, Dial, Connect, DialFails, Retry, GiveUp
<1>2. PICK d \in {"connected", "failed", "waiting", "dialing", "gone"} :
        dial' = [dial EXCEPT ![p] = d] /\ (d = "gone" => cancelled)
  BY DEF Dial, Connect, DialFails, Retry, GiveUp
<1>3. countdown' \in [Bootnodes -> 0 .. Forever]
  <2>1. CASE countdown' = countdown
    BY <1>1, <2>1
  <2>2. CASE Retry(p)
    <3>1. countdown[p] > 0
      BY <2>2 DEF Retry, ProcessInv
    <3> QED BY <1>1, <2>2, <3>1, RetriesAssumption DEF Retry, Forever
  <2> QED BY <2>1, <2>2 DEF Dial, Connect, DialFails, GiveUp
<1>4. TypeOK'
  BY <1>1, <1>2, <1>3 DEF ProcessInv, TypeOK, Dial, storeVars, DialStates
<1>5. Dialled' = Dialled
  BY <1>1, <1>2 DEF Dialled, DialStates
<1>6. \A q \in Bootnodes : dial'[q] = "gone" => cancelled'
  BY <1>1, <1>2 DEF ProcessInv, Dial
<1>7. \A q \in Bootnodes : dial'[q] = "waiting" => countdown'[q] > 0
  <2>1. \A q \in Bootnodes \ {p} : dial'[q] = dial[q] /\ countdown'[q] = countdown[q]
    BY <1>1 DEF Dial, Connect, DialFails, Retry, GiveUp
  <2>2. dial'[p] = "waiting" => countdown'[p] > 0
    BY <1>1, RetriesAssumption DEF Dial, Connect, DialFails, Retry, GiveUp, Forever
  <2> QED BY <2>1, <2>2 DEF ProcessInv
<1> QED BY <1>1, <1>4, <1>5, <1>6, <1>7
     DEF ProcessInv, Dial, storeVars, CacheIsCurrent, NoEpochMissing, RunsConnected

\* A bootstrap that returns without an error has connected the node, or was cancelled.
LEMMA BootstrapReturnsStep ==
  ASSUME ProcessInv, BootstrapReturns
  PROVE  ProcessInv'
<1>1. /\ phase = "connecting" /\ AllDone /\ ~ AllFailed(flags.isBootnode)
      /\ phase' = "created" /\ countdown' = [p \in Bootnodes |-> 0]
      /\ UNCHANGED <<db, cache, dial, cancelled, flags, files, conf, blockEpoch, registered, asked>>
  BY DEF BootstrapReturns, storeVars
<1>2. dial \in [Bootnodes -> DialStates] /\ flags.bootnodes = Dialled
  BY <1>1 DEF ProcessInv, TypeOK
<1>3. RunsConnected'
  <2>1. CASE Dialled = {} \/ flags.isBootnode
    BY <1>1, <1>2, <2>1 DEF RunsConnected
  <2>2. CASE \E p \in Dialled : dial[p] # "failed"
    <3>1. PICK p \in Dialled : dial[p] # "failed"
      BY <2>2
    <3>2. p \in Bootnodes /\ dial[p] \in {"connected", "gone"}
      BY <1>1, <1>2, <3>1 DEF AllDone, Dialled, DialStates
    <3> QED BY <1>1, <1>2, <3>1, <3>2 DEF RunsConnected, ProcessInv
  <2> QED BY <1>1, <2>1, <2>2 DEF AllFailed
<1>4. TypeOK'
  BY <1>1, RetriesAssumption DEF ProcessInv, TypeOK, Phases, Forever
<1>5. \A p \in Bootnodes : dial'[p] # "waiting"
  BY <1>1 DEF AllDone
<1> QED BY <1>1, <1>3, <1>4, <1>5 DEF ProcessInv, CacheIsCurrent, NoEpochMissing

\* Starting, registering and asking, in this order.
LEMMA PhaseStep ==
  ASSUME ProcessInv,
         \/ \E n \in 1 .. MaxFiles : Start(n)
         \/ RegisterValidatorProtocols \/ SendHandshake \/ Quit
  PROVE  ProcessInv'
<1>1. CASE \E n \in 1 .. MaxFiles : Start(n)
  BY <1>1, FilesAssumption DEF ProcessInv, Start, TypeOK, Phases, storeVars, dialVars, Dialled,
       CacheIsCurrent, NoEpochMissing, RunsConnected
<1>2. CASE RegisterValidatorProtocols
  BY <1>2 DEF ProcessInv, RegisterValidatorProtocols, RegisterReceiveProtocols, TypeOK, Phases, storeVars, dialVars, Dialled,
       CacheIsCurrent, NoEpochMissing, RunsConnected
<1>3. CASE SendHandshake
  BY <1>3 DEF ProcessInv, SendHandshake, TypeOK, Phases, storeVars, dialVars, Dialled,
       CacheIsCurrent, NoEpochMissing, RunsConnected
<1>4. CASE Quit
  BY <1>4 DEF ProcessInv, Quit, TypeOK, storeVars, dialVars, Dialled,
       CacheIsCurrent, NoEpochMissing, RunsConnected
<1> QED BY <1>1, <1>2, <1>3, <1>4

\* The running node loads configurations as they are in the database.
LEMMA RunningStep ==
  ASSUME ProcessInv, NEW e \in Epochs, HandleEpochChange(e) \/ FinalizeBlock(e)
  PROVE  ProcessInv'
<1>1. CASE HandleEpochChange(e)
  <2>1. /\ cache' = [cache EXCEPT ![e] = Cached(e)] /\ db' = db /\ conf' \in Epochs
        /\ cache \in [Epochs -> Shards \cup {NoConf}] /\ db \in [Epochs -> Shards \cup {NoConf}]
    BY <1>1 DEF HandleEpochChange, Get, ProcessInv, TypeOK
  <2>2. CacheIsCurrent' /\ cache' \in [Epochs -> Shards \cup {NoConf}]
    BY <2>1 DEF ProcessInv, CacheIsCurrent, Cached
  <2> QED BY <1>1, <2>1, <2>2 DEF ProcessInv, HandleEpochChange, TypeOK, dialVars, Dialled,
             NoEpochMissing, RunsConnected
<1>2. CASE FinalizeBlock(e)
  BY <1>2 DEF ProcessInv, FinalizeBlock, TypeOK, storeVars, dialVars, Dialled,
       CacheIsCurrent, NoEpochMissing, RunsConnected
<1> QED BY <1>1, <1>2

\* The inductive invariant holds from the first start on.
THEOREM ProcessInvariance == Spec => []ProcessInv
<1>1. ASSUME Init PROVE ProcessInv
  <2>1. /\ Empty \in [Epochs -> Shards \cup {NoConf}] /\ \A e \in Epochs : Empty[e] = NoConf
        /\ 0 \in Epochs /\ 0 \in 0 .. Forever /\ NoFlags \in Flags /\ 0 \in 0 .. MaxFiles
    BY ShardsAssumption, RetriesAssumption, FilesAssumption
       DEF Empty, Epochs, Forever, NoFlags, Flags
  <2>2. TypeOK
    BY <1>1, <2>1 DEF Init, TypeOK, Phases, DialStates
  <2> QED BY <1>1, <2>1, <2>2 DEF Init, ProcessInv, CacheIsCurrent, NoEpochMissing, RunsConnected, Stored
<1>2. ASSUME ProcessInv, [Next]_vars PROVE ProcessInv'
  <2>1. CASE UNCHANGED vars
    BY <1>2, <2>1 DEF vars, storeVars, dialVars, ProcessInv, TypeOK, Dialled, CacheIsCurrent,
         NoEpochMissing, RunsConnected
  <2>2. CASE Process
    BY <1>2, <2>2, StoreStep, StopStep, NewNodeStep, BootstrapReturnsStep, PhaseStep
       DEF Process, StoreFails, NewNodeFails, BootstrapFails, Exit
  <2> QED BY <1>2, <2>1, <2>2, PhaseStep, DialStep, RunningStep, StopStep DEF Next, Crash
<1> QED BY <1>1, <1>2, PTL DEF Spec

\* No stored epoch has a gap before it, whatever files processes were started with and
\* however they ended (ShardConfStore.Store).
THEOREM EpochsAreContiguous == Spec => []NoEpochMissing
<1>1. ProcessInv => NoEpochMissing
  BY DEF ProcessInv
<1> QED BY <1>1, ProcessInvariance, PTL

\* The node never works with a shard configuration that has been replaced in the database
\* (ShardConfStore.Get).
THEOREM ConfigurationIsCurrent == Spec => []CacheIsCurrent
<1>1. ProcessInv => CacheIsCurrent
  BY DEF ProcessInv
<1> QED BY <1>1, ProcessInvariance, PTL

\* Unless it is quitting, a node that runs has at least one of its bootstrap peers
\* (BootstrapConnect).
THEOREM NodeIsConnected == Spec => []RunsConnected
<1>1. ProcessInv => RunsConnected
  BY DEF ProcessInv
<1> QED BY <1>1, ProcessInvariance, PTL

\* Every variable of the process keeps its type, through restarts with any flags and files.
THEOREM ProcessTypes == Spec => []TypeOK
<1>1. ProcessInv => TypeOK
  BY DEF ProcessInv
<1> QED BY <1>1, ProcessInvariance, PTL

\* Whoever answers the handshake, or proposes right after it, finds a handler registered:
\* Node.Run registers the validator protocols before it sends the handshake.
THEOREM HandlersComeFirst == Spec => []AnswerHasHandler
<1>1. ProcessInv => AnswerHasHandler
  BY DEF ProcessInv, AnswerHasHandler
<1> QED BY <1>1, ProcessInvariance, PTL

\* One configuration written by Store into a store that verifyDb accepts: the result is
\* accepted too, unless it is the first epoch's that is replaced and a later one is there.
LEMMA StoreKeepsVerified ==
  ASSUME ProcessInv, NEW c \in Conf, StoreShardConf(c), VerifyDb(db), ~ VerifyDb(db')
  PROVE  \E e \in Stored(db) : e + 1 \in Stored(db) /\ db'[e] # db[e]
<1>1. /\ c.epoch \in Epochs /\ c.shard \in Shards /\ c.shard # NoConf
      /\ db \in [Epochs -> Shards \cup {NoConf}] /\ NoEpochMissing
      /\ db' = [db EXCEPT ![c.epoch] = c.shard]
      /\ c.epoch > 0 => db[c.epoch - 1] # NoConf /\ c.shard = db[c.epoch - 1]
  BY ShardsAssumption DEF Conf, ProcessInv, TypeOK, StoreShardConf, CanStore, Store, Verify
<1>2. Epochs = 0 .. MaxEpoch /\ MaxEpoch \in Nat
  BY ShardsAssumption DEF Epochs
<1>3. NoEpochMissing'
  BY StoreStep DEF ProcessInv
<1>4. Stored(db') # {} /\ 0 \in Stored(db')
  <2>1. c.epoch \in Stored(db')
    BY <1>1 DEF Stored
  <2> QED BY <2>1, <1>2, <1>3 DEF NoEpochMissing, Stored
<1>5. Min(Stored(db')) = 0
  <2>1. \A e \in Stored(db') : 0 <= e /\ (e <= 0 => e = 0)
    BY <1>2 DEF Stored
  <2> HIDE DEF Stored
  <2> QED BY <1>4, <2>1 DEF Min
<1>6. PICK e \in Stored(db') : db'[e] # db'[0]
  BY <1>4, <1>5 DEF VerifyDb
<1>7. Stored(db) # {} => \A f \in Stored(db) : db[f] = db[0] /\ 0 \in Stored(db)
  BY <1>1, FirstIsZero DEF VerifyDb, First
<1>8. CASE c.epoch > 0
  <2>1. c.epoch - 1 \in Stored(db)
    BY <1>1, <1>2, <1>8 DEF Stored
  <2>2. db'[0] = db[0] /\ db[c.epoch - 1] = db[0]
    BY <1>1, <1>2, <1>7, <1>8, <2>1
  <2>3. db'[e] = db[0]
    <3>1. CASE e = c.epoch
      BY <1>1, <2>2, <3>1, <1>8
    <3>2. CASE e # c.epoch
      BY <1>1, <1>7, <2>1, <3>2 DEF Stored
    <3> QED BY <3>1, <3>2
  <2> QED BY <1>6, <2>2, <2>3
<1>9. CASE c.epoch = 0
  <2>1. e # 0 /\ e \in Epochs /\ db'[e] = db[e] /\ e \in Stored(db) /\ db'[0] = c.shard
    BY <1>1, <1>2, <1>6, <1>9 DEF Stored
  <2>2. 0 \in Stored(db) /\ 1 \in Stored(db) /\ db[e] = db[0]
    <3>1. 0 .. e \subseteq Stored(db) /\ e \in Nat
      BY <1>1, <1>2, <2>1 DEF NoEpochMissing
    <3> QED BY <1>7, <2>1, <3>1
  <2> QED BY <1>6, <2>1, <2>2
<1> QED BY <1>1, <1>2, <1>8, <1>9

\* A store that verifyDb accepts becomes one it rejects in no other way than by replacing
\* an epoch that a later one was verified against, whatever else the process does.
THEOREM OnlyReplacementBreaksStore == Spec => OnlyReplacingBreaksStore
<1>1. ASSUME ProcessInv, [Next]_vars
      PROVE  [VerifyDb(db) /\ ~ VerifyDb(db') =>
                \E e \in Stored(db) : e + 1 \in Stored(db) /\ db'[e] # db[e]]_db
  <2>1. CASE \E c \in Conf : StoreShardConf(c)
    BY <1>1, <2>1, StoreKeepsVerified
  <2>2. CASE ~ \E c \in Conf : StoreShardConf(c)
    <3>1. db' = db
      BY <1>1, <2>2 DEF Next, Process, vars, storeVars, dialVars, Start, Stop, StoreFails, NewNode,
           NewNodeFails, BootstrapReturns, BootstrapFails, RegisterValidatorProtocols, SendHandshake,
           Exit, Dial, Quit, Crash, HandleEpochChange, FinalizeBlock
    <3> QED BY <3>1
  <2> QED BY <2>1, <2>2
<1> QED BY <1>1, ProcessInvariance, PTL DEF Spec, OnlyReplacingBreaksStore
=============================================================================
