--------------------------- MODULE ShardConfStore ---------------------------
(***************************************************************************)
(* partition/shard_conf_store.go: shard configurations by epoch, in a      *)
(* database that outlives the process and a cache that does not.  Of a     *)
(* configuration only the identity of the network, partition and shard it  *)
(* describes matters here.                                                 *)
(***************************************************************************)
EXTENDS Naturals, FiniteSetsExt

CONSTANTS
  Shards,    \* identities: network, partition type, partition and shard
  MaxEpoch,  \* bound: epochs 0 to MaxEpoch
  NoConf     \* no record

ASSUME ShardsAssumption == NoConf \notin Shards /\ MaxEpoch \in Nat

VARIABLES
  db,    \* db[e]: the record of epoch e
  cache  \* cache[e]: the record the process has loaded

Epochs == 0 .. MaxEpoch
Conf == [epoch : Epochs, shard : Shards]
Stored(d) == {e \in Epochs : d[e] # NoConf}
Empty == [e \in Epochs |-> NoConf]

\* verifyDb: every record is compared with the first one.
VerifyDb(d) ==
  Stored(d) # {} => \A e \in Stored(d) : d[e] = d[Min(Stored(d))]

\* PartitionDescriptionRecord.Verify: a later epoch is of the same shard.
Verify(c, prev) == prev # NoConf => c.shard = prev

\* Fault model: the previous configuration is not loaded.
NoPrevious(c) == TRUE

\* Fault model: the configuration is not verified.
NotVerified(c) == c.epoch > 0 => db[c.epoch - 1] # NoConf

\* Store returns no error, but for failures of the database.
CanStore(c) ==
  /\ c.epoch > 0 => db[c.epoch - 1] # NoConf
  /\ Verify(c, IF c.epoch > 0 THEN db[c.epoch - 1] ELSE NoConf)

Store(c) == db' = [db EXCEPT ![c.epoch] = c.shard]

\* Get: what it returns, NoConf for an error, and what it leaves in the cache.
Cached(e) == IF cache[e] # NoConf THEN cache[e] ELSE db[e]
Get(e) == cache' = [cache EXCEPT ![e] = Cached(e)]

\* GetFirst reads the smallest key.
First == Min(Stored(db))
=============================================================================
