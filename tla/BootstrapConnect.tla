-------------------------- MODULE BootstrapConnect --------------------------
(***************************************************************************)
(* Peer.BootstrapConnect of network/peer.go: one goroutine per bootstrap   *)
(* peer dials until it is connected, has no retry left or the context is   *)
(* cancelled.                                                              *)
(***************************************************************************)
EXTENDS Integers

CONSTANTS
  Bootnodes,  \* bootstrap peers that may be configured, the node itself not included
  MaxRetries  \* bound: retry counts -1 (for ever) to MaxRetries

ASSUME RetriesAssumption == MaxRetries \in Nat

VARIABLES
  dial,       \* dial[p]: what the goroutine for peer p does
  countdown,  \* countdown[p]
  cancelled   \* the context is cancelled

DialStates == {"idle", "dialing", "waiting", "connected", "failed", "gone"}
Forever == MaxRetries + 1     \* the largest int, which is not counted down to zero

\* bootstrapPeers has filtered the node itself out of the peers.
StartDialing(peers, isBootnode, count) ==
  /\ dial' = [p \in Bootnodes |-> IF p \in peers THEN "dialing" ELSE "idle"]
  /\ countdown' = [p \in Bootnodes |->
       IF isBootnode THEN 0 ELSE IF count < 0 THEN Forever ELSE count]

Connect(p) ==
  /\ dial[p] = "dialing"
  /\ dial' = [dial EXCEPT ![p] = "connected"]
  /\ UNCHANGED countdown

\* Fault model: one retry too many.
OneMore(p) ==
  /\ dial[p] = "dialing"
  /\ dial' = [dial EXCEPT ![p] = IF countdown[p] < 0 THEN "failed" ELSE "waiting"]
  /\ UNCHANGED countdown

DialFails(p) ==
  /\ dial[p] = "dialing"
  /\ dial' = [dial EXCEPT ![p] = IF countdown[p] <= 0 THEN "failed" ELSE "waiting"]
  /\ UNCHANGED countdown

\* Fault model: the countdown is forgotten.
RetryAgain(p) ==
  /\ dial[p] = "waiting"
  /\ dial' = [dial EXCEPT ![p] = "dialing"]
  /\ UNCHANGED countdown

Retry(p) ==
  /\ dial[p] = "waiting"
  /\ dial' = [dial EXCEPT ![p] = "dialing"]
  /\ countdown' = [countdown EXCEPT ![p] = IF @ = Forever THEN @ ELSE @ - 1]

\* Fault model: the pause between two attempts is not interrupted.
NotInterrupted(p) == FALSE /\ UNCHANGED <<dial, countdown>>

\* The goroutine ends without an error.
GiveUp(p) ==
  /\ dial[p] = "waiting" /\ cancelled
  /\ dial' = [dial EXCEPT ![p] = "gone"]
  /\ UNCHANGED countdown

Dialled == {p \in Bootnodes : dial[p] # "idle"}
AllDone == \A p \in Bootnodes : dial[p] \notin {"dialing", "waiting"}

\* Fault model: the errors are not counted.
NotCounted(isBootnode) == FALSE

\* The error of BootstrapConnect.
AllFailed(isBootnode) ==
  Dialled # {} /\ ~ isBootnode /\ \A p \in Dialled : dial[p] = "failed"
=============================================================================
