---------------------------- MODULE RootContact ----------------------------
(***************************************************************************)
(* How a node keeps in touch with the root chain: the handshakes that ask  *)
(* for the latest certificate (sendHandshake, repeated by the monitoring   *)
(* tick of partition/node.go), the choice of root nodes that are asked and *)
(* of those that get its certification requests (root_node_selector.go).   *)
(*                                                                         *)
(* Certificates are as old as they are: the latest the root chain has      *)
(* issued, or older.  Of luc only its age, whether its technical record is *)
(* known, and its hash modulo the number of root nodes matter.  What       *)
(* certificates certify, and recovery itself, is the business of Partition *)
(* and LedgerReplication.                                                  *)
(***************************************************************************)
EXTENDS Naturals, Sequences, FiniteSets, Functions

CONSTANTS
  RootNodes,       \* the root nodes of the trust base, in its order
  Up,              \* those that run and can be reached
  Lagging,         \* those of them whose certificates may be old
  HandshakeNodes,  \* defaultHandshakeNodes
  NofRootNodes     \* defaultNofRootNodes

ASSUME RootNodesAssumption == Up \subseteq Range(RootNodes) /\ Lagging \subseteq Up
ASSUME SelectorAssumption ==
  RootNodes # << >> /\ HandshakeNodes \in Nat \ {0} /\ NofRootNodes \in Nat \ {0}

VARIABLES
  status,   \* initializing, normal or recovering
  behind,   \* luc is not the latest certificate of the root chain
  ltr,      \* the technical record that came with luc is known
  index,    \* hash of luc modulo the number of root nodes
  fresh,    \* the time since lastUCReceived is within the limit
  asked,    \* root nodes that a handshake is on its way to
  answers,  \* certification responses on their way: latest or old
  reached   \* a root node has a certification request of the round under way

lucVars == <<behind, ltr, index>>
vars == <<status, lucVars, fresh, asked, answers, reached>>

Count == Len(RootNodes)
Least(a, b) == IF a < b THEN a ELSE b

-----------------------------------------------------------------------------
(***************************************************************************)
(* The selectors.                                                          *)
(***************************************************************************)
\* What the shuffle can put into the first upToNodes places.
RandomNodeSelector(upToNodes) ==
  {S \in SUBSET Range(RootNodes) : Cardinality(S) = Least(upToNodes, Count)}

\* Fault model: the hash of luc is not used.
AlwaysTheFirst(luc, upToNodes) == {RootNodes[i] : i \in 1 .. Least(upToNodes, Count)}

\* upToNodes neighbours from the one luc's hash points at, with wrap around.
RootNodesSelector(luc, upToNodes) ==
  IF upToNodes >= Count THEN Range(RootNodes)
  ELSE {RootNodes[((luc + i) % Count) + 1] : i \in 0 .. upToNodes - 1}

SendHandshake(S) == S \in RandomNodeSelector(HandshakeNodes) /\ asked' = S

-----------------------------------------------------------------------------
\* initState leaves the certificate of the last block, if there is one; Run sends a
\* handshake before the main loop starts.
Init ==
  /\ status = "initializing" /\ behind \in BOOLEAN /\ ltr = FALSE
  /\ index \in 0 .. Count - 1
  /\ fresh = TRUE /\ asked \in RandomNodeSelector(HandshakeNodes)
  /\ answers = {} /\ reached = FALSE

(***************************************************************************)
(* The root chain issues certificates, repeat certificates included, and   *)
(* its nodes send them to the validators or answer a handshake.            *)
(***************************************************************************)
Issue ==
  /\ behind' = TRUE /\ reached' = FALSE
  /\ answers' = {"old" : a \in answers}
  /\ UNCHANGED <<status, ltr, index, fresh, asked>>

Notify ==
  /\ answers' = answers \cup {"latest"}
  /\ UNCHANGED <<status, lucVars, fresh, asked, reached>>

Answer(r) ==
  /\ r \in asked \cap Up
  /\ answers' = answers \cup {IF r \in Lagging THEN "old" ELSE "latest"}
  /\ asked' = asked \ {r}
  /\ UNCHANGED <<status, lucVars, fresh, reached>>

Lose ==
  /\ \/ \E r \in asked : asked' = asked \ {r} /\ UNCHANGED answers
     \/ \E a \in answers : answers' = answers \ {a} /\ UNCHANGED asked
  /\ UNCHANGED <<status, lucVars, fresh, reached>>

-----------------------------------------------------------------------------
(***************************************************************************)
(* Certificates that come in.                                              *)
(***************************************************************************)
\* updateLUC with a certificate newer than luc.
UpdateLUC(a, tr) ==
  /\ behind /\ behind' = (a = "old")
  /\ ltr' = tr /\ index' \in 0 .. Count - 1

\* lastUCReceived stays as it is, but the limit for it grows with the end of the
\* initialisation.
NothingReceived == fresh' \in {fresh, fresh \/ status = "initializing"}

\* A new certificate ends the initialisation; blocks may be missing.  A start of recovery
\* is an error to the main loop, which leaves lastUCReceived alone.
HandleNewCertificate(a) ==
  /\ a \in answers /\ answers' = answers \ {a}
  /\ UpdateLUC(a, TRUE)
  /\ \/ status' = (IF status = "recovering" THEN status ELSE "normal") /\ fresh' = TRUE
     \/ /\ status # "recovering" /\ status' = "recovering"
        /\ NothingReceived
  /\ UNCHANGED <<asked, reached>>

\* A certificate the node has, perhaps without its technical record.
HandleDuplicate(a) ==
  /\ a \in answers /\ answers' = answers \ {a}
  /\ (a = "old") = behind
  /\ ltr' = TRUE
  /\ status' = IF status = "recovering" THEN status ELSE "normal"
  /\ fresh' = TRUE
  /\ UNCHANGED <<behind, index, asked, reached>>

\* A certificate older than luc is an error, but not in recovery.
HandleStaleCertificate ==
  /\ "old" \in answers /\ answers' = answers \ {"old"}
  /\ fresh' = (fresh \/ status = "recovering")
  /\ UNCHANGED <<status, lucVars, asked, reached>>

\* The certificate of a block proposal is not a sign of life of the root chain.
HandleBlockProposal(a) ==
  /\ status # "recovering" /\ status' \in {"normal", "recovering"}
  /\ UpdateLUC(a, TRUE) /\ NothingReceived
  /\ UNCHANGED <<asked, answers, reached>>

\* A recovered block has a certificate without technical record.
HandleBlock(a) ==
  /\ status = "recovering" /\ UpdateLUC(a, FALSE)
  /\ UNCHANGED <<status, fresh, asked, answers, reached>>

\* The last proposal that came in during recovery is handled at once, and may start the
\* next one.
StopRecovery ==
  /\ status = "recovering"
  /\ \/ status' = "normal" /\ UNCHANGED lucVars
     \/ /\ status' \in {"normal", "recovering"}
        /\ \E a \in {"latest", "old"} : UpdateLUC(a, TRUE)
  /\ UNCHANGED <<fresh, asked, answers, reached>>

-----------------------------------------------------------------------------
(***************************************************************************)
(* What the node sends.                                                    *)
(***************************************************************************)
Elapse ==
  /\ fresh /\ fresh' = FALSE
  /\ UNCHANGED <<status, lucVars, asked, answers, reached>>

\* Fault model: only the first handshake is repeated.
RepeatFirst(S) ==
  /\ status = "initializing" /\ ~ fresh /\ SendHandshake(S)
  /\ UNCHANGED <<status, lucVars, fresh, answers, reached>>

HandleMonitoring(S) ==
  /\ ~ fresh /\ SendHandshake(S)
  /\ UNCHANGED <<status, lucVars, fresh, answers, reached>>

\* The leader on T1, a follower on the leader's proposal; the message may get lost on
\* its way to any of the nodes.
SendCertificationRequest ==
  /\ status = "normal" /\ ltr
  /\ \E S \in SUBSET (RootNodesSelector(index, NofRootNodes) \cap Up) :
       reached' = (reached \/ S # {})
  /\ UNCHANGED <<status, lucVars, fresh, asked, answers>>

-----------------------------------------------------------------------------
Next ==
  \/ Issue \/ Notify \/ Lose \/ (\E r \in Range(RootNodes) : Answer(r))
  \/ HandleStaleCertificate \/ StopRecovery \/ Elapse \/ SendCertificationRequest
  \/ \E a \in {"latest", "old"} :
       \/ HandleNewCertificate(a) \/ HandleDuplicate(a)
       \/ HandleBlockProposal(a) \/ HandleBlock(a)
  \/ \E S \in SUBSET Range(RootNodes) : HandleMonitoring(S)

Spec == Init /\ [][Next]_vars

(***************************************************************************)
(* Time passes and the ticker ticks; recovery ends, now and then before    *)
(* the next certificate is out; the root chain repeats a round that nobody *)
(* asks it to certify; the shuffle selects every root node now and then;   *)
(* messages sent again and again arrive now and then, before the next      *)
(* certificate is out.  Nothing is assumed about the certificates root     *)
(* nodes send on their own, or the ones in blocks and proposals.           *)
(***************************************************************************)
Fairness ==
  /\ WF_vars(Elapse) /\ WF_vars(Issue)
  /\ WF_vars(StopRecovery /\ status' = "normal")
  /\ SF_vars(ltr /\ StopRecovery /\ status' = "normal")
  /\ \A r \in Up \ Lagging :
       /\ SF_vars(\E S \in SUBSET Range(RootNodes) : r \in S /\ HandleMonitoring(S))
       /\ SF_vars(Answer(r))
  /\ SF_vars(HandleDuplicate("latest"))
  /\ SF_vars(HandleNewCertificate("latest"))
  /\ SF_vars(SendCertificationRequest /\ reached')

FairSpec == Spec /\ Fairness

-----------------------------------------------------------------------------
(***************************************************************************)
(* Properties.                                                             *)
(***************************************************************************)

\* A node that does not have the latest certificate, or has it from a block and so
\* knows neither round nor leader and refuses every proposal (handleBlockProposal),
\* gets it with its technical record, although root nodes may never send one unasked:
\* handleMonitoring asks until a root node that is up to date has answered.
ContactRestored == (behind \/ ~ ltr) ~> (~ behind /\ ltr)

\* The node can propose or vote.
Ready == status = "normal" /\ ltr

\* The hashes of certificates take every value.
HashesVary == \A i \in 0 .. Count - 1 : []<>Ready => []<>(Ready /\ index = i)

\* Certification requests do not go to the same dead root nodes for ever: repeating a
\* request picks the same ones as long as luc is the same, but the repeat certificate
\* the root chain then issues makes rootNodesSelector choose others.
RequestArrives == HashesVary => []<>reached
=============================================================================
