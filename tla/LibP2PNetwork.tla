--------------------------- MODULE LibP2PNetwork ---------------------------
(***************************************************************************)
(* Sending and receiving of network/libp2p_network.go: a goroutine and a   *)
(* stream per receiver, a handler goroutine per incoming stream, and a     *)
(* bounded channel of received messages that drops what does not fit.  The *)
(* streams are libp2p's: reliable and ordered until either side gives up.  *)
(* Every message can be serialised.                                        *)
(***************************************************************************)
EXTENDS Naturals, Sequences, Functions

CONSTANTS
  Peers,     \* the nodes
  Msgs,      \* messages, each sent once
  Streams,   \* streams of a behaviour (a bound)
  Capacity,  \* opts.ReceivedChannelCapacity
  MaxBatch   \* bound: messages of one SendMsgs call

ASSUME CapacityAssumption == Capacity \in Nat \ {0} /\ MaxBatch \in Nat \ {0}

VARIABLES
  sent,      \* sent[m]: the peers the callers of Send and SendMsgs want m to reach
  stream,    \* stream[s]: its receiver, its messages, and how far the two ends are
  received,  \* received[q]: the messages in receivedMsgs of q
  handled    \* handled[q]: messages q's main loop has taken from receivedMsgs

vars == <<sent, stream, received, handled>>

Unused == [writer |-> "unused"]

Init ==
  /\ sent = [m \in Msgs |-> {}]
  /\ stream = [s \in Streams |-> Unused]
  /\ received = [q \in Peers |-> << >>]
  /\ handled = [q \in Peers |-> << >>]

Free == {s \in Streams : stream[s] = Unused}

\* The ends of a stream: the writer opens, writes and closes; the reader, at the peer
\* the stream goes to, reads and either closes or resets.
NewStream(q, msgs) ==
  [to |-> q, msgs |-> msgs, writer |-> "opening", written |-> 0,
   reader |-> "none", read |-> 0]

\* receivedMsg: the channel takes the message, or it is dropped.
HasRoom(q) == Len(received[q]) < Capacity

-----------------------------------------------------------------------------
(***************************************************************************)
(* Senders.                                                                *)
(***************************************************************************)
\* A stream for each peer of Q, and R for the receivers of m; p loops back to itself.
SendVia(p, m, R, Q) ==
  \E f \in Injection(Q, Free) :
    /\ sent' = [sent EXCEPT ![m] = R]
    /\ stream' = [s \in Streams |->
                    IF \E q \in Q : f[q] = s
                    THEN NewStream(CHOOSE q \in Q : f[q] = s, <<m>>) ELSE stream[s]]
    /\ received' = IF p \in R /\ HasRoom(p)
                   THEN [received EXCEPT ![p] = Append(@, m)] ELSE received
    /\ UNCHANGED handled

\* Fault model: the message goes to every peer.
SendToAll(p, m, R) == SendVia(p, m, R, Peers \ {p})

SendAsync(p, m, R) == SendVia(p, m, R, R \ {p})

Send ==
  \E p \in Peers, m \in {m \in Msgs : sent[m] = {}}, R \in (SUBSET Peers) \ {{}} :
    SendAsync(p, m, R)

SendMsgs ==
  \E q \in Peers, k \in 1..MaxBatch, s \in Free :
  \E msgs \in Injection(1..k, {m \in Msgs : sent[m] = {}}) :
    /\ sent' = [m \in Msgs |-> IF m \in Range(msgs) THEN {q} ELSE sent[m]]
    /\ stream' = [stream EXCEPT ![s] = NewStream(q, msgs)]
    /\ UNCHANGED <<received, handled>>

\* CreateStream; the handler starts at the other end.
Open(s) ==
  /\ stream[s].writer = "opening"
  /\ stream' = [stream EXCEPT ![s].writer = "open", ![s].reader = "reading"]
  /\ UNCHANGED <<sent, received, handled>>

Write(s) ==
  /\ stream[s].writer = "open" /\ stream[s].reader # "reset"
  /\ stream[s].written < Len(stream[s].msgs)
  /\ stream' = [stream EXCEPT ![s].written = @ + 1]
  /\ UNCHANGED <<sent, received, handled>>

\* After the last message, or an error: no connection, a timeout, a reset stream.
Close(s) ==
  /\ stream[s].writer \in {"opening", "open"}
  /\ stream' = [stream EXCEPT ![s].writer = "closed"]
  /\ UNCHANGED <<sent, received, handled>>

(***************************************************************************)
(* streamHandlerForProtocol.                                               *)
(***************************************************************************)
\* Fault model: the handler carries on after a drop.
ReadOrSkip(s) ==
  LET q == stream[s].to
  IN  /\ stream[s].reader = "reading" /\ stream[s].read < stream[s].written
      /\ stream' = [stream EXCEPT ![s].read = @ + 1]
      /\ received' = IF HasRoom(q)
                     THEN [received EXCEPT ![q] = Append(@, stream[s].msgs[stream'[s].read])]
                     ELSE received

\* The next message is passed on; if it is dropped the stream is reset.
ReadMsg(s) ==
  LET q == stream[s].to
  IN  /\ stream[s].reader = "reading" /\ stream[s].read < stream[s].written
      /\ IF HasRoom(q)
         THEN /\ stream' = [stream EXCEPT ![s].read = @ + 1]
              /\ received' = [received EXCEPT ![q] =
                                Append(@, stream[s].msgs[stream[s].read + 1])]
         ELSE /\ stream' = [stream EXCEPT ![s].reader = "reset"]
              /\ UNCHANGED received

Read(s) == ReadMsg(s) /\ UNCHANGED <<sent, handled>>

\* The end of the stream, or a read error: the deadline, a torn message.
EndRead(s) ==
  /\ stream[s].reader = "reading"
  /\ \/ /\ stream[s].writer = "closed" /\ stream[s].read = stream[s].written
        /\ stream' = [stream EXCEPT ![s].reader = "closed"]
     \/ stream' = [stream EXCEPT ![s].reader = "reset"]
  /\ UNCHANGED <<sent, received, handled>>

\* The main loop of q.
Receive(q) ==
  /\ received[q] # << >>
  /\ handled' = [handled EXCEPT ![q] = Append(@, Head(received[q]))]
  /\ received' = [received EXCEPT ![q] = Tail(@)]
  /\ UNCHANGED <<sent, stream>>

Used == Streams \ Free

Next ==
  \/ Send \/ SendMsgs
  \/ \E s \in Used : Open(s) \/ Write(s) \/ Close(s) \/ Read(s) \/ EndRead(s)
  \/ \E q \in Peers : Receive(q)

Spec == Init /\ [][Next]_vars

-----------------------------------------------------------------------------
\* Everything the channel of q has taken so far.
Arrived(q) == handled[q] \o received[q]

(***************************************************************************)
(* Properties.                                                             *)
(***************************************************************************)

\* The messages of a stream reach the receiver's channel in order, without gaps and once
\* each, also when the channel is full for some of them and other streams, the main loop
\* and loop-backs come in between: after a drop the stream is reset (receivedMsg).
StreamsInOrder ==
  \A s \in Used :
    LET msgs == stream[s].msgs
        arrived == Arrived(stream[s].to)
    IN  \A i \in DOMAIN msgs, j \in DOMAIN arrived : arrived[j] = msgs[i] =>
          /\ \A h \in 1..(i - 1) : \E k \in 1..(j - 1) : arrived[k] = msgs[h]
          /\ \A k \in DOMAIN arrived : arrived[k] = msgs[i] => k = j

Pool == INSTANCE MessagePool WITH sent <- sent, handled <- handled

\* Nodes handle only what was sent to them, each message once: asynchronous sending,
\* the loop-back and the channel together implement the pool of messages.
ImplementsPool == Pool!PoolSpec
=============================================================================
