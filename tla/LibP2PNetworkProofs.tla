------------------------ MODULE LibP2PNetworkProofs ------------------------
(***************************************************************************)
(* The network for any number of peers, messages and streams and any       *)
(* capacity of the channel of received messages: the messages of a stream  *)
(* arrive in order and without gaps, and the network implements the pool   *)
(* of messages.                                                            *)
(***************************************************************************)
EXTENDS LibP2PNetwork, SequenceTheorems, TLAPS

Stream ==
  [to : Peers, msgs : Seq(Msgs), writer : {"opening", "open", "closed"}, written : Nat,
   reader : {"none", "reading", "closed", "reset"}, read : Nat]

(***************************************************************************)
(* The inductive invariant.  A message has one receiver per stream or      *)
(* loop-back, so no two streams bring a peer the same message; of a        *)
(* stream, exactly the messages read have arrived, in their order.         *)
(***************************************************************************)
Types ==
  /\ sent \in [Msgs -> SUBSET Peers]
  /\ DOMAIN stream = Streams
  /\ received \in [Peers -> Seq(Msgs)]
  /\ handled \in [Peers -> Seq(Msgs)]

\* What has arrived at a peer, a, was sent to it, as S says, and is there once.
ArrivedOK(q, a, S) ==
  /\ \A i, j \in 1..Len(a) : a[i] = a[j] => i = j
  /\ \A j \in 1..Len(a) : q \in S[a[j]]

StreamOK(x, S) ==
  /\ x \in Stream
  /\ x.read <= x.written /\ x.written <= Len(x.msgs)
  /\ \A i, j \in 1..Len(x.msgs) : x.msgs[i] = x.msgs[j] => i = j
  /\ \A i \in 1..Len(x.msgs) : x.to \in S[x.msgs[i]]

\* Of the stream x, the first x.read messages are in a, in their order.
ProgressOK(x, a) ==
  /\ \A i \in 1..Len(x.msgs), j \in 1..Len(a) : a[j] = x.msgs[i] => i <= x.read
  /\ \A i \in 1..x.read : \E j \in 1..Len(a) : a[j] = x.msgs[i]
  /\ \A h, i \in 1..x.read, j, k \in 1..Len(a) :
       h < i /\ a[k] = x.msgs[h] /\ a[j] = x.msgs[i] => k < j

Disjoint(x, y) ==
  x.to = y.to => \A i \in 1..Len(x.msgs), j \in 1..Len(y.msgs) : x.msgs[i] # y.msgs[j]

IInv ==
  /\ Types
  /\ \A q \in Peers : ArrivedOK(q, Arrived(q), sent)
  /\ \A s \in Used : StreamOK(stream[s], sent)
  /\ \A s \in Used : ProgressOK(stream[s], Arrived(stream[s].to))
  /\ \A s, t \in Used : s # t => Disjoint(stream[s], stream[t])

-----------------------------------------------------------------------------
(***************************************************************************)
(* Sequences.                                                              *)
(***************************************************************************)
\* A message added to the channel comes after everything that has arrived.
LEMMA AppendArrives ==
  ASSUME NEW S, NEW a \in Seq(S), NEW b \in Seq(S), NEW m \in S
  PROVE  a \o Append(b, m) = Append(a \o b, m)
<1>1. /\ a \o b \in Seq(S) /\ Append(b, m) \in Seq(S)
      /\ a \o Append(b, m) \in Seq(S) /\ Append(a \o b, m) \in Seq(S)
  BY ConcatProperties, AppendProperties
<1>2. /\ Len(a) \in Nat /\ Len(b) \in Nat
      /\ Len(Append(b, m)) = Len(b) + 1 /\ Append(b, m)[Len(b) + 1] = m
      /\ \A i \in 1..Len(b) : Append(b, m)[i] = b[i]
  BY AppendProperties, LenProperties
<1>3. /\ Len(a \o b) = Len(a) + Len(b)
      /\ Len(a \o Append(b, m)) = Len(a) + Len(b) + 1
      /\ Len(Append(a \o b, m)) = Len(a) + Len(b) + 1
      /\ Append(a \o b, m)[Len(a) + Len(b) + 1] = m
      /\ \A i \in 1..(Len(a) + Len(b)) : Append(a \o b, m)[i] = (a \o b)[i]
  BY <1>1, <1>2, ConcatProperties, AppendProperties
<1>4. ASSUME NEW i \in 1..Len(a \o Append(b, m))
      PROVE  (a \o Append(b, m))[i] = Append(a \o b, m)[i]
  <2>0. \A k \in 1..(Len(a) + Len(Append(b, m))) : (a \o Append(b, m))[k] =
          IF k <= Len(a) THEN a[k] ELSE Append(b, m)[k - Len(a)]
    BY <1>1, ConcatProperties
  <2>1. (a \o Append(b, m))[i] = IF i <= Len(a) THEN a[i] ELSE Append(b, m)[i - Len(a)]
    <3>1. i \in 1..(Len(a) + Len(Append(b, m)))
      BY <1>2, <1>3
    <3> QED
      BY <2>0, <3>1
  <2>2. CASE i = Len(a) + Len(b) + 1
    BY <1>2, <1>3, <2>1, <2>2
  <2>3. CASE i \in 1..(Len(a) + Len(b))
    <3>1. (a \o b)[i] = IF i <= Len(a) THEN a[i] ELSE b[i - Len(a)]
      BY <1>1, <1>2, <1>3, <2>3, ConcatProperties
    <3> QED
      BY <1>2, <1>3, <2>1, <2>3, <3>1
  <2> QED
    BY <1>2, <1>3, <2>2, <2>3
<1> QED
  BY <1>1, <1>2, <1>3, <1>4, SeqEqual

\* Taking a message from the channel leaves the order of arrival as it was.
LEMMA MoveHead ==
  ASSUME NEW S, NEW a \in Seq(S), NEW b \in Seq(S), b # << >>
  PROVE  /\ Head(b) \in S /\ Tail(b) \in Seq(S)
         /\ Append(a, Head(b)) \o Tail(b) = a \o b
<1>1. /\ Head(b) \in S /\ Tail(b) \in Seq(S) /\ Head(b) = b[1]
      /\ Len(Tail(b)) = Len(b) - 1 /\ \A i \in 1..Len(Tail(b)) : Tail(b)[i] = b[i + 1]
  BY HeadTailProperties, LenProperties
<1>2. /\ Append(a, Head(b)) \in Seq(S) /\ Len(Append(a, Head(b))) = Len(a) + 1
      /\ \A i \in 1..Len(a) : Append(a, Head(b))[i] = a[i]
      /\ Append(a, Head(b))[Len(a) + 1] = b[1]
  BY <1>1, AppendProperties
<1>3. /\ Append(a, Head(b)) \o Tail(b) \in Seq(S) /\ a \o b \in Seq(S)
      /\ Len(Append(a, Head(b)) \o Tail(b)) = Len(a) + 1 + Len(Tail(b))
      /\ Len(a \o b) = Len(a) + Len(b)
  BY <1>1, <1>2, ConcatProperties
<1>4. Len(a) \in Nat /\ Len(b) \in Nat
  BY LenProperties
<1>5. ASSUME NEW i \in 1..Len(Append(a, Head(b)) \o Tail(b))
      PROVE  (Append(a, Head(b)) \o Tail(b))[i] = (a \o b)[i]
  <2>1. (Append(a, Head(b)) \o Tail(b))[i] =
          IF i <= Len(a) + 1 THEN Append(a, Head(b))[i] ELSE Tail(b)[i - (Len(a) + 1)]
    BY <1>1, <1>2, <1>3, <1>4, ConcatProperties
  <2>2. (a \o b)[i] = IF i <= Len(a) THEN a[i] ELSE b[i - Len(a)]
    BY <1>1, <1>3, <1>4, ConcatProperties
  <2> QED
    BY <2>1, <2>2, <1>1, <1>2, <1>3, <1>4
<1> QED
  BY <1>1, <1>3, <1>4, <1>5, SeqEqual

-----------------------------------------------------------------------------
(***************************************************************************)
(* What the parts of the invariant survive.                                *)
(***************************************************************************)
\* More receivers of a message do not disturb a channel.
LEMMA ArrivedGrows ==
  ASSUME NEW S, NEW T, \A m \in Msgs : S[m] \subseteq T[m],
         NEW q, NEW a \in Seq(Msgs), ArrivedOK(q, a, S)
  PROVE  ArrivedOK(q, a, T)
<1>1. \A j \in 1..Len(a) : a[j] \in Msgs
  BY ElementOfSeq
<1> QED
  BY <1>1 DEF ArrivedOK

\* Nor do they disturb a stream.
LEMMA StreamGrows ==
  ASSUME NEW S, NEW T, \A m \in Msgs : S[m] \subseteq T[m], NEW x, StreamOK(x, S)
  PROVE  StreamOK(x, T)
<1>1. x.msgs \in Seq(Msgs)
  BY DEF StreamOK, Stream
<1>2. \A j \in 1..Len(x.msgs) : x.msgs[j] \in Msgs
  BY <1>1, ElementOfSeq
<1> QED
  BY <1>2 DEF StreamOK

\* A message that was sent to q and has not arrived there may arrive.
LEMMA NewArrival ==
  ASSUME NEW q, NEW a \in Seq(Msgs), NEW S, ArrivedOK(q, a, S),
         NEW m \in Msgs, q \in S[m], \A j \in 1..Len(a) : a[j] # m
  PROVE  ArrivedOK(q, Append(a, m), S)
<1>1. /\ Len(a) \in Nat /\ Len(Append(a, m)) = Len(a) + 1
      /\ \A i \in 1..Len(a) : Append(a, m)[i] = a[i]
      /\ Append(a, m)[Len(a) + 1] = m
  BY AppendProperties, LenProperties
<1> QED
  BY <1>1 DEF ArrivedOK

\* The arrival of a message of another stream does not concern a stream.
LEMMA OtherArrival ==
  ASSUME NEW x \in Stream, NEW a \in Seq(Msgs), ProgressOK(x, a), x.read <= Len(x.msgs),
         NEW m \in Msgs, \A i \in 1..Len(x.msgs) : x.msgs[i] # m
  PROVE  ProgressOK(x, Append(a, m))
<1>1. /\ Len(a) \in Nat /\ Len(Append(a, m)) = Len(a) + 1
      /\ \A i \in 1..Len(a) : Append(a, m)[i] = a[i]
      /\ Append(a, m)[Len(a) + 1] = m
  BY AppendProperties, LenProperties
<1>2. x.read \in Nat /\ Len(x.msgs) \in Nat
  BY LenProperties DEF Stream
<1>3. \A j \in 1..(Len(a) + 1) : j \in 1..Len(a) \/ j = Len(a) + 1
  BY <1>1
<1>4. \A i \in 1..x.read : i \in 1..Len(x.msgs)
  BY <1>2
<1> QED
  BY <1>1, <1>2, <1>3, <1>4, SMTT(20) DEF ProgressOK

\* The reader passes on the next message of its stream.
LEMMA NextArrival ==
  ASSUME NEW x, NEW y, NEW S, StreamOK(x, S), NEW a \in Seq(Msgs), ProgressOK(x, a),
         x.read < x.written, y.msgs = x.msgs, y.read = x.read + 1
  PROVE  /\ ProgressOK(y, Append(a, x.msgs[x.read + 1]))
         /\ x.read + 1 \in 1..Len(x.msgs) /\ x.msgs[x.read + 1] \in Msgs
         /\ \A j \in 1..Len(a) : a[j] # x.msgs[x.read + 1]
<1> DEFINE m == x.msgs[x.read + 1]
           c == Append(a, m)
<1>1. x.msgs \in Seq(Msgs) /\ x.read \in Nat /\ x.written \in Nat
  BY DEF StreamOK, Stream
<1>2. x.read + 1 \in 1..Len(x.msgs)
  BY <1>1, LenProperties DEF StreamOK
<1>3. m \in Msgs
  BY <1>1, <1>2, ElementOfSeq
<1>4. /\ Len(a) \in Nat /\ Len(c) = Len(a) + 1
      /\ \A i \in 1..Len(a) : c[i] = a[i]
      /\ c[Len(a) + 1] = m
  BY <1>3, AppendProperties, LenProperties
<1>5. \A j \in 1..Len(a) : a[j] # m
  BY <1>1, <1>2, SMTT(20) DEF ProgressOK
<1>6. Len(x.msgs) \in Nat
  BY <1>1, LenProperties
<1>7. \A i \in 1..Len(x.msgs) : x.msgs[i] = m => i = x.read + 1
  BY <1>2 DEF StreamOK
<1> HIDE DEF c, m
<1>8. \A j \in 1..Len(c) : j \in 1..Len(a) \/ j = Len(a) + 1
  BY <1>4
<1>9. \A i \in 1..y.read : i \in 1..Len(x.msgs) /\ (i \in 1..x.read \/ i = x.read + 1)
  BY <1>1, <1>2, <1>6
<1>10. ASSUME NEW i \in 1..Len(y.msgs), NEW j \in 1..Len(c), c[j] = y.msgs[i]
       PROVE  i <= y.read
  <2>1. CASE j \in 1..Len(a)
    <3>1. i \in 1..Len(x.msgs) /\ a[j] = x.msgs[i]
      BY <1>4, <1>10, <2>1
    <3>2. i <= x.read
      BY <2>1, <3>1 DEF ProgressOK
    <3> QED
      BY <1>1, <3>2
  <2>2. CASE j = Len(a) + 1
    BY <1>1, <1>4, <1>7, <1>10, <2>2
  <2> QED
    BY <1>8, <2>1, <2>2
<1>11. ASSUME NEW i \in 1..y.read
       PROVE  \E j \in 1..Len(c) : c[j] = y.msgs[i]
  <2>1. CASE i = x.read + 1
    <3>1. Len(a) + 1 \in 1..Len(c)
      BY <1>4
    <3> QED
      BY <1>4, <2>1, <3>1 DEF m
  <2>2. CASE i \in 1..x.read
    <3>1. PICK j \in 1..Len(a) : a[j] = x.msgs[i]
      BY <2>2 DEF ProgressOK
    <3>2. j \in 1..Len(c) /\ c[j] = a[j]
      BY <1>4
    <3> QED
      BY <3>1, <3>2
  <2> QED
    BY <1>9, <2>1, <2>2
<1>12. ASSUME NEW h \in 1..y.read, NEW i \in 1..y.read, NEW j \in 1..Len(c),
              NEW k \in 1..Len(c), h < i, c[k] = y.msgs[h], c[j] = y.msgs[i]
       PROVE  k < j
  <2>1. h \in 1..x.read /\ h # x.read + 1
    BY <1>1, <1>9, <1>12
  <2>2. k \in 1..Len(a)
    BY <1>4, <1>7, <1>8, <1>9, <1>12, <2>1
  <2>3. CASE i = x.read + 1
    BY <1>4, <1>5, <1>8, <1>12, <2>2, <2>3 DEF m
  <2>4. CASE i \in 1..x.read
    <3>1. j \in 1..Len(a)
      <4>1. i # x.read + 1 /\ i \in 1..Len(x.msgs)
        BY <1>1, <1>9, <2>4
      <4> QED
        BY <1>4, <1>7, <1>8, <1>12, <4>1
    <3> QED
      BY <1>4, <1>12, <2>1, <2>2, <2>4, <3>1 DEF ProgressOK
  <2> QED
    BY <1>9, <2>3, <2>4
<1>13. ProgressOK(y, c)
  BY <1>10, <1>11, <1>12 DEF ProgressOK
<1> QED
  BY <1>2, <1>3, <1>5, <1>13 DEF c, m

\* Nothing of a new stream has arrived.
LEMMA FreshStream ==
  ASSUME NEW q, NEW msgs, NEW a, \A i \in 1..Len(msgs), j \in 1..Len(a) : a[j] # msgs[i]
  PROVE  ProgressOK(NewStream(q, msgs), a)
BY DEF ProgressOK, NewStream

-----------------------------------------------------------------------------
(***************************************************************************)
(* The steps.                                                              *)
(***************************************************************************)
\* No stream is in use and nothing has arrived at first.
LEMMA InitIInv == Init => IInv
<1> SUFFICES ASSUME Init PROVE IInv
  OBVIOUS
<1>1. Types
  BY DEF Init, Types
<1>2. Used = {}
  BY DEF Init, Used, Free
<1>3. \A q \in Peers : Arrived(q) = << >>
  BY ConcatEmptySeq DEF Init, Arrived
<1>4. \A q \in Peers : ArrivedOK(q, Arrived(q), sent)
  BY <1>3 DEF ArrivedOK
<1> QED
  BY <1>1, <1>2, <1>4 DEF IInv

\* What has arrived at a peer is a sequence of messages.
LEMMA ArrivedType ==
  ASSUME Types, NEW q \in Peers
  PROVE  /\ Arrived(q) \in Seq(Msgs) /\ Len(Arrived(q)) \in Nat
         /\ \A j \in 1..Len(Arrived(q)) : Arrived(q)[j] \in Msgs
<1>1. Arrived(q) \in Seq(Msgs)
  BY ConcatProperties DEF Types, Arrived
<1> QED
  BY <1>1, LenProperties, ElementOfSeq

\* A message nobody has sent is in no channel and no stream.
LEMMA UnsentIsNew ==
  ASSUME IInv, NEW m, sent[m] = {}
  PROVE  /\ \A q \in Peers : \A j \in 1..Len(Arrived(q)) : Arrived(q)[j] # m
         /\ \A s \in Used : \A i \in 1..Len(stream[s].msgs) : stream[s].msgs[i] # m
BY DEF IInv, ArrivedOK, StreamOK

\* A step of one end of a stream that passes nothing on.
LEMMA QuietStep ==
  ASSUME IInv, NEW s \in Used, NEW y, StreamOK(y, sent),
         y.to = stream[s].to, y.msgs = stream[s].msgs, y.read = stream[s].read,
         stream' = [stream EXCEPT ![s] = y], UNCHANGED <<sent, received, handled>>
  PROVE  IInv'
<1>1. DOMAIN stream = Streams /\ s \in Streams
  BY DEF IInv, Types, Used
<1>2. stream'[s] = y /\ \A t \in Streams : t # s => stream'[t] = stream[t]
  BY <1>1
<1>3. y # Unused
  BY DEF StreamOK, Stream, Unused
<1>4. Used' = Used
  BY <1>2, <1>3 DEF Used, Free
<1>5. Types'
  BY <1>1 DEF IInv, Types
<1>6. \A q : Arrived(q)' = Arrived(q)
  BY DEF Arrived
<1>7. \A q \in Peers : ArrivedOK(q, Arrived(q), sent)'
  BY <1>6 DEF IInv
<1>8. \A t \in Used : StreamOK(stream'[t], sent')
  BY <1>2 DEF IInv, Used
<1>9. \A t \in Used : /\ stream'[t].to = stream[t].to /\ stream'[t].msgs = stream[t].msgs
                      /\ stream'[t].read = stream[t].read
  BY <1>2 DEF Used
<1>10. \A t \in Used : ProgressOK(stream'[t], Arrived(stream[t].to))
  BY <1>9, SMTT(20) DEF IInv, ProgressOK
<1>11. \A t \in Used : ProgressOK(stream[t], Arrived(stream[t].to))'
  BY <1>4, <1>9, <1>10 DEF Arrived
<1>12. \A t, u \in Used : t # u => Disjoint(stream'[t], stream'[u])
  BY <1>9 DEF IInv, Disjoint
<1> QED
  BY <1>4, <1>5, <1>7, <1>8, <1>11, <1>12 DEF IInv

\* What the ends of a stream do besides passing on a message preserves the invariant.
LEMMA StreamEnds ==
  ASSUME IInv, NEW s \in Used,
         Open(s) \/ Write(s) \/ Close(s) \/ EndRead(s) \/ (Read(s) /\ ~ HasRoom(stream[s].to))
  PROVE  IInv'
<1> DEFINE x == stream[s]
<1>1. StreamOK(x, sent)
  BY DEF IInv
<1>2. x \in Stream
  BY <1>1 DEF StreamOK
<1>3. s \in DOMAIN stream
  BY DEF IInv, Types, Used
<1>4. ASSUME NEW w \in {"opening", "open", "closed"},
             NEW r \in {"none", "reading", "closed", "reset"},
             NEW k \in Nat, x.read <= k, k <= Len(x.msgs),
             stream' = [stream EXCEPT ![s] = [x EXCEPT !.writer = w, !.reader = r, !.written = k]],
             UNCHANGED <<sent, received, handled>>
      PROVE  IInv'
  <2> DEFINE y == [x EXCEPT !.writer = w, !.reader = r, !.written = k]
  <2>1. /\ y \in Stream /\ y.to = x.to /\ y.msgs = x.msgs /\ y.read = x.read
        /\ y.written = k
    BY <1>2 DEF Stream
  <2>2. StreamOK(y, sent)
    BY <1>1, <1>4, <2>1 DEF StreamOK
  <2> HIDE DEF y
  <2> QED
    BY <1>4, <2>1, <2>2, QuietStep DEF y
<1>5. /\ x.writer \in {"opening", "open", "closed"} /\ x.written \in Nat
      /\ x.reader \in {"none", "reading", "closed", "reset"}
      /\ x.read <= x.written /\ x.written <= Len(x.msgs)
      /\ Len(x.msgs) \in Nat /\ x.read \in Nat
  <2>1. x.msgs \in Seq(Msgs)
    BY <1>2 DEF Stream
  <2>2. Len(x.msgs) \in Nat
    BY <2>1, LenProperties
  <2>3. x.read <= x.written /\ x.written <= Len(x.msgs)
    BY <1>1, Zenon DEF StreamOK
  <2>4. /\ x.writer \in {"opening", "open", "closed"} /\ x.written \in Nat
        /\ x.reader \in {"none", "reading", "closed", "reset"} /\ x.read \in Nat
    BY <1>2, ZenonT(30) DEF Stream
  <2> QED
    BY <2>2, <2>3, <2>4, Zenon
<1>7. CASE Open(s)
  <2>1. stream' = [stream EXCEPT ![s] =
          [x EXCEPT !.writer = "open", !.reader = "reading", !.written = x.written]]
    BY <1>2, <1>3, <1>7, ZenonT(30) DEF Open, Stream
  <2> QED
    BY <1>4, <1>5, <1>7, <2>1 DEF Open
<1>8. CASE Write(s)
  <2> DEFINE k == x.written + 1
  <2>1. stream' = [stream EXCEPT ![s] =
          [x EXCEPT !.writer = x.writer, !.reader = x.reader, !.written = k]]
    BY <1>2, <1>3, <1>8, ZenonT(30) DEF Write, Stream
  <2>2. x.written < Len(x.msgs)
    BY <1>8, Zenon DEF Write
  <2>3. k \in Nat /\ x.read <= k /\ k <= Len(x.msgs)
    <3> HIDE DEF x
    <3> QED
      BY <1>5, <2>2, SMTT(20)
  <2>4. UNCHANGED <<sent, received, handled>>
    BY <1>8, ZenonT(30) DEF Write
  <2> HIDE DEF k
  <2> QED
    BY <1>4, <1>5, <2>1, <2>3, <2>4, Zenon
<1>9. CASE Close(s)
  <2>1. stream' = [stream EXCEPT ![s] =
          [x EXCEPT !.writer = "closed", !.reader = x.reader, !.written = x.written]]
    BY <1>2, <1>3, <1>9 DEF Close, Stream
  <2> QED
    BY <1>4, <1>5, <1>9, <2>1 DEF Close
<1>10. ASSUME NEW r \in {"closed", "reset"}, stream' = [stream EXCEPT ![s].reader = r],
              UNCHANGED <<sent, received, handled>>
       PROVE  IInv'
  <2>1. stream' = [stream EXCEPT ![s] =
          [x EXCEPT !.writer = x.writer, !.reader = r, !.written = x.written]]
    BY <1>2, <1>3, <1>10 DEF Stream
  <2> QED
    BY <1>4, <1>5, <1>10, <2>1
<1>11. CASE EndRead(s)
  BY <1>10, <1>11 DEF EndRead
<1>12. CASE Read(s) /\ ~ HasRoom(x.to)
  BY <1>10, <1>12 DEF Read, ReadMsg
<1> QED
  BY <1>7, <1>8, <1>9, <1>11, <1>12

\* The handler passes on the next message of its stream.
LEMMA ReadStep ==
  ASSUME IInv, NEW s \in Used, Read(s), HasRoom(stream[s].to)
  PROVE  IInv'
<1> DEFINE x == stream[s]
           q == x.to
           m == x.msgs[x.read + 1]
           y == [x EXCEPT !.read = x.read + 1]
<1>1. StreamOK(x, sent) /\ x \in Stream /\ q \in Peers /\ s \in Streams /\ DOMAIN stream = Streams
  BY DEF IInv, StreamOK, Stream, Types, Used
<1>2. x.read < x.written /\ sent' = sent /\ handled' = handled
  BY DEF Read, ReadMsg
<1>3. /\ stream' = [stream EXCEPT ![s].read = @ + 1]
      /\ received' = [received EXCEPT ![q] = Append(@, m)]
  BY DEF Read, ReadMsg
<1>4. y \in Stream /\ y.to = q /\ y.msgs = x.msgs /\ y.read = x.read + 1 /\ y.written = x.written
  BY <1>1 DEF Stream
<1>5. stream'[s] = y /\ \A t \in Streams : t # s => stream'[t] = stream[t]
  BY <1>1, <1>3 DEF Stream
<1>6. y # Unused
  BY <1>4 DEF Stream, Unused
<1>7. Used' = Used
  BY <1>5, <1>6 DEF Used, Free
<1>8. Types
  BY DEF IInv
<1>9. /\ Arrived(q) \in Seq(Msgs) /\ ProgressOK(x, Arrived(q)) /\ ArrivedOK(q, Arrived(q), sent)
  BY <1>1, <1>8, ArrivedType DEF IInv
<1> HIDE DEF y
<1>10. /\ ProgressOK(y, Append(Arrived(q), m))
       /\ x.read + 1 \in 1..Len(x.msgs) /\ m \in Msgs
       /\ \A j \in 1..Len(Arrived(q)) : Arrived(q)[j] # m
  BY <1>1, <1>2, <1>4, <1>9, NextArrival
<1>11. q \in sent[m]
  BY <1>1, <1>10 DEF StreamOK
<1> HIDE DEF m
<1>12. /\ handled'[q] \o received'[q] = Append(Arrived(q), m)
       /\ \A r \in Peers : r # q => handled'[r] \o received'[r] = Arrived(r)
  <2> HIDE DEF q
  <2>1. /\ received'[q] = Append(received[q], m)
        /\ \A r \in Peers : r # q => received'[r] = received[r]
    BY <1>1, <1>3, <1>8 DEF Types
  <2>2. received[q] \in Seq(Msgs) /\ handled[q] \in Seq(Msgs) /\ m \in Msgs
    BY <1>1, <1>8, <1>10 DEF Types
  <2>3. \A a, b \in Seq(Msgs), k \in Msgs : a \o Append(b, k) = Append(a \o b, k)
    BY AppendArrives
  <2>4. handled[q] \o Append(received[q], m) = Append(handled[q] \o received[q], m)
    BY <2>2, <2>3
  <2> QED
    BY <1>2, <2>1, <2>4 DEF Arrived
<1>13. Types'
  <2>1. received' \in [Peers -> Seq(Msgs)]
    BY <1>1, <1>3, <1>8, <1>10, AppendProperties DEF Types
  <2> QED
    BY <1>1, <1>2, <1>3, <1>8, <2>1 DEF Types
<1>14. ASSUME NEW r \in Peers PROVE ArrivedOK(r, handled'[r] \o received'[r], sent)
  <2>1. CASE r = q
    <3>1. ArrivedOK(q, Append(Arrived(q), m), sent)
      BY <1>9, <1>10, <1>11, NewArrival
    <3> QED
      BY <1>12, <2>1, <3>1
  <2>2. CASE r # q
    BY <1>12, <2>2 DEF IInv
  <2> QED
    BY <2>1, <2>2
<1>15. ASSUME NEW t \in Used PROVE StreamOK(stream'[t], sent)
  <2>1. StreamOK(y, sent)
    <3>1. x.read \in Nat /\ x.written \in Nat
      BY <1>1 DEF Stream
    <3> QED
      BY <1>1, <1>2, <1>4, <3>1 DEF StreamOK
  <2> QED
    BY <1>5, <2>1 DEF IInv, Used
<1>16. ASSUME NEW t \in Used, t # s
       PROVE  Disjoint(stream[t], x) /\ Disjoint(x, stream[t]) /\ stream'[t] = stream[t]
  BY <1>5, <1>16 DEF IInv, Used
<1>17. ASSUME NEW t \in Used
       PROVE  ProgressOK(stream'[t], handled'[stream'[t].to] \o received'[stream'[t].to])
  <2>1. CASE t = s
    BY <1>4, <1>5, <1>10, <1>12, <2>1
  <2>2. CASE t # s /\ stream[t].to # q
    BY <1>12, <1>16, <2>2 DEF IInv, StreamOK, Stream
  <2>3. CASE t # s /\ stream[t].to = q
    <3>1. /\ stream[t] \in Stream /\ ProgressOK(stream[t], Arrived(q))
          /\ stream[t].read <= Len(stream[t].msgs)
      BY <2>3, LenProperties DEF IInv, StreamOK, Stream
    <3>2. \A i \in 1..Len(stream[t].msgs) : stream[t].msgs[i] # m
      BY <1>10, <1>16, <2>3 DEF Disjoint, m
    <3>3. ProgressOK(stream[t], Append(Arrived(q), m))
      BY <1>9, <1>10, <3>1, <3>2, OtherArrival
    <3> QED
      BY <1>12, <1>16, <2>3, <3>3
  <2> QED
    BY <2>1, <2>2, <2>3, SMTT(20)
<1>18. ASSUME NEW t \in Used, NEW u \in Used, t # u PROVE Disjoint(stream'[t], stream'[u])
  <2>1. /\ stream'[t].to = stream[t].to /\ stream'[t].msgs = stream[t].msgs
        /\ stream'[u].to = stream[u].to /\ stream'[u].msgs = stream[u].msgs
    BY <1>4, <1>5, <1>16
  <2>2. Disjoint(stream[t], stream[u])
    BY <1>18 DEF IInv
  <2> QED
    BY <2>1, <2>2, Zenon DEF Disjoint
<1> QED
  BY <1>2, <1>7, <1>13, <1>14, <1>15, <1>17, <1>18 DEF IInv, Arrived

\* What SendAsync and SendMsgs add to the network: new streams, each to another peer, and
\* loop-backs to peers without a new stream, all with messages not sent before.
LoopsBack(r) ==
  \E m \in Msgs : /\ sent[m] = {} /\ r \in sent'[m]
                  /\ received'[r] = Append(received[r], m)

Starts(t) ==
  \E q \in Peers, msgs \in Seq(Msgs) :
    /\ stream'[t] = NewStream(q, msgs) /\ IsInjective(msgs)
    /\ \A i \in 1..Len(msgs) : sent[msgs[i]] = {} /\ q \in sent'[msgs[i]]
    /\ received'[q] = received[q]

Adds ==
  /\ handled' = handled
  /\ \A m \in Msgs : sent[m] \subseteq sent'[m]
  /\ \A r \in Peers : received'[r] = received[r] \/ LoopsBack(r)
  /\ \A t \in Used : t \in Used' /\ stream'[t] = stream[t]
  /\ \A t \in Used' \ Used : Starts(t)
  /\ \A t, u \in Used' \ Used : t # u => stream'[t].to # stream'[u].to

\* What a call of SendAsync or SendMsgs adds to the network preserves the invariant.
LEMMA SendStep ==
  ASSUME IInv, Types', Adds
  PROVE  IInv'
<1> DEFINE A(r) == handled'[r] \o received'[r]
<1>1. Types
  BY DEF IInv
<1>2. ASSUME NEW r \in Peers
      PROVE  \/ A(r) = Arrived(r)
             \/ \E m \in Msgs : /\ sent[m] = {} /\ r \in sent'[m]
                                /\ A(r) = Append(Arrived(r), m)
  <2>0. handled' = handled /\ (received'[r] = received[r] \/ LoopsBack(r))
    BY DEF Adds
  <2>1. CASE received'[r] = received[r]
    BY <2>0, <2>1 DEF Arrived
  <2>2. CASE LoopsBack(r)
    <3>1. PICK m \in Msgs : /\ sent[m] = {} /\ r \in sent'[m]
                            /\ received'[r] = Append(received[r], m)
      BY <2>2 DEF LoopsBack
    <3>2. received[r] \in Seq(Msgs) /\ handled[r] \in Seq(Msgs)
      BY <1>1 DEF Types
    <3>3. \A a, b \in Seq(Msgs), k \in Msgs : a \o Append(b, k) = Append(a \o b, k)
      BY AppendArrives
    <3>4. A(r) = Append(Arrived(r), m)
      <4>1. A(r) = handled[r] \o Append(received[r], m)
        BY <2>0, <3>1
      <4>2. handled[r] \o Append(received[r], m) = Append(handled[r] \o received[r], m)
        BY <3>2, <3>3
      <4> QED
        BY <4>1, <4>2 DEF Arrived
    <3> QED
      BY <3>1, <3>4
  <2> QED
    BY <2>0, <2>1, <2>2
<1>3. ASSUME NEW r \in Peers PROVE ArrivedOK(r, A(r), sent')
  <2>1. Arrived(r) \in Seq(Msgs) /\ ArrivedOK(r, Arrived(r), sent)
    BY <1>1, ArrivedType DEF IInv
  <2>2. ArrivedOK(r, Arrived(r), sent')
    BY <2>1, ArrivedGrows DEF Adds
  <2>3. CASE A(r) = Arrived(r)
    BY <2>2, <2>3
  <2>4. ASSUME NEW m \in Msgs, sent[m] = {}, r \in sent'[m], A(r) = Append(Arrived(r), m)
        PROVE  ArrivedOK(r, A(r), sent')
    <3>1. \A j \in 1..Len(Arrived(r)) : Arrived(r)[j] # m
      BY <2>4, UnsentIsNew
    <3>2. ArrivedOK(r, Append(Arrived(r), m), sent')
      BY <2>1, <2>2, <2>4, <3>1, NewArrival
    <3> QED
      BY <2>4, <3>2
  <2> QED
    BY <1>2, <2>3, <2>4
<1>4. ASSUME NEW t \in Used
      PROVE  /\ StreamOK(stream'[t], sent') /\ ProgressOK(stream'[t], A(stream'[t].to))
             /\ stream'[t] = stream[t]
  <2> DEFINE x == stream[t]
  <2>1. stream'[t] = x
    BY DEF Adds
  <2>2. StreamOK(x, sent) /\ ProgressOK(x, Arrived(x.to))
    BY DEF IInv
  <2>3. x \in Stream /\ x.to \in Peers /\ x.read <= Len(x.msgs)
    BY <2>2, LenProperties DEF StreamOK, Stream
  <2>4. StreamOK(x, sent')
    BY <2>2, StreamGrows DEF Adds
  <2>5. Arrived(x.to) \in Seq(Msgs)
    BY <1>1, <2>3, ArrivedType, SMTT(20)
  <2>6. ProgressOK(x, A(x.to))
    <3>1. ASSUME NEW m \in Msgs, sent[m] = {}, A(x.to) = Append(Arrived(x.to), m)
          PROVE  ProgressOK(x, A(x.to))
      <4>1. \A i \in 1..Len(x.msgs) : x.msgs[i] # m
        BY <3>1, UnsentIsNew
      <4>2. ProgressOK(x, Append(Arrived(x.to), m))
        BY <2>2, <2>3, <2>5, <4>1, OtherArrival
      <4> QED
        BY <3>1, <4>2
    <3>2. CASE A(x.to) = Arrived(x.to)
      BY <2>2, <3>2
    <3> QED
      BY <1>2, <2>3, <3>1, <3>2
  <2> QED
    BY <2>1, <2>4, <2>6
<1>5. ASSUME NEW t \in Used' \ Used
      PROVE  /\ StreamOK(stream'[t], sent') /\ ProgressOK(stream'[t], A(stream'[t].to))
             /\ \A i \in 1..Len(stream'[t].msgs) : sent[stream'[t].msgs[i]] = {}
  <2>1. PICK q \in Peers, msgs \in Seq(Msgs) :
          /\ stream'[t] = NewStream(q, msgs) /\ IsInjective(msgs)
          /\ \A i \in 1..Len(msgs) : sent[msgs[i]] = {} /\ q \in sent'[msgs[i]]
          /\ received'[q] = received[q]
    BY DEF Adds, Starts
  <2> DEFINE y == NewStream(q, msgs)
  <2>2. /\ y \in Stream /\ y.to = q /\ y.msgs = msgs /\ y.read = 0 /\ y.written = 0
    BY DEF NewStream, Stream
  <2> HIDE DEF y
  <2>3. Len(msgs) \in Nat /\ DOMAIN msgs = 1..Len(msgs)
    BY LenProperties
  <2>4. StreamOK(y, sent')
    BY <2>1, <2>2, <2>3 DEF StreamOK, IsInjective
  <2>5. A(q) = Arrived(q)
    BY <2>1 DEF Adds, Arrived
  <2>6. \A i \in 1..Len(msgs), j \in 1..Len(Arrived(q)) : Arrived(q)[j] # msgs[i]
    BY <2>1, UnsentIsNew
  <2>7. ProgressOK(y, Arrived(q))
    BY <2>6, FreshStream DEF y
  <2>8. stream'[t] = y
    BY <2>1 DEF y
  <2> QED
    BY <2>1, <2>2, <2>4, <2>5, <2>7, <2>8
<1>6. ASSUME NEW t \in Used', NEW u \in Used', t # u PROVE Disjoint(stream'[t], stream'[u])
  <2>1. CASE t \in Used /\ u \in Used
    BY <1>4, <1>6, <2>1 DEF IInv
  <2>2. CASE t \notin Used /\ u \notin Used
    BY <1>6, <2>2 DEF Adds, Disjoint
  <2>3. CASE t \in Used /\ u \notin Used
    <3>1. \A i \in 1..Len(stream[t].msgs) : sent[stream[t].msgs[i]] # {}
      BY <2>3 DEF IInv, StreamOK
    <3>2. \A j \in 1..Len(stream'[u].msgs) : sent[stream'[u].msgs[j]] = {}
      BY <1>5, <2>3
    <3>3. ASSUME NEW i \in 1..Len(stream[t].msgs), NEW j \in 1..Len(stream'[u].msgs)
          PROVE  stream[t].msgs[i] # stream'[u].msgs[j]
      BY <3>1, <3>2
    <3>4. stream'[t] = stream[t]
      BY <1>4, <2>3
    <3> QED
      BY <3>3, <3>4, Zenon DEF Disjoint
  <2>4. CASE t \notin Used /\ u \in Used
    <3>1. \A i \in 1..Len(stream[u].msgs) : sent[stream[u].msgs[i]] # {}
      BY <2>4 DEF IInv, StreamOK
    <3>2. \A j \in 1..Len(stream'[t].msgs) : sent[stream'[t].msgs[j]] = {}
      BY <1>5, <2>4
    <3>3. ASSUME NEW i \in 1..Len(stream[u].msgs), NEW j \in 1..Len(stream'[t].msgs)
          PROVE  stream[u].msgs[i] # stream'[t].msgs[j]
      BY <3>1, <3>2
    <3>4. stream'[u] = stream[u]
      BY <1>4, <2>4
    <3> QED
      BY <3>3, <3>4, Zenon DEF Disjoint
  <2> QED
    BY <2>1, <2>2, <2>3, <2>4
<1>7. \A t \in Used' : StreamOK(stream'[t], sent') /\ ProgressOK(stream'[t], A(stream'[t].to))
  BY <1>4, <1>5
<1> QED
  BY <1>3, <1>6, <1>7 DEF IInv, Arrived

\* A call of SendAsync adds a stream per receiver and the loop-back.
LEMMA SendAsyncStep ==
  ASSUME IInv, NEW p \in Peers, NEW m \in Msgs, sent[m] = {}, NEW R \in SUBSET Peers,
         SendAsync(p, m, R)
  PROVE  IInv'
<1> DEFINE Q == R \ {p}
<1>1. PICK f \in Injection(Q, Free) :
        /\ sent' = [sent EXCEPT ![m] = R]
        /\ stream' = [s \in Streams |->
                        IF \E q \in Q : f[q] = s
                        THEN NewStream(CHOOSE q \in Q : f[q] = s, <<m>>) ELSE stream[s]]
        /\ received' = IF p \in R /\ HasRoom(p)
                       THEN [received EXCEPT ![p] = Append(@, m)] ELSE received
        /\ UNCHANGED handled
  BY DEF SendAsync, SendVia
<1>0. f \in [Q -> Free] /\ \A q, r \in Q : f[q] = f[r] => q = r
  BY DEF Injection, IsInjective
<1>2. Types
  BY DEF IInv
<1>3. /\ sent' \in [Msgs -> SUBSET Peers] /\ sent'[m] = R
      /\ \A k \in Msgs : sent[k] \subseteq sent'[k]
  BY <1>1, <1>2 DEF Types
<1>4. /\ received' \in [Peers -> Seq(Msgs)]
      /\ \A r \in Peers : r # p => received'[r] = received[r]
      /\ \/ received'[p] = received[p]
         \/ p \in R /\ received'[p] = Append(received[p], m)
  <2>1. Append(received[p], m) \in Seq(Msgs)
    BY <1>2, AppendProperties DEF Types
  <2>2. CASE p \in R /\ HasRoom(p)
    BY <1>1, <1>2, <2>1, <2>2 DEF Types
  <2>3. CASE ~ (p \in R /\ HasRoom(p))
    BY <1>1, <1>2, <2>3 DEF Types
  <2> QED
    BY <2>2, <2>3
<1>5. Types'
  BY <1>1, <1>2, <1>3, <1>4 DEF Types
<1>6. ASSUME NEW s \in Streams, NEW q \in Q, f[q] = s
      PROVE  s \in Free /\ stream'[s] = NewStream(q, <<m>>) /\ stream'[s].to = q /\ s \in Used'
  <2>1. (CHOOSE r \in Q : f[r] = s) = q
    BY <1>0, <1>6
  <2>2. stream'[s] = NewStream(q, <<m>>)
    BY <1>1, <1>6, <2>1
  <2>3. NewStream(q, <<m>>) # Unused /\ NewStream(q, <<m>>).to = q
    BY DEF NewStream, Unused
  <2> QED
    BY <1>0, <1>6, <2>2, <2>3 DEF Used, Free
<1>7. ASSUME NEW s \in Streams, ~ \E q \in Q : f[q] = s PROVE stream'[s] = stream[s]
  BY <1>1, <1>7
<1>8. ASSUME NEW t \in Used PROVE t \in Used' /\ stream'[t] = stream[t]
  <2>1. t \in Streams /\ t \notin Free
    BY DEF Used
  <2>2. stream'[t] = stream[t]
    BY <1>6, <1>7, <2>1
  <2> QED
    BY <2>1, <2>2 DEF Used, Free
<1>9. ASSUME NEW t \in Used' \ Used PROVE t \in Streams /\ \E q \in Q : f[q] = t
  BY <1>7 DEF Used, Free
<1>10. ASSUME NEW t \in Used' \ Used PROVE Starts(t)
  <2>1. PICK q \in Q : f[q] = t
    BY <1>9
  <2>2. q \in Peers /\ stream'[t] = NewStream(q, <<m>>) /\ received'[q] = received[q]
    BY <1>4, <1>6, <1>9, <2>1
  <2>3. <<m>> \in Seq(Msgs) /\ Len(<<m>>) = 1 /\ <<m>>[1] = m /\ IsInjective(<<m>>)
    BY DEF IsInjective
  <2>4. \A i \in 1..Len(<<m>>) : sent[<<m>>[i]] = {} /\ q \in sent'[<<m>>[i]]
    BY <1>3, <2>3
  <2> QED
    BY <2>2, <2>3, <2>4, Zenon DEF Starts
<1>11. ASSUME NEW t \in Used' \ Used, NEW u \in Used' \ Used, t # u
       PROVE  stream'[t].to # stream'[u].to
  BY <1>6, <1>9, <1>11
<1>12. \A r \in Peers : received'[r] = received[r] \/ LoopsBack(r)
  BY <1>3, <1>4 DEF LoopsBack
<1>13. Adds
  BY <1>1, <1>3, <1>8, <1>10, <1>11, <1>12 DEF Adds
<1> QED
  BY <1>5, <1>13, SendStep

\* A call of SendMsgs adds one stream with all the messages.
LEMMA SendMsgsStep ==
  ASSUME IInv, SendMsgs
  PROVE  IInv' /\ sent' \in [Msgs -> SUBSET Peers] /\ \A m \in Msgs : sent[m] \subseteq sent'[m]
<1>1. PICK q \in Peers, k \in 1..MaxBatch, s \in Free :
      \E msgs \in Injection(1..k, {m \in Msgs : sent[m] = {}}) :
        /\ sent' = [m \in Msgs |-> IF m \in Range(msgs) THEN {q} ELSE sent[m]]
        /\ stream' = [stream EXCEPT ![s] = NewStream(q, msgs)]
        /\ UNCHANGED <<received, handled>>
  BY DEF SendMsgs
<1>3. PICK msgs \in Injection(1..k, {m \in Msgs : sent[m] = {}}) :
        /\ sent' = [m \in Msgs |-> IF m \in Range(msgs) THEN {q} ELSE sent[m]]
        /\ stream' = [stream EXCEPT ![s] = NewStream(q, msgs)]
        /\ UNCHANGED <<received, handled>>
  BY <1>1
<1>2. Types
  BY DEF IInv
<1>4. /\ msgs \in Seq(Msgs) /\ IsInjective(msgs)
      /\ \A i \in 1..Len(msgs) : sent[msgs[i]] = {} /\ msgs[i] \in Range(msgs) /\ msgs[i] \in Msgs
      /\ \A m \in Range(msgs) : sent[m] = {}
  <2>1. k \in Nat /\ MaxBatch \in Nat
    BY CapacityAssumption
  <2>2. msgs \in [1..k -> {m \in Msgs : sent[m] = {}}] /\ IsInjective(msgs)
    BY DEF Injection
  <2>3. msgs \in Seq(Msgs) /\ Len(msgs) = k /\ DOMAIN msgs = 1..k
    BY <2>1, <2>2
  <2> QED
    BY <2>2, <2>3 DEF Range
<1>5. /\ sent' \in [Msgs -> SUBSET Peers]
      /\ \A m \in Msgs : sent[m] \subseteq sent'[m]
      /\ \A i \in 1..Len(msgs) : q \in sent'[msgs[i]]
  BY <1>3, <1>2, <1>4 DEF Types
<1>6. Types'
  BY <1>3, <1>2, <1>5 DEF Types
<1>7. s \in Streams /\ stream[s] = Unused
  BY DEF Free
<1>8. stream'[s] = NewStream(q, msgs) /\ \A t \in Streams : t # s => stream'[t] = stream[t]
  BY <1>3, <1>2, <1>7 DEF Types
<1>9. NewStream(q, msgs) # Unused
  BY DEF NewStream, Unused
<1>10. \A t \in Used : t \in Used' /\ stream'[t] = stream[t]
  BY <1>7, <1>8 DEF Used, Free
<1>11. \A t \in Used' \ Used : t = s
  BY <1>8 DEF Used, Free
<1>12. Starts(s)
  <2>1. received'[q] = received[q]
    BY <1>3
  <2> QED
    BY <1>3, <1>4, <1>5, <1>8, <2>1, Zenon DEF Starts
<1>13. Adds
  BY <1>3, <1>5, <1>10, <1>11, <1>12 DEF Adds
<1> QED
  BY <1>5, <1>6, <1>13, SendStep

\* The main loop takes a message from the channel: what has arrived stays the same.
LEMMA ReceiveStep ==
  ASSUME IInv, NEW q \in Peers, Receive(q)
  PROVE  /\ IInv' /\ Head(received[q]) \in Msgs /\ q \in sent[Head(received[q])]
         /\ Head(received[q]) \notin Range(handled[q])
<1> DEFINE a == handled[q]
           b == received[q]
<1>1. Types
  BY DEF IInv
<1>2. a \in Seq(Msgs) /\ b \in Seq(Msgs) /\ b # << >>
  BY <1>1 DEF Types, Receive
<1>3. /\ Head(b) \in Msgs /\ Tail(b) \in Seq(Msgs)
      /\ Append(a, Head(b)) \o Tail(b) = a \o b
  BY <1>2, MoveHead
<1>4. /\ handled' = [handled EXCEPT ![q] = Append(a, Head(b))]
      /\ received' = [received EXCEPT ![q] = Tail(b)]
      /\ sent' = sent /\ stream' = stream
  BY DEF Receive
<1>5. Append(a, Head(b)) \in Seq(Msgs)
  BY <1>2, <1>3, AppendProperties
<1>6. Types'
  BY <1>1, <1>3, <1>4, <1>5 DEF Types
<1>7. \A r \in Peers : handled'[r] \o received'[r] = handled[r] \o received[r]
  BY <1>1, <1>3, <1>4 DEF Types
<1>8. Used' = Used
  BY <1>4 DEF Used, Free
<1>9. \A s \in Used : stream[s].to \in Peers
  BY DEF IInv, StreamOK, Stream
<1>10. IInv'
  BY <1>4, <1>6, <1>7, <1>8, <1>9 DEF IInv, Arrived
<1>11. /\ Len(a) \in Nat /\ Len(b) \in Nat /\ Len(b) # 0 /\ Head(b) = b[1]
       /\ DOMAIN a = 1..Len(a)
  BY <1>2, LenProperties, HeadTailProperties, EmptySeq
<1>12. /\ Len(a \o b) = Len(a) + Len(b)
       /\ \A i \in 1..(Len(a) + Len(b)) : (a \o b)[i] = IF i <= Len(a) THEN a[i] ELSE b[i - Len(a)]
  BY <1>2, ConcatProperties
<1> HIDE DEF a, b
<1>13. /\ Len(a) + 1 \in 1..Len(a \o b) /\ (a \o b)[Len(a) + 1] = Head(b)
       /\ \A i \in 1..Len(a) : i \in 1..Len(a \o b) /\ (a \o b)[i] = a[i] /\ i # Len(a) + 1
  BY <1>11, <1>12
<1>14. ArrivedOK(q, a \o b, sent)
  BY DEF IInv, Arrived, a, b
<1>15. q \in sent[Head(b)] /\ \A i \in 1..Len(a) : a[i] # Head(b)
  BY <1>13, <1>14 DEF ArrivedOK
<1> QED
  BY <1>3, <1>10, <1>11, <1>15 DEF Range, a, b

\* Every step of the network preserves the invariant.
LEMMA NextIInv == IInv /\ [Next]_vars => IInv'
<1> SUFFICES ASSUME IInv, [Next]_vars PROVE IInv'
  OBVIOUS
<1>1. CASE Send
  <2>1. PICK p \in Peers, m \in {m \in Msgs : sent[m] = {}}, R \in (SUBSET Peers) \ {{}} :
          SendAsync(p, m, R)
    BY <1>1 DEF Send
  <2>2. m \in Msgs /\ sent[m] = {} /\ R \in SUBSET Peers
    OBVIOUS
  <2> QED
    BY <2>1, <2>2, SendAsyncStep
<1>2. CASE SendMsgs
  BY <1>2, SendMsgsStep
<1>3. ASSUME NEW s \in Used, Open(s) \/ Write(s) \/ Close(s) \/ Read(s) \/ EndRead(s)
      PROVE  IInv'
  BY <1>3, StreamEnds, ReadStep
<1>4. ASSUME NEW q \in Peers, Receive(q) PROVE IInv'
  BY <1>4, ReceiveStep
<1>5. CASE UNCHANGED vars
  <2>1. sent' = sent /\ stream' = stream /\ received' = received /\ handled' = handled
    BY <1>5 DEF vars
  <2> QED
    BY <2>1 DEF IInv, Types, Used, Free, Arrived
<1> QED
  BY <1>1, <1>2, <1>3, <1>4, <1>5 DEF Next

-----------------------------------------------------------------------------
(***************************************************************************)
(* The theorems.                                                           *)
(***************************************************************************)
\* What the network keeps about channels and streams holds for any number of them.
THEOREM Invariance == Spec => []IInv
BY InitIInv, NextIInv, PTL DEF Spec

\* The messages of a stream arrive in order, without gaps and once each, however full the
\* channel of received messages is and whatever arrives in between (receivedMsg).
THEOREM StreamsArriveInOrder == Spec => []StreamsInOrder
<1>1. ASSUME IInv PROVE StreamsInOrder
  <2> SUFFICES ASSUME NEW s \in Used,
                      NEW i \in DOMAIN stream[s].msgs, NEW j \in DOMAIN Arrived(stream[s].to),
                      Arrived(stream[s].to)[j] = stream[s].msgs[i]
               PROVE  /\ \A h \in 1..(i - 1) : \E k \in 1..(j - 1) :
                           Arrived(stream[s].to)[k] = stream[s].msgs[h]
                      /\ \A k \in DOMAIN Arrived(stream[s].to) :
                           Arrived(stream[s].to)[k] = stream[s].msgs[i] => k = j
    BY DEF StreamsInOrder
  <2> DEFINE x == stream[s]
             a == Arrived(x.to)
  <2>1. /\ x \in Stream /\ StreamOK(x, sent) /\ ProgressOK(x, a) /\ ArrivedOK(x.to, a, sent)
        /\ x.to \in Peers /\ x.msgs \in Seq(Msgs) /\ x.read \in Nat
    BY <1>1 DEF IInv, StreamOK, Stream
  <2>2. a \in Seq(Msgs)
    BY <1>1, <2>1, ArrivedType DEF IInv
  <2>3. /\ DOMAIN a = 1..Len(a) /\ Len(a) \in Nat
        /\ DOMAIN x.msgs = 1..Len(x.msgs) /\ Len(x.msgs) \in Nat
    BY <2>1, <2>2, LenProperties
  <2>4. a[j] = x.msgs[i]
    OBVIOUS
  <2> HIDE DEF x, a
  <2>5. i \in 1..Len(x.msgs) /\ j \in 1..Len(a)
    BY <2>3 DEF x, a
  <2>6. i <= x.read /\ i \in 1..x.read
    BY <2>1, <2>3, <2>4, <2>5 DEF ProgressOK
  <2>7. ASSUME NEW h \in 1..(i - 1) PROVE \E k \in 1..(j - 1) : a[k] = x.msgs[h]
    <3>1. h \in 1..x.read /\ h < i
      BY <2>1, <2>6
    <3>2. PICK k \in 1..Len(a) : a[k] = x.msgs[h]
      BY <2>1, <3>1 DEF ProgressOK
    <3>3. k < j
      BY <2>1, <2>4, <2>5, <2>6, <3>1, <3>2 DEF ProgressOK
    <3> QED
      BY <2>3, <2>5, <3>2, <3>3
  <2>8. \A k \in 1..Len(a) : a[k] = x.msgs[i] => k = j
    BY <2>1, <2>4, <2>5 DEF ArrivedOK
  <2> QED
    BY <2>3, <2>7, <2>8 DEF x, a
<1> QED
  BY <1>1, Invariance, PTL

\* Asynchronous sending, the loop-back, the streams and the channel together implement the
\* pool of messages: a node handles only what was sent to it, each message once.
THEOREM NetworkRefinement == Spec => ImplementsPool
<1>1. ASSUME Init PROVE Pool!PoolInit
  BY <1>1 DEF Init, Pool!PoolInit
<1>2. ASSUME IInv, [Next]_vars PROVE [Pool!PoolSend \/ Pool!PoolDeliver]_Pool!poolVars
  <2>1. CASE Send
    <3>1. PICK p \in Peers, m \in {m \in Msgs : sent[m] = {}}, R \in (SUBSET Peers) \ {{}} :
            SendAsync(p, m, R)
      BY <2>1 DEF Send
    <3>2. sent' = [sent EXCEPT ![m] = R] /\ handled' = handled
      BY <3>1 DEF SendAsync, SendVia
    <3>3. sent \in [Msgs -> SUBSET Peers]
      BY <1>2 DEF IInv, Types
    <3> QED
      BY <3>2, <3>3 DEF Pool!PoolSend
  <2>2. CASE SendMsgs
    <3>1. handled' = handled
      BY <2>2 DEF SendMsgs
    <3> QED
      BY <1>2, <2>2, <3>1, SendMsgsStep DEF Pool!PoolSend
  <2>3. ASSUME NEW s \in Used, Open(s) \/ Write(s) \/ Close(s) \/ Read(s) \/ EndRead(s)
        PROVE  UNCHANGED Pool!poolVars
    BY <2>3 DEF Open, Write, Close, Read, EndRead, Pool!poolVars
  <2>4. ASSUME NEW q \in Peers, Receive(q) PROVE Pool!PoolDeliver
    <3>1. /\ Head(received[q]) \in Msgs /\ q \in sent[Head(received[q])]
          /\ Head(received[q]) \notin Range(handled[q])
      BY <1>2, <2>4, ReceiveStep
    <3>2. /\ handled' = [handled EXCEPT ![q] = Append(@, Head(received[q]))]
          /\ sent' = sent
      BY <2>4 DEF Receive
    <3> QED
      BY <3>1, <3>2, Zenon DEF Pool!PoolDeliver, Pool!Range, Range
  <2>5. CASE UNCHANGED vars
    BY <2>5 DEF vars, Pool!poolVars
  <2> QED
    BY <1>2, <2>1, <2>2, <2>3, <2>4, <2>5 DEF Next
<1> QED
  BY <1>1, <1>2, Invariance, PTL DEF Spec, ImplementsPool, Pool!PoolSpec
============================================================================
