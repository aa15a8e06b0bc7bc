---------------------------- MODULE ServersProofs ----------------------------
(***************************************************************************)
(* Theorems about the servers that the dataplane runs for its neighbours:  *)
(* the streams of the xDS server, for any set of streams, the DNS server,  *)
(* for any queries and any number of starts, and a TCP connection of it,   *)
(* for any number of requests of any lengths and any responses.            *)
(***************************************************************************)
EXTENDS XDS, DNSServer, DNSConn, SequenceTheorems, TLAPS

-----------------------------------------------------------------------------
(* The streams of the xDS server.                                           *)

(* The goroutines of a stream are there exactly when the stream was        *)
(* proxied, a receiver that saw an error saw the end of its stream, and    *)
(* the stream that the gauge remembers is one of them.                     *)
GoroutineInv ==
  /\ \A s \in Streams :
       /\ recv[s] = "none" <=> conn[s] \in {"new", "refused"}
       /\ send[s] = "none" <=> conn[s] \in {"new", "refused"}
       /\ recv[s] \in {"set0", "done"} => conn[s] = "down"
  /\ gauge.by = "recv" => gauge.stream \in Streams

(* ReceiverTruthful and OwnToken do not say where a goroutine can be; with *)
(* GoroutineInv they are inductive.                                        *)
XDSInv == XDSTypeOK /\ GoroutineInv /\ OwnToken /\ ReceiverTruthful

(* The invariant holds of a server that has just been set up. *)
LEMMA XDSInvInit == XDSInit => XDSInv
  BY DEF XDSInit, XDSInv, XDSTypeOK, ConnStates, Goroutine, GoroutineInv, OwnToken, ReceiverTruthful

(* Every step of a stream, of Envoy and of the server preserves it. *)
LEMMA XDSInvNext == XDSInv /\ [XDSNext]_xdsVars => XDSInv'
<1> SUFFICES ASSUME XDSInv, [XDSNext]_xdsVars
             PROVE  XDSInv'
  OBVIOUS
<1> USE DEF XDSInv, XDSTypeOK, ConnStates, Goroutine, GoroutineInv
<1>1. CASE StopXDSServer
  <2> USE <1>1 DEF StopXDSServer
  <2>1. XDSTypeOK' /\ GoroutineInv'
    OBVIOUS
  <2>2. OwnToken' /\ ReceiverTruthful'
    BY DEF OwnToken, ReceiverTruthful
  <2>3. QED
    BY <2>1, <2>2
<1>2. ASSUME NEW s \in Streams, OpenStream(s)
      PROVE  XDSInv'
  <2> USE <1>2 DEF OpenStream
  <2>1. XDSTypeOK' /\ GoroutineInv'
    BY DEF Director
  <2>2. OwnToken'
    <3>1. \A t \in Streams \ {s} : tokens'[t] = tokens[t] /\ conn'[t] = conn[t]
      OBVIOUS
    <3>2. \/ conn'[s] = "refused" /\ tokens'[s] = tokens[s]
          \/ conn'[s] = "up" /\ tokens'[s] = {AclToken}
      BY DEF Director
    <3>3. tokens[s] = {} /\ \A t \in Streams : tokens[t] =
            (IF conn[t] \in {"new", "refused"} THEN {} ELSE {AclToken})
      BY DEF OwnToken
    <3> HIDE <1>2 DEF OpenStream, XDSTypeOK, GoroutineInv, XDSInv
    <3>4. QED
      BY <3>1, <3>2, <3>3 DEF OwnToken
  <2>3. ReceiverTruthful'
    BY DEF ReceiverTruthful
  <2>4. QED
    BY <2>1, <2>2, <2>3
<1>3. ASSUME NEW s \in Streams, EnvoyLeaves(s)
      PROVE  XDSInv'
  BY <1>3 DEF EnvoyLeaves, OwnToken, ReceiverTruthful
<1>4. ASSUME NEW s \in Streams, RecvMsg(s)
      PROVE  XDSInv'
  <2> USE <1>4 DEF RecvMsg
  <2>1. XDSTypeOK' /\ GoroutineInv'
    OBVIOUS
  <2>2. OwnToken' /\ ReceiverTruthful'
    BY DEF OwnToken, ReceiverTruthful
  <2>3. QED
    BY <2>1, <2>2
<1>5. ASSUME NEW s \in Streams, SendMsg(s)
      PROVE  XDSInv'
  BY <1>5 DEF SendMsg, OwnToken, ReceiverTruthful
<1>6. ASSUME NEW s \in Streams, ConsulEnds(s)
      PROVE  XDSInv'
  BY <1>6 DEF ConsulEnds, OwnToken, ReceiverTruthful
<1>7. ASSUME NEW s \in Streams, RecvSetsGauge(s)
      PROVE  XDSInv'
  <2> USE <1>7 DEF RecvSetsGauge
  <2>1. XDSTypeOK' /\ GoroutineInv'
    OBVIOUS
  <2>2. OwnToken'
    BY DEF OwnToken
  <2>3. ReceiverTruthful'
    BY DEF ReceiverTruthful
  <2>4. QED
    BY <2>1, <2>2, <2>3
<1>8. ASSUME NEW s \in Streams, SendSetsGauge(s)
      PROVE  XDSInv'
  BY <1>8 DEF SendSetsGauge, OwnToken, ReceiverTruthful
<1>9. CASE UNCHANGED xdsVars
  BY <1>9 DEF xdsVars, OwnToken, ReceiverTruthful
<1>10. QED
  BY <1>1, <1>2, <1>3, <1>4, <1>5, <1>6, <1>7, <1>8, <1>9 DEF XDSNext, Goes

(* director: what Consul is told is exactly the dataplane's own token, for *)
(* any number of streams and whatever token Envoy sends.                   *)
THEOREM OnlyOwnToken == XDSSpec => []OwnToken
<1>1. XDSInv => OwnToken
  BY DEF XDSInv
<1>2. QED
  BY XDSInvInit, XDSInvNext, <1>1, PTL DEF XDSSpec

(* The gauge of metricServerStream: a receiver that was the last to set it *)
(* is right, for any number of streams.                                    *)
THEOREM StreamsTruthful == XDSSpec => []ReceiverTruthful
<1>1. XDSInv => ReceiverTruthful
  BY DEF XDSInv
<1>2. QED
  BY XDSInvInit, XDSInvNext, <1>1, PTL DEF XDSSpec

-----------------------------------------------------------------------------
(* The DNS server.                                                          *)

(* The two loops of a run begin together, the run returns after both, a    *)
(* run that was not started has nothing, and a running server has a        *)
(* listener.                                                               *)
LoopInv ==
  /\ \A r \in Runs :
       /\ udp[r] = "none" <=> tcp[r] = "none"
       /\ tcp[r] = "returned" => udp[r] = "done"
       /\ r > starts => udp[r] = "none" /\ udpSock[r] = "none" /\ tcpSock[r] = "none"
  /\ running => listenerTCP \in Runs

(* Each packet's goroutine has a buffer of its own. *)
BufferInv == \A q \in Queries : handler[q].msg = q

(* OneRun leaves out that the loops of a run begin and end together, which *)
(* is why a UDP loop alone still has the socket field to itself.           *)
ServerInv == OneRun /\ LoopInv

(* The invariant holds of a new server. *)
LEMMA ServerInvInit == ServerInit => ServerInv
<1> SUFFICES ASSUME ServerInit PROVE ServerInv
  OBVIOUS
<1>1. DNSTypeOK
  <2>1. handler \in [Queries -> [pc : {"none", "query", "done"}, msg : Queries]]
    BY DEF ServerInit
  <2>2. starts \in 0..MaxStarts /\ connUDP \in 0..starts /\ listenerTCP \in 0..starts /\ accepts \in 0..MaxAccepts
    BY DNSServerAssumption DEF ServerInit
  <2>3. QED
    BY <2>1, <2>2, Zenon DEF ServerInit, DNSTypeOK
<1>2. \A r \in Runs : /\ udp[r] = "none" /\ tcp[r] = "none"
                     /\ udpSock[r] = "none" /\ tcpSock[r] = "none"
  BY DEF ServerInit
<1>3. QED
  BY <1>1, <1>2 DEF ServerInit, ServerInv, OneRun, LoopInv, LoopsEnded

(* Start, Stop, cancellation and every step of the loops preserve it. *)
LEMMA ServerInvNext == ServerInv /\ [ServerNext]_serverVars => ServerInv'
<1> SUFFICES ASSUME ServerInv, [ServerNext]_serverVars
             PROVE  ServerInv'
  OBVIOUS
<1> USE DNSServerAssumption DEF ServerInv, OneRun, LoopInv, DNSTypeOK, LoopsEnded, Runs, sockets, udpVars
<1>1. CASE Start
  <2> USE <1>1 DEF Start
  <2>1. starts + 1 \in Runs
    OBVIOUS
  <2>2. \A r \in Runs : udp[r] \in {"none", "done"} /\ tcp[r] \in {"none", "returned"}
    OBVIOUS
  <2>3. \/ ~running' /\ listenerTCP' = listenerTCP /\ tcpSock' = tcpSock /\ udp' = udp /\ tcp' = tcp
        \/ /\ running' /\ listenerTCP' = starts + 1
           /\ tcpSock' = [tcpSock EXCEPT ![starts + 1] = "open"]
           /\ udp' = [udp EXCEPT ![starts + 1] = "top"]
           /\ tcp' = [tcp EXCEPT ![starts + 1] = "top"]
    BY Zenon
  <2>4. running' \in BOOLEAN
    BY Zenon
  <2>5. DNSTypeOK'
    BY <2>1, <2>3, <2>4
  <2>6. LoopInv'
    BY <2>1, <2>5
  <2>7. ASSUME NEW r \in Runs
        PROVE  /\ tcp'[r] \notin {"none", "returned"} => running' /\ connUDP' = r /\ listenerTCP' = r
               /\ ~LoopsEnded(r)' => running'
               /\ udp'[r] = "done" <=> udpSock'[r] = "closed"
               /\ tcp'[r] \in {"done", "returned"} <=> tcpSock'[r] = "closed"
    BY <2>1, <2>2, <2>7
  <2>8. running' => tcp'[listenerTCP'] # "returned"
    BY <2>1, <2>3
  <2>9. QED
    BY <2>5, <2>6, <2>7, <2>8
<1>2. CASE Stop
  BY <1>2 DEF Stop
<1>3. CASE CtxCancel
  BY <1>3 DEF CtxCancel
<1>4. ASSUME NEW r \in Runs, UDPTop(r)
      PROVE  ServerInv'
  <2> USE <1>4 DEF UDPTop
  <2>1. connUDP = r /\ udpSock[r] # "closed"
    OBVIOUS
  <2>2. QED
    BY <2>1
<1>5. ASSUME NEW r \in Runs, UDPRead(r)
      PROVE  ServerInv'
  <2> USE <1>5 DEF UDPRead
  <2>1. DNSTypeOK'
    OBVIOUS
  <2>2. QED
    BY <2>1
<1>6. ASSUME NEW r \in Runs, UDPReadFails(r)
      PROVE  ServerInv'
  <2> USE <1>6 DEF UDPReadFails
  <2>1. connUDP = r /\ udpSock[r] # "closed"
    OBVIOUS
  <2>2. QED
    BY <2>1
<1>7. ASSUME NEW r \in Runs, TCPTop(r)
      PROVE  ServerInv'
  BY <1>7 DEF TCPTop
<1>8. ASSUME NEW r \in Runs, RunReturns(r)
      PROVE  ServerInv'
  <2> USE <1>8 DEF RunReturns
  <2>1. connUDP = r
    OBVIOUS
  <2>2. ASSUME NEW t \in Runs, t # r
        PROVE  tcp[t] \in {"none", "returned"} /\ udp[t] \in {"none", "done"}
    BY <2>1, <2>2
  <2>3. ~running' /\ running' \in BOOLEAN
    BY Zenon
  <2>4. DNSTypeOK' /\ LoopInv'
    BY <2>3
  <2>5. QED
    BY <2>2, <2>3, <2>4
<1>9. ASSUME NEW r \in Runs, TCPAccept(r)
      PROVE  ServerInv'
  BY <1>9 DEF TCPAccept
<1>10. ASSUME NEW q \in Queries, UDPRespond(q)
       PROVE  ServerInv'
  <2> USE <1>10 DEF UDPRespond
  <2>1. DNSTypeOK'
    OBVIOUS
  <2>2. QED
    BY <2>1
<1>11. CASE UNCHANGED serverVars
  BY <1>11 DEF serverVars
<1>12. QED
  BY <1>1, <1>2, <1>3, <1>4, <1>5, <1>6, <1>7, <1>8, <1>9, <1>10, <1>11, Zenon DEF ServerNext, LoopStep

(* Start, Stop and the loops of pkg/dns: there is one run at a time, which *)
(* alone uses the sockets in the server's fields, for any number of        *)
(* restarts and failed binds.                                              *)
THEOREM OneRunAtATime == ServerSpec => []OneRun
<1>1. ServerInv => OneRun
  BY DEF ServerInv
<1>2. QED
  BY ServerInvInit, ServerInvNext, <1>1, PTL DEF ServerSpec

(* queryConsulAndRespondUDP: whatever queries overlap, each client gets    *)
(* the answer to its own question.                                         *)
THEOREM AnswersMatch == ServerSpec => []AnswersOwnQuestion
<1>1. ServerInit => BufferInv /\ AnswersOwnQuestion
  BY DEF ServerInit, BufferInv, AnswersOwnQuestion
<1>2. ASSUME DNSTypeOK, BufferInv, AnswersOwnQuestion, [ServerNext]_serverVars
      PROVE  BufferInv' /\ AnswersOwnQuestion'
  <2> USE <1>2 DEF DNSTypeOK, BufferInv, AnswersOwnQuestion
  <2>1. ASSUME NEW r \in Runs, UDPRead(r)
        PROVE  BufferInv' /\ AnswersOwnQuestion'
    BY <2>1 DEF UDPRead
  <2>2. ASSUME NEW q \in Queries, UDPRespond(q)
        PROVE  BufferInv' /\ AnswersOwnQuestion'
    BY <2>2 DEF UDPRespond
  <2>3. CASE UNCHANGED <<handler, answers>>
    BY <2>3
  <2>4. QED
    BY <2>1, <2>2, <2>3 DEF ServerNext, LoopStep, Start, Stop, CtxCancel, RunReturns, UDPTop, UDPReadFails,
       TCPTop, TCPAccept, serverVars, udpVars
<1>3. ServerInv => DNSTypeOK
  BY DEF ServerInv, OneRun
<1>4. QED
  BY ServerInvInit, ServerInvNext, <1>1, <1>2, <1>3, PTL DEF ServerSpec

-----------------------------------------------------------------------------
(* The TCP connection.                                                      *)

Pieces == Nat \X Nat

(* The i-th piece that the handler has not read, in the stream or, beyond  *)
(* it, still with the client.                                              *)
Upcoming(i) == IF i \leq Len(stream) THEN stream[i] ELSE toSend

ConnTypes ==
  /\ stream \in Seq(Pieces) /\ toSend \in Pieces
  /\ pc \in {"top", "size", "body", "query", "closed"}
  /\ size \in Nat /\ data \in Seq(Pieces)
  /\ queries \in Seq(Seq(Pieces)) /\ (pc = "query" => Len(queries) > 0)
  /\ responses \in Seq([to : Seq(Pieces), prefix : Nat, len : Nat])
  /\ cut \in BOOLEAN

(* The stream has the pieces in the order of the requests, none missing.   *)
StreamInv ==
  /\ \A i \in 1..Len(stream) :
       /\ stream[i][1] \in 1..Len(BodyLen)
       /\ stream[i][2] \leq BodyLen[stream[i][1]]
       /\ Upcoming(i + 1) = Following(stream[i])
  /\ toSend[1] \in 1..(Len(BodyLen) + 1)
  /\ toSend[1] \leq Len(BodyLen) => toSend[2] \leq BodyLen[toSend[1]]
  /\ toSend[1] > Len(BodyLen) => toSend[2] = 0

(* As long as no body was cut short the handler is in step with the        *)
(* framing: between requests the next piece is the length field of the     *)
(* next one, and within one the data are the first pieces of its body.     *)
FrameInv ==
  LET n == Len(queries)
      m == Len(responses)
  IN /\ pc \in {"top", "size"} => m = n /\ Upcoming(1) = <<n + 1, 0>>
     /\ pc = "body" =>
          /\ m = n /\ n < Len(BodyLen)
          /\ size = BodyLen[n + 1] /\ Len(data) \leq size
          /\ \A i \in 1..Len(data) : data[i] = <<n + 1, i>>
          /\ Upcoming(1) = Following(<<n + 1, Len(data)>>)
     /\ pc = "query" => m = n - 1 /\ Upcoming(1) = <<n + 1, 0>>

ConnInv == ConnTypes /\ StreamInv /\ Pipelined /\ (~cut => FrameInv)

(* After a piece of a request comes another or the start of the next. *)
LEMMA FollowingPiece ==
  ASSUME NEW p \in Pieces, p[1] \in 1..Len(BodyLen), p[2] \leq BodyLen[p[1]]
  PROVE  LET q == Following(p)
         IN /\ q \in Pieces /\ q[1] \in 1..(Len(BodyLen) + 1)
            /\ q[1] \leq Len(BodyLen) => q[2] \leq BodyLen[q[1]]
            /\ q[1] > Len(BodyLen) => q[2] = 0
<1> USE DNSConnAssumption DEF Pieces
<1>1. p[1] \in Nat /\ p[2] \in Nat /\ BodyLen[p[1]] \in Nat /\ Len(BodyLen) \in Nat
  OBVIOUS
<1>2. \A k \in 1..Len(BodyLen) : BodyLen[k] \in Nat
  OBVIOUS
<1>3. CASE p[2] < BodyLen[p[1]]
  <2>1. Following(p) = <<p[1], p[2] + 1>>
    BY <1>3 DEF Following
  <2>2. QED
    BY <1>1, <1>3, <2>1
<1>4. CASE ~(p[2] < BodyLen[p[1]])
  <2>1. Following(p) = <<p[1] + 1, 0>>
    BY <1>4 DEF Following
  <2>2. QED
    BY <1>1, <1>2, <1>4, <2>1
<1>5. QED
  BY <1>3, <1>4

(* A read takes the first piece, and what follows it is next. *)
LEMMA StreamRead ==
  ASSUME ConnTypes, StreamInv, stream # <<>>, stream' = Tail(stream), toSend' = toSend
  PROVE  /\ stream' \in Seq(Pieces) /\ StreamInv'
         /\ Head(stream) = Upcoming(1) /\ Head(stream) \in Pieces
         /\ Head(stream)[1] \in 1..Len(BodyLen)
         /\ Upcoming(1)' = Following(Head(stream))
<1> USE DEF ConnTypes
<1>1. Len(stream) \in Nat /\ Len(stream) > 0
  OBVIOUS
<1>2. /\ stream' \in Seq(Pieces) /\ Len(stream') = Len(stream) - 1
      /\ \A i \in 1..Len(stream') : stream'[i] = stream[i + 1]
  OBVIOUS
<1>3. Head(stream) = stream[1] /\ stream[1] \in Pieces
  BY <1>1
<1>4. \A i \in Nat \ {0} : Upcoming(i)' = Upcoming(i + 1)
  BY <1>1, <1>2 DEF Upcoming
<1>5. Upcoming(1) = stream[1] /\ Upcoming(1 + 1) = Following(stream[1]) /\ stream[1][1] \in 1..Len(BodyLen)
  BY <1>1 DEF Upcoming, StreamInv
<1>6. ASSUME NEW i \in 1..Len(stream')
      PROVE  /\ stream'[i][1] \in 1..Len(BodyLen)
             /\ stream'[i][2] \leq BodyLen[stream'[i][1]]
             /\ Upcoming(i + 1)' = Following(stream'[i])
  <2>1. i + 1 \in 1..Len(stream) /\ i + 1 \in Nat \ {0}
    BY <1>1, <1>2
  <2>2. Upcoming(i + 1)' = Upcoming((i + 1) + 1)
    BY <2>1, <1>4
  <2>3. QED
    BY <2>1, <2>2, <1>2 DEF StreamInv
<1>7. StreamInv'
  BY <1>6 DEF StreamInv, Following
<1>8. 1 \in Nat \ {0}
  OBVIOUS
<1>9. QED
  BY <1>2, <1>3, <1>4, <1>5, <1>7, <1>8, Zenon

(* What the client sends is put behind the rest. *)
LEMMA StreamSend ==
  ASSUME ConnTypes, StreamInv, ClientSends
  PROVE  stream' \in Seq(Pieces) /\ toSend' \in Pieces /\ StreamInv' /\ Upcoming(1)' = Upcoming(1)
<1> USE DEF ConnTypes, ClientSends
<1>1. /\ stream' \in Seq(Pieces) /\ Len(stream') = Len(stream) + 1 /\ Len(stream) \in Nat
      /\ \A i \in 1..Len(stream) : stream'[i] = stream[i]
      /\ stream'[Len(stream) + 1] = toSend
  OBVIOUS
<1>2. toSend \in Pieces /\ toSend[1] \in 1..Len(BodyLen) /\ toSend[2] \leq BodyLen[toSend[1]]
  BY DNSConnAssumption DEF StreamInv
<1>3. /\ toSend' \in Pieces /\ toSend'[1] \in 1..(Len(BodyLen) + 1)
      /\ toSend'[1] \leq Len(BodyLen) => toSend'[2] \leq BodyLen[toSend'[1]]
      /\ toSend'[1] > Len(BodyLen) => toSend'[2] = 0
  BY <1>2, FollowingPiece
<1>4. \A i \in 1..(Len(stream) + 1) : Upcoming(i)' = Upcoming(i)
  BY <1>1 DEF Upcoming
<1>6. ASSUME NEW i \in 1..Len(stream')
      PROVE  /\ stream'[i][1] \in 1..Len(BodyLen)
             /\ stream'[i][2] \leq BodyLen[stream'[i][1]]
             /\ Upcoming(i + 1)' = Following(stream'[i])
  <2>1. CASE i \leq Len(stream)
    <3>1. i \in 1..Len(stream) /\ i + 1 \in 1..(Len(stream) + 1)
      BY <2>1, <1>1
    <3>2. QED
      BY <3>1, <1>1, <1>4 DEF StreamInv
  <2>2. CASE i = Len(stream) + 1
    <3>1. Upcoming(i + 1)' = toSend'
      BY <2>2, <1>1 DEF Upcoming
    <3>2. QED
      BY <3>1, <2>2, <1>1, <1>2
  <2>3. QED
    BY <2>1, <2>2, <1>1
<1>7. StreamInv'
  BY <1>3, <1>6, Zenon DEF StreamInv, Following
<1>8. QED
  BY <1>1, <1>3, <1>4, <1>7

(* The invariant holds of a new connection. *)
LEMMA ConnInvInit == ConnInit => ConnInv
<1> SUFFICES ASSUME ConnInit PROVE ConnInv
  OBVIOUS
<1> USE DNSConnAssumption DEF ConnInit
<1>1. ConnTypes
  <2>1. toSend \in Pieces
    BY DEF Pieces
  <2>2. QED
    BY <2>1, EmptySeq, Zenon DEF ConnTypes
<1>2. StreamInv
  BY DEF StreamInv
<1>3. Pipelined
  BY DEF Pipelined
<1>4. FrameInv
  BY DEF FrameInv, Upcoming
<1>5. QED
  BY <1>1, <1>2, <1>3, <1>4 DEF ConnInv

(* Every step of the client, the server and the handler preserves it. *)
LEMMA ConnInvNext == ConnInv /\ [ConnNext]_connVars => ConnInv'
<1> SUFFICES ASSUME ConnInv, [ConnNext]_connVars
             PROVE  ConnInv'
  OBVIOUS
<1> USE DEF ConnInv
<1>t. /\ Len(queries) \in Nat /\ Len(responses) \in Nat /\ Len(data) \in Nat /\ Len(BodyLen) \in Nat
      /\ DOMAIN queries = 1..Len(queries) /\ DOMAIN responses = 1..Len(responses)
  BY DNSConnAssumption DEF ConnTypes
<1>1. CASE UNCHANGED <<stream, toSend, pc, size, data, queries, responses, cut>>
  <2>1. ConnTypes'
    BY <1>1 DEF ConnTypes
  <2>2. StreamInv'
    BY <1>1, Zenon DEF StreamInv, Upcoming
  <2>3. Pipelined'
    BY <1>1, Zenon DEF Pipelined
  <2>4. ~cut' => FrameInv'
    BY <1>1, Zenon DEF FrameInv, Upcoming
  <2>5. QED
    BY <2>1, <2>2, <2>3, <2>4
<1>2. CASE ClientSends
  <2>1. stream' \in Seq(Pieces) /\ toSend' \in Pieces /\ StreamInv' /\ Upcoming(1)' = Upcoming(1)
    BY <1>2, StreamSend
  <2>2. UNCHANGED <<pc, size, data, queries, responses, cut>>
    BY <1>2 DEF ClientSends, handlerVars
  <2>3. ConnTypes' /\ Pipelined'
    BY <2>1, <2>2 DEF ConnTypes, Pipelined, Body
  <2>4. ~cut => FrameInv'
    BY <2>1, <2>2 DEF FrameInv, Following
  <2>5. QED
    BY <2>1, <2>2, <2>3, <2>4
<1>3. CASE Top \/ ReadSizeFails \/ QueryFails
  <2>1. /\ UNCHANGED <<stream, toSend, size, data, queries, responses, cut>>
        /\ \/ pc = "top" /\ pc' \in {"closed", "size"}
           \/ pc \in {"size", "query"} /\ pc' = "closed"
    BY <1>3 DEF Top, ReadSizeFails, QueryFails
  <2>2. ConnTypes' /\ StreamInv' /\ Pipelined'
    BY <2>1 DEF ConnTypes, StreamInv, Pipelined, Upcoming, Following, Body
  <2>3. ~cut => FrameInv'
    BY <2>1 DEF FrameInv, Upcoming
  <2>4. QED
    BY <2>1, <2>2, <2>3
<1>4. CASE ReadSize
  <2>1. /\ UNCHANGED <<toSend, queries, responses, cut>> /\ pc = "size" /\ pc' = "body" /\ data' = <<>>
        /\ stream # <<>> /\ stream' = Tail(stream)
        /\ size' \in IF Head(stream)[2] = 0 THEN {BodyLen[Head(stream)[1]]} ELSE 0..MaxSize
    BY <1>4 DEF ReadSize
  <2>2. /\ stream' \in Seq(Pieces) /\ StreamInv'
        /\ Head(stream) = Upcoming(1) /\ Head(stream) \in Pieces
        /\ Head(stream)[1] \in 1..Len(BodyLen)
        /\ Upcoming(1)' = Following(Head(stream))
    BY <2>1, StreamRead
  <2>3. size' \in Nat
    BY <2>1, <2>2, DNSConnAssumption
  <2>4. ConnTypes' /\ Pipelined'
    BY <2>1, <2>2, <2>3 DEF ConnTypes, Pipelined, Body
  <2>5. ASSUME ~cut PROVE FrameInv'
    <3>1. Len(responses) = Len(queries) /\ Head(stream) = <<Len(queries) + 1, 0>>
      BY <2>1, <2>2, <2>5 DEF FrameInv
    <3>2. Len(queries) < Len(BodyLen) /\ size' = BodyLen[Len(queries) + 1] /\ size' \geq 0
      BY <2>1, <2>2, <2>3, <3>1, <1>t
    <3>3. Upcoming(1)' = Following(<<Len(queries) + 1, 0>>)
      BY <2>2, <3>1, Zenon
    <3>4. Len(data') = 0
      BY <2>1
    <3>5. QED
      BY <2>1, <3>1, <3>2, <3>3, <3>4 DEF FrameInv, Following
  <2>6. QED
    BY <2>1, <2>2, <2>4, <2>5
<1>5. CASE ReadBody
  <2>1. /\ UNCHANGED <<toSend, queries, responses, cut, pc, size>> /\ pc = "body" /\ Len(data) < size
        /\ data' = Append(data, Head(stream)) /\ stream # <<>> /\ stream' = Tail(stream)
    BY <1>5 DEF ReadBody
  <2>2. /\ stream' \in Seq(Pieces) /\ StreamInv'
        /\ Head(stream) = Upcoming(1) /\ Head(stream) \in Pieces
        /\ Upcoming(1)' = Following(Head(stream))
    BY <2>1, StreamRead
  <2>3. /\ data' \in Seq(Pieces) /\ Len(data') = Len(data) + 1
        /\ \A i \in 1..Len(data) : data'[i] = data[i]
        /\ data'[Len(data) + 1] = Head(stream)
    BY <2>1, <2>2 DEF ConnTypes
  <2>4. ConnTypes' /\ Pipelined'
    BY <2>1, <2>2, <2>3 DEF ConnTypes, Pipelined, Body
  <2>5. ASSUME ~cut PROVE FrameInv'
    <3>1. /\ Len(responses) = Len(queries) /\ Len(queries) < Len(BodyLen) /\ size = BodyLen[Len(queries) + 1]
          /\ \A i \in 1..Len(data) : data[i] = <<Len(queries) + 1, i>>
          /\ Head(stream) = Following(<<Len(queries) + 1, Len(data)>>)
      BY <2>1, <2>2, <2>5 DEF FrameInv
    <3>2. Head(stream) = <<Len(queries) + 1, Len(data) + 1>>
      BY <2>1, <3>1 DEF Following
    <3>3. Upcoming(1)' = Following(<<Len(queries) + 1, Len(data')>>)
      BY <2>2, <2>3, <3>2, Zenon
    <3>4. \A i \in 1..Len(data') : data'[i] = <<Len(queries) + 1, i>>
      BY <2>3, <3>1, <3>2, <1>t
    <3>5. Len(data') \leq size
      BY <2>1, <2>3, <1>t, SMTT(20) DEF ConnTypes
    <3>6. QED
      BY <2>1, <3>1, <3>3, <3>4, <3>5 DEF FrameInv, Following
  <2>6. QED
    BY <2>1, <2>2, <2>4, <2>5
<1>6. CASE ReadBodyFails
  BY <1>6 DEF ReadBodyFails, ConnTypes, StreamInv, Pipelined, Upcoming, Following, Body
<1>7. CASE ForwardQuery
  <2>1. /\ UNCHANGED <<stream, toSend, size, data, responses, cut>> /\ pc = "body" /\ pc' = "query"
        /\ Len(data) = size /\ queries' = Append(queries, data)
    BY <1>7 DEF ForwardQuery
  <2>2. /\ queries' \in Seq(Seq(Pieces)) /\ Len(queries') = Len(queries) + 1
        /\ \A i \in 1..Len(queries) : queries'[i] = queries[i]
        /\ queries'[Len(queries) + 1] = data
        /\ DOMAIN queries' = 1..(Len(queries) + 1)
    BY <2>1, SMTT(20) DEF ConnTypes
  <2>3. ConnTypes' /\ StreamInv'
    BY <2>1, <2>2 DEF ConnTypes, StreamInv, Upcoming, Following
  <2>4. ASSUME ~cut PROVE FrameInv' /\ Pipelined'
    <3>1. /\ Len(responses) = Len(queries) /\ Len(queries) < Len(BodyLen) /\ size = BodyLen[Len(queries) + 1]
          /\ \A i \in 1..Len(data) : data[i] = <<Len(queries) + 1, i>>
          /\ Upcoming(1) = Following(<<Len(queries) + 1, Len(data)>>)
      BY <2>1, <2>4 DEF FrameInv
    <3>2. data = Body(Len(queries) + 1)
      <4>1. data = [i \in 1..Len(data) |-> data[i]]
        BY LenProperties DEF ConnTypes
      <4>2. [i \in 1..Len(data) |-> data[i]] = [i \in 1..Len(data) |-> <<Len(queries) + 1, i>>]
        BY <3>1, Zenon
      <4>3. QED
        BY <2>1, <3>1, <4>1, <4>2, Zenon DEF Body
    <3>3. Upcoming(1) = <<Len(queries) + 2, 0>>
      BY <2>1, <3>1, <1>t DEF Following
    <3>4. FrameInv'
      BY <2>1, <2>2, <3>1, <3>3, <1>t DEF FrameInv, Upcoming
    <3>5. ASSUME NEW i \in DOMAIN queries' PROVE queries'[i] = Body(i)
      <4>1. CASE i \in 1..Len(queries)
        BY <4>1, <2>2, <2>4, <1>t, Zenon DEF Pipelined
      <4>2. CASE i = Len(queries) + 1
        BY <4>2, <2>2, <3>2, Zenon
      <4>3. QED
        BY <4>1, <4>2, <2>2, <1>t, SMTT(20)
    <3>6. \A i \in DOMAIN responses : responses[i].to = queries'[i]
      BY <2>2, <2>4, <3>1, <1>t DEF Pipelined
    <3>7. QED
      BY <2>1, <2>2, <3>1, <3>4, <3>5, <3>6, <1>t DEF Pipelined, Body
  <2>5. cut => Pipelined'
    BY <2>1 DEF Pipelined
  <2>6. QED
    BY <2>1, <2>3, <2>4, <2>5
<1>8. CASE WriteResponse
  <2>1. PICK len \in RespLens :
          /\ ~TooLong(len)
          /\ responses' = Append(responses, [to |-> queries[Len(queries)], prefix |-> len % (MaxUint16 + 1), len |-> len])
    BY <1>8 DEF WriteResponse
  <2>2. /\ UNCHANGED <<stream, toSend, queries, cut>> /\ pc = "query" /\ pc' = "top" /\ size' = 0 /\ data' = <<>>
    BY <1>8 DEF WriteResponse
  <2>3. len \in Nat /\ len % (MaxUint16 + 1) = len
    BY <2>1, DNSConnAssumption, SMTT(20) DEF TooLong, MaxUint16
  <2> DEFINE answer == [to |-> queries[Len(queries)], prefix |-> len, len |-> len]
  <2>4. responses' = Append(responses, answer)
    BY <2>1, <2>3
  <2> HIDE DEF answer
  <2>5. answer \in [to : Seq(Pieces), prefix : Nat, len : Nat] /\ answer.prefix = answer.len
    BY <2>2, <2>3, ElementOfSeq, <1>t DEF answer, ConnTypes
  <2>6. /\ responses' \in Seq([to : Seq(Pieces), prefix : Nat, len : Nat])
        /\ Len(responses') = Len(responses) + 1
        /\ \A i \in 1..Len(responses) : responses'[i] = responses[i]
        /\ responses'[Len(responses) + 1] = answer
        /\ DOMAIN responses' = 1..(Len(responses) + 1)
    BY <2>4, <2>5 DEF ConnTypes
  <2>7. ConnTypes' /\ StreamInv'
    BY <2>2, <2>6, EmptySeq, Zenon DEF ConnTypes, StreamInv, Upcoming, Following
  <2>i. \A i \in DOMAIN responses' :
          \/ i \in DOMAIN responses /\ responses'[i] = responses[i]
          \/ i = Len(responses) + 1 /\ responses'[i] = answer
    <3>1. \A i \in 1..(Len(responses) + 1) : i \in 1..Len(responses) \/ i = Len(responses) + 1
      BY <1>t
    <3>2. QED
      BY <2>6, <3>1, <1>t, Zenon
  <2>8. \A i \in DOMAIN responses' : responses'[i].prefix = responses'[i].len
    BY <2>5, <2>i, Zenon DEF Pipelined
  <2>9. ASSUME ~cut PROVE FrameInv' /\ Pipelined'
    <3>1. Len(responses) = Len(queries) - 1 /\ Upcoming(1) = <<Len(queries) + 1, 0>>
      BY <2>2, <2>9 DEF FrameInv
    <3>2. answer.to = queries[Len(queries)]
      BY DEF answer
    <3>3. \A i \in DOMAIN responses' : responses'[i].to = queries[i]
      <4>1. Len(responses) + 1 = Len(queries)
        BY <3>1, <1>t
      <4>2. QED
        BY <2>i, <2>9, <3>2, <4>1, Zenon DEF Pipelined
    <3>4. FrameInv'
      BY <2>2, <2>6, <3>1, <1>t, SMTT(20) DEF FrameInv, Upcoming
    <3>5. QED
      BY <2>2, <2>6, <2>8, <2>9, <3>1, <3>3, <3>4, <1>t, SMTT(20) DEF Pipelined, Body
  <2>10. cut => Pipelined'
    BY <2>2, <2>8 DEF Pipelined
  <2>11. QED
    BY <2>2, <2>7, <2>9, <2>10
<1>9. CASE ClientChanges \/ Cancel \/ UNCHANGED connVars
  <2>1. UNCHANGED <<stream, toSend, pc, size, data, queries, responses, cut>>
    BY <1>9 DEF ClientChanges, Cancel, connVars, handlerVars
  <2>2. QED
    BY <2>1, <1>1
<1>10. QED
  BY <1>2, <1>3, <1>4, <1>5, <1>6, <1>7, <1>8, <1>9 DEF ConnNext, Handle

(* proxyTCPAcceptedConn: as long as no body was cut short, whatever the    *)
(* client pipelines is forwarded whole and in order and answered in order, *)
(* under a prefix that is the length of the answer, for any number of      *)
(* requests and any lengths.                                               *)
THEOREM PipelinedInOrder == ConnSpec => []Pipelined
<1>1. ConnInv => Pipelined
  BY DEF ConnInv
<1>2. QED
  BY ConnInvInit, ConnInvNext, <1>1, PTL DEF ConnSpec
=============================================================================
