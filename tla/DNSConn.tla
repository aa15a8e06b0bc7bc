------------------------------- MODULE DNSConn -------------------------------
(***************************************************************************)
(* One TCP connection of the DNS proxy (proxyTCPAcceptedConn): requests,   *)
(* each a length and that many bytes, are read one after the other, sent   *)
(* to Consul, and answered with a length and that many bytes.  The stream  *)
(* is a sequence of pieces: the length field of a request is one piece and *)
(* its body is as many pieces as the field says.                           *)
(***************************************************************************)
EXTENDS Integers, Sequences

CONSTANTS
  BodyLen,     \* the length of each request that the client sends, in order
  MaxSize,     \* the longest request a misread length field can announce
  RespLens     \* the lengths of Consul's responses

MaxUint16 == 65535

ASSUME DNSConnAssumption ==
  BodyLen \in Seq(Nat) /\ MaxSize \in Nat /\ RespLens \subseteq Nat

VARIABLES
  client,      \* open, stalled (it does not read), closed
  toSend,      \* the piece that the client sends next
  stream,      \* sent and not read yet
  pc, size, data,   \* the handler: where it is, and its local variables
  queries,     \* the requests forwarded to Consul
  responses,   \* what was written: the query answered, the prefix, the length
  cancelled,   \* the context of the server is done
  cut          \* history: a read of a body has failed

connVars == <<client, toSend, stream, pc, size, data, queries, responses, cancelled, cut>>
handlerVars == <<pc, size, data, queries, responses, cut>>

(* Piece <<k, 0>> is the length field of request k, <<k, i>> the i-th of    *)
(* its body; after the last request comes nothing.                          *)
Following(piece) ==
  IF piece[2] < BodyLen[piece[1]] THEN <<piece[1], piece[2] + 1>> ELSE <<piece[1] + 1, 0>>

Body(k) == [i \in 1..BodyLen[k] |-> <<k, i>>]

ConnInit ==
  /\ client = "open"
  /\ toSend = <<1, 0>>
  /\ stream = <<>>
  /\ pc = "top"
  /\ size = 0
  /\ data = <<>>
  /\ queries = <<>>
  /\ responses = <<>>
  /\ cancelled = FALSE
  /\ cut = FALSE

-----------------------------------------------------------------------------
(* The client and the rest of the server.                                   *)

ClientSends ==
  /\ client # "closed"
  /\ toSend[1] <= Len(BodyLen)
  /\ stream' = Append(stream, toSend)
  /\ toSend' = Following(toSend)
  /\ UNCHANGED <<client, cancelled, handlerVars>>

ClientChanges ==
  /\ \/ client = "open" /\ client' \in {"stalled", "closed"}
     \/ client = "stalled" /\ client' = "closed"
  /\ UNCHANGED <<toSend, stream, cancelled, handlerVars>>

Cancel ==
  /\ ~cancelled
  /\ cancelled' = TRUE
  /\ UNCHANGED <<client, toSend, stream, handlerVars>>

-----------------------------------------------------------------------------
(* proxyTCPAcceptedConn.                                                    *)

Top ==
  /\ pc = "top"
  /\ pc' = IF cancelled THEN "closed" ELSE "size"
  /\ UNCHANGED <<client, toSend, stream, cancelled, size, data, queries, responses, cut>>

(* Mutant: the length is taken to count its own field. *)
MutantReadSize ==
  /\ pc = "size"
  /\ stream # <<>>
  /\ LET piece == Head(stream)
     IN size' \in IF piece[2] = 0 THEN {BodyLen[piece[1]] + 1} ELSE 0..MaxSize
  /\ stream' = Tail(stream)
  /\ data' = <<>>
  /\ pc' = "body"
  /\ UNCHANGED <<client, toSend, cancelled, queries, responses, cut>>

(* Whatever comes next is read as a length: the bytes of a body can be any. *)
ReadSize ==
  /\ pc = "size"
  /\ stream # <<>>
  /\ LET piece == Head(stream)
     IN size' \in IF piece[2] = 0 THEN {BodyLen[piece[1]]} ELSE 0..MaxSize
  /\ stream' = Tail(stream)
  /\ data' = <<>>
  /\ pc' = "body"
  /\ UNCHANGED <<client, toSend, cancelled, queries, responses, cut>>

(* Mutant: a failed read of the length is retried, EOF included. *)
MutantReadSizeFails ==
  /\ pc = "size"
  /\ stream = <<>>
  /\ pc' = "top"
  /\ UNCHANGED <<client, toSend, stream, cancelled, size, data, queries, responses, cut>>

(* The deadline has passed, or the client has closed: so does the handler. *)
ReadSizeFails ==
  /\ pc = "size"
  /\ stream = <<>>
  /\ pc' = "closed"
  /\ UNCHANGED <<client, toSend, stream, cancelled, size, data, queries, responses, cut>>

ReadBody ==
  /\ pc = "body"
  /\ Len(data) < size
  /\ stream # <<>>
  /\ data' = Append(data, Head(stream))
  /\ stream' = Tail(stream)
  /\ UNCHANGED <<client, toSend, cancelled, pc, size, queries, responses, cut>>

(* The deadline or EOF cuts the body short: "continue", and what was read  *)
(* of it is dropped.                                                       *)
ReadBodyFails ==
  /\ pc = "body"
  /\ Len(data) < size
  /\ stream = <<>>
  /\ pc' = "top"
  /\ size' = 0
  /\ data' = <<>>
  /\ cut' = TRUE
  /\ UNCHANGED <<client, toSend, stream, cancelled, queries, responses>>

ForwardQuery ==
  /\ pc = "body"
  /\ Len(data) = size
  /\ queries' = Append(queries, data)
  /\ pc' = "query"
  /\ UNCHANGED <<client, toSend, stream, cancelled, size, data, responses, cut>>

TooLong(len) == len > MaxUint16

(* Consul answers and the answer fits: its length, as a uint16, and the    *)
(* answer are written.  A write has no deadline; it waits for the client.  *)
WriteResponse ==
  /\ pc = "query"
  /\ client # "stalled"
  /\ \E len \in RespLens :
       /\ ~TooLong(len)
       /\ responses' = Append(responses, [to |-> queries[Len(queries)], prefix |-> len % (MaxUint16 + 1), len |-> len])
  /\ pc' = "top"
  /\ size' = 0
  /\ data' = <<>>
  /\ UNCHANGED <<client, toSend, stream, cancelled, queries, cut>>

(* The query fails, its answer is too long, or the client is gone when it  *)
(* is written.                                                             *)
QueryFails ==
  /\ pc = "query"
  /\ pc' = "closed"
  /\ UNCHANGED <<client, toSend, stream, cancelled, size, data, queries, responses, cut>>

-----------------------------------------------------------------------------

Handle ==
  \/ Top \/ ReadSize \/ ReadSizeFails \/ ReadBody \/ ReadBodyFails
  \/ ForwardQuery \/ WriteResponse

ConnNext == Handle \/ QueryFails \/ ClientSends \/ ClientChanges \/ Cancel

ConnSpec == ConnInit /\ [][ConnNext]_connVars

(* The handler runs, reads meet their deadline and queries their timeout;   *)
(* a write to a client that is gone fails or is taken by its kernel.        *)
ConnFairSpec == ConnSpec /\ WF_connVars(Handle)

-----------------------------------------------------------------------------
(* Properties.                                                              *)

(* As long as no body was cut short, what Consul is asked are the client's  *)
(* requests, whole and in order, and the n-th answer is to the n-th of      *)
(* them: pipelined requests are neither skipped, merged nor swapped.  Nor   *)
(* does the client lose its place among the answers: the uint16 prefix of   *)
(* each is its length, nothing being left that the conversion truncates.    *)
Pipelined ==
  /\ \A i \in DOMAIN responses : responses[i].prefix = responses[i].len
  /\ ~cut =>
       /\ Len(queries) \leq Len(BodyLen)
       /\ \A i \in DOMAIN queries : queries[i] = Body(i)
       /\ Len(responses) \in {Len(queries), Len(queries) - 1}
       /\ \A i \in DOMAIN responses : responses[i].to = queries[i]

(* When the client has closed, or the server was stopped and the client     *)
(* reads what it is sent, the handler ends: the failures it retries do not  *)
(* go on for ever.                                                          *)
ConnEnds == (client = "closed" \/ cancelled) ~> (pc = "closed" \/ client = "stalled")

(* dns.go:288, "We can try reading it again": when a body was cut short,    *)
(* what is read next is still requests that the client sent.                *)
FramesIntact == \A i \in DOMAIN queries : \E k \in DOMAIN BodyLen : queries[i] = Body(k)
=============================================================================
