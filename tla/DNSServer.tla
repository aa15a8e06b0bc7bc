------------------------------ MODULE DNSServer ------------------------------
(***************************************************************************)
(* The DNS proxy (pkg/dns): Start binds a UDP and a TCP socket and runs    *)
(* two loops, Stop cancels their context, and the server counts as running *)
(* until both loops have ended.  Runs are numbered by the call of Start    *)
(* that began them.  An accepted TCP connection is module DNSConn.         *)
(***************************************************************************)
EXTENDS Naturals

CONSTANTS
  Queries,     \* UDP queries, each from a client address of its own
  MaxStarts,   \* calls of Start that get as far as a socket (a bound)
  MaxAccepts   \* TCP connections and failed accepts (a bound)

ASSUME DNSServerAssumption == MaxStarts \in Nat /\ MaxAccepts \in Nat

Runs == 1..MaxStarts

VARIABLES
  running,     \* d.running
  starts,      \* calls of Start that bound a socket
  connUDP,     \* d.connUDP: the run whose UDP socket it is (0: nil)
  listenerTCP, \* d.listenerTCP, likewise
  udpSock,     \* per run, its UDP socket
  tcpSock,     \* per run, its TCP listener
  udp,         \* per run, where proxyUDP is
  tcp,         \* per run, where proxyTCP is
  stopped,     \* runs whose context was cancelled
  network,     \* queries on their way to the server
  handler,     \* per query, its goroutine and the bytes in its buffer
  answers,     \* <<address, question answered>> sent back over UDP
  accepts,     \* how often Accept has returned
  panic        \* a goroutine panicked: the process is gone

serverVars == <<running, starts, connUDP, listenerTCP, udpSock, tcpSock, udp, tcp, stopped,
                network, handler, answers, accepts, panic>>
sockets == <<connUDP, listenerTCP, udpSock, tcpSock>>
udpVars == <<network, handler, answers>>

DNSTypeOK ==
  /\ running \in BOOLEAN
  /\ starts \in 0..MaxStarts
  /\ connUDP \in 0..starts
  /\ listenerTCP \in 0..starts
  /\ udpSock \in [Runs -> {"none", "open", "closed"}]
  /\ tcpSock \in [Runs -> {"none", "open", "closed"}]
  /\ udp \in [Runs -> {"none", "top", "read", "done"}]
  /\ tcp \in [Runs -> {"none", "top", "accept", "done", "returned"}]
  /\ stopped \subseteq Runs
  /\ network \subseteq Queries
  /\ handler \in [Queries -> [pc : {"none", "query", "done"}, msg : Queries]]
  /\ answers \subseteq Queries \X Queries
  /\ accepts \in 0..MaxAccepts
  /\ panic \in BOOLEAN

ServerInit ==
  /\ running = FALSE
  /\ starts = 0
  /\ connUDP = 0
  /\ listenerTCP = 0
  /\ udpSock = [r \in Runs |-> "none"]
  /\ tcpSock = [r \in Runs |-> "none"]
  /\ udp = [r \in Runs |-> "none"]
  /\ tcp = [r \in Runs |-> "none"]
  /\ stopped = {}
  /\ network = Queries
  /\ handler = [q \in Queries |-> [pc |-> "none", msg |-> q]]
  /\ answers = {}
  /\ accepts = 0
  /\ panic = FALSE

-----------------------------------------------------------------------------
(* Start, Stop and the end of run: each holds d.lock throughout.            *)

(* Start on a running server, or whose UDP bind fails, changes nothing.     *)
(* When the TCP bind fails, the UDP socket stays bound.                     *)
Start ==
  /\ ~running
  /\ starts < MaxStarts
  /\ starts' = starts + 1
  /\ connUDP' = starts'
  /\ udpSock' = [udpSock EXCEPT ![starts'] = "open"]
  /\ \/ UNCHANGED <<running, listenerTCP, tcpSock, udp, tcp>>
     \/ /\ running' = TRUE
        /\ listenerTCP' = starts'
        /\ tcpSock' = [tcpSock EXCEPT ![starts'] = "open"]
        /\ udp' = [udp EXCEPT ![starts'] = "top"]
        /\ tcp' = [tcp EXCEPT ![starts'] = "top"]
  /\ UNCHANGED <<stopped, udpVars, accepts, panic>>

(* Mutant: Stop already reports the server as not running. *)
MutantStop ==
  /\ running
  /\ stopped' = stopped \cup {listenerTCP}
  /\ running' = FALSE
  /\ UNCHANGED <<starts, sockets, udp, tcp, udpVars, accepts, panic>>

Stop ==
  /\ running
  /\ stopped' = stopped \cup {listenerTCP}
  /\ UNCHANGED <<running, starts, sockets, udp, tcp, udpVars, accepts, panic>>

(* The context given to Start is cancelled. *)
CtxCancel ==
  /\ stopped' = Runs
  /\ UNCHANGED <<running, starts, sockets, udp, tcp, udpVars, accepts, panic>>

(* wg.Wait returns once both loops have. *)
RunReturns(r) ==
  /\ udp[r] = "done"
  /\ tcp[r] = "done"
  /\ running' = FALSE
  /\ tcp' = [tcp EXCEPT ![r] = "returned"]
  /\ UNCHANGED <<starts, sockets, udp, stopped, udpVars, accepts, panic>>

-----------------------------------------------------------------------------
(* proxyUDP and queryConsulAndRespondUDP.                                   *)

UDPTop(r) ==
  /\ udp[r] = "top"
  /\ udp' = [udp EXCEPT ![r] = IF r \in stopped THEN "done" ELSE "read"]
  /\ udpSock' = IF r \in stopped THEN [udpSock EXCEPT ![connUDP] = "closed"] ELSE udpSock
  /\ UNCHANGED <<running, starts, connUDP, listenerTCP, tcpSock, tcp, stopped, udpVars, accepts, panic>>

(* Mutant: one buffer, made before the loop, serves every packet. *)
MutantUDPRead(r) ==
  /\ udp[r] = "read"
  /\ udpSock[connUDP] = "open"
  /\ \E q \in network :
       /\ network' = network \ {q}
       /\ handler' = [p \in Queries |->
            IF p = q THEN [pc |-> "query", msg |-> q]
            ELSE IF handler[p].pc = "query" THEN [handler[p] EXCEPT !.msg = q] ELSE handler[p]]
  /\ udp' = [udp EXCEPT ![r] = "top"]
  /\ UNCHANGED <<running, starts, sockets, tcp, stopped, answers, accepts, panic>>

(* A packet is read into a buffer of its own and handed to a goroutine. *)
UDPRead(r) ==
  /\ udp[r] = "read"
  /\ udpSock[connUDP] = "open"
  /\ \E q \in network :
       /\ network' = network \ {q}
       /\ handler' = [handler EXCEPT ![q] = [pc |-> "query", msg |-> q]]
  /\ udp' = [udp EXCEPT ![r] = "top"]
  /\ UNCHANGED <<running, starts, sockets, tcp, stopped, answers, accepts, panic>>

(* Mutant: no read deadline is set, so that only packets end a read. *)
MutantUDPReadFails(r) ==
  /\ udp[r] = "read"
  /\ udpSock[connUDP] = "closed"
  /\ udp' = [udp EXCEPT ![r] = "done"]
  /\ UNCHANGED <<running, starts, sockets, tcp, stopped, udpVars, accepts, panic>>

(* The read times out or fails; on a closed socket the loop ends. *)
UDPReadFails(r) ==
  /\ udp[r] = "read"
  /\ udp' = [udp EXCEPT ![r] = IF udpSock[connUDP] = "closed" THEN "done" ELSE "top"]
  /\ UNCHANGED <<running, starts, sockets, tcp, stopped, udpVars, accepts, panic>>

(* The answer goes out on whatever socket d.connUDP now is, if it is open;  *)
(* an error of the query or of the write is logged.                         *)
UDPRespond(q) ==
  /\ handler[q].pc = "query"
  /\ handler' = [handler EXCEPT ![q].pc = "done"]
  /\ \/ udpSock[connUDP] = "open" /\ answers' = answers \cup {<<q, handler[q].msg>>}
     \/ UNCHANGED answers
  /\ UNCHANGED <<running, starts, sockets, udp, tcp, stopped, network, accepts, panic>>

-----------------------------------------------------------------------------
(* proxyTCP.                                                                *)

TCPTop(r) ==
  /\ tcp[r] = "top"
  /\ tcp' = [tcp EXCEPT ![r] = IF r \in stopped THEN "done" ELSE "accept"]
  /\ tcpSock' = IF r \in stopped THEN [tcpSock EXCEPT ![r] = "closed"] ELSE tcpSock
  /\ UNCHANGED <<running, starts, connUDP, listenerTCP, udpSock, udp, stopped, udpVars, accepts, panic>>

(* A client connects.  The connection goes to a goroutine; a failure to     *)
(* accept does so too, without one, and its deferred Close panics.          *)
TCPAccept(r) ==
  /\ tcp[r] = "accept"
  /\ accepts < MaxAccepts
  /\ accepts' = accepts + 1
  /\ tcp' = [tcp EXCEPT ![r] = "top"]
  /\ panic' \in BOOLEAN
  /\ UNCHANGED <<running, starts, sockets, udp, stopped, udpVars>>

-----------------------------------------------------------------------------

LoopStep(r) == UDPTop(r) \/ UDPRead(r) \/ UDPReadFails(r) \/ TCPTop(r) \/ RunReturns(r)

ServerNext ==
  \/ /\ ~panic
     /\ \/ Start \/ Stop \/ CtxCancel
        \/ \E r \in Runs : LoopStep(r) \/ TCPAccept(r)
        \/ \E q \in Queries : UDPRespond(q)
  \/ panic /\ UNCHANGED serverVars

ServerSpec == ServerInit /\ [][ServerNext]_serverVars

(* The goroutines run, reads time out and queries return.  Nothing makes a *)
(* client connect, so Accept may block for ever.  (One run is alive at a   *)
(* time, so fairness to the loop of some run is fairness to each.)         *)
ServerFairness ==
  /\ WF_serverVars(~panic /\ \E r \in Runs : UDPTop(r) \/ UDPRead(r) \/ UDPReadFails(r))
  /\ WF_serverVars(~panic /\ \E r \in Runs : TCPTop(r) \/ RunReturns(r))
  /\ \A q \in Queries : WF_serverVars(~panic /\ UDPRespond(q))

ServerFairSpec == ServerSpec /\ ServerFairness

-----------------------------------------------------------------------------
(* Properties.                                                              *)

LoopsEnded(r) == udp[r] \in {"none", "done"} /\ tcp[r] \in {"none", "done", "returned"}

(* The server is one run at a time: a loop is alive only in the run that    *)
(* d.running stands for, whose sockets are the ones the fields hold, so     *)
(* that no loop reads, answers on or closes the socket of another run; and  *)
(* a run that has returned leaves none of its sockets open.                 *)
OneRun ==
  /\ DNSTypeOK
  /\ \A r \in Runs :
       /\ tcp[r] \notin {"none", "returned"} => running /\ connUDP = r /\ listenerTCP = r
       /\ ~LoopsEnded(r) => running
       /\ udp[r] = "done" <=> udpSock[r] = "closed"
       /\ tcp[r] \in {"done", "returned"} <=> tcpSock[r] = "closed"
  /\ running => tcp[listenerTCP] # "returned"

(* A datagram sent back to a client answers that client's own question,     *)
(* however the queries of several clients overlap.                          *)
AnswersOwnQuestion == \A a \in answers : a[1] = a[2]

(* Once its context is cancelled, a run gives up its UDP socket, traffic or *)
(* not: the read deadline brings the loop back to its check.  (The TCP loop *)
(* has no deadline: it may stay in Accept until a client connects, and so   *)
(* long Stop, which "will shut down the server", has not.)                  *)
UDPStops == \A r \in Runs : (r \in stopped /\ udp[r] # "none") ~> (udp[r] = "done" \/ panic)
=============================================================================
