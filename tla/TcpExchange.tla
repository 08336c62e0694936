---------------------------- MODULE TcpExchange ----------------------------
(***************************************************************************)
(* experiments/10_tcp_sockets/main.c: one thread plays both sides of a TCP *)
(* connection over the loopback interface.  It listens, connects without   *)
(* blocking, waits for the connection with poll, accepts, sends a request  *)
(* to itself, receives it, answers and receives the answer.                *)
(*                                                                         *)
(* The listener is open to everybody on the machine: other programs may    *)
(* connect to it, before or after the program does, send what they like    *)
(* and go away.  accept4 takes whichever connection is first.              *)
(***************************************************************************)
EXTENDS Integers, Sequences

CONSTANTS REQUEST, RESPONSE,   \* bytes of the request and of the response
          BUFFER,              \* bytes a socket buffers
          BACKLOG,             \* connections the listener queues
          MaxForeign           \* connections of other programs

(* The thread sends before it receives: what it sends must be buffered. *)
ASSUME BufferAssumption ==
  /\ REQUEST \in Nat \ {0} /\ RESPONSE \in Nat \ {0} /\ BUFFER \in Nat
  /\ REQUEST <= BUFFER /\ RESPONSE <= BUFFER
ASSUME BacklogAssumption == BACKLOG \in Nat \ {0} /\ MaxForeign \in Nat

VARIABLES main, result,
          sockets,      \* open: "listener", "client", "peer"
          connection,   \* of the client: "none", "syn", "established"
          queue,        \* connections to be accepted: "own", "foreign"
          peer,         \* whose connection was accepted
          sent, up, received_request,      \* request: sent, buffered, received
          answered, down, received_response,  \* the same for the response
          foreign,      \* history: connections other programs made
          stranger,     \* the foreign peer: "absent", "sends", "closed"
          faults        \* history: calls that failed

requests  == <<sent, up, received_request>>
responses == <<answered, down, received_response>>
network   == <<queue, foreign, stranger>>
vars      == <<main, result, sockets, connection, peer, requests, responses,
               network, faults>>

Init ==
  /\ main = "listen" /\ result = "EXIT_FAILURE"
  /\ sockets = {} /\ connection = "none"
  /\ queue = <<>> /\ peer = "none"
  /\ sent = 0 /\ up = 0 /\ received_request = 0
  /\ answered = 0 /\ down = 0 /\ received_response = 0
  /\ foreign = 0 /\ stranger = "absent"
  /\ faults = 0

Goes(from, to) == main = from /\ main' = to
Fault == faults' = faults + 1

-----------------------------------------------------------------------------
(* The network and the other programs. *)

(* A connection is complete as soon as it has a place in the queue. *)
Handshake ==
  /\ connection = "syn" /\ "listener" \in sockets /\ Len(queue) < BACKLOG
  /\ connection' = "established" /\ queue' = Append(queue, "own")
  /\ UNCHANGED <<main, result, sockets, peer, requests, responses, foreign,
                 stranger, faults>>

ForeignConnects ==
  /\ foreign < MaxForeign /\ "listener" \in sockets /\ Len(queue) < BACKLOG
  /\ foreign' = foreign + 1 /\ queue' = Append(queue, "foreign")
  /\ UNCHANGED <<main, result, sockets, connection, peer, requests, responses,
                 stranger, faults>>

(* The accepted stranger sends a byte, or closes its end. *)
ForeignActs ==
  /\ stranger = "sends" /\ main # "exited"
  /\ \/ up < BUFFER /\ up' = up + 1 /\ UNCHANGED stranger
     \/ stranger' = "closed" /\ UNCHANGED up
  /\ UNCHANGED <<main, result, sockets, connection, peer, sent,
                 received_request, responses, queue, foreign, faults>>

-----------------------------------------------------------------------------
(* The program. *)

(* Every error jumps to the cleanup, which closes what is open. *)
Cleanup == main' = "exited" /\ sockets' = {}

(* getaddrinfo, socket, setsockopt, bind, listen. *)
Listen ==
  /\ Goes("listen", "socket") /\ sockets' = {"listener"}
  /\ UNCHANGED <<result, connection, peer, requests, responses, network,
                 faults>>

(* getsockname, getaddrinfo, socket, set_nonblocking(client, 1). *)
MakeClient ==
  /\ Goes("socket", "connect")
  /\ sockets' = sockets \cup {"client"}
  /\ UNCHANGED <<result, connection, peer, requests, responses, network,
                 faults>>

(* connect: EINPROGRESS, and the kernel goes on by itself. *)
Connect ==
  /\ Goes("connect", "poll") /\ connection' = "syn"
  /\ UNCHANGED <<result, sockets, peer, requests, responses, network, faults>>

(* finish_nonblocking_connect: writable, and SO_ERROR is 0. *)
PollConnected ==
  /\ connection = "established" /\ Goes("poll", "fcntl")
  /\ UNCHANGED <<result, sockets, connection, peer, requests, responses,
                 network, faults>>

(* A faulty variant of PollTimesOut: poll is called again. *)
PollAgain == main = "poll" /\ connection = "syn" /\ UNCHANGED vars

PollTimesOut ==
  /\ main = "poll" /\ connection = "syn" /\ Cleanup /\ Fault
  /\ UNCHANGED <<result, connection, peer, requests, responses, network>>

MakeBlocking ==
  /\ Goes("fcntl", "accept")
  /\ UNCHANGED <<result, sockets, connection, peer, requests, responses,
                 network, faults>>

Accept ==
  /\ queue # <<>> /\ Goes("accept", "send_request")
  /\ peer' = Head(queue) /\ queue' = Tail(queue)
  /\ sockets' = sockets \cup {"peer"}
  /\ stranger' = IF peer' = "foreign" THEN "sends" ELSE stranger
  /\ UNCHANGED <<result, connection, requests, responses, foreign, faults>>

(* A faulty variant of SendRequest: one call, whatever its count. *)
SendRequestOnce ==
  /\ Goes("send_request", "receive_request")
  /\ \E n \in 1 .. REQUEST :
       sent' = n /\ up' = IF peer = "own" THEN up + n ELSE up
  /\ UNCHANGED <<result, sockets, connection, peer, received_request,
                 responses, network, faults>>

(* send_all(client): to the accepted peer, or to nobody, as long as its    *)
(* own connection is not the one that was accepted.                        *)
SendRequest ==
  /\ main = "send_request"
  /\ \E n \in 1 .. REQUEST - sent :
       /\ sent' = sent + n
       /\ up' = IF peer = "own" THEN up + n ELSE up
       /\ main' = IF sent' = REQUEST THEN "receive_request" ELSE main
  /\ up' <= BUFFER
  /\ UNCHANGED <<result, sockets, connection, peer, received_request,
                 responses, network, faults>>

(* receive_all(peer): n bytes, or the end of the stream, which is an error. *)
ReceiveRequest ==
  /\ main = "receive_request"
  /\ \/ \E n \in 1 .. REQUEST - received_request :
          /\ n <= up
          /\ up' = up - n /\ received_request' = received_request + n
          /\ main' = IF received_request' = REQUEST
                     THEN "send_response" ELSE "receive_request"
          /\ UNCHANGED sockets
     \/ up = 0 /\ stranger = "closed" /\ Cleanup
        /\ UNCHANGED <<up, received_request>>
  /\ UNCHANGED <<result, connection, peer, sent, responses, network, faults>>

(* send_all(peer). *)
SendResponse ==
  /\ main = "send_response"
  /\ \E n \in 1 .. RESPONSE - answered :
       /\ answered' = answered + n
       /\ down' = IF peer = "own" THEN down + n ELSE down
       /\ main' = IF answered' = RESPONSE THEN "receive_response" ELSE main
  /\ down' <= BUFFER
  /\ UNCHANGED <<result, sockets, connection, peer, requests,
                 received_response, network, faults>>

(* A faulty variant of ReceiveResponse: the peer is read, not the client.  *)
ReceiveResponseFromPeer ==
  /\ main = "receive_response"
  /\ \E n \in 1 .. RESPONSE - received_response :
       /\ n <= up
       /\ up' = up - n /\ received_response' = received_response + n
       /\ IF received_response' = RESPONSE
          THEN Cleanup /\ result' \in {"EXIT_SUCCESS", "EXIT_FAILURE"}
          ELSE UNCHANGED <<main, sockets, result>>
  /\ UNCHANGED <<connection, peer, sent, received_request, answered, down,
                 network, faults>>

(* receive_all(client), the comparison and the cleanup.  What a stranger   *)
(* has sent may look like the request.                                     *)
ReceiveResponse ==
  /\ main = "receive_response"
  /\ \E n \in 1 .. RESPONSE - received_response :
       /\ n <= down
       /\ down' = down - n /\ received_response' = received_response + n
       /\ IF received_response' = RESPONSE
          THEN /\ Cleanup
               /\ \/ result' = "EXIT_SUCCESS"
                  \/ peer = "foreign" /\ UNCHANGED result
          ELSE UNCHANGED <<main, sockets, result>>
  /\ UNCHANGED <<connection, peer, requests, answered, network, faults>>

(* Any call may fail; one to a peer that is gone does. *)
Fails ==
  /\ main # "exited" /\ Cleanup /\ Fault
  /\ UNCHANGED <<result, connection, peer, requests, responses, network>>

Exited == main = "exited" /\ UNCHANGED vars

MainStep ==
  \/ Listen \/ MakeClient \/ Connect \/ PollConnected \/ PollTimesOut
  \/ MakeBlocking \/ Accept \/ SendRequest \/ ReceiveRequest
  \/ SendResponse \/ ReceiveResponse

Next ==
  \/ MainStep \/ Fails \/ Handshake \/ ForeignConnects \/ ForeignActs
  \/ Exited

Spec == Init /\ [][Next]_vars

(* The program runs, and so does the clock of poll; the kernel completes a *)
(* connection it has room for.  Nobody else has to do anything.            *)
FairSpec == Spec /\ WF_vars(MainStep) /\ WF_vars(Handshake)

-----------------------------------------------------------------------------
(* Properties. *)

TypeOK ==
  /\ main \in {"listen", "socket", "connect", "poll", "fcntl", "accept",
               "send_request", "receive_request", "send_response",
               "receive_response", "exited"}
  /\ result \in {"EXIT_SUCCESS", "EXIT_FAILURE"}
  /\ sockets \in SUBSET {"listener", "client", "peer"}
  /\ connection \in {"none", "syn", "established"}
  /\ queue \in Seq({"own", "foreign"}) /\ Len(queue) <= BACKLOG
  /\ peer \in {"none", "own", "foreign"}
  /\ sent \in 0 .. REQUEST /\ up \in 0 .. BUFFER
  /\ received_request \in 0 .. REQUEST
  /\ answered \in 0 .. RESPONSE /\ down \in 0 .. BUFFER
  /\ received_response \in 0 .. RESPONSE
  /\ foreign \in 0 .. MaxForeign
  /\ stranger \in {"absent", "sends", "closed"}
  /\ faults \in Nat

(* One thread plays both sides.  It calls accept4 only when a connection   *)
(* is queued, and over its own connection it never waits for a byte that   *)
(* it has not sent before (lines 174-204).                                 *)
NeverWaitsForItself ==
  /\ main = "accept" => queue # <<>>
  /\ peer = "own" =>
       /\ main = "receive_request" => up + received_request = REQUEST
       /\ main = "receive_response" => down + received_response = RESPONSE

(* Success: request and response went over the connection the program has  *)
(* with itself, never over one of a stranger, whatever it sends; with no   *)
(* failed call and no stranger, it comes (lines 191-214).                  *)
SuccessMeansOwn ==
  main = "exited" =>
    /\ result = "EXIT_SUCCESS" => peer = "own" /\ received_response = RESPONSE
    /\ faults = 0 /\ foreign = 0 => result = "EXIT_SUCCESS"

(* The program returns, unless it has accepted a stranger: then it waits   *)
(* for an answer that it would have to send itself (lines 191-204).        *)
Termination == <>(main = "exited" \/ peer = "foreign")
=============================================================================
