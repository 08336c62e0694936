------------------------- MODULE TcpExchangeProofs -------------------------
(***************************************************************************)
(* Proofs about TcpExchange, for every size of the request, the response,  *)
(* the socket buffers and the listener's queue, and for any number of      *)
(* strangers.                                                              *)
(***************************************************************************)
EXTENDS TcpExchange, TLAPS

BeforeAccept == {"listen", "socket", "connect", "poll", "fcntl", "accept"}
AfterAccept  == {"send_request", "receive_request", "send_response",
                 "receive_response"}

(* Until accept4 the program's own connection waits in the queue, and the  *)
(* foreign ones are those that strangers have made (lines 174-197).        *)
QueueTracked ==
  /\ main \in BeforeAccept => peer = "none"
  /\ main \in AfterAccept => peer # "none"
  /\ main \in {"fcntl", "accept"} => connection = "established"
  /\ connection = "established" /\ peer = "none"
       => \E i \in 1 .. Len(queue) : queue[i] = "own"
  /\ stranger # "absent" => peer = "foreign"
  /\ foreign = 0 => /\ peer # "foreign"
                    /\ \A i \in 1 .. Len(queue) : queue[i] = "own"

(* Over its own connection no byte is lost and none is added; over that of *)
(* a stranger nothing comes back (lines 201-204).                          *)
BytesTracked ==
  /\ main \in BeforeAccept =>
       sent = 0 /\ up = 0 /\ received_request = 0 /\ answered = 0
  /\ peer = "own" => /\ sent = up + received_request
                     /\ answered = down + received_response
  /\ main \in {"receive_request", "send_response", "receive_response"}
       => sent = REQUEST
  /\ main = "receive_response" => answered = RESPONSE
  /\ peer # "own" => down = 0 /\ received_response = 0

(* How the program ends (lines 209-232). *)
OutcomeTracked ==
  /\ main # "exited" => result = "EXIT_FAILURE"
  /\ result = "EXIT_SUCCESS" => peer = "own" /\ received_response = RESPONSE
  /\ main = "exited" /\ faults = 0 /\ foreign = 0 => result = "EXIT_SUCCESS"

ExchangeInvariant ==
  TypeOK /\ QueueTracked /\ BytesTracked /\ OutcomeTracked
-----------------------------------------------------------------------------
(* One lemma for each action, with one step for each part of the invariant. *)
USE BufferAssumption, BacklogAssumption
    DEF TypeOK, requests, responses, network, BeforeAccept, AfterAccept

(* The connection of the client is complete. *)
LEMMA HandshakePreserves ==
  ASSUME ExchangeInvariant, Handshake
  PROVE  ExchangeInvariant'
<1>. USE DEF ExchangeInvariant, Handshake
<1>1. TypeOK'
  BY DEF TypeOK
<1>2. QueueTracked'
  BY DEF QueueTracked
<1>3. BytesTracked'
  BY DEF BytesTracked
<1>4. OutcomeTracked'
  BY DEF OutcomeTracked
<1>. QED  BY <1>1, <1>2, <1>3, <1>4 DEF ExchangeInvariant

(* A stranger connects. *)
LEMMA ForeignConnectsPreserves ==
  ASSUME ExchangeInvariant, ForeignConnects
  PROVE  ExchangeInvariant'
<1>. USE DEF ExchangeInvariant, ForeignConnects
<1>1. TypeOK'
  BY DEF TypeOK
<1>2. QueueTracked'
  BY DEF QueueTracked
<1>3. BytesTracked'
  BY DEF BytesTracked
<1>4. OutcomeTracked'
  BY DEF OutcomeTracked
<1>. QED  BY <1>1, <1>2, <1>3, <1>4 DEF ExchangeInvariant

(* The accepted stranger sends or closes. *)
LEMMA ForeignActsPreserves ==
  ASSUME ExchangeInvariant, ForeignActs
  PROVE  ExchangeInvariant'
<1>. USE DEF ExchangeInvariant, ForeignActs
<1>1. TypeOK'
  BY DEF TypeOK
<1>2. QueueTracked'
  BY DEF QueueTracked
<1>3. BytesTracked'
  BY DEF BytesTracked, QueueTracked
<1>4. OutcomeTracked'
  BY DEF OutcomeTracked
<1>. QED  BY <1>1, <1>2, <1>3, <1>4 DEF ExchangeInvariant

(* getaddrinfo, ..., listen (lines 113-139). *)
LEMMA ListenPreserves ==
  ASSUME ExchangeInvariant, Listen
  PROVE  ExchangeInvariant'
<1>. USE DEF ExchangeInvariant, Listen, Goes
<1>1. TypeOK'
  BY DEF TypeOK
<1>2. QueueTracked'
  BY DEF QueueTracked
<1>3. BytesTracked'
  BY DEF BytesTracked
<1>4. OutcomeTracked'
  BY DEF OutcomeTracked
<1>. QED  BY <1>1, <1>2, <1>3, <1>4 DEF ExchangeInvariant

(* getsockname, ..., set_nonblocking (lines 141-172). *)
LEMMA MakeClientPreserves ==
  ASSUME ExchangeInvariant, MakeClient
  PROVE  ExchangeInvariant'
<1>. USE DEF ExchangeInvariant, MakeClient, Goes
<1>1. TypeOK'
  BY DEF TypeOK
<1>2. QueueTracked'
  BY DEF QueueTracked
<1>3. BytesTracked'
  BY DEF BytesTracked
<1>4. OutcomeTracked'
  BY DEF OutcomeTracked
<1>. QED  BY <1>1, <1>2, <1>3, <1>4 DEF ExchangeInvariant

(* connect (lines 174-178). *)
LEMMA ConnectPreserves ==
  ASSUME ExchangeInvariant, Connect
  PROVE  ExchangeInvariant'
<1>. USE DEF ExchangeInvariant, Connect, Goes
<1>1. TypeOK'
  BY DEF TypeOK
<1>2. QueueTracked'
  BY DEF QueueTracked
<1>3. BytesTracked'
  BY DEF BytesTracked
<1>4. OutcomeTracked'
  BY DEF OutcomeTracked
<1>. QED  BY <1>1, <1>2, <1>3, <1>4 DEF ExchangeInvariant

(* poll finds the socket writable (line 179). *)
LEMMA PollConnectedPreserves ==
  ASSUME ExchangeInvariant, PollConnected
  PROVE  ExchangeInvariant'
<1>. USE DEF ExchangeInvariant, PollConnected, Goes
<1>1. TypeOK'
  BY DEF TypeOK
<1>2. QueueTracked'
  BY DEF QueueTracked
<1>3. BytesTracked'
  BY DEF BytesTracked
<1>4. OutcomeTracked'
  BY DEF OutcomeTracked
<1>. QED  BY <1>1, <1>2, <1>3, <1>4 DEF ExchangeInvariant

(* poll times out (lines 179-181). *)
LEMMA PollTimesOutPreserves ==
  ASSUME ExchangeInvariant, PollTimesOut
  PROVE  ExchangeInvariant'
<1>. USE DEF ExchangeInvariant, PollTimesOut, Cleanup, Fault
<1>1. TypeOK'
  BY DEF TypeOK
<1>2. QueueTracked'
  BY DEF QueueTracked
<1>3. BytesTracked'
  BY DEF BytesTracked
<1>4. OutcomeTracked'
  BY DEF OutcomeTracked
<1>. QED  BY <1>1, <1>2, <1>3, <1>4 DEF ExchangeInvariant

(* set_nonblocking(client, 0) (line 184). *)
LEMMA MakeBlockingPreserves ==
  ASSUME ExchangeInvariant, MakeBlocking
  PROVE  ExchangeInvariant'
<1>. USE DEF ExchangeInvariant, MakeBlocking, Goes
<1>1. TypeOK'
  BY DEF TypeOK
<1>2. QueueTracked'
  BY DEF QueueTracked
<1>3. BytesTracked'
  BY DEF BytesTracked
<1>4. OutcomeTracked'
  BY DEF OutcomeTracked
<1>. QED  BY <1>1, <1>2, <1>3, <1>4 DEF ExchangeInvariant

(* accept4 (lines 191-197). *)
LEMMA AcceptPreserves ==
  ASSUME ExchangeInvariant, Accept
  PROVE  ExchangeInvariant'
<1>. USE DEF ExchangeInvariant, Accept, Goes
<1>1. TypeOK'
  BY DEF TypeOK
<1>2. QueueTracked'
  BY DEF QueueTracked
<1>3. BytesTracked'
  BY DEF BytesTracked
<1>4. OutcomeTracked'
  BY DEF OutcomeTracked
<1>. QED  BY <1>1, <1>2, <1>3, <1>4 DEF ExchangeInvariant

(* send_all(client) (line 201). *)
LEMMA SendRequestPreserves ==
  ASSUME ExchangeInvariant, SendRequest
  PROVE  ExchangeInvariant'
<1>. USE DEF ExchangeInvariant, SendRequest
<1>1. TypeOK'
  BY DEF TypeOK
<1>2. QueueTracked'
  BY DEF QueueTracked
<1>3. BytesTracked'
  BY DEF BytesTracked
<1>4. OutcomeTracked'
  BY DEF OutcomeTracked
<1>. QED  BY <1>1, <1>2, <1>3, <1>4 DEF ExchangeInvariant

(* receive_all(peer) (line 202). *)
LEMMA ReceiveRequestPreserves ==
  ASSUME ExchangeInvariant, ReceiveRequest
  PROVE  ExchangeInvariant'
<1>. USE DEF ExchangeInvariant, ReceiveRequest, Cleanup
<1>1. TypeOK'
  <2>1. up' \in 0 .. BUFFER /\ received_request' \in 0 .. REQUEST
    OBVIOUS
  <2>2. /\ main' \in {"send_response", "receive_request", "exited"}
        /\ sockets' \in {sockets, {}}
    OBVIOUS
  <2>. QED  BY <2>1, <2>2
<1>2. QueueTracked'
  BY DEF QueueTracked
<1>3. BytesTracked'
  BY DEF BytesTracked
<1>4. OutcomeTracked'
  BY DEF OutcomeTracked, QueueTracked
<1>. QED  BY <1>1, <1>2, <1>3, <1>4 DEF ExchangeInvariant

(* send_all(peer) (line 203). *)
LEMMA SendResponsePreserves ==
  ASSUME ExchangeInvariant, SendResponse
  PROVE  ExchangeInvariant'
<1>. USE DEF ExchangeInvariant, SendResponse
<1>1. TypeOK'
  BY DEF TypeOK
<1>2. QueueTracked'
  BY DEF QueueTracked
<1>3. BytesTracked'
  BY DEF BytesTracked
<1>4. OutcomeTracked'
  BY DEF OutcomeTracked
<1>. QED  BY <1>1, <1>2, <1>3, <1>4 DEF ExchangeInvariant

(* receive_all(client) and the comparison (lines 204-214). *)
LEMMA ReceiveResponsePreserves ==
  ASSUME ExchangeInvariant, ReceiveResponse
  PROVE  ExchangeInvariant'
<1>. USE DEF ExchangeInvariant, ReceiveResponse, Cleanup
<1>1. TypeOK'
  <2>1. down' \in 0 .. BUFFER /\ received_response' \in 0 .. RESPONSE
    OBVIOUS
  <2>2. /\ main' \in {main, "exited"} /\ sockets' \in {sockets, {}}
        /\ result' \in {result, "EXIT_SUCCESS"}
    OBVIOUS
  <2>. QED  BY <2>1, <2>2
<1>2. QueueTracked'
  BY DEF QueueTracked
<1>3. BytesTracked'
  BY DEF BytesTracked
<1>4. OutcomeTracked'
  <2>1. peer = "own"
    BY DEF BytesTracked
  <2>2. CASE received_response' = RESPONSE
    BY <2>1, <2>2 DEF OutcomeTracked
  <2>3. CASE received_response' # RESPONSE
    BY <2>1, <2>3 DEF OutcomeTracked
  <2>. QED  BY <2>2, <2>3
<1>. QED  BY <1>1, <1>2, <1>3, <1>4 DEF ExchangeInvariant

(* Any call fails. *)
LEMMA FailsPreserves ==
  ASSUME ExchangeInvariant, Fails
  PROVE  ExchangeInvariant'
<1>. USE DEF ExchangeInvariant, Fails, Cleanup, Fault
<1>1. TypeOK'
  BY DEF TypeOK
<1>2. QueueTracked'
  BY DEF QueueTracked
<1>3. BytesTracked'
  BY DEF BytesTracked
<1>4. OutcomeTracked'
  BY DEF OutcomeTracked
<1>. QED  BY <1>1, <1>2, <1>3, <1>4 DEF ExchangeInvariant

(* The invariant holds before main has done anything. *)
LEMMA InitEstablishes ==
  ASSUME Init
  PROVE  ExchangeInvariant
<1>. USE DEF Init
<1>1. TypeOK
  <2>1. queue \in Seq({"own", "foreign"}) /\ Len(queue) = 0
    OBVIOUS
  <2>. QED  BY <2>1
<1>2. QueueTracked
  BY DEF QueueTracked
<1>3. BytesTracked
  BY DEF BytesTracked
<1>4. OutcomeTracked
  BY DEF OutcomeTracked
<1>. QED  BY <1>1, <1>2, <1>3, <1>4 DEF ExchangeInvariant

(* The invariant is kept by every step. *)
LEMMA StepPreserves ==
  ASSUME ExchangeInvariant, [Next]_vars
  PROVE  ExchangeInvariant'
<1>1. CASE MainStep
  BY <1>1, ListenPreserves, MakeClientPreserves, ConnectPreserves,
     PollConnectedPreserves, PollTimesOutPreserves, MakeBlockingPreserves,
     AcceptPreserves, SendRequestPreserves, ReceiveRequestPreserves,
     SendResponsePreserves, ReceiveResponsePreserves
     DEF MainStep
<1>2. CASE Fails \/ Handshake \/ ForeignConnects \/ ForeignActs
  BY <1>2, FailsPreserves, HandshakePreserves, ForeignConnectsPreserves,
     ForeignActsPreserves
<1>3. CASE UNCHANGED vars
  BY <1>3
     DEF vars, ExchangeInvariant, QueueTracked, BytesTracked, OutcomeTracked
<1>. QED  BY <1>1, <1>2, <1>3 DEF Next, Exited

-----------------------------------------------------------------------------
(* The invariant holds for every size, backlog and number of strangers. *)
THEOREM Invariance == Spec => []ExchangeInvariant
<1>1. Init => ExchangeInvariant
  BY InitEstablishes
<1>2. ExchangeInvariant /\ [Next]_vars => ExchangeInvariant'
  BY StepPreserves
<1>. QED  BY <1>1, <1>2, PTL DEF Spec

(* The one thread that plays both sides never calls accept4 on an empty    *)
(* queue, and over its own connection it never waits for a byte it has not *)
(* sent (lines 174-204).                                                   *)
THEOREM NeverWaits == Spec => []NeverWaitsForItself
<1>1. ExchangeInvariant => NeverWaitsForItself
  <2>1. ExchangeInvariant /\ main = "accept" => queue # <<>>
    BY DEF ExchangeInvariant, QueueTracked
  <2>2. ExchangeInvariant /\ peer = "own" =>
          /\ main = "receive_request" => up + received_request = REQUEST
          /\ main = "receive_response" => down + received_response = RESPONSE
    BY DEF ExchangeInvariant, BytesTracked
  <2>. QED  BY <2>1, <2>2 DEF NeverWaitsForItself
<1>. QED  BY <1>1, Invariance, PTL

(* Success means that request and response went over the program's own     *)
(* connection; without a failed call and a stranger it comes (lines        *)
(* 191-214).                                                               *)
THEOREM SuccessCorrect == Spec => []SuccessMeansOwn
<1>1. ExchangeInvariant => SuccessMeansOwn
  BY DEF ExchangeInvariant, OutcomeTracked, SuccessMeansOwn
<1>. QED  BY <1>1, Invariance, PTL

(* What the thread has still to send fits into the buffer of the socket.   *)
SendsFit ==
  peer = "own" =>
    /\ main = "send_request" => up + (REQUEST - sent) <= BUFFER
    /\ main = "send_response" => down + (RESPONSE - answered) <= BUFFER

(* send_all never waits for a reader that could only be the thread itself: *)
(* this is what BufferAssumption is for (lines 201, 203).                  *)
THEOREM SendsNeverWait == Spec => []SendsFit
<1>1. ExchangeInvariant => SendsFit
  <2>1. SUFFICES ASSUME ExchangeInvariant, peer = "own" PROVE SendsFit
    BY DEF SendsFit
  <2>2. /\ sent = up + received_request /\ received_request \in 0 .. REQUEST
        /\ sent \in 0 .. REQUEST /\ up \in 0 .. BUFFER
    BY <2>1 DEF ExchangeInvariant, BytesTracked
  <2>3. /\ answered = down + received_response
        /\ received_response \in 0 .. RESPONSE
        /\ answered \in 0 .. RESPONSE /\ down \in 0 .. BUFFER
    BY <2>1 DEF ExchangeInvariant, BytesTracked
  <2>. QED  BY <2>2, <2>3 DEF SendsFit
<1>. QED  BY <1>1, Invariance, PTL
=============================================================================
