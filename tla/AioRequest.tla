----------------------------- MODULE AioRequest -----------------------------
(***************************************************************************)
(* experiments/27_posix_aio/main.c: one asynchronous read of a temporary   *)
(* file.  Main waits for it with aio_error and aio_suspend and takes the   *)
(* result with aio_return; on a failure in between, its cleanup tries to   *)
(* cancel the request, waits until it is no longer in progress and         *)
(* reclaims it.  The read itself goes on in the background.                *)
(***************************************************************************)
EXTENDS Integers

CONSTANTS PAYLOAD,            \* payload_size
          CleanupWaitFails    \* may the wait of cancel_and_reap fail?

ASSUME PayloadAssumption == PAYLOAD \in Nat \ {0}
ASSUME CleanupAssumption == CleanupWaitFails \in BOOLEAN

VARIABLES main, result,
          cleaning,    \* is cancel_and_reap running, rather than main's wait?
          path, fd,    \* does the name exist, is the descriptor open?
          request,     \* the state of the request
          pending,     \* request_pending
          buffer,      \* how many bytes the read has put into the buffer
          first_error, \* cancel_and_reap: has a call failed?
          returns,     \* history: calls of aio_return
          faulty       \* history: has a call failed?

files == <<path, fd>>
vars  == <<main, result, cleaning, files, request, pending, buffer, first_error,
           returns, faulty>>

InProgress == {"queued", "running"}
Complete   == {"read", "error", "canceled"}

Init ==
  /\ main = "mkstemp" /\ result = "EXIT_FAILURE" /\ cleaning = FALSE
  /\ path = FALSE /\ fd = FALSE
  /\ request = "none" /\ pending = FALSE /\ buffer = 0
  /\ first_error = FALSE
  /\ returns = 0 /\ faulty = FALSE

Goes(from, to) == main = from /\ main' = to
Fault == faulty' = TRUE

-----------------------------------------------------------------------------
(* The background: the read starts, fills the buffer, and ends in full,    *)
(* early or with an error.                                                 *)
Background ==
  /\ \/ /\ request = "queued" /\ request' = "running"
        /\ UNCHANGED <<buffer, faulty>>
     \/ /\ request = "running" /\ buffer < PAYLOAD
        /\ buffer' = buffer + 1 /\ UNCHANGED <<request, faulty>>
     \/ /\ request = "running" /\ request' = "read" /\ UNCHANGED buffer
        /\ IF buffer < PAYLOAD THEN Fault ELSE UNCHANGED faulty
     \/ /\ request = "running" /\ buffer = 0
        /\ request' = "error" /\ Fault /\ UNCHANGED buffer
  /\ UNCHANGED <<main, result, cleaning, files, pending, first_error, returns>>

-----------------------------------------------------------------------------
(* Main, up to the request: mkstemp, unlink, write_all, aio_read. *)

MakeFile ==
  /\ \/ /\ Goes("mkstemp", "unlink")
        /\ path' = TRUE /\ fd' = TRUE /\ UNCHANGED faulty
     \/ Goes("mkstemp", "cleanup") /\ Fault /\ UNCHANGED files
  /\ UNCHANGED <<result, cleaning, request, pending, buffer, first_error,
                 returns>>

UnlinkAndWrite ==
  /\ \/ Goes("unlink", "write") /\ path' = FALSE /\ UNCHANGED faulty
     \/ Goes("write", "aio_read") /\ UNCHANGED <<path, faulty>>
     \/ /\ Goes("unlink", "cleanup") \/ Goes("write", "cleanup")
        /\ Fault /\ UNCHANGED path
  /\ UNCHANGED <<result, cleaning, fd, request, pending, buffer, first_error,
                 returns>>

Submit ==
  /\ \/ /\ Goes("aio_read", "aio_error")
        /\ request' = "queued" /\ pending' = TRUE /\ UNCHANGED faulty
     \/ Goes("aio_read", "cleanup") /\ Fault /\ UNCHANGED <<request, pending>>
  /\ UNCHANGED <<result, cleaning, files, buffer, first_error, returns>>

-----------------------------------------------------------------------------
(* wait_until_complete, called by main and by cancel_and_reap. *)

(* It has returned -1: main goes to its cleanup, cancel_and_reap ends      *)
(* without reclaiming the request.                                         *)
WaitFails ==
  /\ main \in {"aio_error", "aio_suspend"}
  /\ cleaning => CleanupWaitFails
  /\ Fault
  /\ main' = IF cleaning THEN "close" ELSE "cleanup"
  /\ first_error' = IF cleaning THEN TRUE ELSE first_error
  /\ UNCHANGED <<result, cleaning, files, request, pending, buffer, returns>>

CheckStatus ==
  /\ main = "aio_error"
  /\ main' = IF request \in InProgress THEN "aio_suspend" ELSE "aio_return"
  /\ UNCHANGED <<result, cleaning, files, request, pending, buffer, first_error,
                 returns, faulty>>

(* aio_suspend returns when the request is complete, or too early, and the *)
(* status is asked for again; after EINTR it is called again.              *)
Suspend ==
  /\ Goes("aio_suspend", "aio_error")
  /\ UNCHANGED <<result, cleaning, files, request, pending, buffer, first_error,
                 returns, faulty>>

-----------------------------------------------------------------------------
(* What follows the wait. *)

(* A faulty variant of TakeResult: the count is not looked at. *)
TakeResultUnchecked ==
  /\ main = "aio_return" /\ ~cleaning
  /\ main' = "cleanup"
  /\ IF request = "read"
     THEN /\ request' = "reclaimed" /\ returns' = returns + 1
          /\ pending' = FALSE /\ result' = "EXIT_SUCCESS"
     ELSE UNCHANGED <<request, returns, pending, result>>
  /\ UNCHANGED <<cleaning, files, buffer, first_error, faulty>>

(* Main: a request that ended with an error goes to the cleanup, which     *)
(* reclaims it; otherwise its result is taken and compared.                *)
TakeResult ==
  /\ main = "aio_return" /\ ~cleaning
  /\ main' = "cleanup"
  /\ IF request = "read"
     THEN /\ request' = "reclaimed" /\ returns' = returns + 1
          /\ pending' = FALSE
          /\ result' = IF buffer = PAYLOAD THEN "EXIT_SUCCESS" ELSE result
     ELSE UNCHANGED <<request, returns, pending, result>>
  /\ UNCHANGED <<cleaning, files, buffer, first_error, faulty>>

(* A faulty variant of Cancel: once cancelled, the request is forgotten. *)
CancelAndForget ==
  /\ Goes("cleanup", "close")
  /\ request' = IF request = "queued" THEN "canceled" ELSE request
  /\ UNCHANGED <<result, cleaning, files, pending, buffer, first_error, returns,
                 faulty>>

(* cancel_and_reap, first part: a request in progress is to be cancelled;  *)
(* one that runs is not, and aio_error or aio_cancel may fail.             *)
Cancel ==
  /\ main = "cleanup"
  /\ IF pending
     THEN /\ main' = "aio_error" /\ cleaning' = TRUE
          /\ \/ /\ request' = IF request = "queued" THEN "canceled" ELSE request
                /\ UNCHANGED <<first_error, faulty>>
             \/ /\ first_error' = TRUE /\ Fault /\ UNCHANGED request
     ELSE /\ main' = "close"
          /\ UNCHANGED <<cleaning, request, first_error, faulty>>
  /\ UNCHANGED <<result, files, pending, buffer, returns>>

(* cancel_and_reap, last part. *)
Reclaim ==
  /\ Goes("aio_return", "close") /\ cleaning
  /\ request' = "reclaimed" /\ returns' = returns + 1
  /\ UNCHANGED <<result, cleaning, files, pending, buffer, first_error,
                 faulty>>

(* The rest of main's cleanup: close, and unlink where a name is left. *)
CloseFile ==
  /\ Goes("close", "exited")
  /\ fd' = FALSE
  /\ \/ /\ path' = FALSE /\ UNCHANGED faulty
        /\ result' = IF first_error THEN "EXIT_FAILURE" ELSE result
     \/ /\ fd \/ path
        /\ path' \in {path, FALSE} /\ Fault /\ result' = "EXIT_FAILURE"
  /\ UNCHANGED <<cleaning, request, pending, buffer, first_error, returns>>

Exited == main = "exited" /\ UNCHANGED vars

MainStep ==
  \/ MakeFile \/ UnlinkAndWrite \/ Submit \/ CheckStatus \/ Suspend
  \/ TakeResult \/ Cancel \/ Reclaim \/ CloseFile

Next == MainStep \/ WaitFails \/ Background \/ Exited
Spec == Init /\ [][Next]_vars

-----------------------------------------------------------------------------
(* Properties. *)

TypeOK ==
  /\ main \in {"mkstemp", "unlink", "write", "aio_read", "aio_error",
               "aio_suspend", "aio_return", "cleanup", "close", "exited"}
  /\ result \in {"EXIT_SUCCESS", "EXIT_FAILURE"}
  /\ cleaning \in BOOLEAN /\ path \in BOOLEAN /\ fd \in BOOLEAN
  /\ request \in InProgress \cup Complete \cup {"none", "reclaimed"}
  /\ pending \in BOOLEAN /\ buffer \in 0 .. PAYLOAD /\ first_error \in BOOLEAN
  /\ returns \in 0 .. 1 /\ faulty \in BOOLEAN

(* README: on the paths of success, failure and cancellation alike the     *)
(* request is reclaimed by aio_return (lines 53-81, 144-157).              *)
ReclaimedOnEveryPath == main = "exited" => request \in {"none", "reclaimed"}

(* README: the request, its buffer and its descriptor stay valid until     *)
(* aio_return, and aio_return is called once and after completion: the     *)
(* file is not closed under a read in progress.                            *)
FileOutlivesRequest ==
  /\ request \in InProgress \cup Complete => fd /\ main # "exited"
  /\ main = "aio_return" => request \in Complete /\ returns = 0

(* Success means that the read filled the buffer; without a failed call    *)
(* the program succeeds.                                                   *)
SuccessMeansRead ==
  main = "exited" =>
    /\ result = "EXIT_SUCCESS" => buffer = PAYLOAD /\ returns = 1
    /\ ~faulty => result = "EXIT_SUCCESS" /\ ~path

=============================================================================
