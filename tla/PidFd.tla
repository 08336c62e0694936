------------------------------- MODULE PidFd -------------------------------
(***************************************************************************)
(* experiments/17_pidfd/main.c: the program forks a child that exits with  *)
(* 42 at once, opens a pidfd for its pid, polls this for two seconds and   *)
(* reaps the child through it; if that did not come about, its cleanup     *)
(* waits for the child through its pid.                                    *)
(*                                                                         *)
(* Where SIGCHLD is ignored the kernel reaps the child by itself, and a    *)
(* pidfd opened after that finds nobody, or a stranger with the same pid.  *)
(***************************************************************************)
EXTENDS Integers

CONSTANT TIMEOUT   \* of poll, in any unit (two seconds in the code)

TimeoutAssumption == TIMEOUT \in Nat \ {0}

VARIABLES ignored,   \* was the program started with SIGCHLD ignored?
          main, result,
          pidfd,     \* what it refers to: "closed", "child", "stranger"
          child,     \* "none", "running", "zombie", "vanished", "gone"
          status,    \* how the child ended
          child_reaped,
          readable,  \* has poll found the pidfd readable?
          left,      \* what is left of the timeout
          givenUp,   \* history: did the last wait for the child fail?
          faults     \* history: calls that failed, and a killed child

kid  == <<child, status>>
vars == <<ignored, givenUp, main, result, pidfd, kid, child_reaped, readable,
          left, faults>>

Init ==
  /\ ignored \in BOOLEAN /\ givenUp = FALSE
  /\ main = "fork" /\ result = "EXIT_FAILURE" /\ pidfd = "closed"
  /\ child = "none" /\ status = "none"
  /\ child_reaped = FALSE /\ readable = FALSE
  /\ left = TIMEOUT /\ faults = 0

Goes(from, to) == main = from /\ main' = to
Fault == faults' = faults + 1
Fails(from) == Goes(from, "cleanup") /\ Fault

Fork ==
  /\ \/ Goes("fork", "pidfd_open") /\ child' = "running" /\ UNCHANGED faults
     \/ Fails("fork") /\ UNCHANGED child
  /\ UNCHANGED <<ignored, givenUp, result, pidfd, status, child_reaped,
                 readable, left>>

(* A zombie still has its pid; one that vanished has not. *)
OpenPidFd ==
  /\ \/ /\ Goes("pidfd_open", "poll") /\ UNCHANGED faults
        /\ pidfd' = IF child = "vanished" THEN "stranger" ELSE "child"
     \/ Fails("pidfd_open") /\ UNCHANGED pidfd
  /\ UNCHANGED <<ignored, givenUp, result, kid, child_reaped, readable,
                 left>>

(* poll_retry: the pidfd of a process is readable once the process ended;  *)
(* of a stranger anything can be seen.                                     *)
Poll ==
  /\ Goes("poll", "waitid")
  /\ pidfd = "child" => child # "running"
  /\ readable' = TRUE
  /\ UNCHANGED <<ignored, givenUp, result, pidfd, kid, child_reaped, left,
                 faults>>

(* Time passes in poll, and a signal makes poll_retry start all over.      *)
PollWaits ==
  /\ main = "poll" /\ left' \in {left - 1, TIMEOUT} \ {-1, left}
  /\ UNCHANGED <<ignored, givenUp, main, result, pidfd, kid, child_reaped,
                 readable, faults>>

PollTimesOut ==
  /\ left = 0 /\ (pidfd = "child" => child = "running") /\ Fails("poll")
  /\ UNCHANGED <<ignored, givenUp, result, pidfd, kid, child_reaped,
                 readable, left>>

PollFails ==
  /\ Fails("poll")
  /\ UNCHANGED <<ignored, givenUp, result, pidfd, kid, child_reaped,
                 readable, left>>

(* waitid(P_PIDFD) and the test of what it says; ECHILD for a process that *)
(* is not there, or not a child.                                           *)
WaitByPidFd ==
  /\ \/ /\ pidfd = "child" /\ child = "zombie" /\ Goes("waitid", "cleanup")
        /\ child' = "gone" /\ child_reaped' = TRUE
        /\ result' = IF status = "42" THEN "EXIT_SUCCESS" ELSE result
        /\ UNCHANGED faults
     \/ /\ pidfd = "stranger" \/ child = "vanished"
        /\ Fails("waitid") /\ UNCHANGED <<child, child_reaped, result>>
  /\ UNCHANGED <<ignored, givenUp, pidfd, status, readable, left>>

WaitByPidFdFails ==
  /\ Fails("waitid")
  /\ UNCHANGED <<ignored, givenUp, result, pidfd, kid, child_reaped,
                 readable, left>>

CleanupCloses ==
  /\ Goes("cleanup", IF child # "none" /\ ~child_reaped THEN "cleanup_wait"
                                                        ELSE "exited")
  /\ pidfd' = "closed"
  /\ \/ UNCHANGED <<result, faults>>
     \/ pidfd # "closed" /\ result' = "EXIT_FAILURE" /\ Fault
  /\ UNCHANGED <<ignored, givenUp, kid, child_reaped, readable, left>>

(* A faulty variant of CleanupWaits: WNOHANG. *)
CleanupWaitsNot ==
  /\ Goes("cleanup_wait", "exited")
  /\ child' = IF child = "zombie" THEN "gone" ELSE child
  /\ UNCHANGED <<ignored, givenUp, result, pidfd, status, child_reaped,
                 readable, left, faults>>

(* waitpid, which waits for as long as it takes; ECHILD is no failure.     *)
CleanupWaits ==
  /\ child # "running" /\ Goes("cleanup_wait", "exited")
  /\ child' = IF child = "zombie" THEN "gone" ELSE child
  /\ UNCHANGED <<ignored, givenUp, result, pidfd, status, child_reaped,
                 readable, left, faults>>

(* It fails otherwise: the child, alive or not, is given up.               *)
CleanupWaitFails ==
  /\ Goes("cleanup_wait", "exited") /\ givenUp' = TRUE
  /\ result' = "EXIT_FAILURE" /\ Fault
  /\ UNCHANGED <<ignored, pidfd, kid, child_reaped, readable, left>>

(* The child exits with 42, if nobody kills it before. *)
ChildEnds ==
  /\ child = "running"
  /\ child' = IF ignored THEN "vanished" ELSE "zombie"
  /\ \/ status' = "42" /\ UNCHANGED faults
     \/ status' = "signal" /\ Fault
  /\ UNCHANGED <<ignored, givenUp, main, result, pidfd, child_reaped,
                 readable, left>>

Exited == main = "exited" /\ UNCHANGED vars

MainStep ==
  Fork \/ OpenPidFd \/ Poll \/ WaitByPidFd \/ CleanupCloses \/ CleanupWaits

Next ==
  \/ MainStep \/ PollWaits \/ PollTimesOut \/ PollFails \/ WaitByPidFdFails
  \/ CleanupWaitFails \/ ChildEnds \/ Exited
Spec == Init /\ [][Next]_vars

(* Both processes run; no wait is saved by an error. *)
FairSpec == Spec /\ WF_vars(MainStep) /\ WF_vars(ChildEnds)

-----------------------------------------------------------------------------
(* Properties. *)

TypeOK ==
  /\ ignored \in BOOLEAN /\ givenUp \in BOOLEAN
  /\ main \in {"fork", "pidfd_open", "poll", "waitid", "cleanup",
               "cleanup_wait", "exited"}
  /\ result \in {"EXIT_SUCCESS", "EXIT_FAILURE"}
  /\ pidfd \in {"closed", "child", "stranger"}
  /\ child \in {"none", "running", "zombie", "vanished", "gone"}
  /\ status \in {"none", "42", "signal"}
  /\ child_reaped \in BOOLEAN /\ readable \in BOOLEAN
  /\ left \in 0 .. TIMEOUT /\ faults \in Nat

(* How this program fulfils ChildExchange: what it sets out to receive is  *)
(* the announcement of the end by poll.                                    *)
(* The program returns, and on every path, after a timeout as well as when *)
(* the pid was given away, the pidfd is closed and the child reaped once,  *)
(* unless the last wait for it failed; success means that poll announced a *)
(* child that exited with 42 (53-124).                                     *)
ExchangeState == [
  child |-> CASE child = "running" -> "alive" [] child = "vanished" -> "gone"
              [] OTHER -> child,
  status |-> CASE status = "none" -> "none" [] status = "42" -> "well"
               [] OTHER -> "ill",
  exchanged |-> readable,
  held |-> pidfd # "closed",
  givenUp |-> givenUp,
  faulty |-> ignored \/ faults > 0,
  verdict |-> IF main = "exited" THEN result ELSE "running"]
=============================================================================
