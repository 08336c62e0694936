----------------------------- MODULE SysvQueue -----------------------------
(***************************************************************************)
(* experiments/26_sysv_message_queue/main.c: a forked child puts one       *)
(* message into a System V queue without waiting; the parent reaps it,     *)
(* counts and takes the message and counts again.  The queue outlives its  *)
(* users, so the cleanup removes it first, maybe under a child that is     *)
(* still about to send, and then ends and reaps a child it still has.      *)
(***************************************************************************)
EXTENDS Integers

VARIABLES ignored,    \* was the program started with SIGCHLD ignored?
          main, result,
          queue,      \* "none", "exists", "removed", or "left" for ever
          queued,     \* messages in the queue
          received,   \* has the parent got the message?
          child,      \* "none", what the child does next, or how it is gone
          status, child_reaped,
          waitError,  \* history: how the first waitpid failed
          givenUp,    \* history: did the last waitpid fail?
          faults      \* history: calls that failed

kid  == <<child, status>>
vars == <<ignored, givenUp, main, result, queue, queued, received, kid,
          child_reaped, waitError, faults>>

Init ==
  /\ ignored \in BOOLEAN /\ givenUp = FALSE
  /\ main = "msgget" /\ result = "EXIT_FAILURE"
  /\ queue = "none" /\ queued = 0 /\ received = FALSE
  /\ child = "none" /\ status = "none" /\ child_reaped = FALSE
  /\ waitError = "none" /\ faults = 0

Goes(from, to) == main = from /\ main' = to
Fault == faults' = faults + 1
Fails(from) == Goes(from, "cleanup") /\ Fault
Alive == {"msgsnd", "sent", "not_sent"}

MakeQueue ==
  /\ \/ Goes("msgget", "fork") /\ queue' = "exists" /\ UNCHANGED faults
     \/ Fails("msgget") /\ UNCHANGED queue
  /\ UNCHANGED <<ignored, givenUp, result, queued, received, kid,
                 child_reaped, waitError>>

Fork ==
  /\ \/ Goes("fork", "wait") /\ child' = "msgsnd" /\ UNCHANGED faults
     \/ Fails("fork") /\ UNCHANGED child
  /\ UNCHANGED <<ignored, givenUp, result, queue, queued, received, status,
                 child_reaped, waitError>>

(* Where SIGCHLD is ignored the kernel reaps the child: waitpid says       *)
(* ECHILD, and its pid is no longer the program's to signal.               *)
ChildEnds(code) ==
  /\ child' = IF ignored THEN "vanished" ELSE "zombie"
  /\ status' = code

(* msgsnd with IPC_NOWAIT: it fails when the queue is gone or full. *)
ChildSends ==
  /\ child = "msgsnd"
  /\ \/ /\ queue # "removed" /\ queued' = queued + 1 /\ child' = "sent"
        /\ UNCHANGED faults
     \/ child' = "not_sent" /\ Fault /\ UNCHANGED queued
  /\ UNCHANGED <<ignored, givenUp, main, result, queue, received, status,
                 child_reaped, waitError>>

ChildExits ==
  /\ child \in {"sent", "not_sent"}
  /\ ChildEnds(IF child = "sent" THEN "0" ELSE "120")
  /\ UNCHANGED <<ignored, givenUp, main, result, queue, queued, received,
                 child_reaped, waitError, faults>>

(* A faulty variant of Wait: a child found gone is not noted. *)
WaitForgets ==
  /\ \/ /\ child = "zombie" /\ child' = "gone" /\ child_reaped' = TRUE
        /\ Goes("wait", IF status = "0" THEN "stat" ELSE "cleanup")
        /\ UNCHANGED <<waitError, faults>>
     \/ /\ child = "vanished" /\ Fails("wait") /\ waitError' = "ECHILD"
        /\ UNCHANGED <<child, child_reaped>>
  /\ UNCHANGED <<ignored, givenUp, result, queue, queued, received, status>>

(* wait_for_child, and the test of the status. *)
Wait ==
  /\ child_reaped' = TRUE
  /\ \/ /\ child = "zombie" /\ child' = "gone"
        /\ Goes("wait", IF status = "0" THEN "stat" ELSE "cleanup")
        /\ UNCHANGED <<waitError, faults>>
     \/ /\ child = "vanished" /\ Fails("wait") /\ waitError' = "ECHILD"
        /\ UNCHANGED child
  /\ UNCHANGED <<ignored, givenUp, result, queue, queued, received, status>>

WaitFails ==
  /\ Fails("wait") /\ waitError' = "other"
  /\ UNCHANGED <<ignored, givenUp, result, queue, queued, received, kid,
                 child_reaped>>

(* IPC_STAT, before and after the message is taken. *)
Count(from, expected, to) ==
  /\ \/ /\ Goes(from, IF queued = expected THEN to ELSE "cleanup")
        /\ result' = IF main' = "cleanup" /\ queued = expected
                     THEN "EXIT_SUCCESS" ELSE result
        /\ UNCHANGED faults
     \/ Fails(from) /\ UNCHANGED result
  /\ UNCHANGED <<ignored, givenUp, queue, queued, received, kid,
                 child_reaped, waitError>>

(* msgrcv with IPC_NOWAIT: it fails when no message is there. *)
Receive ==
  /\ \/ /\ queued > 0 /\ Goes("msgrcv", "stat_after")
        /\ queued' = queued - 1 /\ received' = TRUE /\ UNCHANGED faults
     \/ Fails("msgrcv") /\ UNCHANGED <<queued, received>>
  /\ UNCHANGED <<ignored, givenUp, result, queue, kid, child_reaped,
                 waitError>>

(* IPC_RMID; it takes what is in the queue with it. *)
CleanupRemoves ==
  /\ Goes("cleanup", IF child # "none" /\ ~child_reaped THEN "kill"
                                                        ELSE "exited")
  /\ \/ /\ queue' = IF queue = "exists" THEN "removed" ELSE queue
        /\ queued' = 0 /\ UNCHANGED <<result, faults>>
     \/ /\ queue = "exists" /\ queue' = "left"
        /\ result' = "EXIT_FAILURE" /\ Fault /\ UNCHANGED queued
  /\ UNCHANGED <<ignored, givenUp, received, kid, child_reaped, waitError>>

(* SIGTERM ends a child that lives, before or after it has sent.  It       *)
(* cannot be refused while the pid is the program's own child's, whose     *)
(* user it shares; later another process may have the pid.                 *)
CleanupKills ==
  /\ Goes("kill", "reap")
  /\ IF child \in Alive THEN ChildEnds("signal") ELSE UNCHANGED kid
  /\ \/ UNCHANGED <<result, faults>>
     \/ child = "vanished" /\ result' = "EXIT_FAILURE" /\ Fault
  /\ UNCHANGED <<ignored, givenUp, queue, queued, received, child_reaped,
                 waitError>>

(* A faulty variant of CleanupReaps: the child is not waited for. *)
CleanupReapsNot ==
  /\ Goes("reap", "exited")
  /\ UNCHANGED <<ignored, givenUp, result, queue, queued, received, kid,
                 child_reaped, waitError, faults>>

CleanupReaps ==
  /\ child \in {"zombie", "vanished"} /\ Goes("reap", "exited")
  /\ child' = IF child = "zombie" THEN "gone" ELSE child
  /\ UNCHANGED <<ignored, givenUp, result, queue, queued, received, status,
                 child_reaped, waitError, faults>>

(* waitpid fails, and not with ECHILD: the child is given up. *)
CleanupReapsFails ==
  /\ Goes("reap", "exited") /\ givenUp' = TRUE
  /\ result' = "EXIT_FAILURE" /\ Fault
  /\ UNCHANGED <<ignored, queue, queued, received, kid, child_reaped,
                 waitError>>

Exited == main = "exited" /\ UNCHANGED vars

MainStep ==
  \/ MakeQueue \/ Fork \/ Wait
  \/ Count("stat", 1, "msgrcv") \/ Receive \/ Count("stat_after", 0, "cleanup")
  \/ CleanupRemoves \/ CleanupKills \/ CleanupReaps

ChildStep == ChildSends \/ ChildExits

Next == MainStep \/ WaitFails \/ CleanupReapsFails \/ ChildStep \/ Exited
Spec == Init /\ [][Next]_vars

(* Both processes run. *)
FairSpec == Spec /\ WF_vars(MainStep) /\ WF_vars(ChildStep)

-----------------------------------------------------------------------------
(* Properties. *)

TypeOK ==
  /\ ignored \in BOOLEAN /\ givenUp \in BOOLEAN
  /\ main \in {"msgget", "fork", "wait", "stat", "msgrcv", "stat_after",
               "cleanup", "kill", "reap", "exited"}
  /\ result \in {"EXIT_SUCCESS", "EXIT_FAILURE"}
  /\ queue \in {"none", "exists", "removed", "left"}
  /\ queued \in 0 .. 1 /\ received \in BOOLEAN
  /\ child \in Alive \cup {"none", "zombie", "vanished", "gone"}
  /\ status \in {"none", "0", "120", "signal"} /\ child_reaped \in BOOLEAN
  /\ waitError \in {"none", "ECHILD", "other"} /\ faults \in Nat

(* SIGTERM goes to a process that is still this child, never to a pid the  *)
(* kernel has given away; lines 58-60 are there for it.                    *)
KillHitsChild ==
  main = "kill" =>
    child \in Alive \cup {"zombie"} \/ (ignored /\ waitError = "other")

(* How this program fulfils ChildExchange. *)
(* The program returns; the queue, which would outlive it, is removed, or  *)
(* failure reported, on every path; the child is reaped, unless the last   *)
(* wait for it failed, and success means that the message was received     *)
(* from a child that ended well (55-127).                                  *)
ExchangeState == [
  child |-> CASE child \in Alive -> "alive" [] child = "vanished" -> "gone"
              [] OTHER -> child,
  status |-> CASE status = "none" -> "none" [] status = "0" -> "well"
               [] OTHER -> "ill",
  exchanged |-> received,
  held |-> queue = "exists",
  givenUp |-> givenUp,
  faulty |-> ignored \/ faults > 0,
  verdict |-> IF main = "exited" THEN result ELSE "running"]
=============================================================================
