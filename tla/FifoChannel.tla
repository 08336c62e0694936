----------------------------- MODULE FifoChannel -----------------------------
(***************************************************************************)
(* experiments/25_fifo/main.c: the program makes a directory and a FIFO in *)
(* it, opens the FIFO for reading without waiting for a writer, forks a    *)
(* child that writes the message, reaps the child, and only then polls and *)
(* reads.  Its cleanup reaps a child it still has and removes the FIFO and *)
(* the directory.                                                          *)
(***************************************************************************)
EXTENDS Integers

CONSTANT MESSAGE   \* bytes of the message (27 in the code)

(* At most PIPE_BUF, so that the child's one write is all or nothing. *)
MessageAssumption == MESSAGE \in Nat \ {0}

VARIABLES ignored,     \* was the program started with SIGCHLD ignored?
          main, result,
          directory, fifo,    \* does the path exist?
          readers, writers,   \* who has an end of the FIFO open
          data, used,         \* bytes in the FIFO, bytes received
          child, status,
          child_reaped,
          waitError,          \* history: how the first waitpid failed
          givenUp,            \* history: did the last waitpid fail?
          faults              \* history: calls that failed

paths   == <<directory, fifo>>
channel == <<readers, writers, data>>
kid     == <<child, status>>
vars    == <<ignored, givenUp, main, result, paths, channel, used, kid,
             child_reaped, waitError, faults>>

Init ==
  /\ ignored \in BOOLEAN /\ givenUp = FALSE
  /\ main = "mkdtemp" /\ result = "EXIT_FAILURE"
  /\ directory = FALSE /\ fifo = FALSE
  /\ readers = {} /\ writers = {} /\ data = 0 /\ used = 0
  /\ child = "none" /\ status = "none" /\ child_reaped = FALSE
  /\ waitError = "none" /\ faults = 0

Goes(from, to) == main = from /\ main' = to
Fault == faults' = faults + 1
Fails(from) == Goes(from, "cleanup") /\ Fault

Alive == {"close", "open", "write", "exit"}

-----------------------------------------------------------------------------
(* The program, up to the fork. *)

MakeDirectory ==
  /\ \/ Goes("mkdtemp", "mkfifo") /\ directory' = TRUE /\ UNCHANGED faults
     \/ Fails("mkdtemp") /\ UNCHANGED directory
  /\ UNCHANGED <<ignored, givenUp, result, fifo, channel, used, kid,
                 child_reaped, waitError>>

MakeFifo ==
  /\ \/ Goes("mkfifo", "lstat") /\ fifo' = TRUE /\ UNCHANGED faults
     \/ Fails("mkfifo") /\ UNCHANGED fifo
  /\ UNCHANGED <<ignored, givenUp, result, directory, channel, used, kid,
                 child_reaped, waitError>>

(* lstat and the test of the file's type. *)
VerifyFifo ==
  /\ \/ Goes("lstat", "open") /\ UNCHANGED faults
     \/ Fails("lstat")
  /\ UNCHANGED <<ignored, givenUp, result, paths, channel, used, kid,
                 child_reaped, waitError>>

(* O_NONBLOCK: the open does not wait for a writer. *)
OpenReader ==
  /\ Goes("open", "fork") /\ readers' = {"parent"}
  /\ UNCHANGED <<ignored, givenUp, result, paths, writers, data, used, kid,
                 child_reaped, waitError, faults>>

OpenFails ==
  /\ Fails("open")
  /\ UNCHANGED <<ignored, givenUp, result, paths, channel, used, kid,
                 child_reaped, waitError>>

Fork ==
  /\ \/ /\ Goes("fork", "wait") /\ child' = "close" /\ UNCHANGED faults
        /\ readers' = readers \cup {"child"}
     \/ Fails("fork") /\ UNCHANGED <<child, readers>>
  /\ UNCHANGED <<ignored, givenUp, result, paths, writers, data, used,
                 status, child_reaped, waitError>>

-----------------------------------------------------------------------------
(* The program, from waitpid to the comparison. *)

(* A faulty variant of Wait: a child found gone is not noted. *)
WaitForgets ==
  /\ \/ /\ child = "zombie" /\ child' = "gone" /\ child_reaped' = TRUE
        /\ Goes("wait", IF status = "0" THEN "poll" ELSE "cleanup")
        /\ UNCHANGED <<waitError, faults>>
     \/ /\ child = "vanished" /\ Fails("wait") /\ waitError' = "ECHILD"
        /\ UNCHANGED <<child, child_reaped>>
  /\ UNCHANGED <<ignored, givenUp, result, paths, channel, used, status>>

(* A faulty variant of Wait: the status is not looked at. *)
WaitUnchecked ==
  /\ child \in {"zombie", "vanished"} /\ Goes("wait", "poll")
  /\ child' = IF child = "zombie" THEN "gone" ELSE child
  /\ child_reaped' = TRUE
  /\ UNCHANGED <<ignored, givenUp, result, paths, channel, used, status,
                 waitError, faults>>

(* wait_for_child, and the test of the status.  Where the kernel has       *)
(* reaped the child the pid is no longer the program's to signal.          *)
Wait ==
  /\ child_reaped' = TRUE
  /\ \/ /\ child = "zombie" /\ child' = "gone"
        /\ Goes("wait", IF status = "0" THEN "poll" ELSE "cleanup")
        /\ UNCHANGED <<waitError, faults>>
     \/ /\ child = "vanished" /\ Fails("wait") /\ waitError' = "ECHILD"
        /\ UNCHANGED child
  /\ UNCHANGED <<ignored, givenUp, result, paths, channel, used, status>>

WaitFails ==
  /\ Fails("wait") /\ waitError' = "other"
  /\ UNCHANGED <<ignored, givenUp, result, paths, channel, used, kid,
                 child_reaped>>

(* A round of read_exact_with_poll, or the comparison after the last one.  *)
(* poll waits for data or for the last writer to be gone; then read takes  *)
(* n bytes, or returns 0, which is EPIPE.                                  *)
Receive ==
  /\ main = "poll"
  /\ \/ \E n \in 1 .. MESSAGE - used :
          /\ n <= data
          /\ data' = data - n /\ used' = used + n
          /\ UNCHANGED <<main, result>>
     \/ /\ used < MESSAGE /\ data = 0 /\ writers = {}
        /\ main' = "cleanup" /\ UNCHANGED <<data, used, result>>
     \/ /\ used = MESSAGE
        /\ main' = "cleanup" /\ result' = "EXIT_SUCCESS"
        /\ UNCHANGED <<data, used>>
  /\ UNCHANGED <<ignored, givenUp, paths, readers, writers, kid,
                 child_reaped, waitError, faults>>

(* poll or read fails, or the three seconds are over with nothing there. *)
ReceiveFails ==
  /\ used < MESSAGE /\ Fails("poll")
  /\ UNCHANGED <<ignored, givenUp, result, paths, channel, used, kid,
                 child_reaped, waitError>>

-----------------------------------------------------------------------------
(* The child. *)

ChildEnds(code) ==
  /\ child' = IF ignored THEN "vanished" ELSE "zombie"
  /\ status' = code
  /\ readers' = readers \ {"child"} /\ writers' = {}

ChildCloses ==
  /\ child = "close" /\ child' = "open" /\ readers' = readers \ {"child"}
  /\ UNCHANGED <<ignored, givenUp, main, result, paths, writers, data, used,
                 status, child_reaped, waitError, faults>>

(* O_NONBLOCK: without a reader the open fails. *)
ChildOpens ==
  /\ child = "open"
  /\ \/ /\ readers # {} /\ child' = "write" /\ writers' = {"child"}
        /\ UNCHANGED <<status, readers, faults>>
     \/ ChildEnds("120") /\ Fault
  /\ UNCHANGED <<ignored, givenUp, main, result, paths, data, used,
                 child_reaped, waitError>>

(* One write: all of the message, or an error; SIGPIPE without a reader. *)
ChildWrites ==
  /\ child = "write"
  /\ \/ /\ readers # {} /\ child' = "exit" /\ data' = data + MESSAGE
        /\ UNCHANGED <<status, readers, writers, faults>>
     \/ readers = {} /\ ChildEnds("signal") /\ UNCHANGED <<data, faults>>
     \/ ChildEnds("121") /\ Fault /\ UNCHANGED data
  /\ UNCHANGED <<ignored, givenUp, main, result, paths, used, child_reaped,
                 waitError>>

(* close may report an error, and the child then fails. *)
ChildExits ==
  /\ child = "exit"
  /\ \/ ChildEnds("0") /\ UNCHANGED faults
     \/ ChildEnds("121") /\ Fault
  /\ UNCHANGED <<ignored, givenUp, main, result, paths, data, used,
                 child_reaped, waitError>>

-----------------------------------------------------------------------------
(* The cleanup. *)

(* SIGTERM kills a child that lives, at whatever point it is.  It cannot   *)
(* be refused while the pid is the program's own child's, whose user it    *)
(* shares; later another process may have the pid.                         *)
CleanupKill ==
  /\ main = "cleanup" /\ child # "none" /\ ~child_reaped
  /\ main' = "reap"
  /\ IF child \in Alive THEN ChildEnds("signal")
                        ELSE UNCHANGED <<kid, readers, writers>>
  /\ \/ UNCHANGED <<result, faults>>
     \/ child = "vanished" /\ result' = "EXIT_FAILURE" /\ Fault
  /\ UNCHANGED <<ignored, givenUp, paths, data, used, child_reaped, waitError>>

CleanupReap ==
  /\ child \in {"zombie", "vanished"} /\ Goes("reap", "remove")
  /\ child' = IF child = "zombie" THEN "gone" ELSE child
  /\ UNCHANGED <<ignored, givenUp, result, paths, channel, used, status,
                 child_reaped, waitError, faults>>

(* waitpid fails, and not with ECHILD: the child is given up. *)
CleanupReapFails ==
  /\ Goes("reap", "remove") /\ givenUp' = TRUE
  /\ result' = "EXIT_FAILURE" /\ Fault
  /\ UNCHANGED <<ignored, paths, channel, used, kid, child_reaped, waitError>>

CleanupNoChild ==
  /\ child = "none" \/ child_reaped
  /\ Goes("cleanup", "remove")
  /\ UNCHANGED <<ignored, givenUp, result, paths, channel, used, kid,
                 child_reaped, waitError, faults>>

(* A faulty variant of CleanupRemove: the directory before the FIFO. *)
CleanupRemoveReversed ==
  /\ Goes("remove", "exited")
  /\ readers' = {} /\ data' = 0
  /\ directory' = (directory /\ fifo) /\ fifo' = FALSE
  /\ result' = IF directory' THEN "EXIT_FAILURE" ELSE result
  /\ UNCHANGED <<ignored, givenUp, writers, used, kid, child_reaped,
                 waitError, faults>>

(* close, unlink, rmdir; what fails leaves a path, and rmdir fails when    *)
(* the FIFO is left.                                                       *)
CleanupRemove ==
  /\ Goes("remove", "exited")
  /\ readers' = {} /\ data' = 0
  /\ \/ /\ directory' = FALSE /\ fifo' = FALSE
        /\ UNCHANGED <<result, faults>>
     \/ /\ directory \/ readers # {}
        /\ fifo' \in {fifo, FALSE}
        /\ directory' \in {directory, FALSE} /\ (fifo' => directory')
        /\ result' = "EXIT_FAILURE" /\ Fault
  /\ UNCHANGED <<ignored, givenUp, writers, used, kid, child_reaped,
                 waitError>>

Exited == main = "exited" /\ UNCHANGED vars

MainStep ==
  \/ MakeDirectory \/ MakeFifo \/ VerifyFifo \/ OpenReader \/ Fork \/ Wait
  \/ Receive \/ CleanupKill \/ CleanupReap \/ CleanupNoChild \/ CleanupRemove
ChildStep == ChildCloses \/ ChildOpens \/ ChildWrites \/ ChildExits

Next ==
  \/ MainStep \/ OpenFails \/ WaitFails \/ ReceiveFails \/ CleanupReapFails
  \/ ChildStep \/ Exited
Spec == Init /\ [][Next]_vars

(* Both processes run; no wait is ended by an error or by the timeout. *)
FairSpec == Spec /\ WF_vars(MainStep) /\ WF_vars(ChildStep)

-----------------------------------------------------------------------------
(* Properties. *)

TypeOK ==
  /\ ignored \in BOOLEAN /\ givenUp \in BOOLEAN
  /\ main \in {"mkdtemp", "mkfifo", "lstat", "open", "fork", "wait", "poll",
               "cleanup", "reap", "remove", "exited"}
  /\ result \in {"EXIT_SUCCESS", "EXIT_FAILURE"}
  /\ directory \in BOOLEAN /\ fifo \in BOOLEAN
  /\ readers \in SUBSET {"parent", "child"} /\ writers \in SUBSET {"child"}
  /\ data \in 0 .. MESSAGE /\ used \in 0 .. MESSAGE
  /\ child \in Alive \cup {"none", "zombie", "vanished", "gone"}
  /\ status \in {"none", "0", "120", "121", "signal"}
  /\ child_reaped \in BOOLEAN
  /\ waitError \in {"none", "ECHILD", "other"} /\ faults \in Nat

(* When the program polls, all that is missing is in the FIFO already:     *)
(* poll never waits and the timeout cannot come (comment, lines 125-126).  *)
PollNeverWaits == main = "poll" => data + used = MESSAGE

(* SIGTERM goes to a process that is still this child, never to a pid the  *)
(* kernel has given away; lines 130-132 are there for it.                  *)
KillHitsChild ==
  main = "cleanup" /\ child # "none" /\ ~child_reaped =>
    child \in Alive \cup {"zombie"} \/ (ignored /\ waitError = "other")

(* How this program fulfils ChildExchange.  A path may only be left where  *)
(* removing it failed, and the FIFO never without its directory.           *)
(* The program returns: neither the opens nor poll wait for a peer that    *)
(* does not come.  Then the child is reaped, unless the last wait for it   *)
(* failed, a path is left only where the program says so, and success      *)
(* means that the whole message arrived from a child that ended well       *)
(* (lines 100-175).                                                        *)
ExchangeState == [
  child |-> CASE child \in {"none", "zombie"} -> child
              [] child \in {"vanished", "gone"} -> "gone" [] OTHER -> "alive",
  status |-> CASE status = "none" -> "none" [] status = "0" -> "well"
               [] OTHER -> "ill",
  exchanged |-> used = MESSAGE,
  held |-> \/ readers # {} \/ (fifo /\ ~directory)
           \/ directory /\ (result = "EXIT_SUCCESS" \/ faults = 0),
  givenUp |-> givenUp,
  faulty |-> ignored \/ faults > 0,
  verdict |-> IF main = "exited" THEN result ELSE "running"]
=============================================================================
