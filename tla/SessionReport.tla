--------------------------- MODULE SessionReport ---------------------------
(***************************************************************************)
(* experiments/22_process_groups/main.c: a forked child makes itself the   *)
(* leader of a new session and writes what it then observes to a pipe; the *)
(* parent reads the report, reaps the child and compares.  On a failure    *)
(* the parent closes its ends of the pipe first and then reaps the child.  *)
(***************************************************************************)
EXTENDS Integers

CONSTANT REPORT   \* bytes of struct session_report; fewer than a pipe holds

ReportAssumption == REPORT \in Nat \ {0}

VARIABLES ignored,  \* was the program started with SIGCHLD ignored?
          parent, result,
          ends,     \* process -> the ends of the pipe it has open
          reaped,   \* the parent's flag of this name
          child,    \* what the child does next, or how it is gone
          status,   \* how the child ended
          ids,      \* the child's process group and session: its own or not
          report,   \* the child's report
          written, pipe, got,   \* bytes of the report
          givenUp,  \* history: did the last wait for the child fail?
          faults    \* history: how many calls failed

kid  == <<child, status, ids, report, written>>
vars == <<ignored, givenUp, parent, result, ends, reaped, kid, pipe, got,
          faults>>

Init ==
  /\ ignored \in BOOLEAN /\ givenUp = FALSE
  /\ parent = "pipe" /\ result = "EXIT_FAILURE"
  /\ ends = [p \in {"parent", "child"} |-> {}]
  /\ reaped = FALSE
  /\ child = "none" /\ status = "none"
  /\ ids = "inherited"
  /\ report = [error |-> FALSE, relation_ok |-> FALSE]
  /\ written = 0 /\ pipe = 0 /\ got = 0 /\ faults = 0

Goes(from, to) == parent = from /\ parent' = to
Fault == faults' = faults + 1
Fails(from) == Goes(from, "cleanup") /\ Fault

Open(end) == \E p \in DOMAIN ends : end \in ends[p]
Close(p, end) == ends' = [ends EXCEPT ![p] = @ \ {end}]

-----------------------------------------------------------------------------
(* The parent. *)

MakePipe ==
  /\ \/ /\ Goes("pipe", "fork") /\ UNCHANGED faults
        /\ ends' = [ends EXCEPT !["parent"] = {"read", "write"}]
     \/ Fails("pipe") /\ UNCHANGED ends
  /\ UNCHANGED <<ignored, givenUp, result, reaped, kid, pipe, got>>

Fork ==
  /\ \/ /\ Goes("fork", "close_write") /\ UNCHANGED faults
        /\ child' = "close_read"
        /\ ends' = [ends EXCEPT !["child"] = ends["parent"]]
     \/ Fails("fork") /\ UNCHANGED <<child, ends>>
  /\ UNCHANGED <<ignored, givenUp, result, reaped, status, ids, report,
                 written, pipe, got>>

(* A faulty variant of CloseEnd: neither end is closed. *)
CloseEndNot(end, from, to) ==
  /\ Goes(from, to)
  /\ UNCHANGED <<ignored, givenUp, result, ends, reaped, kid, pipe, got,
                 faults>>

(* close frees the descriptor even when it reports an error. *)
CloseEnd(end, from, to) ==
  /\ \/ Goes(from, to) /\ UNCHANGED faults
     \/ Fails(from)
  /\ Close("parent", end)
  /\ UNCHANGED <<ignored, givenUp, result, reaped, kid, pipe, got>>

(* read_all: n bytes, or the end of the file, which is EPIPE; or an error. *)
ReadReport ==
  /\ \/ \E n \in 1 .. REPORT - got :
          /\ n <= pipe /\ parent = "read"
          /\ got' = got + n /\ pipe' = pipe - n
          /\ parent' = IF got' = REPORT THEN "close_read" ELSE "read"
          /\ UNCHANGED faults
     \/ /\ pipe = 0 /\ ~Open("write")
        /\ Goes("read", "cleanup") /\ UNCHANGED <<pipe, got, faults>>
  /\ UNCHANGED <<ignored, givenUp, result, ends, reaped, kid>>

ReadFails ==
  /\ Fails("read")
  /\ UNCHANGED <<ignored, givenUp, result, ends, reaped, kid, pipe, got>>

Wait ==
  /\ \/ /\ child = "zombie" /\ Goes("wait", "verify")
        /\ child' = "gone" /\ reaped' = TRUE /\ UNCHANGED faults
     \/ child = "vanished" /\ Fails("wait") /\ UNCHANGED <<child, reaped>>
  /\ UNCHANGED <<ignored, givenUp, result, ends, status, ids, report,
                 written, pipe, got>>

WaitFails ==
  /\ Fails("wait")
  /\ UNCHANGED <<ignored, givenUp, result, ends, reaped, kid, pipe, got>>

Verify ==
  /\ Goes("verify", "cleanup")
  /\ result' = IF ~report.error /\ report.relation_ok /\ status = "0"
               THEN "EXIT_SUCCESS" ELSE "EXIT_FAILURE"
  /\ UNCHANGED <<ignored, givenUp, ends, reaped, kid, pipe, got, faults>>

CleanupCloses ==
  /\ Goes("cleanup", IF child # "none" /\ ~reaped THEN "cleanup_wait"
                                                  ELSE "exited")
  /\ ends' = [ends EXCEPT !["parent"] = {}]
  /\ \/ UNCHANGED <<result, faults>>
     \/ ends["parent"] # {} /\ result' = "EXIT_FAILURE" /\ Fault
  /\ UNCHANGED <<ignored, givenUp, reaped, kid, pipe, got>>

CleanupWait ==
  /\ Goes("cleanup_wait", "exited")
  /\ \/ child = "zombie" /\ child' = "gone" /\ UNCHANGED result
     \/ child = "vanished" /\ result' = "EXIT_FAILURE" /\ UNCHANGED child
  /\ UNCHANGED <<ignored, givenUp, ends, reaped, status, ids, report,
                 written, pipe, got, faults>>

(* It fails for another reason than that the child has vanished; this is   *)
(* given up, alive or not.                                                 *)
CleanupWaitFails ==
  /\ Goes("cleanup_wait", "exited") /\ givenUp' = TRUE
  /\ result' = "EXIT_FAILURE" /\ Fault
  /\ UNCHANGED <<ignored, ends, reaped, kid, pipe, got>>

-----------------------------------------------------------------------------
(* The child. *)

ChildGoes(from, to) == child = from /\ child' = to

(* Where SIGCHLD is ignored the kernel reaps it, and waitpid says ECHILD. *)
Exit(code) ==
  /\ child' = IF ignored THEN "vanished" ELSE "zombie"
  /\ status' = code
  /\ ends' = [ends EXCEPT !["child"] = {}]

CloseReadEnd ==
  /\ ChildGoes("close_read", "setsid") /\ Close("child", "read")
  /\ UNCHANGED <<ignored, givenUp, parent, result, reaped, status, ids,
                 report, written, pipe, got, faults>>

(* setsid, getpgid and getsid; one that fails is noted in the report. *)
MakeSession ==
  /\ ChildGoes("setsid", "write")
  /\ \/ /\ ids' = "own" /\ UNCHANGED faults
        /\ report' = [report EXCEPT !.relation_ok = TRUE]
     \/ /\ ids' \in {"inherited", "own"} /\ Fault
        /\ report' = [report EXCEPT !.error = TRUE]
  /\ UNCHANGED <<ignored, givenUp, parent, result, ends, reaped, status,
                 written, pipe, got>>

(* write_all, without whose reader the child is killed by SIGPIPE. *)
WriteReport ==
  /\ child = "write"
  /\ \/ \E n \in 1 .. REPORT - written :
          /\ Open("read")
          /\ written' = written + n /\ pipe' = pipe + n
          /\ child' = IF written' = REPORT THEN "exit" ELSE "write"
          /\ UNCHANGED <<status, ends, faults>>
     \/ ~Open("read") /\ Exit("signal") /\ UNCHANGED <<written, pipe, faults>>
     \/ Exit("3") /\ Fault /\ UNCHANGED <<written, pipe>>
  /\ UNCHANGED <<ignored, givenUp, parent, result, reaped, ids, report, got>>

ChildExits ==
  /\ child = "exit"
  /\ Exit(IF ~report.error /\ report.relation_ok THEN "0" ELSE "2")
  /\ UNCHANGED <<ignored, givenUp, parent, result, reaped, ids, report,
                 written, pipe, got, faults>>

Exited == parent = "exited" /\ UNCHANGED vars

ParentStep ==
  \/ MakePipe \/ Fork
  \/ CloseEnd("write", "close_write", "read")
  \/ ReadReport
  \/ CloseEnd("read", "close_read", "wait")
  \/ Wait \/ Verify \/ CleanupCloses \/ CleanupWait
ChildStep == CloseReadEnd \/ MakeSession \/ WriteReport \/ ChildExits

Next ==
  \/ ParentStep \/ ReadFails \/ WaitFails \/ CleanupWaitFails \/ ChildStep
  \/ Exited
Spec == Init /\ [][Next]_vars

(* Both processes run, and a call that can return does; a read that would  *)
(* wait is not saved by an error.                                          *)
FairSpec == Spec /\ WF_vars(ParentStep) /\ WF_vars(ChildStep)

-----------------------------------------------------------------------------
(* Properties. *)

TypeOK ==
  /\ ignored \in BOOLEAN /\ givenUp \in BOOLEAN
  /\ parent \in {"pipe", "fork", "close_write", "read", "close_read", "wait",
                 "verify", "cleanup", "cleanup_wait", "exited"}
  /\ result \in {"EXIT_SUCCESS", "EXIT_FAILURE"}
  /\ ends \in [{"parent", "child"} -> SUBSET {"read", "write"}]
  /\ reaped \in BOOLEAN
  /\ child \in {"none", "close_read", "setsid", "write", "exit", "zombie",
                "vanished", "gone"}
  /\ status \in {"none", "0", "2", "3", "signal"}
  /\ ids \in {"inherited", "own"}
  /\ report \in [error : BOOLEAN, relation_ok : BOOLEAN]
  /\ written \in 0 .. REPORT /\ pipe \in 0 .. REPORT /\ got \in 0 .. REPORT
  /\ faults \in Nat

(* How this program fulfils ChildExchange: what it sets out to receive is  *)
(* the report of a child that leads a session of its own.                  *)
(* The parent returns: when the child dies without a report, the parent    *)
(* sees the end of file, as it holds no write end itself.  Then no end of  *)
(* the pipe is open and the child is reaped, unless the last wait for it   *)
(* failed, and success means that the whole report came from a session     *)
(* leader that ended well (126-180).                                       *)
ExchangeState == [
  child |-> CASE child \in {"none", "zombie"} -> child
              [] child \in {"vanished", "gone"} -> "gone" [] OTHER -> "alive",
  status |-> CASE status = "none" -> "none" [] status = "0" -> "well"
               [] OTHER -> "ill",
  exchanged |-> got = REPORT /\ ids = "own",
  held |-> ends["parent"] # {},
  givenUp |-> givenUp,
  faulty |-> ignored \/ faults > 0,
  verdict |-> IF parent = "exited" THEN result ELSE "running"]
=============================================================================
