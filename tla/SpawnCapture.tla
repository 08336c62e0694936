---------------------------- MODULE SpawnCapture ----------------------------
(***************************************************************************)
(* experiments/05_process_control/main.c: the program spawns printf with   *)
(* its standard output redirected into a close-on-exec pipe, reads the     *)
(* pipe up to the end of file, reaps the child and compares.               *)
(*                                                                         *)
(* Descriptors are numbers: the program may be started with some of 0, 1,  *)
(* 2 closed, and then the pipe gets these numbers.  It may also be started *)
(* with SIGCHLD ignored, and then the kernel reaps the child by itself and *)
(* waitpid fails with ECHILD.                                              *)
(***************************************************************************)
EXTENDS Integers, FiniteSetsExt

CONSTANTS OUTPUT,          \* bytes the child prints (21 in the code)
          CAPTURE,         \* bytes the program can keep (127 in the code)
          PIPE_CAPACITY    \* bytes a pipe holds

OutputAssumption ==
  /\ OUTPUT \in Nat \ {0} /\ CAPTURE \in Nat /\ PIPE_CAPACITY \in Nat
  /\ OUTPUT < CAPTURE /\ OUTPUT <= PIPE_CAPACITY

VARIABLES ignored,    \* was the program started with SIGCHLD ignored?
          table,      \* descriptor -> what it refers to, in the program
          childTable, \* the same for the child, once it runs printf
          pipefd,     \* end -> its number, or -1
          actions_ready, \* does the object of file actions exist?
          main, result,
          child,      \* "none", "running", "zombie", "reaped", "vanished"
          status,     \* of the child
          printed, pipe, used,   \* bytes written, in the pipe, captured
          givenUp,    \* history: did the last wait for the child fail?
          faults      \* history: how many calls failed

kid  == <<childTable, child, status, printed>>
vars == <<ignored, givenUp, table, pipefd, actions_ready, main, result, kid,
          pipe, used, faults>>

Numbers == 0 .. 4
STDOUT_FILENO == 1

Init ==
  /\ ignored \in BOOLEAN /\ givenUp = FALSE
  /\ \E S \in SUBSET {0, 1, 2} :
       table = [f \in Numbers |-> IF f \in S THEN "other" ELSE "closed"]
  /\ childTable = [f \in Numbers |-> "closed"]
  /\ pipefd = [e \in {"pr", "pw"} |-> -1]
  /\ actions_ready = FALSE
  /\ main = "pipe" /\ result = "EXIT_FAILURE"
  /\ child = "none" /\ status = "none"
  /\ printed = 0 /\ pipe = 0 /\ used = 0 /\ faults = 0

Goes(from, to) == main = from /\ main' = to

(* A call fails: the code jumps to its cleanup label. *)
Fails(from) == Goes(from, "cleanup") /\ faults' = faults + 1

-----------------------------------------------------------------------------
(* make_cloexec_pipe: the two lowest numbers, the read end first. *)
MakePipe ==
  /\ LET closed == {f \in Numbers : table[f] = "closed"}
         r == Min(closed)
         w == Min(closed \ {r})
     IN  \/ /\ Goes("pipe", "actions")
            /\ table' = [table EXCEPT ![r] = "pr", ![w] = "pw"]
            /\ pipefd' = [pr |-> r, pw |-> w]
            /\ UNCHANGED faults
         \/ Fails("pipe") /\ UNCHANGED <<table, pipefd>>
  /\ UNCHANGED <<ignored, givenUp, actions_ready, result, kid, pipe, used>>

(* The actions object is made and filled, and filling it may fail, too. *)
PrepareActions ==
  /\ \/ Goes("actions", "spawn") /\ actions_ready' = TRUE /\ UNCHANGED faults
     \/ Fails("actions") /\ actions_ready' \in BOOLEAN
  /\ UNCHANGED <<ignored, givenUp, table, pipefd, result, kid, pipe, used>>

(* A faulty variant of Redirected: dup2 comes before the read end's close. *)
RedirectedDupFirst(t) ==
  LET dupped == [t EXCEPT ![STDOUT_FILENO] = t[pipefd["pw"]]]
      closed == [dupped EXCEPT ![pipefd["pr"]] = "closed"]
  IN  IF pipefd["pw"] # STDOUT_FILENO
      THEN [closed EXCEPT ![pipefd["pw"]] = "closed"] ELSE closed

(* add_file_actions, carried out in the child in the order they were added *)
(* there; dup2 clears close-on-exec, even onto the same number.            *)
Redirected(t) ==
  LET closed == [t EXCEPT ![pipefd["pr"]] = "closed"]
      dupped == [closed EXCEPT ![STDOUT_FILENO] = closed[pipefd["pw"]]]
  IN  IF pipefd["pw"] # STDOUT_FILENO
      THEN [dupped EXCEPT ![pipefd["pw"]] = "closed"] ELSE dupped

(* execve closes what is close-on-exec: the ends that dup2 did not renew. *)
AfterExec(t) ==
  [f \in Numbers |-> IF f # STDOUT_FILENO /\ t[f] \in {"pr", "pw"}
                     THEN "closed" ELSE t[f]]

Spawn ==
  /\ \/ /\ Goes("spawn", "destroy")
        /\ childTable' = AfterExec(Redirected(table))
        /\ child' = "running"
        /\ UNCHANGED faults
     \/ Fails("spawn") /\ UNCHANGED <<childTable, child>>
  /\ UNCHANGED <<ignored, givenUp, actions_ready, table, pipefd, result,
                 status, printed, pipe, used>>

DestroyActions ==
  /\ \/ Goes("destroy", "close") /\ UNCHANGED faults
     \/ Fails("destroy")
  /\ actions_ready' = FALSE
  /\ UNCHANGED <<ignored, givenUp, table, pipefd, result, kid, pipe, used>>

(* A faulty variant of CloseWriter: the write end stays open. *)
CloseWriterNot ==
  /\ Goes("close", "read")
  /\ UNCHANGED <<ignored, givenUp, actions_ready, table, pipefd, result, kid,
                 pipe, used, faults>>

(* close(2) frees the number even when it reports an error. *)
CloseWriter ==
  /\ \/ Goes("close", "read") /\ UNCHANGED faults
     \/ Fails("close")
  /\ table' = [table EXCEPT ![pipefd["pw"]] = "closed"]
  /\ pipefd' = [pipefd EXCEPT !["pw"] = -1]
  /\ UNCHANGED <<ignored, givenUp, actions_ready, result, kid, pipe, used>>

Open(end) == \E f \in Numbers : table[f] = end \/ childTable[f] = end

ReadOutput ==
  /\ \/ \E n \in 1 .. CAPTURE - used :
          /\ n <= pipe
          /\ main = "read"
          /\ main' = IF used + n = CAPTURE THEN "wait" ELSE "read"
          /\ used' = used + n /\ pipe' = pipe - n
          /\ UNCHANGED faults
     \/ /\ pipe = 0 /\ ~Open("pw")
        /\ Goes("read", "wait")
        /\ UNCHANGED <<used, pipe, faults>>
  /\ UNCHANGED <<ignored, givenUp, actions_ready, table, pipefd, result, kid>>

ReadFails ==
  /\ Fails("read")
  /\ UNCHANGED <<ignored, givenUp, actions_ready, table, pipefd, result, kid,
                 pipe, used>>

Wait ==
  /\ \/ /\ child = "zombie"
        /\ Goes("wait", "verify")
        /\ child' = "reaped" /\ UNCHANGED faults
     \/ child = "vanished" /\ Fails("wait") /\ UNCHANGED child
  /\ UNCHANGED <<ignored, givenUp, actions_ready, table, pipefd, result,
                 childTable, status, printed, pipe, used>>

WaitFails ==
  /\ Fails("wait")
  /\ UNCHANGED <<ignored, givenUp, actions_ready, table, pipefd, result, kid,
                 pipe, used>>

Verify ==
  /\ Goes("verify", "cleanup")
  /\ result' = IF status = "0" /\ used = OUTPUT
               THEN "EXIT_SUCCESS" ELSE "EXIT_FAILURE"
  /\ UNCHANGED <<ignored, givenUp, actions_ready, table, pipefd, kid, pipe,
                 used, faults>>

(* The actions are destroyed and the ends still open are closed; only then *)
(* is the child waited for.                                                *)
Cleanup ==
  /\ Goes("cleanup", IF child \in {"none", "reaped"}
                     THEN "exited" ELSE "cleanup_wait")
  /\ table' = [f \in Numbers |-> IF f \in {pipefd["pr"], pipefd["pw"]}
                                 THEN "closed" ELSE table[f]]
  /\ pipefd' = [e \in {"pr", "pw"} |-> -1]
  /\ actions_ready' = FALSE
  /\ \/ UNCHANGED <<result, faults>>
     \/ /\ \E e \in {"pr", "pw"} : pipefd[e] # -1
        /\ result' = "EXIT_FAILURE" /\ faults' = faults + 1
  /\ UNCHANGED <<ignored, givenUp, kid, pipe, used>>

CleanupWait ==
  /\ Goes("cleanup_wait", "exited")
  /\ child # "running"
  /\ child' = IF child = "zombie" THEN "reaped" ELSE child
  /\ UNCHANGED <<ignored, givenUp, actions_ready, table, pipefd, result,
                 childTable, status, printed, pipe, used, faults>>

(* Any error but EINTR ends the loop around waitpid: the child is given up. *)
CleanupWaitFails ==
  /\ Goes("cleanup_wait", "exited")
  /\ givenUp' = TRUE /\ faults' = faults + 1
  /\ UNCHANGED <<ignored, actions_ready, table, pipefd, result, kid, pipe,
                 used>>

-----------------------------------------------------------------------------
(* The child: printf, then exit; its descriptors are closed with it. *)

ChildEnds(code) ==
  /\ child' = IF ignored THEN "vanished" ELSE "zombie"
  /\ status' = code
  /\ childTable' = [f \in Numbers |-> "closed"]

PrintOutput ==
  /\ child = "running"
  /\ \/ \E n \in 1 .. OUTPUT - printed :
          /\ Open("pr") /\ pipe + n <= PIPE_CAPACITY
          /\ printed' = printed + n /\ pipe' = pipe + n
          /\ UNCHANGED <<childTable, child, status, faults>>
     \/ /\ printed = OUTPUT
        /\ ChildEnds("0") /\ UNCHANGED <<printed, pipe, faults>>
     \/ /\ printed < OUTPUT /\ ~Open("pr")
        /\ ChildEnds("signal") /\ UNCHANGED <<printed, pipe, faults>>
     \/ ChildEnds("1") /\ faults' = faults + 1 /\ UNCHANGED <<printed, pipe>>
  /\ UNCHANGED <<ignored, givenUp, actions_ready, table, pipefd, main, result,
                 used>>

Exited == main = "exited" /\ UNCHANGED vars

MainStep ==
  \/ MakePipe \/ PrepareActions \/ Spawn \/ DestroyActions \/ CloseWriter
  \/ ReadOutput \/ Wait \/ Verify \/ Cleanup \/ CleanupWait

Next ==
  \/ MainStep \/ ReadFails \/ WaitFails \/ CleanupWaitFails \/ PrintOutput
  \/ Exited
Spec == Init /\ [][Next]_vars

(* Both processes run; a read that would wait is not saved by an error.    *)
FairSpec == Spec /\ WF_vars(MainStep) /\ WF_vars(PrintOutput)

-----------------------------------------------------------------------------
(* Properties. *)

TypeOK ==
  /\ ignored \in BOOLEAN /\ givenUp \in BOOLEAN
  /\ table \in [Numbers -> {"closed", "other", "pr", "pw"}]
  /\ childTable \in [Numbers -> {"closed", "other", "pr", "pw"}]
  /\ pipefd \in [{"pr", "pw"} -> Numbers \cup {-1}]
  /\ actions_ready \in BOOLEAN
  /\ main \in {"pipe", "actions", "spawn", "destroy", "close", "read", "wait",
               "verify", "cleanup", "cleanup_wait", "exited"}
  /\ result \in {"EXIT_SUCCESS", "EXIT_FAILURE"}
  /\ child \in {"none", "running", "zombie", "reaped", "vanished"}
  /\ status \in {"none", "0", "1", "signal"}
  /\ printed \in 0 .. OUTPUT /\ pipe \in 0 .. PIPE_CAPACITY
  /\ used \in 0 .. CAPTURE
  /\ faults \in Nat

(* Whatever numbers the pipe got, the child's standard output is the write *)
(* end, and it holds no other end of the pipe (lines 34-44, 74-80).        *)
StdoutIsPipe ==
  child = "running" =>
    \A f \in Numbers :
      /\ childTable[f] # "pr"
      /\ childTable[f] = "pw" <=> f = STDOUT_FILENO

(* How this program fulfils ChildExchange. *)
(* The program returns: it never keeps a write end open that would hide    *)
(* the end of file, nor waits for a child that waits for it.  Then both    *)
(* ends are closed and the child is reaped, unless the last wait for it    *)
(* failed, and success means that the whole output of a successful child   *)
(* was captured (lines 89-156).                                            *)
ExchangeState == [
  child |-> CASE child = "running" -> "alive"
              [] child \in {"reaped", "vanished"} -> "gone" [] OTHER -> child,
  status |-> CASE status = "none" -> "none" [] status = "0" -> "well"
               [] OTHER -> "ill",
  exchanged |-> used = OUTPUT,
  held |-> actions_ready \/ \E f \in Numbers : table[f] \in {"pr", "pw"},
  givenUp |-> givenUp,
  faulty |-> ignored \/ faults > 0,
  verdict |-> IF main = "exited" THEN result ELSE "running"]
=============================================================================
