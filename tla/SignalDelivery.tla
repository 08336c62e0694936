--------------------------- MODULE SignalDelivery ---------------------------
(***************************************************************************)
(* experiments/23_portable_signals/main.c: the program blocks SIGUSR1,     *)
(* installs a handler, forks a child that sends it SIGUSR1, reaps the      *)
(* child, finds the signal pending and lets sigsuspend deliver it; on      *)
(* every path it then restores the mask and after it the action.  A child  *)
(* whose last wait failed may still be running then.                       *)
(*                                                                         *)
(* The mask and the action it inherits are arbitrary, and other processes  *)
(* send SIGUSR1 too, at any moment and MaxForeign times at most.  Signals  *)
(* of one number do not queue: SIGUSR1 is pending or it is not.            *)
(***************************************************************************)
EXTENDS Integers

CONSTANT MaxForeign   \* how often other processes send SIGUSR1

ForeignAssumption == MaxForeign \in Nat

VARIABLES old,        \* inherited: was SIGUSR1 blocked, what did it do?
          ignored,    \* was the program started with SIGCHLD ignored?
          blocked,    \* is SIGUSR1 in the signal mask?
          action,     \* what SIGUSR1 does: "default", "ignore", "handler"
          pending,    \* is SIGUSR1 pending?
          signal_received,
          main, result,
          mask_changed, action_changed, child_reaped,
          child, status,
          givenUp,    \* history: did the last wait for the child fail?
          foreign,    \* history: signals from other processes
          faults,     \* history: calls that failed
          restoreFailed   \* history: was one of them a restoring call?

disposition == <<blocked, action>>
flags   == <<mask_changed, action_changed, child_reaped>>
kid     == <<child, status>>
history == <<foreign, faults, restoreFailed>>
vars    == <<old, ignored, givenUp, disposition, pending, signal_received,
             main, result, flags, kid, history>>

Init ==
  /\ old \in [blocked : BOOLEAN, action : {"default", "ignore"}]
  /\ ignored \in BOOLEAN
  /\ blocked = old.blocked /\ action = old.action
  /\ pending \in {FALSE, old.blocked}
  /\ signal_received = FALSE
  /\ main = "block" /\ result = "EXIT_FAILURE"
  /\ mask_changed = FALSE /\ action_changed = FALSE /\ child_reaped = FALSE
  /\ child = "none" /\ status = "none"
  /\ givenUp = FALSE
  /\ foreign = 0 /\ faults = 0 /\ restoreFailed = FALSE

-----------------------------------------------------------------------------
(* The kernel. *)

(* A signal that would be ignored at once is dropped, a blocked one kept.  *)
Generated == pending' = (pending \/ blocked \/ action # "ignore")

(* A pending signal that is not blocked is delivered before the program    *)
(* goes on.  In sigsuspend, the handler's return ends the call, and the    *)
(* mask from before the call is back.                                      *)
Deliver ==
  /\ main # "exited" /\ pending /\ ~blocked
  /\ pending' = FALSE
  /\ CASE action = "handler" ->
            /\ signal_received' = TRUE
            /\ main' = IF main = "sigsuspend" THEN "test" ELSE main
            /\ blocked' = (main = "sigsuspend")
            /\ UNCHANGED result
       [] action = "default" ->
            /\ main' = "exited" /\ result' = "killed"
            /\ UNCHANGED <<blocked, signal_received>>
       [] action = "ignore" ->
            UNCHANGED <<main, result, blocked, signal_received>>
  /\ UNCHANGED <<old, ignored, givenUp, action, flags, kid, history>>

Foreign ==
  /\ main # "exited" /\ foreign < MaxForeign
  /\ foreign' = foreign + 1 /\ Generated
  /\ UNCHANGED <<old, ignored, givenUp, disposition, signal_received, main,
                 result, flags, kid, faults, restoreFailed>>

-----------------------------------------------------------------------------
(* The program. *)

Goes(from, to) == main = from /\ main' = to /\ ~(pending /\ ~blocked)
Fault == faults' = faults + 1
Fails(from) == Goes(from, "cleanup") /\ Fault

(* A faulty variant of Block: only another signal is blocked. *)
BlockNothing ==
  /\ Goes("block", "sigaction") /\ mask_changed' = TRUE
  /\ UNCHANGED <<old, ignored, givenUp, disposition, pending,
                 signal_received, result, action_changed, child_reaped, kid,
                 history>>

Block ==
  /\ \/ /\ Goes("block", "sigaction") /\ UNCHANGED faults
        /\ blocked' = TRUE /\ mask_changed' = TRUE
     \/ Fails("block") /\ UNCHANGED <<blocked, mask_changed>>
  /\ UNCHANGED <<old, ignored, givenUp, action, pending, signal_received,
                 result, action_changed, child_reaped, kid, foreign,
                 restoreFailed>>

InstallHandler ==
  /\ \/ /\ Goes("sigaction", "fork") /\ UNCHANGED faults
        /\ action' = "handler" /\ action_changed' = TRUE
     \/ Fails("sigaction") /\ UNCHANGED <<action, action_changed>>
  /\ UNCHANGED <<old, ignored, givenUp, blocked, pending, signal_received,
                 result, mask_changed, child_reaped, kid, foreign,
                 restoreFailed>>

Fork ==
  /\ \/ Goes("fork", "wait") /\ child' = "running" /\ UNCHANGED faults
     \/ Fails("fork") /\ UNCHANGED child
  /\ UNCHANGED <<old, ignored, givenUp, disposition, pending,
                 signal_received, result, flags, status, foreign,
                 restoreFailed>>

(* wait_for_child, and the test of the status. *)
Wait ==
  /\ \/ /\ child = "zombie" /\ Goes("wait", IF status = "0" THEN "sigpending"
                                                           ELSE "cleanup")
        /\ child' = "gone" /\ child_reaped' = TRUE /\ UNCHANGED faults
     \/ child = "vanished" /\ Fails("wait") /\ UNCHANGED <<child, child_reaped>>
  /\ UNCHANGED <<old, ignored, givenUp, disposition, pending,
                 signal_received, result, mask_changed, action_changed,
                 status, foreign, restoreFailed>>

WaitFails ==
  /\ Fails("wait")
  /\ UNCHANGED <<old, ignored, givenUp, disposition, pending,
                 signal_received, result, flags, kid, foreign,
                 restoreFailed>>

(* sigpending: the signal must be pending and must not have run. *)
CheckPending ==
  /\ \/ /\ Goes("sigpending", IF pending /\ ~signal_received THEN "test"
                                                            ELSE "cleanup")
        /\ UNCHANGED faults
     \/ Fails("sigpending")
  /\ UNCHANGED <<old, ignored, givenUp, disposition, pending,
                 signal_received, result, flags, kid, foreign,
                 restoreFailed>>

(* A faulty variant of Suspend: SIGUSR1 is not taken out of wait_mask. *)
SuspendWithOldMask ==
  /\ ~signal_received /\ Goes("test", "sigsuspend")
  /\ blocked' = old.blocked
  /\ UNCHANGED <<old, ignored, givenUp, action, pending, signal_received,
                 result, flags, kid, history>>

(* The mask is changed and the wait begun in one step. *)
Suspend ==
  /\ ~signal_received /\ Goes("test", "sigsuspend")
  /\ blocked' = FALSE
  /\ UNCHANGED <<old, ignored, givenUp, action, pending, signal_received,
                 result, flags, kid, history>>

SuspendFails ==
  /\ ~signal_received /\ Fails("test")
  /\ UNCHANGED <<old, ignored, givenUp, disposition, pending,
                 signal_received, result, flags, kid, foreign,
                 restoreFailed>>

Succeed ==
  /\ signal_received /\ Goes("test", "cleanup")
  /\ result' = "EXIT_SUCCESS"
  /\ UNCHANGED <<old, ignored, givenUp, disposition, pending,
                 signal_received, flags, kid, history>>

(* The cleanup: the child first, if there is one that was not reaped. *)
CleanupWait ==
  /\ Goes("cleanup", "restore_mask")
  /\ child = "none" \/ child_reaped \/ child \in {"zombie", "vanished"}
  /\ child' = IF child = "zombie" THEN "gone" ELSE child
  /\ UNCHANGED <<old, ignored, givenUp, disposition, pending,
                 signal_received, result, flags, status, history>>

(* The cleanup's own wait fails with something else than ECHILD.  This is  *)
(* reported, and the program goes on to restore mask and action.           *)
CleanupWaitFails ==
  /\ Goes("cleanup", "restore_mask") /\ child # "none" /\ ~child_reaped
  /\ result' = "EXIT_FAILURE" /\ Fault /\ givenUp' = TRUE
  /\ UNCHANGED <<old, ignored, disposition, pending, signal_received, flags,
                 kid, foreign, restoreFailed>>

(* A faulty variant of RestoreMask: the action is restored with it. *)
RestoreTogether ==
  /\ Goes("restore_mask", "restore_action")
  /\ blocked' = IF mask_changed THEN old.blocked ELSE blocked
  /\ action' = IF action_changed THEN old.action ELSE action
  /\ UNCHANGED <<old, ignored, givenUp, pending, signal_received, result,
                 flags, kid, history>>

RestoreFails(changed) ==
  changed /\ result' = "EXIT_FAILURE" /\ Fault /\ restoreFailed' = TRUE

RestoreMask ==
  /\ Goes("restore_mask", "restore_action")
  /\ \/ /\ blocked' = IF mask_changed THEN old.blocked ELSE blocked
        /\ UNCHANGED <<result, faults, restoreFailed>>
     \/ RestoreFails(mask_changed) /\ UNCHANGED blocked
  /\ UNCHANGED <<old, ignored, givenUp, action, pending, signal_received,
                 flags, kid, foreign>>

(* A faulty variant of RestoreAction: nothing is restored. *)
RestoreNoAction ==
  /\ Goes("restore_action", "return")
  /\ UNCHANGED <<old, ignored, givenUp, disposition, pending,
                 signal_received, result, flags, kid, history>>

(* An action that ignores discards a pending signal. *)
RestoreAction ==
  /\ Goes("restore_action", "return")
  /\ \/ /\ action' = IF action_changed THEN old.action ELSE action
        /\ pending' = (pending /\ action' # "ignore")
        /\ UNCHANGED <<result, faults, restoreFailed>>
     \/ RestoreFails(action_changed) /\ UNCHANGED <<action, pending>>
  /\ UNCHANGED <<old, ignored, givenUp, blocked, signal_received, flags, kid,
                 foreign>>

(* Until main has returned, a signal meets the restored mask and action.   *)
Return ==
  /\ Goes("return", "exited")
  /\ UNCHANGED <<old, ignored, givenUp, disposition, pending,
                 signal_received, result, flags, kid, history>>

-----------------------------------------------------------------------------

(* The child: kill, which may fail, and exit.  Once the program is gone,   *)
(* the signal would go to the process that has adopted the child.          *)
Kill ==
  /\ child = "running" /\ main # "exited"
  /\ child' = IF ignored THEN "vanished" ELSE "zombie"
  /\ \/ Generated /\ status' = "0" /\ UNCHANGED faults
     \/ status' = "127" /\ Fault /\ UNCHANGED pending
  /\ UNCHANGED <<old, ignored, givenUp, disposition, signal_received, main,
                 result, flags, foreign, restoreFailed>>

Exited == main = "exited" /\ UNCHANGED vars

MainStep ==
  \/ Block \/ InstallHandler \/ Fork \/ Wait \/ CheckPending \/ Suspend
  \/ Succeed \/ CleanupWait \/ RestoreMask \/ RestoreAction \/ Return

Next ==
  \/ MainStep \/ WaitFails \/ SuspendFails \/ CleanupWaitFails
  \/ Kill \/ Deliver \/ Foreign \/ Exited

Spec == Init /\ [][Next]_vars

(* Both processes run and the kernel delivers what it may; no call is made *)
(* to fail, and nobody else has to send a signal.                          *)
FairSpec == Spec /\ WF_vars(MainStep) /\ WF_vars(Kill) /\ WF_vars(Deliver)

-----------------------------------------------------------------------------
(* Properties. *)

TypeOK ==
  /\ old \in [blocked : BOOLEAN, action : {"default", "ignore"}]
  /\ ignored \in BOOLEAN /\ givenUp \in BOOLEAN
  /\ blocked \in BOOLEAN /\ pending \in BOOLEAN
  /\ action \in {"default", "ignore", "handler"}
  /\ signal_received \in BOOLEAN
  /\ main \in {"block", "sigaction", "fork", "wait", "sigpending", "test",
               "sigsuspend", "cleanup", "restore_mask", "restore_action",
               "return", "exited"}
  /\ result \in {"EXIT_SUCCESS", "EXIT_FAILURE", "killed"}
  /\ mask_changed \in BOOLEAN /\ action_changed \in BOOLEAN
  /\ child_reaped \in BOOLEAN
  /\ child \in {"none", "running", "zombie", "vanished", "gone"}
  /\ status \in {"none", "0", "127"}
  /\ foreign \in 0 .. MaxForeign /\ faults \in Nat /\ restoreFailed \in BOOLEAN

(* No SIGUSR1, of the child or of anybody, runs the handler before the     *)
(* program waits for it; and once the child has sent its own, it is held   *)
(* pending (comment of lines 41-42, checks of lines 74-87).                *)
HeldUntilAsked ==
  /\ main \in {"sigaction", "fork", "wait", "sigpending"} => ~signal_received
  /\ main = "sigpending" => pending

(* The program is killed by no signal but one of another process: its      *)
(* child's finds the handler, on every path and whatever was inherited,    *)
(* because the mask is restored before the action (lines 112-119).  Only a *)
(* child given up when the cleanup's wait failed too (107-110) can send it *)
(* so late that it finds the inherited action.                             *)
NotKilledByChild == result = "killed" => foreign > 0 \/ givenUp

(* At exit mask and action are as inherited, unless restoring them failed, *)
(* and no child is left, unless the last wait for it failed and failure is *)
(* reported: the child, which signals getppid(), never signals a process   *)
(* that has adopted it.  Success means that the handler ran after the      *)
(* child had sent its signal; with no failed call and nobody interfering,  *)
(* it comes (lines 60, 94-120).                                            *)
HonestExit ==
  main = "exited" /\ result # "killed" =>
    /\ restoreFailed \/ (blocked = old.blocked /\ action = old.action)
    /\ \/ child \in {"none", "vanished", "gone"}
       \/ givenUp /\ result = "EXIT_FAILURE"
    /\ result = "EXIT_SUCCESS" => signal_received /\ status = "0"
    /\ faults = 0 /\ foreign = 0 /\ ~ignored => result = "EXIT_SUCCESS"

(* The program returns: sigsuspend does not wait for a signal that was     *)
(* delivered before (lines 94-99).                                         *)
Termination == <>(main = "exited")
=============================================================================
