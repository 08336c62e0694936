------------------------------ MODULE SignalFd ------------------------------
(***************************************************************************)
(* experiments/06_signals/main.c: the program blocks SIGUSR1, sends it to  *)
(* itself and reads it through a signalfd.  On every path its cleanup      *)
(* takes a signal that was sent and not read before it restores the mask.  *)
(*                                                                         *)
(* The mask and the action are inherited and never changed but for the     *)
(* blocking; other processes send SIGUSR1 too.  Signals of one number do   *)
(* not queue: while one is pending, another is lost, whoever sent it.      *)
(***************************************************************************)
EXTENDS Integers

CONSTANT MaxForeign   \* how often other processes send SIGUSR1

ForeignAssumption == MaxForeign \in Nat

VARIABLES old,        \* inherited: was SIGUSR1 blocked, what does it do?
          blocked,    \* is SIGUSR1 in the signal mask?
          pending,    \* whose SIGUSR1 is pending: "none", "own", "foreign"
          read,       \* whose was read from the signalfd
          main, result,
          mask_changed, signal_sent, signal_consumed,
          signal_fd,  \* is it open?
          foreign, faults,    \* history: foreign signals, failed calls
          restoreFailed       \* history: the last sigprocmask failed

signals == <<old, blocked, pending, read>>
flags   == <<mask_changed, signal_sent, signal_consumed, signal_fd>>
vars    == <<signals, main, result, flags, foreign, faults, restoreFailed>>

Init ==
  /\ old \in [blocked : BOOLEAN, action : {"default", "ignore"}]
  /\ blocked = old.blocked
  /\ \/ pending = "none" /\ foreign = 0
     \/ old.blocked /\ MaxForeign > 0 /\ pending = "foreign" /\ foreign = 1
  /\ read = "none"
  /\ main = "block" /\ result = "EXIT_FAILURE"
  /\ mask_changed = FALSE /\ signal_sent = FALSE /\ signal_consumed = FALSE
  /\ signal_fd = FALSE /\ faults = 0 /\ restoreFailed = FALSE

(* The kernel: a signal that would be ignored at once is dropped, and one  *)
(* whose number is pending already is lost.                                *)
Generate(who) ==
  pending' = IF pending = "none" /\ (blocked \/ old.action # "ignore")
             THEN who ELSE pending

(* What is pending and not blocked acts before the program goes on. *)
Deliver ==
  /\ main # "exited" /\ pending # "none" /\ ~blocked
  /\ pending' = "none"
  /\ IF old.action = "default" THEN main' = "exited" /\ result' = "killed"
                               ELSE UNCHANGED <<main, result>>
  /\ UNCHANGED <<old, blocked, read, flags, foreign, faults, restoreFailed>>

Foreign ==
  /\ main # "exited" /\ foreign < MaxForeign
  /\ foreign' = foreign + 1 /\ Generate("foreign")
  /\ UNCHANGED <<old, blocked, read, main, result, flags, faults,
                 restoreFailed>>

-----------------------------------------------------------------------------
(* The program. *)

Goes(from, to) == main = from /\ main' = to /\ (pending = "none" \/ blocked)
Fault == faults' = faults + 1
Fails(from) == Goes(from, "cleanup") /\ Fault

Block ==
  /\ \/ /\ Goes("block", "signalfd") /\ UNCHANGED faults
        /\ blocked' = TRUE /\ mask_changed' = TRUE
     \/ Fails("block") /\ UNCHANGED <<blocked, mask_changed>>
  /\ UNCHANGED <<old, pending, read, result, signal_sent, signal_consumed,
                 signal_fd, foreign, restoreFailed>>

OpenSignalFd ==
  /\ \/ Goes("signalfd", "kill") /\ signal_fd' = TRUE /\ UNCHANGED faults
     \/ Fails("signalfd") /\ UNCHANGED signal_fd
  /\ UNCHANGED <<signals, result, mask_changed, signal_sent, signal_consumed,
                 foreign, restoreFailed>>

SendToSelf ==
  /\ \/ /\ Goes("kill", "read") /\ Generate("own") /\ signal_sent' = TRUE
        /\ UNCHANGED faults
     \/ Fails("kill") /\ UNCHANGED <<pending, signal_sent>>
  /\ UNCHANGED <<old, blocked, read, result, mask_changed, signal_consumed,
                 signal_fd, foreign, restoreFailed>>

(* A faulty variant of ReadSignal: it matters not who has sent the signal. *)
ReadSignalOfAnybody ==
  /\ pending # "none" /\ Goes("read", "close")
  /\ read' = pending /\ pending' = "none" /\ signal_consumed' = TRUE
  /\ UNCHANGED <<old, blocked, result, mask_changed, signal_sent, signal_fd,
                 foreign, faults, restoreFailed>>

(* read waits for a signal; a signal of another process is refused. *)
ReadSignal ==
  /\ pending # "none"
  /\ Goes("read", IF pending = "own" THEN "close" ELSE "cleanup")
  /\ read' = pending /\ pending' = "none" /\ signal_consumed' = TRUE
  /\ UNCHANGED <<old, blocked, result, mask_changed, signal_sent, signal_fd,
                 foreign, faults, restoreFailed>>

ReadFails ==
  /\ Fails("read")
  /\ UNCHANGED <<signals, result, flags, foreign, restoreFailed>>

(* close gives the descriptor up even when it reports an error. *)
CloseSignalFd ==
  /\ \/ Goes("close", "restore") /\ UNCHANGED faults
     \/ Fails("close")
  /\ signal_fd' = FALSE
  /\ UNCHANGED <<signals, result, mask_changed, signal_sent, signal_consumed,
                 foreign, restoreFailed>>

(* If it fails, the cleanup tries again. *)
Restore ==
  /\ \/ /\ Goes("restore", "cleanup") /\ UNCHANGED faults
        /\ blocked' = old.blocked /\ mask_changed' = FALSE
        /\ result' = "EXIT_SUCCESS"
     \/ Fails("restore") /\ UNCHANGED <<blocked, mask_changed, result>>
  /\ UNCHANGED <<old, pending, read, signal_sent, signal_consumed, signal_fd,
                 foreign, restoreFailed>>

(* A faulty variant of CleanupDrains: nothing is taken. *)
CleanupDrainsNot ==
  /\ Goes("cleanup", "cleanup_close")
  /\ UNCHANGED <<signals, result, flags, foreign, faults, restoreFailed>>

(* sigtimedwait with no time to wait: it takes what is pending, if there *)
(* is something.                                                           *)
CleanupDrains ==
  /\ Goes("cleanup", "cleanup_close")
  /\ pending' = IF signal_sent /\ ~signal_consumed THEN "none" ELSE pending
  /\ UNCHANGED <<old, blocked, read, result, flags, foreign, faults,
                 restoreFailed>>

CleanupCloses ==
  /\ Goes("cleanup_close", "cleanup_restore")
  /\ signal_fd' = FALSE
  /\ \/ UNCHANGED <<result, faults>>
     \/ signal_fd /\ result' = "EXIT_FAILURE" /\ Fault
  /\ UNCHANGED <<signals, mask_changed, signal_sent, signal_consumed, foreign,
                 restoreFailed>>

CleanupRestores ==
  /\ Goes("cleanup_restore", "return")
  /\ \/ /\ blocked' = IF mask_changed THEN old.blocked ELSE blocked
        /\ UNCHANGED <<result, faults, restoreFailed>>
     \/ /\ mask_changed /\ result' = "EXIT_FAILURE" /\ Fault
        /\ restoreFailed' = TRUE /\ UNCHANGED blocked
  /\ UNCHANGED <<old, pending, read, flags, foreign>>

Return ==
  /\ Goes("return", "exited")
  /\ UNCHANGED <<signals, result, flags, foreign, faults, restoreFailed>>

Exited == main = "exited" /\ UNCHANGED vars

MainStep ==
  \/ Block \/ OpenSignalFd \/ SendToSelf \/ ReadSignal \/ CloseSignalFd
  \/ Restore \/ CleanupDrains \/ CleanupCloses \/ CleanupRestores \/ Return

Next == MainStep \/ ReadFails \/ Deliver \/ Foreign \/ Exited

Spec == Init /\ [][Next]_vars

(* The program runs and the kernel delivers what it may; the wait in read  *)
(* is not ended by an error.                                               *)
FairSpec == Spec /\ WF_vars(MainStep) /\ WF_vars(Deliver)

-----------------------------------------------------------------------------
(* Properties. *)

TypeOK ==
  /\ old \in [blocked : BOOLEAN, action : {"default", "ignore"}]
  /\ blocked \in BOOLEAN
  /\ {pending, read} \subseteq {"none", "own", "foreign"}
  /\ main \in {"block", "signalfd", "kill", "read", "close", "restore",
               "cleanup", "cleanup_close", "cleanup_restore", "return",
               "exited"}
  /\ result \in {"EXIT_SUCCESS", "EXIT_FAILURE", "killed"}
  /\ \A f \in {mask_changed, signal_sent, signal_consumed, signal_fd,
               restoreFailed} : f \in BOOLEAN
  /\ foreign \in 0 .. MaxForeign /\ faults \in Nat

(* The program is never killed by the signal it sends to itself: on every  *)
(* path, and whatever was inherited, that signal is gone before the mask   *)
(* lets it through.  Nor does read wait: the signal is there (35-54,       *)
(* 77-90).                                                                 *)
NotKilledByItself ==
  /\ result = "killed" => foreign > 0
  /\ ~blocked => pending # "own"
  /\ main = "read" => pending # "none"

(* At exit the mask is as inherited, unless restoring it failed, the       *)
(* program's own signal is not left behind for whoever runs next under     *)
(* this mask, and success means that it was this signal that was read; if  *)
(* no call failed and no signal was foreign, it comes (lines 56-91).       *)
HonestExit ==
  main = "exited" /\ result # "killed" =>
    /\ (restoreFailed \/ blocked = old.blocked) /\ pending # "own"
    /\ result = "EXIT_SUCCESS" => read = "own"
    /\ faults = 0 /\ foreign = 0 => result = "EXIT_SUCCESS"
=============================================================================
