--------------------------- MODULE SignalPrograms ---------------------------
(***************************************************************************)
(* The programs that handle SIGUSR1: portable_signals, whose child sends   *)
(* it, and signals, which sends it to itself; each is a test of its own    *)
(* for ctest (cmake/AddUnixExperiment.cmake:65).  A run is a run of one of *)
(* them, and the variables it does not have keep one value.                *)
(***************************************************************************)

CONSTANT MaxForeign   \* signals that other processes send

VARIABLES program,
          old, blocked, pending, main, result, mask_changed,   \* of both
          foreign, faults, restoreFailed,                      \* of both
          ignored, action, signal_received, action_changed, child_reaped,
          child, status, givenUp,                          \* SignalDelivery
          read, signal_sent, signal_consumed, signal_fd          \* SignalFd

both   == <<old, blocked, pending, main, result, mask_changed, foreign, faults,
            restoreFailed>>
second == <<ignored, action, signal_received, action_changed, child_reaped,
            child, status, givenUp>>
first  == <<read, signal_sent, signal_consumed, signal_fd>>
vars   == <<program, both, first, second>>

Delivery == INSTANCE SignalDelivery
SigFd    == INSTANCE SignalFd

ASSUME ForeignConstants ==
  Delivery!ForeignAssumption /\ SigFd!ForeignAssumption

Init ==
  \/ /\ program = "portable_signals" /\ Delivery!Init
     /\ read = "absent" /\ signal_sent = "absent"
     /\ signal_consumed = "absent" /\ signal_fd = "absent"
  \/ /\ program = "signals" /\ SigFd!Init
     /\ ignored = "absent" /\ action = "absent" /\ signal_received = "absent"
     /\ action_changed = "absent" /\ child_reaped = "absent"
     /\ child = "absent" /\ status = "absent" /\ givenUp = "absent"

(* A step of one of the programs, and of nothing else. *)
OfDelivery(Step) ==
  program = "portable_signals" /\ Step /\ UNCHANGED <<program, first>>
OfSigFd(Step) == program = "signals" /\ Step /\ UNCHANGED <<program, second>>

Next == OfDelivery(Delivery!Next) \/ OfSigFd(SigFd!Next)

Spec == Init /\ [][Next]_vars

(* The fairness of each of the programs. *)
FairSpec ==
  /\ Spec
  /\ WF_vars(OfDelivery(Delivery!MainStep) \/ OfSigFd(SigFd!MainStep))
  /\ WF_vars(OfDelivery(Delivery!Deliver) \/ OfSigFd(SigFd!Deliver))
  /\ WF_vars(OfDelivery(Delivery!Kill))

-----------------------------------------------------------------------------
(* Properties: those of the program that runs, each explained in its own   *)
(* module.                                                                 *)

TypeOK ==
  /\ program = "portable_signals" => Delivery!TypeOK
  /\ program = "signals" => SigFd!TypeOK

(* 23: no SIGUSR1 runs the handler before the program waits for it, and    *)
(* the child's is held pending (comment of lines 41-42, checks of 74-87).  *)
HeldUntilAsked == program = "portable_signals" => Delivery!HeldUntilAsked

(* 23: the child's signal finds the handler on every path, as the mask is  *)
(* restored before the action (lines 112-119); only a child that was given *)
(* up can be late (107-110).                                               *)
NotKilledByChild == program = "portable_signals" => Delivery!NotKilledByChild

(* 06: the signal the program sends to itself is gone before the mask lets *)
(* it through, and it is there when it is to be read (35-54, 77-90).       *)
NotKilledByItself == program = "signals" => SigFd!NotKilledByItself

(* Both: at exit what was inherited is back unless restoring it failed,    *)
(* no child is left unless the last wait for it failed, and the verdict is *)
(* true (23:60, 23:94-120, 06:56-91).                                      *)
HonestExit ==
  /\ program = "portable_signals" => Delivery!HonestExit
  /\ program = "signals" => SigFd!HonestExit

(* Both programs return: sigsuspend does not wait for a signal that was    *)
(* delivered before, nor read for one that another has displaced           *)
(* (23:94-99, 06:35-54).                                                   *)
Termination == <>(main = "exited")
=============================================================================
