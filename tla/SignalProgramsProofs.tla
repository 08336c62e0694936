------------------------ MODULE SignalProgramsProofs ------------------------
(***************************************************************************)
(* Proofs about SignalPrograms, for any number of foreign signals: first   *)
(* portable_signals (SignalDelivery), then signals (SignalFd), each with   *)
(* an inductive invariant of its own, then what the two promise together.  *)
(***************************************************************************)
EXTENDS SignalPrograms, Integers, TLAPS

-----------------------------------------------------------------------------
(* 23_portable_signals. *)

Prepared == {"fork", "wait", "sigpending", "test", "sigsuspend"}
Restoring == {"restore_mask", "restore_action", "return"}
Leaving  == Restoring \cup {"cleanup", "exited"}

(* Mask and action are what the flags say, and the action is never changed *)
(* without the mask (lines 44-58, 111-119).                                *)
MaskTracked ==
  /\ main = "block" => ~mask_changed
  /\ main \in Prepared \cup {"sigaction"} => mask_changed
  /\ main \in {"block", "sigaction"} => ~action_changed
  /\ main \in Prepared => action_changed
  /\ action_changed => mask_changed
  /\ main \notin {"sigsuspend", "restore_action", "return", "exited"}
       => blocked = (mask_changed \/ old.blocked)
  /\ main = "sigsuspend" => ~blocked
  /\ main = "restore_action"
       => blocked = old.blocked \/ (restoreFailed /\ blocked)
  /\ ~mask_changed => blocked = old.blocked
  /\ main \notin {"return", "exited"}
       => action = IF action_changed THEN "handler" ELSE old.action
  /\ main = "return" \/ (main = "exited" /\ result # "killed")
       => restoreFailed \/ (blocked = old.blocked /\ action = old.action)

(* The child exists only while the handler is there, and it is awaited     *)
(* before anything is restored, unless it was given up (lines 60-72,       *)
(* 105-110).                                                               *)
ChildTracked ==
  /\ main \in {"block", "sigaction", "fork"} => child = "none"
  /\ main = "wait" => child \in {"running", "zombie", "vanished"}
  /\ main \in {"sigpending", "test", "sigsuspend"}
       => child = "gone" /\ status = "0"
  /\ main \in Restoring \/ (main = "exited" /\ result # "killed")
       => child \in {"none", "vanished", "gone"} \/ givenUp
  /\ givenUp => main \in Restoring \cup {"exited"} /\ child # "none"
  /\ child # "none" => action_changed
  /\ main = "wait" => ~child_reaped
  /\ child_reaped => child = "gone"
  /\ child \in {"none", "running"} <=> status = "none"
  /\ child = "vanished" => ignored
  /\ status = "127" => faults > 0

(* What is pending before the child exists is of another process, or it    *)
(* was inherited and stays blocked; what the child has sent waits for      *)
(* sigsuspend (lines 41-58, 74-87).  Once the action is restored, only     *)
(* another process or a child that was given up can still send one.        *)
PendingTracked ==
  /\ main # "exited" /\ ~action_changed /\ pending
       => foreign > 0 \/ old.blocked
  /\ main = "return" /\ pending /\ ~blocked => foreign > 0 \/ givenUp
  /\ main \in {"wait", "sigpending"} /\ status = "0" => pending
  /\ main \in {"block", "sigaction", "fork", "wait", "sigpending"}
       => ~signal_received

(* How the program ends (lines 94-120). *)
DeliveryOutcome ==
  /\ main \notin Leaving => result = "EXIT_FAILURE"
  /\ result = "killed" => main = "exited" /\ (foreign > 0 \/ givenUp)
  /\ givenUp => result # "EXIT_SUCCESS" /\ faults > 0
  /\ result = "EXIT_SUCCESS" => signal_received /\ status = "0"
  /\ main \in Leaving /\ faults = 0 /\ foreign = 0 /\ ~ignored
       => result = "EXIT_SUCCESS"

DeliveryInvariant ==
  Delivery!TypeOK /\ MaskTracked /\ ChildTracked /\ PendingTracked
  /\ DeliveryOutcome

(* 06_signals. *)

SelfLeaving == {"cleanup", "cleanup_close", "cleanup_restore", "return",
                "exited"}

(* The mask is what the flag says (lines 35-41, 56-60, 84-90). *)
SelfMaskTracked ==
  /\ main = "block" => ~mask_changed
  /\ main \in {"signalfd", "kill", "read", "close", "restore"}
       => mask_changed
  /\ ~mask_changed => blocked = old.blocked
  /\ main \notin {"return", "exited"}
       => blocked = (mask_changed \/ old.blocked)
  /\ main \in {"return", "exited"} /\ result # "killed"
       => restoreFailed \/ blocked = old.blocked

(* The program's own signal is pending only while it is blocked and was    *)
(* not read, and never beyond the draining of the cleanup (lines 45-54,    *)
(* 77-83).                                                                 *)
OwnSignalTracked ==
  /\ pending = "own" => blocked /\ signal_sent /\ ~signal_consumed
  /\ pending = "own" => main \in {"read", "cleanup"}
  /\ main \in {"block", "signalfd", "kill"} => ~signal_sent
  /\ main \in {"block", "signalfd", "kill", "read"} => ~signal_consumed
  /\ main = "read" => pending # "none"
  /\ main \in {"close", "restore"} => signal_consumed /\ read = "own"
  /\ signal_consumed <=> read # "none"
  /\ "foreign" \in {pending, read} => foreign > 0

(* How the program ends (lines 56-91). *)
SelfOutcome ==
  /\ main \notin SelfLeaving => result = "EXIT_FAILURE"
  /\ result = "killed" => main = "exited" /\ foreign > 0
  /\ result = "EXIT_SUCCESS" => read = "own"
  /\ main \in SelfLeaving /\ faults = 0 /\ foreign = 0
       => result = "EXIT_SUCCESS"

SelfInvariant ==
  SigFd!TypeOK /\ SelfMaskTracked /\ OwnSignalTracked /\ SelfOutcome

-----------------------------------------------------------------------------
SignalInvariant ==
  /\ program \in {"portable_signals", "signals"}
  /\ program = "portable_signals" => DeliveryInvariant
  /\ program = "signals" => SelfInvariant
-----------------------------------------------------------------------------
(* portable_signals: one lemma for each action, with one step for each part *)
(* of the invariant.                                                       *)
USE ForeignConstants
    DEF Delivery!TypeOK, Delivery!ForeignAssumption, Delivery!disposition,
        Delivery!flags, Delivery!kid, Delivery!history, Prepared, Restoring,
        Leaving

(* A pending signal is delivered. *)
LEMMA DeliveryDeliverPreserves ==
  ASSUME DeliveryInvariant, Delivery!Deliver
  PROVE  DeliveryInvariant'
<1>. USE DEF DeliveryInvariant, Delivery!Deliver
<1>1. Delivery!TypeOK'
  <2>1. /\ old' \in [blocked : BOOLEAN, action : {"default", "ignore"}]
        /\ ignored' \in BOOLEAN /\ givenUp' \in BOOLEAN
        /\ blocked' \in BOOLEAN /\ pending' \in BOOLEAN
        /\ signal_received' \in BOOLEAN /\ mask_changed' \in BOOLEAN
        /\ action_changed' \in BOOLEAN /\ child_reaped' \in BOOLEAN
        /\ restoreFailed' \in BOOLEAN
    OBVIOUS
  <2>2. foreign' \in 0 .. MaxForeign /\ faults' \in Nat
    OBVIOUS
  <2>3. /\ main' \in {main, "test", "exited"}
        /\ result' \in {result, "killed"}
        /\ action' = action /\ child' = child /\ status' = status
    OBVIOUS
  <2>. QED  BY <2>1, <2>2, <2>3
<1>2. MaskTracked'
  BY DEF MaskTracked
<1>3. ChildTracked'
  BY DEF ChildTracked
<1>4. PendingTracked'
  BY DEF PendingTracked, MaskTracked
<1>5. DeliveryOutcome'
  <2>1. action = "default" => foreign > 0 \/ givenUp
    <3>1. CASE main = "return"
      BY <3>1 DEF PendingTracked
    <3>2. CASE main # "return"
      <4>1. action = "default" => ~action_changed /\ main # "sigsuspend"
        BY <3>2 DEF MaskTracked
      <4>2. ~action_changed => foreign > 0 \/ old.blocked
        BY DEF PendingTracked
      <4>3. ~action_changed /\ old.blocked => main = "sigsuspend"
        BY <3>2 DEF MaskTracked
      <4>. QED  BY <4>1, <4>2, <4>3
    <3>. QED  BY <3>1, <3>2
  <2>2. CASE action = "default"
    BY <2>1, <2>2 DEF DeliveryOutcome
  <2>3. CASE action # "default"
    BY <2>3 DEF DeliveryOutcome, MaskTracked
  <2>. QED  BY <2>2, <2>3
<1>. QED  BY <1>1, <1>2, <1>3, <1>4, <1>5 DEF DeliveryInvariant

(* Another process sends SIGUSR1. *)
LEMMA DeliveryForeignPreserves ==
  ASSUME DeliveryInvariant, Delivery!Foreign
  PROVE  DeliveryInvariant'
<1>. USE DEF DeliveryInvariant, Delivery!Foreign, Delivery!Generated
<1>1. Delivery!TypeOK'
  <2>1. /\ old' \in [blocked : BOOLEAN, action : {"default", "ignore"}]
        /\ ignored' \in BOOLEAN /\ givenUp' \in BOOLEAN
        /\ restoreFailed' \in BOOLEAN
    OBVIOUS
  <2>2. /\ blocked' \in BOOLEAN /\ pending' \in BOOLEAN
        /\ signal_received' \in BOOLEAN
    OBVIOUS
  <2>3. /\ mask_changed' \in BOOLEAN /\ action_changed' \in BOOLEAN
        /\ child_reaped' \in BOOLEAN
    OBVIOUS
  <2>4. foreign' \in 0 .. MaxForeign /\ faults' \in Nat
    OBVIOUS
  <2>. QED  BY <2>1, <2>2, <2>3, <2>4
<1>2. MaskTracked'
  BY DEF MaskTracked
<1>3. ChildTracked'
  BY DEF ChildTracked
<1>4. PendingTracked'
  BY DEF PendingTracked
<1>5. DeliveryOutcome'
  BY DEF DeliveryOutcome
<1>. QED  BY <1>1, <1>2, <1>3, <1>4, <1>5 DEF DeliveryInvariant

(* sigprocmask blocks SIGUSR1 (lines 41-48). *)
LEMMA DeliveryBlockPreserves ==
  ASSUME DeliveryInvariant, Delivery!Block
  PROVE  DeliveryInvariant'
<1>. USE DEF DeliveryInvariant, Delivery!Block, Delivery!Goes, Delivery!Fails,
             Delivery!Fault
<1>1. Delivery!TypeOK'
  <2>1. /\ old' \in [blocked : BOOLEAN, action : {"default", "ignore"}]
        /\ ignored' \in BOOLEAN /\ givenUp' \in BOOLEAN
        /\ restoreFailed' \in BOOLEAN
    OBVIOUS
  <2>2. /\ blocked' \in BOOLEAN /\ pending' \in BOOLEAN
        /\ signal_received' \in BOOLEAN
    OBVIOUS
  <2>3. /\ mask_changed' \in BOOLEAN /\ action_changed' \in BOOLEAN
        /\ child_reaped' \in BOOLEAN
    OBVIOUS
  <2>4. foreign' \in 0 .. MaxForeign /\ faults' \in Nat
    OBVIOUS
  <2>. QED  BY <2>1, <2>2, <2>3, <2>4
<1>2. MaskTracked'
  BY DEF MaskTracked
<1>3. ChildTracked'
  BY DEF ChildTracked
<1>4. PendingTracked'
  BY DEF PendingTracked
<1>5. DeliveryOutcome'
  BY DEF DeliveryOutcome
<1>. QED  BY <1>1, <1>2, <1>3, <1>4, <1>5 DEF DeliveryInvariant

(* sigaction (lines 50-58). *)
LEMMA DeliveryInstallHandlerPreserves ==
  ASSUME DeliveryInvariant, Delivery!InstallHandler
  PROVE  DeliveryInvariant'
<1>. USE DEF DeliveryInvariant, Delivery!InstallHandler, Delivery!Goes,
             Delivery!Fails, Delivery!Fault
<1>1. Delivery!TypeOK'
  <2>1. /\ old' \in [blocked : BOOLEAN, action : {"default", "ignore"}]
        /\ ignored' \in BOOLEAN /\ givenUp' \in BOOLEAN
        /\ restoreFailed' \in BOOLEAN
    OBVIOUS
  <2>2. /\ blocked' \in BOOLEAN /\ pending' \in BOOLEAN
        /\ signal_received' \in BOOLEAN
    OBVIOUS
  <2>3. /\ mask_changed' \in BOOLEAN /\ action_changed' \in BOOLEAN
        /\ child_reaped' \in BOOLEAN
    OBVIOUS
  <2>4. foreign' \in 0 .. MaxForeign /\ faults' \in Nat
    OBVIOUS
  <2>. QED  BY <2>1, <2>2, <2>3, <2>4
<1>2. MaskTracked'
  BY DEF MaskTracked
<1>3. ChildTracked'
  BY DEF ChildTracked
<1>4. PendingTracked'
  BY DEF PendingTracked
<1>5. DeliveryOutcome'
  BY DEF DeliveryOutcome
<1>. QED  BY <1>1, <1>2, <1>3, <1>4, <1>5 DEF DeliveryInvariant

(* fork (lines 60-63). *)
LEMMA DeliveryForkPreserves ==
  ASSUME DeliveryInvariant, Delivery!Fork
  PROVE  DeliveryInvariant'
<1>. USE DEF DeliveryInvariant, Delivery!Fork, Delivery!Goes, Delivery!Fails,
             Delivery!Fault
<1>1. Delivery!TypeOK'
  <2>1. /\ old' \in [blocked : BOOLEAN, action : {"default", "ignore"}]
        /\ ignored' \in BOOLEAN /\ givenUp' \in BOOLEAN
        /\ restoreFailed' \in BOOLEAN
    OBVIOUS
  <2>2. /\ blocked' \in BOOLEAN /\ pending' \in BOOLEAN
        /\ signal_received' \in BOOLEAN
    OBVIOUS
  <2>3. /\ mask_changed' \in BOOLEAN /\ action_changed' \in BOOLEAN
        /\ child_reaped' \in BOOLEAN
    OBVIOUS
  <2>4. foreign' \in 0 .. MaxForeign /\ faults' \in Nat
    OBVIOUS
  <2>. QED  BY <2>1, <2>2, <2>3, <2>4
<1>2. MaskTracked'
  BY DEF MaskTracked
<1>3. ChildTracked'
  BY DEF ChildTracked, MaskTracked
<1>4. PendingTracked'
  BY DEF PendingTracked, ChildTracked
<1>5. DeliveryOutcome'
  BY DEF DeliveryOutcome
<1>. QED  BY <1>1, <1>2, <1>3, <1>4, <1>5 DEF DeliveryInvariant

(* wait_for_child and the test of the status (lines 68-72). *)
LEMMA DeliveryWaitPreserves ==
  ASSUME DeliveryInvariant, Delivery!Wait
  PROVE  DeliveryInvariant'
<1>. USE DEF DeliveryInvariant, Delivery!Wait, Delivery!Goes, Delivery!Fails,
             Delivery!Fault
<1>1. Delivery!TypeOK'
  <2>1. /\ old' \in [blocked : BOOLEAN, action : {"default", "ignore"}]
        /\ ignored' \in BOOLEAN /\ givenUp' \in BOOLEAN
        /\ restoreFailed' \in BOOLEAN
    OBVIOUS
  <2>2. /\ blocked' \in BOOLEAN /\ pending' \in BOOLEAN
        /\ signal_received' \in BOOLEAN
    OBVIOUS
  <2>3. /\ mask_changed' \in BOOLEAN /\ action_changed' \in BOOLEAN
        /\ child_reaped' \in BOOLEAN
    OBVIOUS
  <2>4. foreign' \in 0 .. MaxForeign /\ faults' \in Nat
    OBVIOUS
  <2>. QED  BY <2>1, <2>2, <2>3, <2>4
<1>2. MaskTracked'
  BY DEF MaskTracked
<1>3. ChildTracked'
  BY DEF ChildTracked
<1>4. PendingTracked'
  BY DEF PendingTracked
<1>5. DeliveryOutcome'
  BY DEF DeliveryOutcome, ChildTracked
<1>. QED  BY <1>1, <1>2, <1>3, <1>4, <1>5 DEF DeliveryInvariant

(* The wait fails (lines 68-72). *)
LEMMA DeliveryWaitFailsPreserves ==
  ASSUME DeliveryInvariant, Delivery!WaitFails
  PROVE  DeliveryInvariant'
<1>. USE DEF DeliveryInvariant, Delivery!WaitFails, Delivery!Goes,
             Delivery!Fails, Delivery!Fault
<1>1. Delivery!TypeOK'
  <2>1. /\ old' \in [blocked : BOOLEAN, action : {"default", "ignore"}]
        /\ ignored' \in BOOLEAN /\ givenUp' \in BOOLEAN
        /\ restoreFailed' \in BOOLEAN
    OBVIOUS
  <2>2. /\ blocked' \in BOOLEAN /\ pending' \in BOOLEAN
        /\ signal_received' \in BOOLEAN
    OBVIOUS
  <2>3. /\ mask_changed' \in BOOLEAN /\ action_changed' \in BOOLEAN
        /\ child_reaped' \in BOOLEAN
    OBVIOUS
  <2>4. foreign' \in 0 .. MaxForeign /\ faults' \in Nat
    OBVIOUS
  <2>. QED  BY <2>1, <2>2, <2>3, <2>4
<1>2. MaskTracked'
  BY DEF MaskTracked
<1>3. ChildTracked'
  BY DEF ChildTracked
<1>4. PendingTracked'
  BY DEF PendingTracked
<1>5. DeliveryOutcome'
  BY DEF DeliveryOutcome
<1>. QED  BY <1>1, <1>2, <1>3, <1>4, <1>5 DEF DeliveryInvariant

(* sigpending (lines 74-87). *)
LEMMA DeliveryCheckPendingPreserves ==
  ASSUME DeliveryInvariant, Delivery!CheckPending
  PROVE  DeliveryInvariant'
<1>. USE DEF DeliveryInvariant, Delivery!CheckPending, Delivery!Goes,
             Delivery!Fails, Delivery!Fault
<1>1. Delivery!TypeOK'
  <2>1. /\ old' \in [blocked : BOOLEAN, action : {"default", "ignore"}]
        /\ ignored' \in BOOLEAN /\ givenUp' \in BOOLEAN
        /\ restoreFailed' \in BOOLEAN
    OBVIOUS
  <2>2. /\ blocked' \in BOOLEAN /\ pending' \in BOOLEAN
        /\ signal_received' \in BOOLEAN
    OBVIOUS
  <2>3. /\ mask_changed' \in BOOLEAN /\ action_changed' \in BOOLEAN
        /\ child_reaped' \in BOOLEAN
    OBVIOUS
  <2>4. foreign' \in 0 .. MaxForeign /\ faults' \in Nat
    OBVIOUS
  <2>. QED  BY <2>1, <2>2, <2>3, <2>4
<1>2. MaskTracked'
  BY DEF MaskTracked
<1>3. ChildTracked'
  BY DEF ChildTracked
<1>4. PendingTracked'
  BY DEF PendingTracked
<1>5. DeliveryOutcome'
  BY DEF DeliveryOutcome, PendingTracked, ChildTracked
<1>. QED  BY <1>1, <1>2, <1>3, <1>4, <1>5 DEF DeliveryInvariant

(* sigsuspend begins (lines 94-99). *)
LEMMA DeliverySuspendPreserves ==
  ASSUME DeliveryInvariant, Delivery!Suspend
  PROVE  DeliveryInvariant'
<1>. USE DEF DeliveryInvariant, Delivery!Suspend, Delivery!Goes
<1>1. Delivery!TypeOK'
  <2>1. /\ old' \in [blocked : BOOLEAN, action : {"default", "ignore"}]
        /\ ignored' \in BOOLEAN /\ givenUp' \in BOOLEAN
        /\ restoreFailed' \in BOOLEAN
    OBVIOUS
  <2>2. /\ blocked' \in BOOLEAN /\ pending' \in BOOLEAN
        /\ signal_received' \in BOOLEAN
    OBVIOUS
  <2>3. /\ mask_changed' \in BOOLEAN /\ action_changed' \in BOOLEAN
        /\ child_reaped' \in BOOLEAN
    OBVIOUS
  <2>4. foreign' \in 0 .. MaxForeign /\ faults' \in Nat
    OBVIOUS
  <2>. QED  BY <2>1, <2>2, <2>3, <2>4
<1>2. MaskTracked'
  BY DEF MaskTracked
<1>3. ChildTracked'
  BY DEF ChildTracked
<1>4. PendingTracked'
  BY DEF PendingTracked
<1>5. DeliveryOutcome'
  BY DEF DeliveryOutcome
<1>. QED  BY <1>1, <1>2, <1>3, <1>4, <1>5 DEF DeliveryInvariant

(* sigsuspend fails (lines 95-98). *)
LEMMA DeliverySuspendFailsPreserves ==
  ASSUME DeliveryInvariant, Delivery!SuspendFails
  PROVE  DeliveryInvariant'
<1>. USE DEF DeliveryInvariant, Delivery!SuspendFails, Delivery!Goes,
             Delivery!Fails, Delivery!Fault
<1>1. Delivery!TypeOK'
  <2>1. /\ old' \in [blocked : BOOLEAN, action : {"default", "ignore"}]
        /\ ignored' \in BOOLEAN /\ givenUp' \in BOOLEAN
        /\ restoreFailed' \in BOOLEAN
    OBVIOUS
  <2>2. /\ blocked' \in BOOLEAN /\ pending' \in BOOLEAN
        /\ signal_received' \in BOOLEAN
    OBVIOUS
  <2>3. /\ mask_changed' \in BOOLEAN /\ action_changed' \in BOOLEAN
        /\ child_reaped' \in BOOLEAN
    OBVIOUS
  <2>4. foreign' \in 0 .. MaxForeign /\ faults' \in Nat
    OBVIOUS
  <2>. QED  BY <2>1, <2>2, <2>3, <2>4
<1>2. MaskTracked'
  BY DEF MaskTracked
<1>3. ChildTracked'
  BY DEF ChildTracked
<1>4. PendingTracked'
  BY DEF PendingTracked
<1>5. DeliveryOutcome'
  BY DEF DeliveryOutcome
<1>. QED  BY <1>1, <1>2, <1>3, <1>4, <1>5 DEF DeliveryInvariant

(* The handler has run (lines 100-103). *)
LEMMA DeliverySucceedPreserves ==
  ASSUME DeliveryInvariant, Delivery!Succeed
  PROVE  DeliveryInvariant'
<1>. USE DEF DeliveryInvariant, Delivery!Succeed, Delivery!Goes
<1>1. Delivery!TypeOK'
  <2>1. /\ old' \in [blocked : BOOLEAN, action : {"default", "ignore"}]
        /\ ignored' \in BOOLEAN /\ givenUp' \in BOOLEAN
        /\ restoreFailed' \in BOOLEAN
    OBVIOUS
  <2>2. /\ blocked' \in BOOLEAN /\ pending' \in BOOLEAN
        /\ signal_received' \in BOOLEAN
    OBVIOUS
  <2>3. /\ mask_changed' \in BOOLEAN /\ action_changed' \in BOOLEAN
        /\ child_reaped' \in BOOLEAN
    OBVIOUS
  <2>4. foreign' \in 0 .. MaxForeign /\ faults' \in Nat
    OBVIOUS
  <2>. QED  BY <2>1, <2>2, <2>3, <2>4
<1>2. MaskTracked'
  BY DEF MaskTracked
<1>3. ChildTracked'
  BY DEF ChildTracked
<1>4. PendingTracked'
  BY DEF PendingTracked
<1>5. DeliveryOutcome'
  BY DEF DeliveryOutcome, ChildTracked
<1>. QED  BY <1>1, <1>2, <1>3, <1>4, <1>5 DEF DeliveryInvariant

(* The cleanup waits for the child (lines 105-110). *)
LEMMA DeliveryCleanupWaitPreserves ==
  ASSUME DeliveryInvariant, Delivery!CleanupWait
  PROVE  DeliveryInvariant'
<1>. USE DEF DeliveryInvariant, Delivery!CleanupWait, Delivery!Goes
<1>1. Delivery!TypeOK'
  <2>1. /\ old' \in [blocked : BOOLEAN, action : {"default", "ignore"}]
        /\ ignored' \in BOOLEAN /\ givenUp' \in BOOLEAN
        /\ restoreFailed' \in BOOLEAN
    OBVIOUS
  <2>2. /\ blocked' \in BOOLEAN /\ pending' \in BOOLEAN
        /\ signal_received' \in BOOLEAN
    OBVIOUS
  <2>3. /\ mask_changed' \in BOOLEAN /\ action_changed' \in BOOLEAN
        /\ child_reaped' \in BOOLEAN
    OBVIOUS
  <2>4. foreign' \in 0 .. MaxForeign /\ faults' \in Nat
    OBVIOUS
  <2>. QED  BY <2>1, <2>2, <2>3, <2>4
<1>2. MaskTracked'
  BY DEF MaskTracked
<1>3. ChildTracked'
  BY DEF ChildTracked
<1>4. PendingTracked'
  BY DEF PendingTracked
<1>5. DeliveryOutcome'
  BY DEF DeliveryOutcome
<1>. QED  BY <1>1, <1>2, <1>3, <1>4, <1>5 DEF DeliveryInvariant

(* The wait of the cleanup fails (lines 107-110). *)
LEMMA DeliveryCleanupWaitFailsPreserves ==
  ASSUME DeliveryInvariant, Delivery!CleanupWaitFails
  PROVE  DeliveryInvariant'
<1>. USE DEF DeliveryInvariant, Delivery!CleanupWaitFails, Delivery!Goes,
             Delivery!Fault
<1>1. Delivery!TypeOK'
  <2>1. /\ old' \in [blocked : BOOLEAN, action : {"default", "ignore"}]
        /\ ignored' \in BOOLEAN /\ givenUp' \in BOOLEAN
        /\ restoreFailed' \in BOOLEAN
    OBVIOUS
  <2>2. /\ blocked' \in BOOLEAN /\ pending' \in BOOLEAN
        /\ signal_received' \in BOOLEAN
    OBVIOUS
  <2>3. /\ mask_changed' \in BOOLEAN /\ action_changed' \in BOOLEAN
        /\ child_reaped' \in BOOLEAN
    OBVIOUS
  <2>4. foreign' \in 0 .. MaxForeign /\ faults' \in Nat
    OBVIOUS
  <2>. QED  BY <2>1, <2>2, <2>3, <2>4
<1>2. MaskTracked'
  BY DEF MaskTracked
<1>3. ChildTracked'
  BY DEF ChildTracked
<1>4. PendingTracked'
  BY DEF PendingTracked
<1>5. DeliveryOutcome'
  BY DEF DeliveryOutcome
<1>. QED  BY <1>1, <1>2, <1>3, <1>4, <1>5 DEF DeliveryInvariant

(* The mask is restored (lines 111-114). *)
LEMMA DeliveryRestoreMaskPreserves ==
  ASSUME DeliveryInvariant, Delivery!RestoreMask
  PROVE  DeliveryInvariant'
<1>. USE DEF DeliveryInvariant, Delivery!RestoreMask, Delivery!Goes,
             Delivery!RestoreFails, Delivery!Fault
<1>1. Delivery!TypeOK'
  <2>1. /\ old' \in [blocked : BOOLEAN, action : {"default", "ignore"}]
        /\ ignored' \in BOOLEAN /\ givenUp' \in BOOLEAN
        /\ restoreFailed' \in BOOLEAN
    OBVIOUS
  <2>2. /\ blocked' \in BOOLEAN /\ pending' \in BOOLEAN
        /\ signal_received' \in BOOLEAN
    OBVIOUS
  <2>3. /\ mask_changed' \in BOOLEAN /\ action_changed' \in BOOLEAN
        /\ child_reaped' \in BOOLEAN
    OBVIOUS
  <2>4. foreign' \in 0 .. MaxForeign /\ faults' \in Nat
    OBVIOUS
  <2>. QED  BY <2>1, <2>2, <2>3, <2>4
<1>2. MaskTracked'
  BY DEF MaskTracked
<1>3. ChildTracked'
  BY DEF ChildTracked
<1>4. PendingTracked'
  BY DEF PendingTracked
<1>5. DeliveryOutcome'
  BY DEF DeliveryOutcome
<1>. QED  BY <1>1, <1>2, <1>3, <1>4, <1>5 DEF DeliveryInvariant

(* The action is restored (lines 116-119). *)
LEMMA DeliveryRestoreActionPreserves ==
  ASSUME DeliveryInvariant, Delivery!RestoreAction
  PROVE  DeliveryInvariant'
<1>. USE DEF DeliveryInvariant, Delivery!RestoreAction, Delivery!Goes,
             Delivery!RestoreFails, Delivery!Fault
<1>1. Delivery!TypeOK'
  <2>1. /\ old' \in [blocked : BOOLEAN, action : {"default", "ignore"}]
        /\ ignored' \in BOOLEAN /\ givenUp' \in BOOLEAN
        /\ restoreFailed' \in BOOLEAN
    OBVIOUS
  <2>2. /\ blocked' \in BOOLEAN /\ pending' \in BOOLEAN
        /\ signal_received' \in BOOLEAN
    OBVIOUS
  <2>3. /\ mask_changed' \in BOOLEAN /\ action_changed' \in BOOLEAN
        /\ child_reaped' \in BOOLEAN
    OBVIOUS
  <2>4. foreign' \in 0 .. MaxForeign /\ faults' \in Nat
    OBVIOUS
  <2>. QED  BY <2>1, <2>2, <2>3, <2>4
<1>2. MaskTracked'
  BY DEF MaskTracked
<1>3. ChildTracked'
  BY DEF ChildTracked
<1>4. PendingTracked'
  BY DEF PendingTracked
<1>5. DeliveryOutcome'
  BY DEF DeliveryOutcome
<1>. QED  BY <1>1, <1>2, <1>3, <1>4, <1>5 DEF DeliveryInvariant

(* main returns (line 120). *)
LEMMA DeliveryReturnPreserves ==
  ASSUME DeliveryInvariant, Delivery!Return
  PROVE  DeliveryInvariant'
<1>. USE DEF DeliveryInvariant, Delivery!Return, Delivery!Goes
<1>1. Delivery!TypeOK'
  <2>1. /\ old' \in [blocked : BOOLEAN, action : {"default", "ignore"}]
        /\ ignored' \in BOOLEAN /\ givenUp' \in BOOLEAN
        /\ restoreFailed' \in BOOLEAN
    OBVIOUS
  <2>2. /\ blocked' \in BOOLEAN /\ pending' \in BOOLEAN
        /\ signal_received' \in BOOLEAN
    OBVIOUS
  <2>3. /\ mask_changed' \in BOOLEAN /\ action_changed' \in BOOLEAN
        /\ child_reaped' \in BOOLEAN
    OBVIOUS
  <2>4. foreign' \in 0 .. MaxForeign /\ faults' \in Nat
    OBVIOUS
  <2>. QED  BY <2>1, <2>2, <2>3, <2>4
<1>2. MaskTracked'
  BY DEF MaskTracked
<1>3. ChildTracked'
  BY DEF ChildTracked
<1>4. PendingTracked'
  BY DEF PendingTracked
<1>5. DeliveryOutcome'
  BY DEF DeliveryOutcome
<1>. QED  BY <1>1, <1>2, <1>3, <1>4, <1>5 DEF DeliveryInvariant

(* The child sends SIGUSR1 and exits (lines 64-67). *)
LEMMA DeliveryKillPreserves ==
  ASSUME DeliveryInvariant, Delivery!Kill
  PROVE  DeliveryInvariant'
<1>. USE DEF DeliveryInvariant, Delivery!Kill, Delivery!Generated,
             Delivery!Fault
<1>1. Delivery!TypeOK'
  <2>1. /\ old' \in [blocked : BOOLEAN, action : {"default", "ignore"}]
        /\ ignored' \in BOOLEAN /\ givenUp' \in BOOLEAN
        /\ restoreFailed' \in BOOLEAN
    OBVIOUS
  <2>2. /\ blocked' \in BOOLEAN /\ pending' \in BOOLEAN
        /\ signal_received' \in BOOLEAN
    OBVIOUS
  <2>3. /\ mask_changed' \in BOOLEAN /\ action_changed' \in BOOLEAN
        /\ child_reaped' \in BOOLEAN
    OBVIOUS
  <2>4. foreign' \in 0 .. MaxForeign /\ faults' \in Nat
    OBVIOUS
  <2>. QED  BY <2>1, <2>2, <2>3, <2>4
<1>2. MaskTracked'
  BY DEF MaskTracked
<1>3. ChildTracked'
  BY DEF ChildTracked
<1>4. PendingTracked'
  BY DEF PendingTracked, MaskTracked, ChildTracked
<1>5. DeliveryOutcome'
  BY DEF DeliveryOutcome, ChildTracked
<1>. QED  BY <1>1, <1>2, <1>3, <1>4, <1>5 DEF DeliveryInvariant

(* The invariant holds before main has done anything. *)
LEMMA DeliveryInit ==
  ASSUME Delivery!Init
  PROVE  DeliveryInvariant
<1>. USE DEF Delivery!Init
<1>1. Delivery!TypeOK
  <2>1. /\ old \in [blocked : BOOLEAN, action : {"default", "ignore"}]
        /\ ignored \in BOOLEAN /\ givenUp \in BOOLEAN
        /\ restoreFailed \in BOOLEAN
    OBVIOUS
  <2>2. /\ blocked \in BOOLEAN /\ pending \in BOOLEAN
        /\ signal_received \in BOOLEAN
    OBVIOUS
  <2>3. /\ mask_changed \in BOOLEAN /\ action_changed \in BOOLEAN
        /\ child_reaped \in BOOLEAN
    OBVIOUS
  <2>4. foreign \in 0 .. MaxForeign /\ faults \in Nat
    OBVIOUS
  <2>. QED  BY <2>1, <2>2, <2>3, <2>4
<1>2. MaskTracked
  BY DEF MaskTracked
<1>3. ChildTracked
  BY DEF ChildTracked
<1>4. PendingTracked
  BY DEF PendingTracked
<1>5. DeliveryOutcome
  BY DEF DeliveryOutcome
<1>. QED  BY <1>1, <1>2, <1>3, <1>4, <1>5 DEF DeliveryInvariant

(* Every step keeps it. *)
LEMMA DeliveryStep ==
  ASSUME DeliveryInvariant, Delivery!Next
  PROVE  DeliveryInvariant'
<1>1. CASE Delivery!MainStep
  BY <1>1, DeliveryBlockPreserves, DeliveryInstallHandlerPreserves,
     DeliveryForkPreserves, DeliveryWaitPreserves,
     DeliveryCheckPendingPreserves, DeliverySuspendPreserves,
     DeliverySucceedPreserves, DeliveryCleanupWaitPreserves,
     DeliveryRestoreMaskPreserves, DeliveryRestoreActionPreserves,
     DeliveryReturnPreserves
     DEF Delivery!MainStep
<1>2. CASE \/ Delivery!WaitFails \/ Delivery!SuspendFails
           \/ Delivery!CleanupWaitFails \/ Delivery!Kill
           \/ Delivery!Deliver \/ Delivery!Foreign
  BY <1>2, DeliveryWaitFailsPreserves, DeliverySuspendFailsPreserves,
     DeliveryCleanupWaitFailsPreserves, DeliveryKillPreserves,
     DeliveryDeliverPreserves, DeliveryForeignPreserves
<1>3. CASE Delivery!Exited
  BY <1>3 DEF Delivery!Exited, Delivery!vars, DeliveryInvariant, MaskTracked,
              ChildTracked, PendingTracked, DeliveryOutcome
<1>. QED  BY <1>1, <1>2, <1>3 DEF Delivery!Next

-----------------------------------------------------------------------------
(* signals: likewise. *)
USE DEF SigFd!TypeOK, SigFd!ForeignAssumption, SigFd!signals, SigFd!flags,
        SelfLeaving

(* A pending signal is delivered. *)
LEMMA SigFdDeliverPreserves ==
  ASSUME SelfInvariant, SigFd!Deliver
  PROVE  SelfInvariant'
<1>. USE DEF SelfInvariant, SigFd!Deliver
<1>1. SigFd!TypeOK'
  <2>1. /\ old' \in [blocked : BOOLEAN, action : {"default", "ignore"}]
        /\ blocked' \in BOOLEAN /\ mask_changed' \in BOOLEAN
        /\ signal_sent' \in BOOLEAN /\ signal_consumed' \in BOOLEAN
        /\ signal_fd' \in BOOLEAN /\ restoreFailed' \in BOOLEAN
    OBVIOUS
  <2>2. foreign' \in 0 .. MaxForeign /\ faults' \in Nat
    OBVIOUS
  <2>. QED  BY <2>1, <2>2
<1>2. SelfMaskTracked'
  BY DEF SelfMaskTracked
<1>3. OwnSignalTracked'
  BY DEF OwnSignalTracked, SelfMaskTracked
<1>4. SelfOutcome'
  BY DEF SelfOutcome, SelfMaskTracked, OwnSignalTracked
<1>. QED  BY <1>1, <1>2, <1>3, <1>4 DEF SelfInvariant

(* Another process sends SIGUSR1. *)
LEMMA SigFdForeignPreserves ==
  ASSUME SelfInvariant, SigFd!Foreign
  PROVE  SelfInvariant'
<1>. USE DEF SelfInvariant, SigFd!Foreign, SigFd!Generate
<1>1. SigFd!TypeOK'
  <2>1. /\ old' \in [blocked : BOOLEAN, action : {"default", "ignore"}]
        /\ blocked' \in BOOLEAN /\ mask_changed' \in BOOLEAN
        /\ signal_sent' \in BOOLEAN /\ signal_consumed' \in BOOLEAN
        /\ signal_fd' \in BOOLEAN /\ restoreFailed' \in BOOLEAN
    OBVIOUS
  <2>2. foreign' \in 0 .. MaxForeign /\ faults' \in Nat
    OBVIOUS
  <2>. QED  BY <2>1, <2>2
<1>2. SelfMaskTracked'
  BY DEF SelfMaskTracked
<1>3. OwnSignalTracked'
  BY DEF OwnSignalTracked
<1>4. SelfOutcome'
  BY DEF SelfOutcome
<1>. QED  BY <1>1, <1>2, <1>3, <1>4 DEF SelfInvariant

(* sigprocmask blocks SIGUSR1 (lines 35-41). *)
LEMMA SigFdBlockPreserves ==
  ASSUME SelfInvariant, SigFd!Block
  PROVE  SelfInvariant'
<1>. USE DEF SelfInvariant, SigFd!Block, SigFd!Goes, SigFd!Fails, SigFd!Fault
<1>1. SigFd!TypeOK'
  <2>1. /\ old' \in [blocked : BOOLEAN, action : {"default", "ignore"}]
        /\ blocked' \in BOOLEAN /\ mask_changed' \in BOOLEAN
        /\ signal_sent' \in BOOLEAN /\ signal_consumed' \in BOOLEAN
        /\ signal_fd' \in BOOLEAN /\ restoreFailed' \in BOOLEAN
    OBVIOUS
  <2>2. foreign' \in 0 .. MaxForeign /\ faults' \in Nat
    OBVIOUS
  <2>. QED  BY <2>1, <2>2
<1>2. SelfMaskTracked'
  BY DEF SelfMaskTracked
<1>3. OwnSignalTracked'
  BY DEF OwnSignalTracked
<1>4. SelfOutcome'
  BY DEF SelfOutcome
<1>. QED  BY <1>1, <1>2, <1>3, <1>4 DEF SelfInvariant

(* signalfd (lines 43-46). *)
LEMMA SigFdOpenSignalFdPreserves ==
  ASSUME SelfInvariant, SigFd!OpenSignalFd
  PROVE  SelfInvariant'
<1>. USE DEF SelfInvariant, SigFd!OpenSignalFd, SigFd!Goes, SigFd!Fails,
             SigFd!Fault
<1>1. SigFd!TypeOK'
  <2>1. /\ old' \in [blocked : BOOLEAN, action : {"default", "ignore"}]
        /\ blocked' \in BOOLEAN /\ mask_changed' \in BOOLEAN
        /\ signal_sent' \in BOOLEAN /\ signal_consumed' \in BOOLEAN
        /\ signal_fd' \in BOOLEAN /\ restoreFailed' \in BOOLEAN
    OBVIOUS
  <2>2. foreign' \in 0 .. MaxForeign /\ faults' \in Nat
    OBVIOUS
  <2>. QED  BY <2>1, <2>2
<1>2. SelfMaskTracked'
  BY DEF SelfMaskTracked
<1>3. OwnSignalTracked'
  BY DEF OwnSignalTracked
<1>4. SelfOutcome'
  BY DEF SelfOutcome
<1>. QED  BY <1>1, <1>2, <1>3, <1>4 DEF SelfInvariant

(* kill(getpid()) (lines 47-51). *)
LEMMA SigFdSendToSelfPreserves ==
  ASSUME SelfInvariant, SigFd!SendToSelf
  PROVE  SelfInvariant'
<1>. USE DEF SelfInvariant, SigFd!SendToSelf, SigFd!Goes, SigFd!Fails,
             SigFd!Fault, SigFd!Generate
<1>1. SigFd!TypeOK'
  <2>1. /\ old' \in [blocked : BOOLEAN, action : {"default", "ignore"}]
        /\ blocked' \in BOOLEAN /\ mask_changed' \in BOOLEAN
        /\ signal_sent' \in BOOLEAN /\ signal_consumed' \in BOOLEAN
        /\ signal_fd' \in BOOLEAN /\ restoreFailed' \in BOOLEAN
    OBVIOUS
  <2>2. foreign' \in 0 .. MaxForeign /\ faults' \in Nat
    OBVIOUS
  <2>. QED  BY <2>1, <2>2
<1>2. SelfMaskTracked'
  BY DEF SelfMaskTracked
<1>3. OwnSignalTracked'
  BY DEF OwnSignalTracked, SelfMaskTracked
<1>4. SelfOutcome'
  BY DEF SelfOutcome
<1>. QED  BY <1>1, <1>2, <1>3, <1>4 DEF SelfInvariant

(* read and the test of the sender (lines 52-55). *)
LEMMA SigFdReadSignalPreserves ==
  ASSUME SelfInvariant, SigFd!ReadSignal
  PROVE  SelfInvariant'
<1>. USE DEF SelfInvariant, SigFd!ReadSignal, SigFd!Goes
<1>1. SigFd!TypeOK'
  <2>1. /\ old' \in [blocked : BOOLEAN, action : {"default", "ignore"}]
        /\ blocked' \in BOOLEAN /\ mask_changed' \in BOOLEAN
        /\ signal_sent' \in BOOLEAN /\ signal_consumed' \in BOOLEAN
        /\ signal_fd' \in BOOLEAN /\ restoreFailed' \in BOOLEAN
    OBVIOUS
  <2>2. foreign' \in 0 .. MaxForeign /\ faults' \in Nat
    OBVIOUS
  <2>. QED  BY <2>1, <2>2
<1>2. SelfMaskTracked'
  BY DEF SelfMaskTracked
<1>3. OwnSignalTracked'
  BY DEF OwnSignalTracked
<1>4. SelfOutcome'
  BY DEF SelfOutcome, OwnSignalTracked
<1>. QED  BY <1>1, <1>2, <1>3, <1>4 DEF SelfInvariant

(* read fails (lines 52-55). *)
LEMMA SigFdReadFailsPreserves ==
  ASSUME SelfInvariant, SigFd!ReadFails
  PROVE  SelfInvariant'
<1>. USE DEF SelfInvariant, SigFd!ReadFails, SigFd!Goes, SigFd!Fails,
             SigFd!Fault
<1>1. SigFd!TypeOK'
  <2>1. /\ old' \in [blocked : BOOLEAN, action : {"default", "ignore"}]
        /\ blocked' \in BOOLEAN /\ mask_changed' \in BOOLEAN
        /\ signal_sent' \in BOOLEAN /\ signal_consumed' \in BOOLEAN
        /\ signal_fd' \in BOOLEAN /\ restoreFailed' \in BOOLEAN
    OBVIOUS
  <2>2. foreign' \in 0 .. MaxForeign /\ faults' \in Nat
    OBVIOUS
  <2>. QED  BY <2>1, <2>2
<1>2. SelfMaskTracked'
  BY DEF SelfMaskTracked
<1>3. OwnSignalTracked'
  BY DEF OwnSignalTracked
<1>4. SelfOutcome'
  BY DEF SelfOutcome
<1>. QED  BY <1>1, <1>2, <1>3, <1>4 DEF SelfInvariant

(* close (lines 56-60). *)
LEMMA SigFdCloseSignalFdPreserves ==
  ASSUME SelfInvariant, SigFd!CloseSignalFd
  PROVE  SelfInvariant'
<1>. USE DEF SelfInvariant, SigFd!CloseSignalFd, SigFd!Goes, SigFd!Fails,
             SigFd!Fault
<1>1. SigFd!TypeOK'
  <2>1. /\ old' \in [blocked : BOOLEAN, action : {"default", "ignore"}]
        /\ blocked' \in BOOLEAN /\ mask_changed' \in BOOLEAN
        /\ signal_sent' \in BOOLEAN /\ signal_consumed' \in BOOLEAN
        /\ signal_fd' \in BOOLEAN /\ restoreFailed' \in BOOLEAN
    OBVIOUS
  <2>2. foreign' \in 0 .. MaxForeign /\ faults' \in Nat
    OBVIOUS
  <2>. QED  BY <2>1, <2>2
<1>2. SelfMaskTracked'
  BY DEF SelfMaskTracked
<1>3. OwnSignalTracked'
  BY DEF OwnSignalTracked
<1>4. SelfOutcome'
  BY DEF SelfOutcome
<1>. QED  BY <1>1, <1>2, <1>3, <1>4 DEF SelfInvariant

(* sigprocmask restores the mask (lines 61-65). *)
LEMMA SigFdRestorePreserves ==
  ASSUME SelfInvariant, SigFd!Restore
  PROVE  SelfInvariant'
<1>. USE DEF SelfInvariant, SigFd!Restore, SigFd!Goes, SigFd!Fails,
             SigFd!Fault
<1>1. SigFd!TypeOK'
  <2>1. /\ old' \in [blocked : BOOLEAN, action : {"default", "ignore"}]
        /\ blocked' \in BOOLEAN /\ mask_changed' \in BOOLEAN
        /\ signal_sent' \in BOOLEAN /\ signal_consumed' \in BOOLEAN
        /\ signal_fd' \in BOOLEAN /\ restoreFailed' \in BOOLEAN
    OBVIOUS
  <2>2. foreign' \in 0 .. MaxForeign /\ faults' \in Nat
    OBVIOUS
  <2>. QED  BY <2>1, <2>2
<1>2. SelfMaskTracked'
  BY DEF SelfMaskTracked
<1>3. OwnSignalTracked'
  BY DEF OwnSignalTracked
<1>4. SelfOutcome'
  BY DEF SelfOutcome, OwnSignalTracked
<1>. QED  BY <1>1, <1>2, <1>3, <1>4 DEF SelfInvariant

(* sigtimedwait takes what was not read (lines 77-83). *)
LEMMA SigFdCleanupDrainsPreserves ==
  ASSUME SelfInvariant, SigFd!CleanupDrains
  PROVE  SelfInvariant'
<1>. USE DEF SelfInvariant, SigFd!CleanupDrains, SigFd!Goes
<1>1. SigFd!TypeOK'
  <2>1. /\ old' \in [blocked : BOOLEAN, action : {"default", "ignore"}]
        /\ blocked' \in BOOLEAN /\ mask_changed' \in BOOLEAN
        /\ signal_sent' \in BOOLEAN /\ signal_consumed' \in BOOLEAN
        /\ signal_fd' \in BOOLEAN /\ restoreFailed' \in BOOLEAN
    OBVIOUS
  <2>2. foreign' \in 0 .. MaxForeign /\ faults' \in Nat
    OBVIOUS
  <2>. QED  BY <2>1, <2>2
<1>2. SelfMaskTracked'
  BY DEF SelfMaskTracked
<1>3. OwnSignalTracked'
  BY DEF OwnSignalTracked
<1>4. SelfOutcome'
  BY DEF SelfOutcome
<1>. QED  BY <1>1, <1>2, <1>3, <1>4 DEF SelfInvariant

(* The cleanup closes the descriptor (lines 70-76). *)
LEMMA SigFdCleanupClosesPreserves ==
  ASSUME SelfInvariant, SigFd!CleanupCloses
  PROVE  SelfInvariant'
<1>. USE DEF SelfInvariant, SigFd!CleanupCloses, SigFd!Goes, SigFd!Fault
<1>1. SigFd!TypeOK'
  <2>1. /\ old' \in [blocked : BOOLEAN, action : {"default", "ignore"}]
        /\ blocked' \in BOOLEAN /\ mask_changed' \in BOOLEAN
        /\ signal_sent' \in BOOLEAN /\ signal_consumed' \in BOOLEAN
        /\ signal_fd' \in BOOLEAN /\ restoreFailed' \in BOOLEAN
    OBVIOUS
  <2>2. foreign' \in 0 .. MaxForeign /\ faults' \in Nat
    OBVIOUS
  <2>. QED  BY <2>1, <2>2
<1>2. SelfMaskTracked'
  BY DEF SelfMaskTracked
<1>3. OwnSignalTracked'
  BY DEF OwnSignalTracked
<1>4. SelfOutcome'
  BY DEF SelfOutcome
<1>. QED  BY <1>1, <1>2, <1>3, <1>4 DEF SelfInvariant

(* The cleanup restores the mask (lines 84-90). *)
LEMMA SigFdCleanupRestoresPreserves ==
  ASSUME SelfInvariant, SigFd!CleanupRestores
  PROVE  SelfInvariant'
<1>. USE DEF SelfInvariant, SigFd!CleanupRestores, SigFd!Goes, SigFd!Fault
<1>1. SigFd!TypeOK'
  <2>1. /\ old' \in [blocked : BOOLEAN, action : {"default", "ignore"}]
        /\ blocked' \in BOOLEAN /\ mask_changed' \in BOOLEAN
        /\ signal_sent' \in BOOLEAN /\ signal_consumed' \in BOOLEAN
        /\ signal_fd' \in BOOLEAN /\ restoreFailed' \in BOOLEAN
    OBVIOUS
  <2>2. foreign' \in 0 .. MaxForeign /\ faults' \in Nat
    OBVIOUS
  <2>. QED  BY <2>1, <2>2
<1>2. SelfMaskTracked'
  BY DEF SelfMaskTracked
<1>3. OwnSignalTracked'
  BY DEF OwnSignalTracked
<1>4. SelfOutcome'
  BY DEF SelfOutcome
<1>. QED  BY <1>1, <1>2, <1>3, <1>4 DEF SelfInvariant

(* main returns (line 91). *)
LEMMA SigFdReturnPreserves ==
  ASSUME SelfInvariant, SigFd!Return
  PROVE  SelfInvariant'
<1>. USE DEF SelfInvariant, SigFd!Return, SigFd!Goes
<1>1. SigFd!TypeOK'
  <2>1. /\ old' \in [blocked : BOOLEAN, action : {"default", "ignore"}]
        /\ blocked' \in BOOLEAN /\ mask_changed' \in BOOLEAN
        /\ signal_sent' \in BOOLEAN /\ signal_consumed' \in BOOLEAN
        /\ signal_fd' \in BOOLEAN /\ restoreFailed' \in BOOLEAN
    OBVIOUS
  <2>2. foreign' \in 0 .. MaxForeign /\ faults' \in Nat
    OBVIOUS
  <2>. QED  BY <2>1, <2>2
<1>2. SelfMaskTracked'
  BY DEF SelfMaskTracked
<1>3. OwnSignalTracked'
  BY DEF OwnSignalTracked
<1>4. SelfOutcome'
  BY DEF SelfOutcome
<1>. QED  BY <1>1, <1>2, <1>3, <1>4 DEF SelfInvariant

(* The invariant holds before main has done anything. *)
LEMMA SelfInit ==
  ASSUME SigFd!Init
  PROVE  SelfInvariant
<1>. USE DEF SigFd!Init
<1>1. SigFd!TypeOK
  <2>1. /\ old \in [blocked : BOOLEAN, action : {"default", "ignore"}]
        /\ blocked \in BOOLEAN /\ mask_changed \in BOOLEAN
        /\ signal_sent \in BOOLEAN /\ signal_consumed \in BOOLEAN
        /\ signal_fd \in BOOLEAN /\ restoreFailed \in BOOLEAN
    OBVIOUS
  <2>2. foreign \in 0 .. MaxForeign /\ faults \in Nat
    OBVIOUS
  <2>. QED  BY <2>1, <2>2
<1>2. SelfMaskTracked
  BY DEF SelfMaskTracked
<1>3. OwnSignalTracked
  BY DEF OwnSignalTracked
<1>4. SelfOutcome
  BY DEF SelfOutcome
<1>. QED  BY <1>1, <1>2, <1>3, <1>4 DEF SelfInvariant

(* Every step keeps it. *)
LEMMA SelfStep ==
  ASSUME SelfInvariant, SigFd!Next
  PROVE  SelfInvariant'
<1>1. CASE SigFd!MainStep
  BY <1>1, SigFdBlockPreserves, SigFdOpenSignalFdPreserves,
     SigFdSendToSelfPreserves, SigFdReadSignalPreserves,
     SigFdCloseSignalFdPreserves, SigFdRestorePreserves,
     SigFdCleanupDrainsPreserves, SigFdCleanupClosesPreserves,
     SigFdCleanupRestoresPreserves, SigFdReturnPreserves
     DEF SigFd!MainStep
<1>2. CASE SigFd!ReadFails \/ SigFd!Deliver \/ SigFd!Foreign
  BY <1>2, SigFdReadFailsPreserves, SigFdDeliverPreserves,
     SigFdForeignPreserves
<1>3. CASE SigFd!Exited
  BY <1>3 DEF SigFd!Exited, SigFd!vars, SelfInvariant, SelfMaskTracked,
              OwnSignalTracked, SelfOutcome
<1>. QED  BY <1>1, <1>2, <1>3 DEF SigFd!Next

-----------------------------------------------------------------------------
(* The invariant holds for any number of foreign signals. *)
THEOREM Invariance == Spec => []SignalInvariant
<1>1. Init => SignalInvariant
  BY DeliveryInit, SelfInit DEF Init, SignalInvariant
<1>2. SignalInvariant /\ [Next]_vars => SignalInvariant'
  <2>1. SUFFICES ASSUME SignalInvariant, [Next]_vars PROVE SignalInvariant'
    OBVIOUS
  <2>2. CASE OfDelivery(Delivery!Next)
    BY <2>1, <2>2, DeliveryStep DEF SignalInvariant, OfDelivery
  <2>3. CASE OfSigFd(SigFd!Next)
    BY <2>1, <2>3, SelfStep DEF SignalInvariant, OfSigFd
  <2>4. CASE UNCHANGED vars
    BY <2>1, <2>4
       DEF vars, both, first, second, SignalInvariant, DeliveryInvariant,
           MaskTracked, ChildTracked, PendingTracked, DeliveryOutcome,
           SelfInvariant, SelfMaskTracked, OwnSignalTracked, SelfOutcome
  <2>. QED  BY <2>1, <2>2, <2>3, <2>4 DEF Next
<1>. QED  BY <1>1, <1>2, PTL DEF Spec

(* No SIGUSR1 runs the handler before the program waits for it, and the    *)
(* child's is held pending (23, comment of lines 41-42, checks of lines    *)
(* 74-87).                                                                 *)
THEOREM Held == Spec => []HeldUntilAsked
<1>1. SignalInvariant => HeldUntilAsked
  BY DEF SignalInvariant, DeliveryInvariant, ChildTracked, PendingTracked,
         HeldUntilAsked, Delivery!HeldUntilAsked
<1>. QED  BY <1>1, Invariance, PTL

(* The child's signal finds the handler on every path, as the mask is      *)
(* restored before the action (23, lines 112-119), unless the child was    *)
(* given up (23, lines 107-110).                                           *)
THEOREM SurvivesChild == Spec => []NotKilledByChild
<1>1. SignalInvariant => NotKilledByChild
  BY DEF SignalInvariant, DeliveryInvariant, DeliveryOutcome,
         NotKilledByChild, Delivery!NotKilledByChild
<1>. QED  BY <1>1, Invariance, PTL

(* The signal the program sends to itself is gone before the mask lets it  *)
(* through, and it is there when it is to be read (06, lines 35-54,        *)
(* 77-90).                                                                 *)
THEOREM SurvivesItself == Spec => []NotKilledByItself
<1>1. SignalInvariant => NotKilledByItself
  BY DEF SignalInvariant, SelfInvariant, SelfOutcome, OwnSignalTracked,
         NotKilledByItself, SigFd!NotKilledByItself
<1>. QED  BY <1>1, Invariance, PTL

(* At exit what was inherited is back unless restoring it failed, no child *)
(* is left unless the last wait for it failed, and the verdict is true     *)
(* (23:60, 23:94-120, 06:56-91).                                           *)
THEOREM ExitCorrect == Spec => []HonestExit
<1>1. SignalInvariant => HonestExit
  <2>1. DeliveryInvariant => Delivery!HonestExit
    BY DEF DeliveryInvariant, MaskTracked, ChildTracked, DeliveryOutcome,
           Leaving, Delivery!HonestExit
  <2>2. SelfInvariant => SigFd!HonestExit
    BY DEF SelfInvariant, SelfMaskTracked, OwnSignalTracked, SelfOutcome,
           SelfLeaving, SigFd!HonestExit
  <2>. QED  BY <2>1, <2>2 DEF SignalInvariant, HonestExit
<1>. QED  BY <1>1, Invariance, PTL
=============================================================================
