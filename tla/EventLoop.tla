----------------------------- MODULE EventLoop -----------------------------
(***************************************************************************)
(* experiments/11_event_loop/main.c: one thread waits with epoll for an    *)
(* eventfd it has written itself and for a timer that expires once, reads  *)
(* each of them when it is reported, and ends its loop when it has seen    *)
(* both.  epoll is level-triggered: it reports, in any order, what has     *)
(* something to read, and waits while nothing has.                         *)
(***************************************************************************)
EXTENDS Integers, Sequences, SequencesExt

CONSTANTS DELAY,     \* ticks until the timer expires (20 ms in the code)
          TIMEOUT    \* ticks epoll_wait waits at most (one second)

DelayAssumption ==
  DELAY \in Nat \ {0} /\ TIMEOUT \in Nat /\ DELAY < TIMEOUT

VARIABLES main, result,
          fds,         \* which descriptors are open
          registered,  \* which of them are in the epoll set
          armed,       \* ticks until the timer expires, or -1
          counter,     \* descriptor -> the number a read of it returns
          waited,      \* how many ticks epoll_wait has waited
          events,      \* what it has reported and is not yet handled
          saw,         \* saw_event, saw_timer
          value,       \* event_value, timer_expirations
          faults       \* history: calls that failed

clock == <<armed, waited>>
loop  == <<events, saw, value>>
vars  == <<main, result, fds, registered, clock, counter, loop, faults>>

Sources    == {"event_fd", "timer_fd"}
wake_value == 7

Init ==
  /\ main = "epoll_create" /\ result = "EXIT_FAILURE"
  /\ fds = {} /\ registered = {} /\ armed = -1 /\ waited = 0
  /\ counter = [d \in Sources |-> 0]
  /\ events = <<>> /\ saw = {} /\ value = [d \in Sources |-> 0]
  /\ faults = 0

Goes(from, to) == main = from /\ main' = to
Fault == faults' = faults + 1

-----------------------------------------------------------------------------
(* The preparation: three descriptors, two registrations, timer, counter.  *)

Fails(from) ==
  /\ Goes(from, "cleanup") /\ Fault
  /\ from = "dispatch" => events # <<>>
  /\ UNCHANGED <<result, fds, registered, clock, counter, loop>>

Open(from, to, d) ==
  /\ Goes(from, to) /\ fds' = fds \cup {d}
  /\ UNCHANGED <<result, registered, clock, counter, loop, faults>>

Register(from, to, d) ==
  /\ Goes(from, to) /\ registered' = registered \cup {d}
  /\ UNCHANGED <<result, fds, clock, counter, loop, faults>>

StartTimer ==
  /\ Goes("settime", "write") /\ armed' = DELAY
  /\ UNCHANGED <<result, fds, registered, waited, counter, loop, faults>>

WriteEvent ==
  /\ Goes("write", "loop")
  /\ counter' = [counter EXCEPT !["event_fd"] = wake_value]
  /\ UNCHANGED <<result, fds, registered, clock, loop, faults>>

Prepare ==
  \/ Open("epoll_create", "eventfd", "epoll_fd")
  \/ Open("eventfd", "timerfd", "event_fd")
  \/ Open("timerfd", "add_event", "timer_fd")
  \/ Register("add_event", "add_timer", "event_fd")
  \/ Register("add_timer", "settime", "timer_fd")
  \/ StartTimer \/ WriteEvent

-----------------------------------------------------------------------------
(* Time, and the loop. *)

Ready == {d \in registered : counter[d] > 0}

(* The timer counts down, whatever the program does, and expires once.     *)
Tick ==
  /\ armed > 0
  /\ armed' = IF armed > 1 THEN armed - 1 ELSE -1
  /\ counter' = [counter EXCEPT !["timer_fd"] = IF armed > 1 THEN @ ELSE @ + 1]
  /\ waited' = IF main = "epoll_wait" /\ waited < TIMEOUT THEN waited + 1
                                                         ELSE waited
  /\ UNCHANGED <<main, result, fds, registered, loop, faults>>

(* A faulty variant of Done: one of the two will do. *)
DoneWithOne == saw # {}

Done == saw = Sources

(* The test of the loop, and the call of epoll_wait. *)
Loop ==
  /\ Goes("loop", IF Done THEN "verify" ELSE "epoll_wait")
  /\ waited' = 0
  /\ UNCHANGED <<result, fds, registered, armed, counter, loop, faults>>

(* EINTR: epoll_wait is called again, with its whole timeout. *)
Interrupted ==
  /\ main = "epoll_wait" /\ waited' = 0
  /\ UNCHANGED <<main, result, fds, registered, armed, counter, loop, faults>>

(* epoll_wait returns what is ready, in any order, or, after the timeout,  *)
(* nothing.                                                                *)
EpollWait ==
  /\ Ready # {} \/ waited = TIMEOUT
  /\ Goes("epoll_wait", IF Ready = {} THEN "cleanup" ELSE "dispatch")
  /\ events' \in SetToSeqs(Ready)
  /\ UNCHANGED <<result, fds, registered, clock, counter, saw, value, faults>>

(* A faulty variant of Dispatch: the branch of the timer is missing.       *)
DispatchEventOnly ==
  /\ main = "dispatch"
  /\ IF events = <<>> THEN main' = "loop" /\ UNCHANGED <<counter, loop>>
     ELSE LET d == Head(events) IN
          /\ events' = Tail(events)
          /\ IF d \in saw \cup {"timer_fd"}
             THEN UNCHANGED <<main, counter, saw, value>>
             ELSE /\ value' = [value EXCEPT ![d] = counter[d]]
                  /\ counter' = [counter EXCEPT ![d] = 0]
                  /\ saw' = saw \cup {d}
                  /\ main' = IF counter[d] = 0 THEN "cleanup" ELSE "dispatch"
  /\ UNCHANGED <<result, fds, registered, clock, faults>>

(* One round of the inner loop: a descriptor not seen before is read, and  *)
(* a read that finds nothing fails.                                        *)
Dispatch ==
  /\ main = "dispatch"
  /\ IF events = <<>> THEN main' = "loop" /\ UNCHANGED <<counter, loop>>
     ELSE LET d == Head(events) IN
          /\ events' = Tail(events)
          /\ IF d \in saw THEN UNCHANGED <<main, counter, saw, value>>
             ELSE /\ value' = [value EXCEPT ![d] = counter[d]]
                  /\ counter' = [counter EXCEPT ![d] = 0]
                  /\ saw' = saw \cup {d}
                  /\ main' = IF counter[d] = 0 THEN "cleanup" ELSE "dispatch"
  /\ UNCHANGED <<result, fds, registered, clock, faults>>

Verify ==
  /\ Goes("verify", "cleanup")
  /\ result' = IF value["event_fd"] = wake_value /\ value["timer_fd"] = 1
               THEN "EXIT_SUCCESS" ELSE "EXIT_FAILURE"
  /\ UNCHANGED <<fds, registered, clock, counter, loop, faults>>

(* close, which may report an error but frees the descriptor. *)
Cleanup ==
  /\ main = "cleanup"
  /\ IF fds = {} THEN main' = "exited" /\ UNCHANGED <<result, fds, faults>>
     ELSE /\ fds' = {} /\ UNCHANGED main
          /\ \/ UNCHANGED <<result, faults>>
             \/ result' = "EXIT_FAILURE" /\ Fault
  /\ UNCHANGED <<registered, clock, counter, loop>>

Exited == main = "exited" /\ UNCHANGED vars

MainStep == Prepare \/ Loop \/ EpollWait \/ Dispatch \/ Verify \/ Cleanup

Fallible == {"epoll_create", "eventfd", "timerfd", "add_event", "add_timer",
             "settime", "write", "epoll_wait", "dispatch"}

Next ==
  \/ MainStep \/ Tick \/ Interrupted \/ Exited
  \/ \E from \in Fallible : Fails(from)

Spec == Init /\ [][Next]_vars

(* The program runs and time goes on. *)
FairSpec == Spec /\ WF_vars(MainStep) /\ WF_vars(Tick)

-----------------------------------------------------------------------------
(* Properties. *)

TypeOK ==
  /\ main \in Fallible \cup {"loop", "verify", "cleanup", "exited"}
  /\ result \in {"EXIT_SUCCESS", "EXIT_FAILURE"}
  /\ fds \in SUBSET (Sources \cup {"epoll_fd"})
  /\ registered \in SUBSET Sources
  /\ armed \in -1 .. DELAY /\ waited \in 0 .. TIMEOUT
  /\ counter \in [Sources -> Nat] /\ value \in [Sources -> Nat]
  /\ events \in Seq(Sources) /\ saw \in SUBSET Sources /\ faults \in Nat

(* At the end its descriptors are closed, and success is reported exactly  *)
(* when no call failed: in whatever order and grouping the two sources     *)
(* become ready, however often epoll_wait is interrupted, it never waits   *)
(* for a source it has used up, reads an empty one, or times out (97-148). *)
LoopVerdict ==
  main = "exited" => fds = {} /\ (result = "EXIT_SUCCESS" <=> faults = 0)
=============================================================================
