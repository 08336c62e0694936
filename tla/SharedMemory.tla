---------------------------- MODULE SharedMemory ----------------------------
(***************************************************************************)
(* experiments/08_shared_memory/main.c: the program maps a page of shared  *)
(* memory, removes its name at once, puts a semaphore and an input into    *)
(* it, and forks a child that waits for the semaphore and doubles the      *)
(* input.  The parent posts, reaps the child and verifies; when it cannot, *)
(* it kills the child, which may wait for the semaphore for ever.          *)
(***************************************************************************)
EXTENDS Integers

VARIABLES ignored,    \* was the program started with SIGCHLD ignored?
          main, result,
          held,       \* what the program still has to release
          semaphore,  \* the value of value_ready
          doubled,    \* is output 42?
          child,      \* what the child does next, or how it is gone
          status,     \* how the child ended
          givenUp,    \* history: did the last wait for the child fail?
          faults      \* history: calls that failed

kid  == <<child, status>>
vars == <<ignored, givenUp, main, result, held, semaphore, doubled, kid,
          faults>>

Init ==
  /\ ignored \in BOOLEAN /\ givenUp = FALSE
  /\ main = "shm_open" /\ result = "EXIT_FAILURE" /\ held = {}
  /\ semaphore = 0 /\ doubled = FALSE
  /\ child = "none" /\ status = "none" /\ faults = 0

Goes(from, to) == main = from /\ main' = to
Fault == faults' = faults + 1
Alive == {"sem_wait", "compute", "exit"}

-----------------------------------------------------------------------------
(* The parent.  After a call that fails it releases what there is; drops   *)
(* is what it releases next in any case.                                   *)
SetUp(from, to, gains, drops) ==
  /\ \/ /\ Goes(from, to) /\ UNCHANGED faults
        /\ held' = (held \cup gains) \ drops
     \/ /\ Goes(from, "release") /\ Fault
        /\ held' = held \ drops
  /\ UNCHANGED <<ignored, givenUp, result, semaphore, doubled, kid>>

Prepare ==
  \/ SetUp("shm_open", "ftruncate", {"name", "descriptor"}, {})
  \/ SetUp("ftruncate", "mmap", {}, {})
  \/ SetUp("mmap", "shm_unlink", {"mapping"}, {"descriptor"})
  \/ SetUp("shm_unlink", "sem_init", {}, {"name"})
  \/ SetUp("sem_init", "fork", {"semaphore"}, {})

Fork ==
  /\ \/ /\ Goes("fork", "sem_post") /\ child' = "sem_wait"
        /\ UNCHANGED faults
     \/ Goes("fork", "release") /\ Fault /\ UNCHANGED child
  /\ UNCHANGED <<ignored, givenUp, result, held, semaphore, doubled, status>>

Post ==
  /\ \/ /\ Goes("sem_post", "wait") /\ semaphore' = semaphore + 1
        /\ UNCHANGED faults
     \/ Goes("sem_post", "kill") /\ Fault /\ UNCHANGED semaphore
  /\ UNCHANGED <<ignored, givenUp, result, held, doubled, kid>>

Wait ==
  /\ \/ child = "zombie" /\ Goes("wait", "verify") /\ UNCHANGED faults
     \/ child = "vanished" /\ Goes("wait", "kill") /\ Fault
  /\ child' = IF child = "zombie" THEN "gone" ELSE child
  /\ UNCHANGED <<ignored, givenUp, result, held, semaphore, doubled, status>>

(* A faulty variant of WaitFails: nothing is known, and all is released. *)
WaitFailsAndReturns ==
  /\ Goes("wait", "release") /\ Fault
  /\ UNCHANGED <<ignored, givenUp, result, held, semaphore, doubled, kid>>

WaitFails ==
  /\ Goes("wait", "kill") /\ Fault
  /\ UNCHANGED <<ignored, givenUp, result, held, semaphore, doubled, kid>>

(* Where SIGCHLD is ignored the kernel reaps the child, waitpid says       *)
(* ECHILD, and the pid is no longer the program's.                         *)
ChildEnds(code) ==
  /\ child' = IF ignored THEN "vanished" ELSE "zombie"
  /\ status' = code

(* A faulty variant of Kill: terminate_and_reap does not terminate. *)
KillNothing ==
  /\ Goes("kill", "reap")
  /\ UNCHANGED <<ignored, givenUp, result, held, semaphore, doubled, kid,
                 faults>>

(* terminate_and_reap: SIGKILL, to whoever has the pid by now.  What kill  *)
(* reports is ignored; of the program's own child it is success ...        *)
Kill ==
  /\ Goes("kill", "reap")
  /\ IF child \in Alive THEN ChildEnds("signal") ELSE UNCHANGED kid
  /\ UNCHANGED <<ignored, givenUp, result, held, semaphore, doubled, faults>>

(* ... and waitpid. *)
Reap ==
  /\ child \in {"zombie", "vanished"} /\ Goes("reap", "release")
  /\ child' = "gone"
  /\ UNCHANGED <<ignored, givenUp, result, held, semaphore, doubled, status,
                 faults>>

(* ... which may fail, too: the child, dead by now, is given up. *)
ReapFails ==
  /\ Goes("reap", "release") /\ givenUp' = TRUE /\ Fault
  /\ UNCHANGED <<ignored, result, held, semaphore, doubled, kid>>

Verify ==
  /\ Goes("verify", "release")
  /\ result' = IF status = "0" /\ doubled
               THEN "EXIT_SUCCESS" ELSE "EXIT_FAILURE"
  /\ UNCHANGED <<ignored, givenUp, held, semaphore, doubled, kid, faults>>

(* The semaphore goes before the mapping it lies in; what a release that   *)
(* fails leaves behind cannot be helped, but is reported.                  *)
Release ==
  /\ main = "release" /\ held # {}
  /\ \E r \in held :
       /\ r = "mapping" => "semaphore" \notin held
       /\ held' = held \ {r}
  /\ \/ UNCHANGED <<result, faults>>
     \/ result' = "EXIT_FAILURE" /\ Fault
  /\ UNCHANGED <<ignored, givenUp, main, semaphore, doubled, kid>>

Return ==
  /\ held = {} /\ Goes("release", "exited")
  /\ UNCHANGED <<ignored, givenUp, result, held, semaphore, doubled, kid,
                 faults>>

-----------------------------------------------------------------------------
(* The child. *)

(* wait_for_semaphore. *)
ChildWaits ==
  /\ child = "sem_wait"
  /\ \/ /\ semaphore > 0 /\ semaphore' = semaphore - 1
        /\ child' = "compute" /\ UNCHANGED <<status, faults>>
     \/ ChildEnds("2") /\ Fault /\ UNCHANGED semaphore
  /\ UNCHANGED <<ignored, givenUp, main, result, held, doubled>>

ChildComputes ==
  /\ child = "compute" /\ child' = "exit" /\ doubled' = TRUE
  /\ UNCHANGED <<ignored, givenUp, main, result, held, semaphore, status,
                 faults>>

ChildExits ==
  /\ child = "exit" /\ ChildEnds("0")
  /\ UNCHANGED <<ignored, givenUp, main, result, held, semaphore, doubled,
                 faults>>

Exited == main = "exited" /\ UNCHANGED vars

MainStep ==
  \/ Prepare \/ Fork \/ Post \/ Wait \/ Kill \/ Reap \/ Verify \/ Release
  \/ Return
ChildStep ==
  (semaphore > 0 /\ ChildWaits) \/ ChildComputes \/ ChildExits

Next == MainStep \/ WaitFails \/ ReapFails \/ ChildWaits \/ ChildStep \/ Exited
Spec == Init /\ [][Next]_vars

(* Both processes run; no error ends the child's wait for the semaphore. *)
FairSpec == Spec /\ WF_vars(MainStep) /\ WF_vars(ChildStep)

-----------------------------------------------------------------------------
(* Properties. *)

TypeOK ==
  /\ ignored \in BOOLEAN /\ givenUp \in BOOLEAN
  /\ main \in {"shm_open", "ftruncate", "mmap", "shm_unlink", "sem_init",
               "fork", "sem_post", "wait", "kill", "reap", "verify", "release",
               "exited"}
  /\ result \in {"EXIT_SUCCESS", "EXIT_FAILURE"}
  /\ held \in SUBSET {"name", "descriptor", "mapping", "semaphore"}
  /\ semaphore \in 0 .. 1 /\ doubled \in BOOLEAN
  /\ child \in Alive \cup {"none", "zombie", "vanished", "gone"}
  /\ status \in {"none", "0", "2", "signal"} /\ faults \in Nat

(* The semaphore is not destroyed under a child that may still wait for    *)
(* it, and the parent reads the output only when nobody writes it any more *)
(* and the child that ended well has written it (lines 106-137).           *)
SharedStateOutlivesChild ==
  /\ child \in Alive => {"mapping", "semaphore"} \subseteq held
  /\ main = "verify" => child = "gone" /\ (status = "0" => doubled)

(* How this program fulfils ChildExchange. *)
(* The parent returns, also when the child would wait for the semaphore    *)
(* for ever; on every path the child is reaped, unless the last wait for   *)
(* it failed, and nothing is left, and success means that a child that     *)
(* ended well has doubled the input (lines 29-36, 45-137).                 *)
ExchangeState == [
  child |-> CASE child \in {"none", "zombie"} -> child
              [] child \in {"vanished", "gone"} -> "gone" [] OTHER -> "alive",
  status |-> CASE status = "none" -> "none" [] status = "0" -> "well"
               [] OTHER -> "ill",
  exchanged |-> doubled,
  held |-> held # {},
  givenUp |-> givenUp,
  faulty |-> ignored \/ faults > 0,
  verdict |-> IF main = "exited" THEN result ELSE "running"]
=============================================================================
