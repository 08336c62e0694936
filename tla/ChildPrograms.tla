---------------------------- MODULE ChildPrograms ---------------------------
(***************************************************************************)
(* The programs with a child, as ctest runs them: each is a test of its    *)
(* own (cmake/AddUnixExperiment.cmake:65), so a run is a run of one of     *)
(* them.  `program' says which, and the variables it does not have keep    *)
(* one value.  What the programs have in common, the child above all, is   *)
(* in common variables, and ChildExchange is what all of them implement.   *)
(***************************************************************************)
EXTENDS Integers

CONSTANTS PIPE_CAPACITY,        \* bytes a pipe holds
          PAYLOAD,              \* FdPassing
          OUTPUT, CAPTURE,      \* SpawnCapture
          REPORT,               \* SessionReport
          MESSAGE,              \* FifoChannel
          TIMEOUT               \* PidFd

VARIABLES program,
          ignored, main, result, child, status, givenUp, faults,    \* of all
          fds, written, pipe, got, child_reaped, waitError,   \* of several
          message,                                         \* FdPassing
          table, childTable, pipefd, actions_ready,        \* SpawnCapture
          ids, report,                                     \* SessionReport
          directory, fifo, readers, writers,               \* FifoChannel
          held, semaphore, doubled,                        \* SharedMemory
          pidfd, readable, left,                           \* PidFd
          queue, queued, received                          \* SysvQueue

common == <<ignored, main, result, child, status, givenUp, faults>>
shared == <<fds, written, pipe, got, child_reaped, waitError>>
own    == <<message, table, childTable, pipefd, actions_ready, ids, report,
            directory, fifo, readers, writers, held, semaphore, doubled,
            pidfd, readable, left, queue, queued, received>>
vars   == <<program, common, shared, own>>

(* Where a name is not replaced, the variable or constant of the same name *)
(* is meant.                                                               *)
Fd      == INSTANCE FdPassing WITH parent <- main
Spawn   == INSTANCE SpawnCapture WITH printed <- written, used <- got
Session == INSTANCE SessionReport WITH parent <- main, ends <- fds,
             reaped <- child_reaped
Fifo    == INSTANCE FifoChannel WITH data <- pipe, used <- got
Shared  == INSTANCE SharedMemory
Pid     == INSTANCE PidFd
Sysv    == INSTANCE SysvQueue

ASSUME FdConstants      == Fd!CapacityAssumption
ASSUME SpawnConstants   == Spawn!OutputAssumption
ASSUME SessionConstants == Session!ReportAssumption
ASSUME FifoConstants    == Fifo!MessageAssumption
ASSUME PidConstants     == Pid!TimeoutAssumption

(* Something that is so, or done, unless one of these programs runs. *)
Unless(programs, F) == IF program \in programs THEN TRUE ELSE F

Streaming == {"fd_passing", "process_control", "process_groups"}
Reaping   == {"process_groups", "fifo", "pidfd", "sysv_message_queue"}

(* The variables that the program does not have. *)
Absent ==
  /\ Unless({"fd_passing", "process_groups"}, fds = "absent")
  /\ Unless(Streaming, written = "absent")
  /\ Unless(Streaming \cup {"fifo"}, pipe = "absent" /\ got = "absent")
  /\ Unless(Reaping, child_reaped = "absent")
  /\ Unless({"fifo", "sysv_message_queue"}, waitError = "absent")
  /\ Unless({"fd_passing"}, message = "absent")
  /\ Unless({"process_control"},
            /\ table = "absent" /\ childTable = "absent"
            /\ pipefd = "absent" /\ actions_ready = "absent")
  /\ Unless({"process_groups"}, ids = "absent" /\ report = "absent")
  /\ Unless({"fifo"}, /\ directory = "absent" /\ fifo = "absent"
                      /\ readers = "absent" /\ writers = "absent")
  /\ Unless({"shared_memory"},
            held = "absent" /\ semaphore = "absent" /\ doubled = "absent")
  /\ Unless({"pidfd"},
            pidfd = "absent" /\ readable = "absent" /\ left = "absent")
  /\ Unless({"sysv_message_queue"},
            queue = "absent" /\ queued = "absent" /\ received = "absent")

StayAbsent ==
  /\ Unless({"fd_passing", "process_groups"}, UNCHANGED fds)
  /\ Unless(Streaming, UNCHANGED written)
  /\ Unless(Streaming \cup {"fifo"}, UNCHANGED <<pipe, got>>)
  /\ Unless(Reaping, UNCHANGED child_reaped)
  /\ Unless({"fifo", "sysv_message_queue"}, UNCHANGED waitError)
  /\ Unless({"fd_passing"}, UNCHANGED message)
  /\ Unless({"process_control"},
            UNCHANGED <<table, childTable, pipefd, actions_ready>>)
  /\ Unless({"process_groups"}, UNCHANGED <<ids, report>>)
  /\ Unless({"fifo"}, UNCHANGED <<directory, fifo, readers, writers>>)
  /\ Unless({"shared_memory"}, UNCHANGED <<held, semaphore, doubled>>)
  /\ Unless({"pidfd"}, UNCHANGED <<pidfd, readable, left>>)
  /\ Unless({"sysv_message_queue"}, UNCHANGED <<queue, queued, received>>)

Init ==
  /\ \/ program = "fd_passing" /\ Fd!Init
     \/ program = "process_control" /\ Spawn!Init
     \/ program = "process_groups" /\ Session!Init
     \/ program = "fifo" /\ Fifo!Init
     \/ program = "shared_memory" /\ Shared!Init
     \/ program = "pidfd" /\ Pid!Init
     \/ program = "sysv_message_queue" /\ Sysv!Init
  /\ Absent

(* A step of the program p, and of nothing else. *)
Of(p, Step) == program = p /\ Step /\ UNCHANGED program /\ StayAbsent

Next ==
  \/ Of("fd_passing", Fd!Next) \/ Of("process_control", Spawn!Next)
  \/ Of("process_groups", Session!Next) \/ Of("fifo", Fifo!Next)
  \/ Of("shared_memory", Shared!Next) \/ Of("pidfd", Pid!Next)
  \/ Of("sysv_message_queue", Sysv!Next)

ParentRuns ==
  \/ Of("fd_passing", Fd!ParentStep) \/ Of("process_control", Spawn!MainStep)
  \/ Of("process_groups", Session!ParentStep) \/ Of("fifo", Fifo!MainStep)
  \/ Of("shared_memory", Shared!MainStep) \/ Of("pidfd", Pid!MainStep)
  \/ Of("sysv_message_queue", Sysv!MainStep)

ChildRuns ==
  \/ Of("fd_passing", Fd!ChildProgress)
  \/ Of("process_control", Spawn!PrintOutput)
  \/ Of("process_groups", Session!ChildStep) \/ Of("fifo", Fifo!ChildStep)
  \/ Of("shared_memory", Shared!ChildStep) \/ Of("pidfd", Pid!ChildEnds)
  \/ Of("sysv_message_queue", Sysv!ChildStep)

Spec == Init /\ [][Next]_vars

(* The fairness of each of the programs. *)
FairSpec == Spec /\ WF_vars(ParentRuns) /\ WF_vars(ChildRuns)

-----------------------------------------------------------------------------
(* Properties: those of the program that runs, each explained in its own   *)
(* module.                                                                 *)

TypeOK ==
  /\ program = "fd_passing" => Fd!TypeOK
  /\ program = "process_control" => Spawn!TypeOK
  /\ program = "process_groups" => Session!TypeOK
  /\ program = "fifo" => Fifo!TypeOK
  /\ program = "shared_memory" => Shared!TypeOK
  /\ program = "pidfd" => Pid!TypeOK
  /\ program = "sysv_message_queue" => Sysv!TypeOK

(* 09: from the moment the descriptor is sent until the child reads, the   *)
(* whole payload is in the pipe the parent has closed (229-250, 210-213).  *)
PayloadSurvivesHandover ==
  program = "fd_passing" => Fd!PayloadSurvivesHandover

(* 05: whatever numbers the pipe got, the child's standard output is its   *)
(* write end, and it has no other end of it (34-44, 74-80).                *)
StdoutIsPipe == program = "process_control" => Spawn!StdoutIsPipe

(* 25: when the program polls, all that is missing is in the FIFO, and the *)
(* timeout cannot come (comment, lines 125-126).                           *)
PollNeverWaits == program = "fifo" => Fifo!PollNeverWaits

(* 25 and 26: SIGTERM goes to a process that is still this child, never to *)
(* a pid the kernel has given away (25:130-132, 26:58-60).                 *)
KillHitsChild ==
  /\ program = "fifo" => Fifo!KillHitsChild
  /\ program = "sysv_message_queue" => Sysv!KillHitsChild

(* 08: the semaphore is not destroyed under a child that may still wait    *)
(* for it, and the output is read only when nobody writes it (106-137).    *)
SharedStateOutlivesChild ==
  program = "shared_memory" => Shared!SharedStateOutlivesChild

State ==
  CASE program = "fd_passing" -> Fd!ExchangeState
    [] program = "process_control" -> Spawn!ExchangeState
    [] program = "process_groups" -> Session!ExchangeState
    [] program = "fifo" -> Fifo!ExchangeState
    [] program = "shared_memory" -> Shared!ExchangeState
    [] program = "pidfd" -> Pid!ExchangeState
    [] program = "sysv_message_queue" -> Sysv!ExchangeState

Exchange == INSTANCE ChildExchange WITH
  child <- State.child, status <- State.status,
  exchanged <- State.exchanged, held <- State.held,
  givenUp <- State.givenUp, faulty <- State.faulty, verdict <- State.verdict

(* When one of the programs returns it holds nothing, has reaped its child *)
(* unless the last wait for it failed, and says truly whether the exchange *)
(* took place; nothing fails that was not made to.  The modules say what   *)
(* this means for each of them, and where its lines are.                   *)
ImplementsExchange == Exchange!ExchangeSpec

(* And each returns: it waits for no byte, semaphore or child that cannot  *)
(* come any more.                                                          *)
Returns == Exchange!Returns
=============================================================================
