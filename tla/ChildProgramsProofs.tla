------------------------ MODULE ChildProgramsProofs ------------------------
(***************************************************************************)
(* Proofs about ChildPrograms, for every size of what is sent, of the      *)
(* pipes and of the timeout.  Each program has an inductive invariant of   *)
(* its own; together they are ChildInvariant.                              *)
(***************************************************************************)
EXTENDS ChildPrograms, TLAPS

-----------------------------------------------------------------------------
(* 09_fd_passing. *)

(* What the parent has open follows from where it is, and what the child   *)
(* has from where that is (lines 168-250).                                 *)
FdDescriptors ==
  /\ main \in {"socketpair", "waitpid", "kill", "reap", "exited"}
       => fds["parent"] = {}
  /\ main \in {"fork", "close_ch1"} => fds["parent"] = {"ch0", "ch1"}
  /\ main = "pipe" => fds["parent"] = {"ch0"}
  /\ main \in {"write", "close_pw"} => fds["parent"] = {"ch0", "pr", "pw"}
  /\ main \in {"sendmsg", "close_all"} => fds["parent"] = {"ch0", "pr"}
  /\ child \in {"unborn", "zombie", "vanished", "reaped"}
       => fds["child"] = {}
  /\ child = "close_ch0" => fds["child"] = {"ch0", "ch1"}
  /\ child = "recvmsg" => fds["child"] = {"ch1"}
  /\ child \in {"fcntl", "read", "close"} => fds["child"] = {"ch1", "pr"}

(* The child and the message, from the fork to the wait, or to its failure *)
(* (lines 183-258).                                                        *)
FdStage ==
  /\ main \in {"socketpair", "fork"} => child = "unborn"
  /\ child = "unborn" => main \in {"socketpair", "fork", "exited"}
  /\ main = "reap" => child \in {"zombie", "vanished"}
  /\ main = "exited" => child \in {"unborn", "reaped", "vanished"} \/ givenUp
  /\ givenUp => main = "exited" /\ child \notin {"unborn", "reaped"}
  /\ child = "reaped" => main = "exited"
  /\ child = "vanished" => ignored
  /\ status = "none" <=> child \in Fd!Alive \cup {"unborn"}
  /\ message # "none" => main \in {"close_all", "waitpid", "exited"}
  /\ message = "queued" => child \in {"close_ch0", "recvmsg"}
  /\ message = "taken" => child \notin {"unborn", "close_ch0", "recvmsg"}
  /\ child \in {"fcntl", "read", "close"} => message = "taken"

(* While somebody can still read the pipe, what was written and not read   *)
(* is in it (lines 210-213, 229-250).                                      *)
FdBytes ==
  /\ main \in {"socketpair", "fork", "close_ch1", "pipe"}
       => written = 0 /\ pipe = 0
  /\ main = "write" => written < PAYLOAD /\ pipe = written
  /\ main \in {"close_pw", "sendmsg"} => pipe = PAYLOAD
  /\ main = "close_all" => pipe + got = PAYLOAD
  /\ message = "queued" => pipe = PAYLOAD
  /\ message # "taken" \/ child = "fcntl" => got = 0
  /\ child \in {"fcntl", "read"} => pipe + got = PAYLOAD
  /\ child = "read" => got < PAYLOAD

(* How the two end (lines 196-258). *)
FdOutcome ==
  /\ main = "exited" <=> result # "running"
  /\ main \in {"kill", "reap"} => faults > 0
  /\ child = "close" /\ got # PAYLOAD => faults > 0
  /\ status = "0" => got = PAYLOAD
  /\ status \in {"2", "3", "signal"} => faults > 0
  /\ result = "EXIT_SUCCESS" => status = "0" /\ ~givenUp
  /\ result = "EXIT_FAILURE" => ignored \/ faults > 0

FdInvariant ==
  Fd!TypeOK /\ FdDescriptors /\ FdStage /\ FdBytes /\ FdOutcome

-----------------------------------------------------------------------------
(* 05_process_control. *)

(* An end that the program has open is where pipefd says, and nowhere      *)
(* else; the two highest numbers are free for make_cloexec_pipe.  The file *)
(* actions do not outlive the cleanup (lines 46-72, 94-122, 140-149).      *)
SpawnDescriptors ==
  /\ \A f \in Spawn!Numbers : /\ table[f] = "pr" <=> pipefd["pr"] = f
                              /\ table[f] = "pw" <=> pipefd["pw"] = f
  /\ main = "pipe" => table[3] = "closed" /\ table[4] = "closed"
  /\ main \in {"pipe", "cleanup_wait", "exited"}
       => pipefd["pr"] = -1 /\ pipefd["pw"] = -1
  /\ main \in {"actions", "spawn", "destroy", "close"}
       => pipefd["pr"] # -1 /\ pipefd["pw"] # -1
  /\ main \in {"read", "wait", "verify"}
       => pipefd["pr"] # -1 /\ pipefd["pw"] = -1
  /\ main \in {"cleanup_wait", "exited"} => ~actions_ready

(* The child has the write end as its standard output, and no other end;   *)
(* when it is gone its descriptors are (lines 34-44, 74-80).               *)
SpawnRedirected ==
  \A f \in Spawn!Numbers :
    IF child = "running"
    THEN childTable[f] # "pr" /\ (childTable[f] = "pw" <=> f = 1)
    ELSE childTable[f] = "closed"

SpawnStage ==
  /\ main \in {"pipe", "actions", "spawn"} => child = "none"
  /\ main \in {"destroy", "close", "read"}
       => child \in {"running", "zombie", "vanished"}
  /\ main = "wait" => child \in {"zombie", "vanished"}
  /\ main = "verify" => child = "reaped"
  /\ main = "cleanup_wait" => child \in {"running", "zombie", "vanished"}
  /\ main = "exited" => child \in {"none", "reaped", "vanished"} \/ givenUp
  /\ givenUp => main = "exited" /\ child \notin {"none", "reaped"}
  /\ child = "vanished" => ignored
  /\ status = "none" <=> child \in {"none", "running"}

(* What was printed is in the pipe or was captured, and the end of file    *)
(* means that all of it was (lines 100-131).                               *)
SpawnBytes ==
  /\ pipe + got = written
  /\ child = "none" => written = 0
  /\ status = "0" => written = OUTPUT
  /\ main \in {"wait", "verify"} => pipe = 0

SpawnOutcome ==
  /\ status \in {"1", "signal"} => faults > 0
  /\ main \notin {"cleanup", "cleanup_wait", "exited"}
       => result = "EXIT_FAILURE"
  /\ result = "EXIT_SUCCESS"
       => status = "0" /\ got = OUTPUT /\ child = "reaped"
  /\ main \in {"cleanup", "cleanup_wait", "exited"}
       => result = "EXIT_SUCCESS" \/ faults > 0

SpawnInvariant ==
  Spawn!TypeOK /\ SpawnDescriptors /\ SpawnRedirected /\ SpawnStage
  /\ SpawnBytes /\ SpawnOutcome

-----------------------------------------------------------------------------
(* 22_process_groups. *)

(* The parent's ends follow from where it is, the child's from where that  *)
(* is (lines 126-160).                                                     *)
SessionEnds ==
  /\ main \in {"pipe", "wait", "verify", "cleanup_wait", "exited"}
       => fds["parent"] = {}
  /\ main \in {"fork", "close_write"} => fds["parent"] = {"read", "write"}
  /\ main \in {"read", "close_read"} => fds["parent"] = {"read"}
  /\ child \in {"none", "zombie", "vanished", "gone"} => fds["child"] = {}
  /\ child = "close_read" => fds["child"] = {"read", "write"}
  /\ child \in {"setsid", "write", "exit"} => fds["child"] = {"write"}

SessionStage ==
  /\ main \in {"pipe", "fork"} => child = "none"
  /\ main \in {"close_write", "read", "close_read", "wait", "cleanup_wait"}
       => child \notin {"none", "gone"}
  /\ main = "verify" => child = "gone"
  /\ child = "gone" => child_reaped \/ main = "exited"
  /\ main = "exited" => child \in {"none", "vanished", "gone"} \/ givenUp
  /\ givenUp => main = "exited" /\ child \notin {"none", "gone"}
  /\ child_reaped => child = "gone"
  /\ child = "vanished" => ignored
  /\ status = "none"
       <=> child \in {"none", "close_read", "setsid", "write", "exit"}

(* The report goes through the pipe, and it is that of a session leader    *)
(* unless it says otherwise (lines 47-124).                                *)
SessionBytes ==
  /\ pipe + got = written
  /\ child \in {"none", "close_read", "setsid"}
       => written = 0 /\ report.error = FALSE /\ report.relation_ok = FALSE
  /\ child = "exit" \/ status \in {"0", "2"} => written = REPORT
  /\ main \in {"pipe", "fork", "close_write"} => got = 0
  /\ main \in {"close_read", "wait", "verify"} => got = REPORT
  /\ child = "write" => written < REPORT
  /\ main = "read" => got < REPORT
  /\ report.relation_ok => ids = "own"
  /\ child \in {"write", "exit"} => report.error \/ report.relation_ok
  /\ report.error => faults > 0

SessionOutcome ==
  /\ status = "0" => ~report.error /\ report.relation_ok
  /\ status \in {"2", "3", "signal"} => faults > 0
  /\ main \notin {"cleanup", "cleanup_wait", "exited"}
       => result = "EXIT_FAILURE"
  /\ result = "EXIT_SUCCESS"
       => status = "0" /\ got = REPORT /\ ids = "own" /\ child = "gone"
  /\ main \in {"cleanup", "cleanup_wait", "exited"}
       => result = "EXIT_SUCCESS" \/ faults > 0

SessionInvariant ==
  Session!TypeOK /\ SessionEnds /\ SessionStage /\ SessionBytes
  /\ SessionOutcome
-----------------------------------------------------------------------------
(* 25_fifo. *)

(* The program keeps its reading end until the end, and the child has an   *)
(* end only while it lives (lines 107-128, 158-175).                       *)
FifoEnds ==
  /\ main \in {"mkdtemp", "mkfifo", "lstat", "open", "exited"}
       => readers \subseteq {"child"}
  /\ main \in {"fork", "wait", "poll", "reap"} => "parent" \in readers
  /\ child # "none" /\ main # "exited" => "parent" \in readers
  /\ "child" \in readers => child = "close"
  /\ writers # {} => child \in {"write", "exit"}
  /\ main \in {"mkfifo", "lstat", "open", "fork", "wait", "poll"}
       => directory
  /\ fifo => directory
  /\ directory /\ main = "exited" => result = "EXIT_FAILURE" /\ faults > 0

(* The child, from the fork to the reaping: the program never thinks that  *)
(* it still has one that is gone, unless the first waitpid has not told it *)
(* (lines 120-135, 158-166).  A child that is given up has been killed.    *)
FifoStage ==
  /\ main \in {"mkdtemp", "mkfifo", "lstat", "open", "fork"}
       => child = "none"
  /\ main = "wait" => child \notin {"none", "gone"} /\ ~child_reaped
  /\ main = "poll" => child = "gone" /\ status = "0"
  /\ main = "reap" => child \in {"zombie", "vanished"}
  /\ main \in {"remove", "exited"}
       => child \in {"none", "gone", "vanished"} \/ givenUp
  /\ givenUp => /\ main \in {"remove", "exited"}
                /\ child \in {"zombie", "vanished"}
  /\ child = "gone" => child_reaped \/ main \in {"remove", "exited"}
  /\ child_reaped => child \in {"gone", "vanished"}
  /\ child = "vanished" => ignored
  /\ main = "cleanup" /\ child # "none" /\ ~child_reaped
       => waitError = "other"
  /\ status = "none" <=> child \in Fifo!Alive \cup {"none"}

(* The one write is all or nothing, and nothing is read before the child   *)
(* has ended well (lines 125-139).                                         *)
FifoBytes ==
  /\ child \in {"none", "close", "open", "write"} => pipe = 0
  /\ main \notin {"poll", "cleanup", "remove", "exited"} => got = 0
  /\ child # "gone" => got = 0
  /\ child = "exit" => pipe = MESSAGE
  /\ status = "0" /\ main \in {"wait", "poll"} => pipe + got = MESSAGE

FifoOutcome ==
  /\ status \in {"120", "121", "signal"} => faults > 0
  /\ main = "reap" => faults > 0
  /\ main \notin {"cleanup", "remove", "exited"} => result = "EXIT_FAILURE"
  /\ result = "EXIT_SUCCESS" => status = "0" /\ got = MESSAGE
  /\ result = "EXIT_SUCCESS" => child = "gone"
  /\ main \in {"cleanup", "remove", "exited"}
       => result = "EXIT_SUCCESS" \/ faults > 0

FifoInvariant ==
  Fifo!TypeOK /\ FifoEnds /\ FifoStage /\ FifoBytes /\ FifoOutcome

-----------------------------------------------------------------------------
(* 08_shared_memory. *)

(* The mapping and the semaphore stay until the child is reaped or dead    *)
(* and given up (lines 60-120).                                            *)
SharedHeld ==
  /\ main \in {"shm_open", "exited"} => held = {}
  /\ main \in {"ftruncate", "mmap"} => held = {"name", "descriptor"}
  /\ main = "shm_unlink" => held = {"name", "mapping"}
  /\ main = "sem_init" => held = {"mapping"}
  /\ main \in {"fork", "sem_post", "wait", "kill", "reap", "verify"}
       => held = {"mapping", "semaphore"}

SharedStage ==
  /\ main \in {"shm_open", "ftruncate", "mmap", "shm_unlink", "sem_init",
               "fork"} => child = "none"
  /\ main \in {"sem_post", "wait", "kill"} => child \notin {"none", "gone"}
  /\ main = "reap" => child \in {"zombie", "vanished"}
  /\ main = "verify" => child = "gone"
  /\ main \in {"release", "exited"} => child \in {"none", "gone"} \/ givenUp
  /\ givenUp => /\ main \in {"release", "exited"}
                /\ child \in {"zombie", "vanished"}
  /\ child = "vanished" => ignored
  /\ status = "none" <=> child \in Shared!Alive \cup {"none"}

(* The semaphore is posted once, and a child that ended well has doubled   *)
(* the input (lines 86-112).                                               *)
SharedValue ==
  /\ child = "none" \/ main = "sem_post" => semaphore = 0
  /\ child \in {"none", "sem_wait", "compute"} => ~doubled
  /\ child = "exit" \/ status = "0" => doubled

SharedOutcome ==
  /\ status \in {"2", "signal"} => faults > 0
  /\ main \in {"kill", "reap"} => faults > 0
  /\ main \notin {"release", "exited"} => result = "EXIT_FAILURE"
  /\ result = "EXIT_SUCCESS" => status = "0" /\ doubled /\ ~givenUp
  /\ main \in {"release", "exited"} => result = "EXIT_SUCCESS" \/ faults > 0

SharedInvariant ==
  Shared!TypeOK /\ SharedHeld /\ SharedStage /\ SharedValue
  /\ SharedOutcome

-----------------------------------------------------------------------------
(* 17_pidfd. *)

(* The pidfd refers to the child as long as this can be reaped, and the    *)
(* cleanup leaves none open (lines 62-124).                                *)
PidStage ==
  /\ main = "fork" => child = "none"
  /\ main \in {"pidfd_open", "poll", "waitid", "cleanup_wait"}
       => child \notin {"none", "gone"}
  /\ main = "cleanup" /\ child = "gone" => child_reaped
  /\ main = "exited" => child \in {"none", "gone", "vanished"} \/ givenUp
  /\ givenUp => main = "exited" /\ child \notin {"none", "gone"}
  /\ child_reaped => child = "gone"
  /\ child = "vanished" => ignored
  /\ main \in {"fork", "pidfd_open", "cleanup_wait", "exited"}
       => pidfd = "closed"
  /\ main \in {"poll", "waitid"} => pidfd # "closed"
  /\ pidfd = "stranger" => child = "vanished"
  /\ main = "waitid" => readable /\ child # "running"
  /\ readable => main \in {"waitid", "cleanup", "cleanup_wait", "exited"}
  /\ status = "none" <=> child \in {"none", "running"}

PidOutcome ==
  /\ status = "signal" => faults > 0
  /\ main \in {"fork", "pidfd_open", "poll", "waitid"}
       => result = "EXIT_FAILURE"
  /\ result = "EXIT_SUCCESS" => status = "42" /\ readable /\ child = "gone"
  /\ main \in {"cleanup", "cleanup_wait", "exited"}
       => result = "EXIT_SUCCESS" \/ faults > 0

PidInvariant == Pid!TypeOK /\ PidStage /\ PidOutcome

-----------------------------------------------------------------------------
(* 26_sysv_message_queue. *)

(* The queue is there until the cleanup, and never after it (lines         *)
(* 29-62).                                                                 *)
SysvQueueTracked ==
  /\ main = "msgget" => queue = "none"
  /\ main \in {"fork", "wait", "stat", "msgrcv", "stat_after"}
       => queue = "exists"
  /\ main \in {"kill", "reap", "exited"} => queue # "exists"
  /\ child \in {"none", "msgsnd"} => queued = 0
  /\ child = "sent" /\ main = "wait" => queued = 1
  /\ status = "0" /\ main \in {"wait", "stat", "msgrcv"} => queued = 1
  /\ main = "stat_after" => queued = 0

SysvStage ==
  /\ main \in {"msgget", "fork"} => child = "none"
  /\ main = "wait" => child \notin {"none", "gone"}
  /\ main \in {"stat", "msgrcv", "stat_after"}
       => child = "gone" /\ status = "0"
  /\ main = "kill" => child \notin {"none", "gone"} /\ ~child_reaped
  /\ main = "reap" => child \in {"zombie", "vanished"}
  /\ main = "exited" => child \in {"none", "gone", "vanished"} \/ givenUp
  /\ givenUp => main = "exited" /\ child \in {"zombie", "vanished"}
  /\ child = "gone" => child_reaped \/ main = "exited"
  /\ child_reaped => child \in {"gone", "vanished"}
  /\ child = "vanished" => ignored
  /\ main \in {"cleanup", "kill"} /\ child # "none" /\ ~child_reaped
       => waitError = "other"
  /\ status = "none" <=> child \in Sysv!Alive \cup {"none"}
  /\ main \in {"msgget", "fork", "wait", "stat", "msgrcv"} => ~received
  /\ main = "stat_after" => received

SysvOutcome ==
  /\ status \in {"120", "signal"} \/ child = "not_sent" => faults > 0
  /\ main \in {"kill", "reap"} => faults > 0
  /\ main \notin {"cleanup", "exited"} => result = "EXIT_FAILURE"
  /\ result = "EXIT_SUCCESS"
       => status = "0" /\ received /\ child = "gone"
  /\ main \in {"cleanup", "exited"} => result = "EXIT_SUCCESS" \/ faults > 0

SysvInvariant ==
  Sysv!TypeOK /\ SysvQueueTracked /\ SysvStage /\ SysvOutcome

-----------------------------------------------------------------------------
ChildInvariant ==
  /\ program \in {"fd_passing", "process_control", "process_groups", "fifo",
                  "shared_memory", "pidfd", "sysv_message_queue"}
  /\ program = "fd_passing" => FdInvariant
  /\ program = "process_control" => SpawnInvariant
  /\ program = "process_groups" => SessionInvariant
  /\ program = "fifo" => FifoInvariant
  /\ program = "shared_memory" => SharedInvariant
  /\ program = "pidfd" => PidInvariant
  /\ program = "sysv_message_queue" => SysvInvariant
-----------------------------------------------------------------------------
(* Each program: one lemma for each action, with one step for each part of  *)
(* its invariant.                                                          *)
(* FdPassing. *)
USE FdConstants
    DEF Fd!CapacityAssumption, Fd!TypeOK, Fd!Descriptors, Fd!Alive, Fd!kid,
        Fd!channel, Fd!outcome

(* socketpair (lines 191-194). *)
LEMMA FdSocketPairPreserves ==
  ASSUME FdInvariant, Fd!SocketPair
  PROVE  FdInvariant'
<1>. USE DEF FdInvariant, Fd!SocketPair, Fd!Gain, Fd!Exit, Fd!Fault
<1>1. Fd!TypeOK'
  <2>1. /\ main' \in {"socketpair", "fork", "close_ch1", "pipe", "write",
                     "close_pw", "sendmsg", "close_all", "waitpid", "kill",
                     "reap", "exited"}
        /\ child' \in {"unborn", "close_ch0", "recvmsg", "fcntl", "read",
                      "close", "zombie", "vanished", "reaped"}
        /\ status' \in {"none", "0", "2", "3", "signal"}
        /\ message' \in {"none", "queued", "taken"}
        /\ result' \in {"running", "EXIT_SUCCESS", "EXIT_FAILURE"}
    OBVIOUS
  <2>2. /\ written' \in 0 .. PAYLOAD /\ pipe' \in 0 .. PIPE_CAPACITY
        /\ got' \in 0 .. PAYLOAD /\ faults' \in Nat
    OBVIOUS
  <2>3. fds' \in [{"parent", "child"} -> SUBSET Fd!Descriptors]
    OBVIOUS
  <2>. QED  BY <2>1, <2>2, <2>3
<1>2. FdDescriptors'
  BY DEF FdDescriptors
<1>3. FdStage'
  BY DEF FdStage
<1>4. FdBytes'
  BY DEF FdBytes
<1>5. FdOutcome'
  BY DEF FdOutcome
<1>. QED  BY <1>1, <1>2, <1>3, <1>4, <1>5 DEF FdInvariant

(* fork (lines 196-202). *)
LEMMA FdForkPreserves ==
  ASSUME FdInvariant, Fd!Fork
  PROVE  FdInvariant'
<1>. USE DEF FdInvariant, Fd!Fork, Fd!Lose, Fd!Exit, Fd!Fault
<1>1. Fd!TypeOK'
  <2>1. /\ main' \in {"socketpair", "fork", "close_ch1", "pipe", "write",
                     "close_pw", "sendmsg", "close_all", "waitpid", "kill",
                     "reap", "exited"}
        /\ child' \in {"unborn", "close_ch0", "recvmsg", "fcntl", "read",
                      "close", "zombie", "vanished", "reaped"}
        /\ status' \in {"none", "0", "2", "3", "signal"}
        /\ message' \in {"none", "queued", "taken"}
        /\ result' \in {"running", "EXIT_SUCCESS", "EXIT_FAILURE"}
    OBVIOUS
  <2>2. /\ written' \in 0 .. PAYLOAD /\ pipe' \in 0 .. PIPE_CAPACITY
        /\ got' \in 0 .. PAYLOAD /\ faults' \in Nat
    OBVIOUS
  <2>3. fds' \in [{"parent", "child"} -> SUBSET Fd!Descriptors]
    OBVIOUS
  <2>. QED  BY <2>1, <2>2, <2>3
<1>2. FdDescriptors'
  BY DEF FdDescriptors
<1>3. FdStage'
  BY DEF FdStage
<1>4. FdBytes'
  BY DEF FdBytes
<1>5. FdOutcome'
  BY DEF FdOutcome
<1>. QED  BY <1>1, <1>2, <1>3, <1>4, <1>5 DEF FdInvariant

(* The parent closes the other socket (line 219). *)
LEMMA FdCloseCh1Preserves ==
  ASSUME FdInvariant, Fd!CloseCh1
  PROVE  FdInvariant'
<1>. USE DEF FdInvariant, Fd!CloseCh1, Fd!Parent, Fd!Lose
<1>1. Fd!TypeOK'
  <2>1. /\ main' \in {"socketpair", "fork", "close_ch1", "pipe", "write",
                     "close_pw", "sendmsg", "close_all", "waitpid", "kill",
                     "reap", "exited"}
        /\ child' \in {"unborn", "close_ch0", "recvmsg", "fcntl", "read",
                      "close", "zombie", "vanished", "reaped"}
        /\ status' \in {"none", "0", "2", "3", "signal"}
        /\ message' \in {"none", "queued", "taken"}
        /\ result' \in {"running", "EXIT_SUCCESS", "EXIT_FAILURE"}
    OBVIOUS
  <2>2. /\ written' \in 0 .. PAYLOAD /\ pipe' \in 0 .. PIPE_CAPACITY
        /\ got' \in 0 .. PAYLOAD /\ faults' \in Nat
    OBVIOUS
  <2>3. fds' \in [{"parent", "child"} -> SUBSET Fd!Descriptors]
    OBVIOUS
  <2>. QED  BY <2>1, <2>2, <2>3
<1>2. FdDescriptors'
  BY DEF FdDescriptors
<1>3. FdStage'
  BY DEF FdStage
<1>4. FdBytes'
  BY DEF FdBytes
<1>5. FdOutcome'
  BY DEF FdOutcome
<1>. QED  BY <1>1, <1>2, <1>3, <1>4, <1>5 DEF FdInvariant

(* make_cloexec_pipe (lines 220-228). *)
LEMMA FdMakePipePreserves ==
  ASSUME FdInvariant, Fd!MakePipe
  PROVE  FdInvariant'
<1>. USE DEF FdInvariant, Fd!MakePipe, Fd!Gain, Fd!Abandon, Fd!Lose,
             Fd!PipeFollows, Fd!Fault
<1>1. Fd!TypeOK'
  <2>1. /\ main' \in {"socketpair", "fork", "close_ch1", "pipe", "write",
                     "close_pw", "sendmsg", "close_all", "waitpid", "kill",
                     "reap", "exited"}
        /\ child' \in {"unborn", "close_ch0", "recvmsg", "fcntl", "read",
                      "close", "zombie", "vanished", "reaped"}
        /\ status' \in {"none", "0", "2", "3", "signal"}
        /\ message' \in {"none", "queued", "taken"}
        /\ result' \in {"running", "EXIT_SUCCESS", "EXIT_FAILURE"}
    OBVIOUS
  <2>2. /\ written' \in 0 .. PAYLOAD /\ pipe' \in 0 .. PIPE_CAPACITY
        /\ got' \in 0 .. PAYLOAD /\ faults' \in Nat
    OBVIOUS
  <2>3. fds' \in [{"parent", "child"} -> SUBSET Fd!Descriptors]
    OBVIOUS
  <2>. QED  BY <2>1, <2>2, <2>3
<1>2. FdDescriptors'
  BY DEF FdDescriptors
<1>3. FdStage'
  BY DEF FdStage
<1>4. FdBytes'
  BY DEF FdBytes
<1>5. FdOutcome'
  BY DEF FdOutcome
<1>. QED  BY <1>1, <1>2, <1>3, <1>4, <1>5 DEF FdInvariant

(* write_all (line 229). *)
LEMMA FdWritePreserves ==
  ASSUME FdInvariant, Fd!Write
  PROVE  FdInvariant'
<1>. USE DEF FdInvariant, Fd!Write
<1>1. Fd!TypeOK'
  <2>1. /\ main' \in {"socketpair", "fork", "close_ch1", "pipe", "write",
                     "close_pw", "sendmsg", "close_all", "waitpid", "kill",
                     "reap", "exited"}
        /\ child' \in {"unborn", "close_ch0", "recvmsg", "fcntl", "read",
                      "close", "zombie", "vanished", "reaped"}
        /\ status' \in {"none", "0", "2", "3", "signal"}
        /\ message' \in {"none", "queued", "taken"}
        /\ result' \in {"running", "EXIT_SUCCESS", "EXIT_FAILURE"}
    OBVIOUS
  <2>2. /\ written' \in 0 .. PAYLOAD /\ pipe' \in 0 .. PIPE_CAPACITY
        /\ got' \in 0 .. PAYLOAD /\ faults' \in Nat
    OBVIOUS
  <2>3. fds' \in [{"parent", "child"} -> SUBSET Fd!Descriptors]
    OBVIOUS
  <2>. QED  BY <2>1, <2>2, <2>3
<1>2. FdDescriptors'
  BY DEF FdDescriptors
<1>3. FdStage'
  BY DEF FdStage
<1>4. FdBytes'
  BY DEF FdBytes, FdStage
<1>5. FdOutcome'
  BY DEF FdOutcome
<1>. QED  BY <1>1, <1>2, <1>3, <1>4, <1>5 DEF FdInvariant

(* write_all fails (lines 229-238). *)
LEMMA FdWriteFailsPreserves ==
  ASSUME FdInvariant, Fd!WriteFails
  PROVE  FdInvariant'
<1>. USE DEF FdInvariant, Fd!WriteFails, Fd!Abandon, Fd!Lose, Fd!PipeFollows,
             Fd!Fault
<1>1. Fd!TypeOK'
  <2>1. /\ main' \in {"socketpair", "fork", "close_ch1", "pipe", "write",
                     "close_pw", "sendmsg", "close_all", "waitpid", "kill",
                     "reap", "exited"}
        /\ child' \in {"unborn", "close_ch0", "recvmsg", "fcntl", "read",
                      "close", "zombie", "vanished", "reaped"}
        /\ status' \in {"none", "0", "2", "3", "signal"}
        /\ message' \in {"none", "queued", "taken"}
        /\ result' \in {"running", "EXIT_SUCCESS", "EXIT_FAILURE"}
    OBVIOUS
  <2>2. /\ written' \in 0 .. PAYLOAD /\ pipe' \in 0 .. PIPE_CAPACITY
        /\ got' \in 0 .. PAYLOAD /\ faults' \in Nat
    OBVIOUS
  <2>3. fds' \in [{"parent", "child"} -> SUBSET Fd!Descriptors]
    OBVIOUS
  <2>. QED  BY <2>1, <2>2, <2>3
<1>2. FdDescriptors'
  BY DEF FdDescriptors
<1>3. FdStage'
  BY DEF FdStage
<1>4. FdBytes'
  BY DEF FdBytes, FdStage
<1>5. FdOutcome'
  BY DEF FdOutcome
<1>. QED  BY <1>1, <1>2, <1>3, <1>4, <1>5 DEF FdInvariant

(* The writing end is closed (line 239). *)
LEMMA FdClosePwPreserves ==
  ASSUME FdInvariant, Fd!ClosePw
  PROVE  FdInvariant'
<1>. USE DEF FdInvariant, Fd!ClosePw, Fd!Parent, Fd!Lose
<1>1. Fd!TypeOK'
  <2>1. /\ main' \in {"socketpair", "fork", "close_ch1", "pipe", "write",
                     "close_pw", "sendmsg", "close_all", "waitpid", "kill",
                     "reap", "exited"}
        /\ child' \in {"unborn", "close_ch0", "recvmsg", "fcntl", "read",
                      "close", "zombie", "vanished", "reaped"}
        /\ status' \in {"none", "0", "2", "3", "signal"}
        /\ message' \in {"none", "queued", "taken"}
        /\ result' \in {"running", "EXIT_SUCCESS", "EXIT_FAILURE"}
    OBVIOUS
  <2>2. /\ written' \in 0 .. PAYLOAD /\ pipe' \in 0 .. PIPE_CAPACITY
        /\ got' \in 0 .. PAYLOAD /\ faults' \in Nat
    OBVIOUS
  <2>3. fds' \in [{"parent", "child"} -> SUBSET Fd!Descriptors]
    OBVIOUS
  <2>. QED  BY <2>1, <2>2, <2>3
<1>2. FdDescriptors'
  BY DEF FdDescriptors
<1>3. FdStage'
  BY DEF FdStage
<1>4. FdBytes'
  BY DEF FdBytes
<1>5. FdOutcome'
  BY DEF FdOutcome
<1>. QED  BY <1>1, <1>2, <1>3, <1>4, <1>5 DEF FdInvariant

(* send_descriptor (lines 98-109). *)
LEMMA FdSendPreserves ==
  ASSUME FdInvariant, Fd!Send
  PROVE  FdInvariant'
<1>. USE DEF FdInvariant, Fd!Send, Fd!Abandon, Fd!Lose, Fd!PipeFollows,
             Fd!Fault
<1>1. Fd!TypeOK'
  <2>1. /\ main' \in {"socketpair", "fork", "close_ch1", "pipe", "write",
                     "close_pw", "sendmsg", "close_all", "waitpid", "kill",
                     "reap", "exited"}
        /\ child' \in {"unborn", "close_ch0", "recvmsg", "fcntl", "read",
                      "close", "zombie", "vanished", "reaped"}
        /\ status' \in {"none", "0", "2", "3", "signal"}
        /\ message' \in {"none", "queued", "taken"}
        /\ result' \in {"running", "EXIT_SUCCESS", "EXIT_FAILURE"}
    OBVIOUS
  <2>2. /\ written' \in 0 .. PAYLOAD /\ pipe' \in 0 .. PIPE_CAPACITY
        /\ got' \in 0 .. PAYLOAD /\ faults' \in Nat
    OBVIOUS
  <2>3. fds' \in [{"parent", "child"} -> SUBSET Fd!Descriptors]
    OBVIOUS
  <2>. QED  BY <2>1, <2>2, <2>3
<1>2. FdDescriptors'
  BY DEF FdDescriptors
<1>3. FdStage'
  BY DEF FdStage, FdDescriptors
<1>4. FdBytes'
  BY DEF FdBytes, FdStage
<1>5. FdOutcome'
  BY DEF FdOutcome
<1>. QED  BY <1>1, <1>2, <1>3, <1>4, <1>5 DEF FdInvariant

(* The parent closes the rest (lines 249-251). *)
LEMMA FdCloseAllPreserves ==
  ASSUME FdInvariant, Fd!CloseAll
  PROVE  FdInvariant'
<1>. USE DEF FdInvariant, Fd!CloseAll, Fd!Parent, Fd!Lose, Fd!PipeFollows
<1>1. Fd!TypeOK'
  <2>1. /\ main' \in {"socketpair", "fork", "close_ch1", "pipe", "write",
                     "close_pw", "sendmsg", "close_all", "waitpid", "kill",
                     "reap", "exited"}
        /\ child' \in {"unborn", "close_ch0", "recvmsg", "fcntl", "read",
                      "close", "zombie", "vanished", "reaped"}
        /\ status' \in {"none", "0", "2", "3", "signal"}
        /\ message' \in {"none", "queued", "taken"}
        /\ result' \in {"running", "EXIT_SUCCESS", "EXIT_FAILURE"}
    OBVIOUS
  <2>2. /\ written' \in 0 .. PAYLOAD /\ pipe' \in 0 .. PIPE_CAPACITY
        /\ got' \in 0 .. PAYLOAD /\ faults' \in Nat
    OBVIOUS
  <2>3. fds' \in [{"parent", "child"} -> SUBSET Fd!Descriptors]
    OBVIOUS
  <2>. QED  BY <2>1, <2>2, <2>3
<1>2. FdDescriptors'
  BY DEF FdDescriptors
<1>3. FdStage'
  BY DEF FdStage
<1>4. FdBytes'
  BY DEF FdBytes, FdDescriptors, FdStage
<1>5. FdOutcome'
  BY DEF FdOutcome
<1>. QED  BY <1>1, <1>2, <1>3, <1>4, <1>5 DEF FdInvariant

(* terminate_and_reap kills (lines 66-71). *)
LEMMA FdKillPreserves ==
  ASSUME FdInvariant, Fd!Kill
  PROVE  FdInvariant'
<1>. USE DEF FdInvariant, Fd!Kill, Fd!Parent, Fd!ChildEnds, Fd!PipeFollows
<1>1. Fd!TypeOK'
  <2>1. /\ main' \in {"socketpair", "fork", "close_ch1", "pipe", "write",
                     "close_pw", "sendmsg", "close_all", "waitpid", "kill",
                     "reap", "exited"}
        /\ child' \in {"unborn", "close_ch0", "recvmsg", "fcntl", "read",
                      "close", "zombie", "vanished", "reaped"}
        /\ status' \in {"none", "0", "2", "3", "signal"}
        /\ message' \in {"none", "queued", "taken"}
        /\ result' \in {"running", "EXIT_SUCCESS", "EXIT_FAILURE"}
    OBVIOUS
  <2>2. /\ written' \in 0 .. PAYLOAD /\ pipe' \in 0 .. PIPE_CAPACITY
        /\ got' \in 0 .. PAYLOAD /\ faults' \in Nat
    OBVIOUS
  <2>3. fds' \in [{"parent", "child"} -> SUBSET Fd!Descriptors]
    OBVIOUS
  <2>. QED  BY <2>1, <2>2, <2>3
<1>2. FdDescriptors'
  BY DEF FdDescriptors
<1>3. FdStage'
  BY DEF FdStage
<1>4. FdBytes'
  BY DEF FdBytes
<1>5. FdOutcome'
  BY DEF FdOutcome
<1>. QED  BY <1>1, <1>2, <1>3, <1>4, <1>5 DEF FdInvariant

(* waitpid, and the verdict (lines 252-258). *)
LEMMA FdReapPreserves ==
  ASSUME FdInvariant, Fd!Reap
  PROVE  FdInvariant'
<1>. USE DEF FdInvariant, Fd!Reap, Fd!Exit
<1>1. Fd!TypeOK'
  <2>1. /\ main' \in {"socketpair", "fork", "close_ch1", "pipe", "write",
                     "close_pw", "sendmsg", "close_all", "waitpid", "kill",
                     "reap", "exited"}
        /\ child' \in {"unborn", "close_ch0", "recvmsg", "fcntl", "read",
                      "close", "zombie", "vanished", "reaped"}
        /\ status' \in {"none", "0", "2", "3", "signal"}
        /\ message' \in {"none", "queued", "taken"}
        /\ result' \in {"running", "EXIT_SUCCESS", "EXIT_FAILURE"}
    OBVIOUS
  <2>2. /\ written' \in 0 .. PAYLOAD /\ pipe' \in 0 .. PIPE_CAPACITY
        /\ got' \in 0 .. PAYLOAD /\ faults' \in Nat
    OBVIOUS
  <2>3. fds' \in [{"parent", "child"} -> SUBSET Fd!Descriptors]
    OBVIOUS
  <2>. QED  BY <2>1, <2>2, <2>3
<1>2. FdDescriptors'
  BY DEF FdDescriptors
<1>3. FdStage'
  BY DEF FdStage
<1>4. FdBytes'
  BY DEF FdBytes
<1>5. FdOutcome'
  BY DEF FdOutcome, FdStage
<1>. QED  BY <1>1, <1>2, <1>3, <1>4, <1>5 DEF FdInvariant

(* waitpid fails, here or in terminate_and_reap (lines 66-76, 252-258). *)
LEMMA FdReapFailsPreserves ==
  ASSUME FdInvariant, Fd!ReapFails
  PROVE  FdInvariant'
<1>. USE DEF FdInvariant, Fd!ReapFails, Fd!Exit, Fd!Fault
<1>1. Fd!TypeOK'
  <2>1. /\ main' \in {"socketpair", "fork", "close_ch1", "pipe", "write",
                     "close_pw", "sendmsg", "close_all", "waitpid", "kill",
                     "reap", "exited"}
        /\ child' \in {"unborn", "close_ch0", "recvmsg", "fcntl", "read",
                      "close", "zombie", "vanished", "reaped"}
        /\ status' \in {"none", "0", "2", "3", "signal"}
        /\ message' \in {"none", "queued", "taken"}
        /\ result' \in {"running", "EXIT_SUCCESS", "EXIT_FAILURE"}
    OBVIOUS
  <2>2. /\ written' \in 0 .. PAYLOAD /\ pipe' \in 0 .. PIPE_CAPACITY
        /\ got' \in 0 .. PAYLOAD /\ faults' \in Nat
    OBVIOUS
  <2>3. fds' \in [{"parent", "child"} -> SUBSET Fd!Descriptors]
    OBVIOUS
  <2>. QED  BY <2>1, <2>2, <2>3
<1>2. FdDescriptors'
  BY DEF FdDescriptors
<1>3. FdStage'
  BY DEF FdStage
<1>4. FdBytes'
  BY DEF FdBytes
<1>5. FdOutcome'
  BY DEF FdOutcome, FdStage
<1>. QED  BY <1>1, <1>2, <1>3, <1>4, <1>5 DEF FdInvariant

(* The child closes the other socket (lines 203-204). *)
LEMMA FdCloseCh0Preserves ==
  ASSUME FdInvariant, Fd!CloseCh0
  PROVE  FdInvariant'
<1>. USE DEF FdInvariant, Fd!CloseCh0, Fd!Child, Fd!Lose
<1>1. Fd!TypeOK'
  <2>1. /\ main' \in {"socketpair", "fork", "close_ch1", "pipe", "write",
                     "close_pw", "sendmsg", "close_all", "waitpid", "kill",
                     "reap", "exited"}
        /\ child' \in {"unborn", "close_ch0", "recvmsg", "fcntl", "read",
                      "close", "zombie", "vanished", "reaped"}
        /\ status' \in {"none", "0", "2", "3", "signal"}
        /\ message' \in {"none", "queued", "taken"}
        /\ result' \in {"running", "EXIT_SUCCESS", "EXIT_FAILURE"}
    OBVIOUS
  <2>2. /\ written' \in 0 .. PAYLOAD /\ pipe' \in 0 .. PIPE_CAPACITY
        /\ got' \in 0 .. PAYLOAD /\ faults' \in Nat
    OBVIOUS
  <2>3. fds' \in [{"parent", "child"} -> SUBSET Fd!Descriptors]
    OBVIOUS
  <2>. QED  BY <2>1, <2>2, <2>3
<1>2. FdDescriptors'
  BY DEF FdDescriptors
<1>3. FdStage'
  BY DEF FdStage
<1>4. FdBytes'
  BY DEF FdBytes
<1>5. FdOutcome'
  BY DEF FdOutcome
<1>. QED  BY <1>1, <1>2, <1>3, <1>4, <1>5 DEF FdInvariant

(* receive_descriptor, up to its checks (lines 111-175). *)
LEMMA FdReceivePreserves ==
  ASSUME FdInvariant, Fd!Receive
  PROVE  FdInvariant'
<1>. USE DEF FdInvariant, Fd!Receive, Fd!Gain, Fd!ChildEnds, Fd!PipeFollows,
             Fd!Fault
<1>1. Fd!TypeOK'
  <2>1. /\ main' \in {"socketpair", "fork", "close_ch1", "pipe", "write",
                     "close_pw", "sendmsg", "close_all", "waitpid", "kill",
                     "reap", "exited"}
        /\ child' \in {"unborn", "close_ch0", "recvmsg", "fcntl", "read",
                      "close", "zombie", "vanished", "reaped"}
        /\ status' \in {"none", "0", "2", "3", "signal"}
        /\ message' \in {"none", "queued", "taken"}
        /\ result' \in {"running", "EXIT_SUCCESS", "EXIT_FAILURE"}
    OBVIOUS
  <2>2. /\ written' \in 0 .. PAYLOAD /\ pipe' \in 0 .. PIPE_CAPACITY
        /\ got' \in 0 .. PAYLOAD /\ faults' \in Nat
    OBVIOUS
  <2>3. fds' \in [{"parent", "child"} -> SUBSET Fd!Descriptors]
    OBVIOUS
  <2>. QED  BY <2>1, <2>2, <2>3
<1>2. FdDescriptors'
  BY DEF FdDescriptors
<1>3. FdStage'
  BY DEF FdStage
<1>4. FdBytes'
  BY DEF FdBytes, FdStage, FdDescriptors
<1>5. FdOutcome'
  BY DEF FdOutcome, FdStage
<1>. QED  BY <1>1, <1>2, <1>3, <1>4, <1>5 DEF FdInvariant

(* FD_CLOEXEC is set (lines 177-186). *)
LEMMA FdSetCloexecPreserves ==
  ASSUME FdInvariant, Fd!SetCloexec
  PROVE  FdInvariant'
<1>. USE DEF FdInvariant, Fd!SetCloexec, Fd!ChildEnds, Fd!PipeFollows,
             Fd!Fault
<1>1. Fd!TypeOK'
  <2>1. /\ main' \in {"socketpair", "fork", "close_ch1", "pipe", "write",
                     "close_pw", "sendmsg", "close_all", "waitpid", "kill",
                     "reap", "exited"}
        /\ child' \in {"unborn", "close_ch0", "recvmsg", "fcntl", "read",
                      "close", "zombie", "vanished", "reaped"}
        /\ status' \in {"none", "0", "2", "3", "signal"}
        /\ message' \in {"none", "queued", "taken"}
        /\ result' \in {"running", "EXIT_SUCCESS", "EXIT_FAILURE"}
    OBVIOUS
  <2>2. /\ written' \in 0 .. PAYLOAD /\ pipe' \in 0 .. PIPE_CAPACITY
        /\ got' \in 0 .. PAYLOAD /\ faults' \in Nat
    OBVIOUS
  <2>3. fds' \in [{"parent", "child"} -> SUBSET Fd!Descriptors]
    OBVIOUS
  <2>. QED  BY <2>1, <2>2, <2>3
<1>2. FdDescriptors'
  BY DEF FdDescriptors
<1>3. FdStage'
  BY DEF FdStage
<1>4. FdBytes'
  BY DEF FdBytes, FdStage, FdDescriptors
<1>5. FdOutcome'
  BY DEF FdOutcome, FdStage
<1>. QED  BY <1>1, <1>2, <1>3, <1>4, <1>5 DEF FdInvariant

(* read_all (lines 211-213). *)
LEMMA FdReadPreserves ==
  ASSUME FdInvariant, Fd!Read
  PROVE  FdInvariant'
<1>. USE DEF FdInvariant, Fd!Read
<1>1. Fd!TypeOK'
  <2>1. /\ main' \in {"socketpair", "fork", "close_ch1", "pipe", "write",
                     "close_pw", "sendmsg", "close_all", "waitpid", "kill",
                     "reap", "exited"}
        /\ child' \in {"unborn", "close_ch0", "recvmsg", "fcntl", "read",
                      "close", "zombie", "vanished", "reaped"}
        /\ status' \in {"none", "0", "2", "3", "signal"}
        /\ message' \in {"none", "queued", "taken"}
        /\ result' \in {"running", "EXIT_SUCCESS", "EXIT_FAILURE"}
    OBVIOUS
  <2>2. /\ written' \in 0 .. PAYLOAD /\ pipe' \in 0 .. PIPE_CAPACITY
        /\ got' \in 0 .. PAYLOAD /\ faults' \in Nat
    OBVIOUS
  <2>3. fds' \in [{"parent", "child"} -> SUBSET Fd!Descriptors]
    OBVIOUS
  <2>. QED  BY <2>1, <2>2, <2>3
<1>2. FdDescriptors'
  BY DEF FdDescriptors
<1>3. FdStage'
  BY DEF FdStage
<1>4. FdBytes'
  BY DEF FdBytes, FdStage
<1>5. FdOutcome'
  BY DEF FdOutcome, FdStage, FdBytes
<1>. QED  BY <1>1, <1>2, <1>3, <1>4, <1>5 DEF FdInvariant

(* read_all fails (lines 211-213). *)
LEMMA FdReadFailsPreserves ==
  ASSUME FdInvariant, Fd!ReadFails
  PROVE  FdInvariant'
<1>. USE DEF FdInvariant, Fd!ReadFails, Fd!Child, Fd!Fault
<1>1. Fd!TypeOK'
  <2>1. /\ main' \in {"socketpair", "fork", "close_ch1", "pipe", "write",
                     "close_pw", "sendmsg", "close_all", "waitpid", "kill",
                     "reap", "exited"}
        /\ child' \in {"unborn", "close_ch0", "recvmsg", "fcntl", "read",
                      "close", "zombie", "vanished", "reaped"}
        /\ status' \in {"none", "0", "2", "3", "signal"}
        /\ message' \in {"none", "queued", "taken"}
        /\ result' \in {"running", "EXIT_SUCCESS", "EXIT_FAILURE"}
    OBVIOUS
  <2>2. /\ written' \in 0 .. PAYLOAD /\ pipe' \in 0 .. PIPE_CAPACITY
        /\ got' \in 0 .. PAYLOAD /\ faults' \in Nat
    OBVIOUS
  <2>3. fds' \in [{"parent", "child"} -> SUBSET Fd!Descriptors]
    OBVIOUS
  <2>. QED  BY <2>1, <2>2, <2>3
<1>2. FdDescriptors'
  BY DEF FdDescriptors
<1>3. FdStage'
  BY DEF FdStage
<1>4. FdBytes'
  BY DEF FdBytes
<1>5. FdOutcome'
  BY DEF FdOutcome
<1>. QED  BY <1>1, <1>2, <1>3, <1>4, <1>5 DEF FdInvariant

(* The child ends (lines 214-217). *)
LEMMA FdChildExitsPreserves ==
  ASSUME FdInvariant, Fd!ChildExits
  PROVE  FdInvariant'
<1>. USE DEF FdInvariant, Fd!ChildExits, Fd!ChildEnds, Fd!PipeFollows
<1>1. Fd!TypeOK'
  <2>1. /\ main' \in {"socketpair", "fork", "close_ch1", "pipe", "write",
                     "close_pw", "sendmsg", "close_all", "waitpid", "kill",
                     "reap", "exited"}
        /\ child' \in {"unborn", "close_ch0", "recvmsg", "fcntl", "read",
                      "close", "zombie", "vanished", "reaped"}
        /\ status' \in {"none", "0", "2", "3", "signal"}
        /\ message' \in {"none", "queued", "taken"}
        /\ result' \in {"running", "EXIT_SUCCESS", "EXIT_FAILURE"}
    OBVIOUS
  <2>2. /\ written' \in 0 .. PAYLOAD /\ pipe' \in 0 .. PIPE_CAPACITY
        /\ got' \in 0 .. PAYLOAD /\ faults' \in Nat
    OBVIOUS
  <2>3. fds' \in [{"parent", "child"} -> SUBSET Fd!Descriptors]
    OBVIOUS
  <2>. QED  BY <2>1, <2>2, <2>3
<1>2. FdDescriptors'
  BY DEF FdDescriptors
<1>3. FdStage'
  BY DEF FdStage
<1>4. FdBytes'
  BY DEF FdBytes, FdStage, FdDescriptors
<1>5. FdOutcome'
  BY DEF FdOutcome
<1>. QED  BY <1>1, <1>2, <1>3, <1>4, <1>5 DEF FdInvariant

(* The invariant holds before anything is done. *)
LEMMA FdInit ==
  ASSUME Fd!Init
  PROVE  FdInvariant
<1>. USE DEF Fd!Init
<1>1. Fd!TypeOK
  <2>1. /\ main \in {"socketpair", "fork", "close_ch1", "pipe", "write",
                     "close_pw", "sendmsg", "close_all", "waitpid", "kill",
                     "reap", "exited"}
        /\ child \in {"unborn", "close_ch0", "recvmsg", "fcntl", "read",
                      "close", "zombie", "vanished", "reaped"}
        /\ status \in {"none", "0", "2", "3", "signal"}
        /\ message \in {"none", "queued", "taken"}
        /\ result \in {"running", "EXIT_SUCCESS", "EXIT_FAILURE"}
    OBVIOUS
  <2>2. /\ written \in 0 .. PAYLOAD /\ pipe \in 0 .. PIPE_CAPACITY
        /\ got \in 0 .. PAYLOAD /\ faults \in Nat
    OBVIOUS
  <2>3. fds \in [{"parent", "child"} -> SUBSET Fd!Descriptors]
    OBVIOUS
  <2>. QED  BY <2>1, <2>2, <2>3
<1>2. FdDescriptors
  BY DEF FdDescriptors
<1>3. FdStage
  BY DEF FdStage
<1>4. FdBytes
  BY DEF FdBytes
<1>5. FdOutcome
  BY DEF FdOutcome
<1>. QED  BY <1>1, <1>2, <1>3, <1>4, <1>5 DEF FdInvariant

(* Every step keeps it. *)
LEMMA FdStep ==
  ASSUME FdInvariant, Fd!Next
  PROVE  FdInvariant'
<1>1. CASE Fd!ParentStep
  BY <1>1, FdSocketPairPreserves, FdForkPreserves, FdCloseCh1Preserves,
     FdMakePipePreserves, FdWritePreserves, FdClosePwPreserves,
     FdSendPreserves, FdCloseAllPreserves, FdKillPreserves, FdReapPreserves
     DEF Fd!ParentStep
<1>2. CASE Fd!ChildStep
  BY <1>2, FdCloseCh0Preserves, FdReceivePreserves, FdSetCloexecPreserves,
     FdReadPreserves, FdChildExitsPreserves
     DEF Fd!ChildStep
<1>3. CASE Fd!WriteFails \/ Fd!ReadFails \/ Fd!ReapFails
  BY <1>3, FdWriteFailsPreserves, FdReadFailsPreserves, FdReapFailsPreserves
<1>4. CASE Fd!Exited
  BY <1>4 DEF Fd!Exited, Fd!vars, FdInvariant, FdDescriptors, FdStage,
             FdBytes, FdOutcome
<1>. QED  BY <1>1, <1>2, <1>3, <1>4 DEF Fd!Next

(* SpawnCapture: likewise.  The least of a set of descriptors is one of     *)
(* them: this is what make_cloexec_pipe is given (lines 56-59).            *)
LEMMA LeastDescriptor ==
  ASSUME NEW S \in SUBSET (0 .. 4), S # {}
  PROVE  Spawn!Min(S) \in S
<1>1. \E x \in S : \A y \in S : x <= y
  <2>1. CASE 0 \in S
    BY <2>1
  <2>2. CASE 0 \notin S /\ 1 \in S
    BY <2>2
  <2>3. CASE 0 \notin S /\ 1 \notin S /\ 2 \in S
    BY <2>3
  <2>4. CASE 0 \notin S /\ 1 \notin S /\ 2 \notin S /\ 3 \in S
    BY <2>4
  <2>5. CASE 0 \notin S /\ 1 \notin S /\ 2 \notin S /\ 3 \notin S
    <3>1. \A x \in S : x = 4
      BY <2>5
    <3>2. PICK x \in S : TRUE
      OBVIOUS
    <3>. QED  BY <3>1, <3>2
  <2>. QED  BY <2>1, <2>2, <2>3, <2>4, <2>5
<1>. QED  BY <1>1 DEF Spawn!Min

USE SpawnConstants
    DEF Spawn!OutputAssumption, Spawn!TypeOK, Spawn!Numbers, Spawn!kid

(* The pipe gets two free numbers, or nothing happens (lines 56-59).       *)
LEMMA PipeGetsFreeNumbers ==
  ASSUME SpawnInvariant, Spawn!MakePipe
  PROVE  \/ \E r, w \in 0 .. 4 :
              /\ r # w /\ table[r] = "closed" /\ table[w] = "closed"
              /\ main' = "actions" /\ UNCHANGED faults
              /\ table' = [table EXCEPT ![r] = "pr", ![w] = "pw"]
              /\ pipefd' = [pr |-> r, pw |-> w]
         \/ /\ main' = "cleanup" /\ faults' = faults + 1
            /\ UNCHANGED <<table, pipefd>>
<1>. DEFINE closed == {f \in 0 .. 4 : table[f] = "closed"}
            r == Spawn!Min(closed)
            w == Spawn!Min(closed \ {r})
<1>1. {3, 4} \subseteq closed /\ closed \in SUBSET (0 .. 4)
  BY DEF SpawnInvariant, SpawnDescriptors, Spawn!MakePipe, Spawn!Goes,
         Spawn!Fails
<1>2. r \in closed
  BY <1>1, LeastDescriptor
<1>3. w \in closed \ {r}
  <2>1. closed \ {r} # {} /\ closed \ {r} \in SUBSET (0 .. 4)
    BY <1>1
  <2>. HIDE DEF r
  <2>. QED  BY <2>1, LeastDescriptor
<1>4. \/ /\ main' = "actions" /\ UNCHANGED faults
         /\ table' = [table EXCEPT ![r] = "pr", ![w] = "pw"]
         /\ pipefd' = [pr |-> r, pw |-> w]
      \/ /\ main' = "cleanup" /\ faults' = faults + 1
         /\ UNCHANGED <<table, pipefd>>
  BY DEF Spawn!MakePipe, Spawn!Goes, Spawn!Fails
<1>5. /\ r \in 0 .. 4 /\ w \in 0 .. 4 /\ r # w
      /\ table[r] = "closed" /\ table[w] = "closed"
  BY <1>2, <1>3
<1>. HIDE DEF r, w
<1>. QED  BY <1>4, <1>5

(* Whatever numbers the ends have, the write end gets onto the child's     *)
(* standard output, and execve closes every other end (lines 34-44).       *)
LEMMA ChildGetsWriteEnd ==
  ASSUME SpawnInvariant, main = "spawn"
  PROVE  LET t == Spawn!AfterExec(Spawn!Redirected(table))
         IN  /\ t \in [0 .. 4 -> {"closed", "other", "pr", "pw"}]
             /\ \A f \in 0 .. 4 : /\ t[f] # "pr"
                                  /\ t[f] = "pw" <=> f = 1
<1>. DEFINE r == pipefd["pr"]
            w == pipefd["pw"]
            Table == [0 .. 4 -> {"closed", "other", "pr", "pw"}]
            closed == [table EXCEPT ![r] = "closed"]
            dupped == [closed EXCEPT ![1] = closed[w]]
            all == IF w # 1 THEN [dupped EXCEPT ![w] = "closed"] ELSE dupped
<1>1. r \in 0 .. 4 /\ w \in 0 .. 4 /\ r # w /\ table[w] = "pw"
  BY DEF SpawnInvariant, SpawnDescriptors
<1>2. table \in Table
  BY DEF SpawnInvariant
<1>. HIDE DEF r, w
<1>3. closed \in Table /\ closed[w] = "pw"
  BY <1>1, <1>2
<1>. HIDE DEF closed
<1>4. dupped \in Table /\ dupped[1] = "pw"
  BY <1>3
<1>. HIDE DEF dupped
<1>5. all \in Table /\ all[1] = "pw"
  BY <1>1, <1>4
<1>6. all = Spawn!Redirected(table)
  BY DEF all, dupped, closed, r, w, Spawn!Redirected, Spawn!STDOUT_FILENO
<1>. HIDE DEF all
<1>. QED  BY <1>5, <1>6 DEF Spawn!AfterExec, Spawn!STDOUT_FILENO

(* make_cloexec_pipe (lines 56-59). *)
LEMMA SpawnMakePipePreserves ==
  ASSUME SpawnInvariant, Spawn!MakePipe
  PROVE  SpawnInvariant'
<1>. USE DEF SpawnInvariant, Spawn!MakePipe, Spawn!Goes, Spawn!Fails
<1>1. Spawn!TypeOK'
  <2>1. /\ main' \in {"pipe", "actions", "spawn", "destroy", "close", "read",
                     "wait", "verify", "cleanup", "cleanup_wait", "exited"}
        /\ child' \in {"none", "running", "zombie", "reaped", "vanished"}
        /\ status' \in {"none", "0", "1", "signal"}
        /\ result' \in {"EXIT_SUCCESS", "EXIT_FAILURE"}
        /\ ignored' \in BOOLEAN /\ givenUp' \in BOOLEAN
    OBVIOUS
  <2>2. /\ written' \in 0 .. OUTPUT /\ pipe' \in 0 .. PIPE_CAPACITY
        /\ got' \in 0 .. CAPTURE /\ faults' \in Nat
    BY DEF SpawnBytes
  <2>3. /\ table' \in [0 .. 4 -> {"closed", "other", "pr", "pw"}]
        /\ childTable' \in [0 .. 4 -> {"closed", "other", "pr", "pw"}]
        /\ pipefd' \in [{"pr", "pw"} -> 0 .. 4 \cup {-1}]
    BY PipeGetsFreeNumbers
  <2>. QED  BY <2>1, <2>2, <2>3
<1>2. SpawnDescriptors'
  <2>1. CASE main' = "cleanup"
    BY <2>1, PipeGetsFreeNumbers DEF SpawnDescriptors
  <2>2. CASE main' # "cleanup"
    <3>1. PICK r \in 0 .. 4, w \in 0 .. 4 :
            /\ r # w /\ table[r] = "closed" /\ table[w] = "closed"
            /\ main' = "actions"
            /\ table' = [table EXCEPT ![r] = "pr", ![w] = "pw"]
            /\ pipefd' = [pr |-> r, pw |-> w]
      BY <2>2, PipeGetsFreeNumbers
    <3>2. \A f \in 0 .. 4 : table[f] # "pr" /\ table[f] # "pw"
      BY DEF SpawnDescriptors
    <3>5. \A f \in 0 .. 4 :
            table'[f] = IF f = w THEN "pw"
                        ELSE IF f = r THEN "pr" ELSE table[f]
      BY <3>1
    <3>3. \A f \in 0 .. 4 : /\ table'[f] = "pr" <=> r = f
                           /\ table'[f] = "pw" <=> w = f
      BY <3>1, <3>2, <3>5
    <3>4. pipefd'["pr"] = r /\ pipefd'["pw"] = w
      BY <3>1
    <3>. QED  BY <3>1, <3>3, <3>4 DEF SpawnDescriptors
  <2>. QED  BY <2>1, <2>2
<1>3. SpawnRedirected'
  BY DEF SpawnRedirected, SpawnStage
<1>4. SpawnStage'
  BY DEF SpawnStage, SpawnRedirected, SpawnBytes, SpawnDescriptors
<1>5. SpawnBytes'
  BY DEF SpawnBytes, SpawnStage, SpawnRedirected, SpawnDescriptors
<1>6. SpawnOutcome'
  BY DEF SpawnOutcome, SpawnStage, SpawnBytes, SpawnRedirected
<1>. QED  BY <1>1, <1>2, <1>3, <1>4, <1>5, <1>6 DEF SpawnInvariant

(* The file actions are made (lines 61-72). *)
LEMMA SpawnPrepareActionsPreserves ==
  ASSUME SpawnInvariant, Spawn!PrepareActions
  PROVE  SpawnInvariant'
<1>. USE DEF SpawnInvariant, Spawn!PrepareActions, Spawn!Goes, Spawn!Fails
<1>1. Spawn!TypeOK'
  <2>1. /\ main' \in {"pipe", "actions", "spawn", "destroy", "close", "read",
                     "wait", "verify", "cleanup", "cleanup_wait", "exited"}
        /\ child' \in {"none", "running", "zombie", "reaped", "vanished"}
        /\ status' \in {"none", "0", "1", "signal"}
        /\ result' \in {"EXIT_SUCCESS", "EXIT_FAILURE"}
        /\ ignored' \in BOOLEAN /\ givenUp' \in BOOLEAN
    OBVIOUS
  <2>2. /\ written' \in 0 .. OUTPUT /\ pipe' \in 0 .. PIPE_CAPACITY
        /\ got' \in 0 .. CAPTURE /\ faults' \in Nat
    BY DEF SpawnBytes
  <2>3. /\ table' \in [0 .. 4 -> {"closed", "other", "pr", "pw"}]
        /\ childTable' \in [0 .. 4 -> {"closed", "other", "pr", "pw"}]
        /\ pipefd' \in [{"pr", "pw"} -> 0 .. 4 \cup {-1}]
    BY DEF SpawnDescriptors
  <2>. QED  BY <2>1, <2>2, <2>3
<1>2. SpawnDescriptors'
  BY DEF SpawnDescriptors
<1>3. SpawnRedirected'
  BY DEF SpawnRedirected, SpawnStage
<1>4. SpawnStage'
  BY DEF SpawnStage, SpawnRedirected, SpawnBytes, SpawnDescriptors
<1>5. SpawnBytes'
  BY DEF SpawnBytes, SpawnStage, SpawnRedirected, SpawnDescriptors
<1>6. SpawnOutcome'
  BY DEF SpawnOutcome, SpawnStage, SpawnBytes, SpawnRedirected
<1>. QED  BY <1>1, <1>2, <1>3, <1>4, <1>5, <1>6 DEF SpawnInvariant

(* posix_spawn (lines 74-80). *)
LEMMA SpawnSpawnPreserves ==
  ASSUME SpawnInvariant, Spawn!Spawn
  PROVE  SpawnInvariant'
<1>. USE DEF SpawnInvariant, Spawn!Spawn, Spawn!Goes, Spawn!Fails
<1>1. Spawn!TypeOK'
  <2>1. /\ main' \in {"pipe", "actions", "spawn", "destroy", "close", "read",
                     "wait", "verify", "cleanup", "cleanup_wait", "exited"}
        /\ child' \in {"none", "running", "zombie", "reaped", "vanished"}
        /\ status' \in {"none", "0", "1", "signal"}
        /\ result' \in {"EXIT_SUCCESS", "EXIT_FAILURE"}
        /\ ignored' \in BOOLEAN /\ givenUp' \in BOOLEAN
    OBVIOUS
  <2>2. /\ written' \in 0 .. OUTPUT /\ pipe' \in 0 .. PIPE_CAPACITY
        /\ got' \in 0 .. CAPTURE /\ faults' \in Nat
    BY DEF SpawnBytes
  <2>3. /\ table' \in [0 .. 4 -> {"closed", "other", "pr", "pw"}]
        /\ childTable' \in [0 .. 4 -> {"closed", "other", "pr", "pw"}]
        /\ pipefd' \in [{"pr", "pw"} -> 0 .. 4 \cup {-1}]
    BY ChildGetsWriteEnd
  <2>. QED  BY <2>1, <2>2, <2>3
<1>2. SpawnDescriptors'
  BY DEF SpawnDescriptors
<1>3. SpawnRedirected'
  <2>1. main = "spawn" /\ child = "none"
    BY DEF SpawnStage
  <2>2. CASE child' = "running"
    <3>1. childTable' = Spawn!AfterExec(Spawn!Redirected(table))
      BY <2>1, <2>2
    <3>. QED  BY <2>1, <2>2, <3>1, ChildGetsWriteEnd DEF SpawnRedirected
  <2>3. CASE child' # "running"
    BY <2>1, <2>3 DEF SpawnRedirected
  <2>. QED  BY <2>2, <2>3
<1>4. SpawnStage'
  BY DEF SpawnStage, SpawnRedirected, SpawnBytes, SpawnDescriptors
<1>5. SpawnBytes'
  BY DEF SpawnBytes, SpawnStage, SpawnRedirected, SpawnDescriptors
<1>6. SpawnOutcome'
  BY DEF SpawnOutcome, SpawnStage, SpawnBytes, SpawnRedirected
<1>. QED  BY <1>1, <1>2, <1>3, <1>4, <1>5, <1>6 DEF SpawnInvariant

(* The file actions are destroyed (lines 82-87). *)
LEMMA SpawnDestroyActionsPreserves ==
  ASSUME SpawnInvariant, Spawn!DestroyActions
  PROVE  SpawnInvariant'
<1>. USE DEF SpawnInvariant, Spawn!DestroyActions, Spawn!Goes, Spawn!Fails
<1>1. Spawn!TypeOK'
  <2>1. /\ main' \in {"pipe", "actions", "spawn", "destroy", "close", "read",
                     "wait", "verify", "cleanup", "cleanup_wait", "exited"}
        /\ child' \in {"none", "running", "zombie", "reaped", "vanished"}
        /\ status' \in {"none", "0", "1", "signal"}
        /\ result' \in {"EXIT_SUCCESS", "EXIT_FAILURE"}
        /\ ignored' \in BOOLEAN /\ givenUp' \in BOOLEAN
    OBVIOUS
  <2>2. /\ written' \in 0 .. OUTPUT /\ pipe' \in 0 .. PIPE_CAPACITY
        /\ got' \in 0 .. CAPTURE /\ faults' \in Nat
    BY DEF SpawnBytes
  <2>3. /\ table' \in [0 .. 4 -> {"closed", "other", "pr", "pw"}]
        /\ childTable' \in [0 .. 4 -> {"closed", "other", "pr", "pw"}]
        /\ pipefd' \in [{"pr", "pw"} -> 0 .. 4 \cup {-1}]
    BY DEF SpawnDescriptors
  <2>. QED  BY <2>1, <2>2, <2>3
<1>2. SpawnDescriptors'
  BY DEF SpawnDescriptors
<1>3. SpawnRedirected'
  BY DEF SpawnRedirected, SpawnStage
<1>4. SpawnStage'
  BY DEF SpawnStage, SpawnRedirected, SpawnBytes, SpawnDescriptors
<1>5. SpawnBytes'
  BY DEF SpawnBytes, SpawnStage, SpawnRedirected, SpawnDescriptors
<1>6. SpawnOutcome'
  BY DEF SpawnOutcome, SpawnStage, SpawnBytes, SpawnRedirected
<1>. QED  BY <1>1, <1>2, <1>3, <1>4, <1>5, <1>6 DEF SpawnInvariant

(* The writing end is closed (lines 89-94). *)
LEMMA SpawnCloseWriterPreserves ==
  ASSUME SpawnInvariant, Spawn!CloseWriter
  PROVE  SpawnInvariant'
<1>. USE DEF SpawnInvariant, Spawn!CloseWriter, Spawn!Goes, Spawn!Fails
<1>1. Spawn!TypeOK'
  <2>1. /\ main' \in {"pipe", "actions", "spawn", "destroy", "close", "read",
                     "wait", "verify", "cleanup", "cleanup_wait", "exited"}
        /\ child' \in {"none", "running", "zombie", "reaped", "vanished"}
        /\ status' \in {"none", "0", "1", "signal"}
        /\ result' \in {"EXIT_SUCCESS", "EXIT_FAILURE"}
        /\ ignored' \in BOOLEAN /\ givenUp' \in BOOLEAN
    OBVIOUS
  <2>2. /\ written' \in 0 .. OUTPUT /\ pipe' \in 0 .. PIPE_CAPACITY
        /\ got' \in 0 .. CAPTURE /\ faults' \in Nat
    BY DEF SpawnBytes
  <2>3. /\ table' \in [0 .. 4 -> {"closed", "other", "pr", "pw"}]
        /\ childTable' \in [0 .. 4 -> {"closed", "other", "pr", "pw"}]
        /\ pipefd' \in [{"pr", "pw"} -> 0 .. 4 \cup {-1}]
    BY DEF SpawnDescriptors
  <2>. QED  BY <2>1, <2>2, <2>3
<1>2. SpawnDescriptors'
  BY DEF SpawnDescriptors
<1>3. SpawnRedirected'
  BY DEF SpawnRedirected, SpawnStage
<1>4. SpawnStage'
  BY DEF SpawnStage, SpawnRedirected, SpawnBytes, SpawnDescriptors
<1>5. SpawnBytes'
  BY DEF SpawnBytes, SpawnStage, SpawnRedirected, SpawnDescriptors
<1>6. SpawnOutcome'
  BY DEF SpawnOutcome, SpawnStage, SpawnBytes, SpawnRedirected
<1>. QED  BY <1>1, <1>2, <1>3, <1>4, <1>5, <1>6 DEF SpawnInvariant

(* read (lines 96-114). *)
LEMMA SpawnReadOutputPreserves ==
  ASSUME SpawnInvariant, Spawn!ReadOutput
  PROVE  SpawnInvariant'
<1>. USE DEF SpawnInvariant, Spawn!ReadOutput, Spawn!Goes, Spawn!Open
<1>1. Spawn!TypeOK'
  <2>1. /\ main' \in {"pipe", "actions", "spawn", "destroy", "close", "read",
                     "wait", "verify", "cleanup", "cleanup_wait", "exited"}
        /\ child' \in {"none", "running", "zombie", "reaped", "vanished"}
        /\ status' \in {"none", "0", "1", "signal"}
        /\ result' \in {"EXIT_SUCCESS", "EXIT_FAILURE"}
        /\ ignored' \in BOOLEAN /\ givenUp' \in BOOLEAN
    OBVIOUS
  <2>2. /\ written' \in 0 .. OUTPUT /\ pipe' \in 0 .. PIPE_CAPACITY
        /\ got' \in 0 .. CAPTURE /\ faults' \in Nat
    BY DEF SpawnBytes
  <2>3. /\ table' \in [0 .. 4 -> {"closed", "other", "pr", "pw"}]
        /\ childTable' \in [0 .. 4 -> {"closed", "other", "pr", "pw"}]
        /\ pipefd' \in [{"pr", "pw"} -> 0 .. 4 \cup {-1}]
    BY DEF SpawnDescriptors
  <2>. QED  BY <2>1, <2>2, <2>3
<1>2. SpawnDescriptors'
  BY DEF SpawnDescriptors
<1>3. SpawnRedirected'
  BY DEF SpawnRedirected, SpawnStage
<1>4. SpawnStage'
  BY DEF SpawnStage, SpawnRedirected, SpawnBytes, SpawnDescriptors
<1>5. SpawnBytes'
  BY DEF SpawnBytes, SpawnStage, SpawnRedirected, SpawnDescriptors
<1>6. SpawnOutcome'
  BY DEF SpawnOutcome, SpawnStage, SpawnBytes, SpawnRedirected
<1>. QED  BY <1>1, <1>2, <1>3, <1>4, <1>5, <1>6 DEF SpawnInvariant

(* read fails (lines 99-113). *)
LEMMA SpawnReadFailsPreserves ==
  ASSUME SpawnInvariant, Spawn!ReadFails
  PROVE  SpawnInvariant'
<1>. USE DEF SpawnInvariant, Spawn!ReadFails, Spawn!Goes, Spawn!Fails
<1>1. Spawn!TypeOK'
  <2>1. /\ main' \in {"pipe", "actions", "spawn", "destroy", "close", "read",
                     "wait", "verify", "cleanup", "cleanup_wait", "exited"}
        /\ child' \in {"none", "running", "zombie", "reaped", "vanished"}
        /\ status' \in {"none", "0", "1", "signal"}
        /\ result' \in {"EXIT_SUCCESS", "EXIT_FAILURE"}
        /\ ignored' \in BOOLEAN /\ givenUp' \in BOOLEAN
    OBVIOUS
  <2>2. /\ written' \in 0 .. OUTPUT /\ pipe' \in 0 .. PIPE_CAPACITY
        /\ got' \in 0 .. CAPTURE /\ faults' \in Nat
    BY DEF SpawnBytes
  <2>3. /\ table' \in [0 .. 4 -> {"closed", "other", "pr", "pw"}]
        /\ childTable' \in [0 .. 4 -> {"closed", "other", "pr", "pw"}]
        /\ pipefd' \in [{"pr", "pw"} -> 0 .. 4 \cup {-1}]
    BY DEF SpawnDescriptors
  <2>. QED  BY <2>1, <2>2, <2>3
<1>2. SpawnDescriptors'
  BY DEF SpawnDescriptors
<1>3. SpawnRedirected'
  BY DEF SpawnRedirected, SpawnStage
<1>4. SpawnStage'
  BY DEF SpawnStage, SpawnRedirected, SpawnBytes, SpawnDescriptors
<1>5. SpawnBytes'
  BY DEF SpawnBytes, SpawnStage, SpawnRedirected, SpawnDescriptors
<1>6. SpawnOutcome'
  BY DEF SpawnOutcome, SpawnStage, SpawnBytes, SpawnRedirected
<1>. QED  BY <1>1, <1>2, <1>3, <1>4, <1>5, <1>6 DEF SpawnInvariant

(* waitpid fails (lines 115-123). *)
LEMMA SpawnWaitFailsPreserves ==
  ASSUME SpawnInvariant, Spawn!WaitFails
  PROVE  SpawnInvariant'
<1>. USE DEF SpawnInvariant, Spawn!WaitFails, Spawn!Goes, Spawn!Fails
<1>1. Spawn!TypeOK'
  <2>1. /\ main' \in {"pipe", "actions", "spawn", "destroy", "close", "read",
                     "wait", "verify", "cleanup", "cleanup_wait", "exited"}
        /\ child' \in {"none", "running", "zombie", "reaped", "vanished"}
        /\ status' \in {"none", "0", "1", "signal"}
        /\ result' \in {"EXIT_SUCCESS", "EXIT_FAILURE"}
        /\ ignored' \in BOOLEAN /\ givenUp' \in BOOLEAN
    OBVIOUS
  <2>2. /\ written' \in 0 .. OUTPUT /\ pipe' \in 0 .. PIPE_CAPACITY
        /\ got' \in 0 .. CAPTURE /\ faults' \in Nat
    BY DEF SpawnBytes
  <2>3. /\ table' \in [0 .. 4 -> {"closed", "other", "pr", "pw"}]
        /\ childTable' \in [0 .. 4 -> {"closed", "other", "pr", "pw"}]
        /\ pipefd' \in [{"pr", "pw"} -> 0 .. 4 \cup {-1}]
    BY DEF SpawnDescriptors
  <2>. QED  BY <2>1, <2>2, <2>3
<1>2. SpawnDescriptors'
  BY DEF SpawnDescriptors
<1>3. SpawnRedirected'
  BY DEF SpawnRedirected, SpawnStage
<1>4. SpawnStage'
  BY DEF SpawnStage, SpawnRedirected, SpawnBytes, SpawnDescriptors
<1>5. SpawnBytes'
  BY DEF SpawnBytes, SpawnStage, SpawnRedirected, SpawnDescriptors
<1>6. SpawnOutcome'
  BY DEF SpawnOutcome, SpawnStage, SpawnBytes, SpawnRedirected
<1>. QED  BY <1>1, <1>2, <1>3, <1>4, <1>5, <1>6 DEF SpawnInvariant

(* waitpid (lines 116-125). *)
LEMMA SpawnWaitPreserves ==
  ASSUME SpawnInvariant, Spawn!Wait
  PROVE  SpawnInvariant'
<1>. USE DEF SpawnInvariant, Spawn!Wait, Spawn!Goes, Spawn!Fails
<1>1. Spawn!TypeOK'
  <2>1. /\ main' \in {"pipe", "actions", "spawn", "destroy", "close", "read",
                     "wait", "verify", "cleanup", "cleanup_wait", "exited"}
        /\ child' \in {"none", "running", "zombie", "reaped", "vanished"}
        /\ status' \in {"none", "0", "1", "signal"}
        /\ result' \in {"EXIT_SUCCESS", "EXIT_FAILURE"}
        /\ ignored' \in BOOLEAN /\ givenUp' \in BOOLEAN
    OBVIOUS
  <2>2. /\ written' \in 0 .. OUTPUT /\ pipe' \in 0 .. PIPE_CAPACITY
        /\ got' \in 0 .. CAPTURE /\ faults' \in Nat
    BY DEF SpawnBytes
  <2>3. /\ table' \in [0 .. 4 -> {"closed", "other", "pr", "pw"}]
        /\ childTable' \in [0 .. 4 -> {"closed", "other", "pr", "pw"}]
        /\ pipefd' \in [{"pr", "pw"} -> 0 .. 4 \cup {-1}]
    BY DEF SpawnDescriptors
  <2>. QED  BY <2>1, <2>2, <2>3
<1>2. SpawnDescriptors'
  BY DEF SpawnDescriptors
<1>3. SpawnRedirected'
  BY DEF SpawnRedirected, SpawnStage
<1>4. SpawnStage'
  BY DEF SpawnStage, SpawnRedirected, SpawnBytes, SpawnDescriptors
<1>5. SpawnBytes'
  BY DEF SpawnBytes, SpawnStage, SpawnRedirected, SpawnDescriptors
<1>6. SpawnOutcome'
  BY DEF SpawnOutcome, SpawnStage, SpawnBytes, SpawnRedirected
<1>. QED  BY <1>1, <1>2, <1>3, <1>4, <1>5, <1>6 DEF SpawnInvariant

(* The output is verified (lines 127-138). *)
LEMMA SpawnVerifyPreserves ==
  ASSUME SpawnInvariant, Spawn!Verify
  PROVE  SpawnInvariant'
<1>. USE DEF SpawnInvariant, Spawn!Verify, Spawn!Goes
<1>1. Spawn!TypeOK'
  <2>1. /\ main' \in {"pipe", "actions", "spawn", "destroy", "close", "read",
                     "wait", "verify", "cleanup", "cleanup_wait", "exited"}
        /\ child' \in {"none", "running", "zombie", "reaped", "vanished"}
        /\ status' \in {"none", "0", "1", "signal"}
        /\ result' \in {"EXIT_SUCCESS", "EXIT_FAILURE"}
        /\ ignored' \in BOOLEAN /\ givenUp' \in BOOLEAN
    OBVIOUS
  <2>2. /\ written' \in 0 .. OUTPUT /\ pipe' \in 0 .. PIPE_CAPACITY
        /\ got' \in 0 .. CAPTURE /\ faults' \in Nat
    BY DEF SpawnBytes
  <2>3. /\ table' \in [0 .. 4 -> {"closed", "other", "pr", "pw"}]
        /\ childTable' \in [0 .. 4 -> {"closed", "other", "pr", "pw"}]
        /\ pipefd' \in [{"pr", "pw"} -> 0 .. 4 \cup {-1}]
    BY DEF SpawnDescriptors
  <2>. QED  BY <2>1, <2>2, <2>3
<1>2. SpawnDescriptors'
  BY DEF SpawnDescriptors
<1>3. SpawnRedirected'
  BY DEF SpawnRedirected, SpawnStage
<1>4. SpawnStage'
  BY DEF SpawnStage, SpawnRedirected, SpawnBytes, SpawnDescriptors
<1>5. SpawnBytes'
  BY DEF SpawnBytes, SpawnStage, SpawnRedirected, SpawnDescriptors
<1>6. SpawnOutcome'
  BY DEF SpawnOutcome, SpawnStage, SpawnBytes, SpawnRedirected
<1>. QED  BY <1>1, <1>2, <1>3, <1>4, <1>5, <1>6 DEF SpawnInvariant

(* The ends are closed (lines 139-150). *)
LEMMA SpawnCleanupPreserves ==
  ASSUME SpawnInvariant, Spawn!Cleanup
  PROVE  SpawnInvariant'
<1>. USE DEF SpawnInvariant, Spawn!Cleanup, Spawn!Goes
<1>1. Spawn!TypeOK'
  <2>1. /\ main' \in {"pipe", "actions", "spawn", "destroy", "close", "read",
                     "wait", "verify", "cleanup", "cleanup_wait", "exited"}
        /\ child' \in {"none", "running", "zombie", "reaped", "vanished"}
        /\ status' \in {"none", "0", "1", "signal"}
        /\ result' \in {"EXIT_SUCCESS", "EXIT_FAILURE"}
        /\ ignored' \in BOOLEAN /\ givenUp' \in BOOLEAN
    OBVIOUS
  <2>2. /\ written' \in 0 .. OUTPUT /\ pipe' \in 0 .. PIPE_CAPACITY
        /\ got' \in 0 .. CAPTURE /\ faults' \in Nat
    BY DEF SpawnBytes
  <2>3. /\ table' \in [0 .. 4 -> {"closed", "other", "pr", "pw"}]
        /\ childTable' \in [0 .. 4 -> {"closed", "other", "pr", "pw"}]
        /\ pipefd' \in [{"pr", "pw"} -> 0 .. 4 \cup {-1}]
    BY DEF SpawnDescriptors
  <2>. QED  BY <2>1, <2>2, <2>3
<1>2. SpawnDescriptors'
  BY DEF SpawnDescriptors
<1>3. SpawnRedirected'
  BY DEF SpawnRedirected, SpawnStage
<1>4. SpawnStage'
  BY DEF SpawnStage, SpawnRedirected, SpawnBytes, SpawnDescriptors
<1>5. SpawnBytes'
  BY DEF SpawnBytes, SpawnStage, SpawnRedirected, SpawnDescriptors
<1>6. SpawnOutcome'
  BY DEF SpawnOutcome, SpawnStage, SpawnBytes, SpawnRedirected
<1>. QED  BY <1>1, <1>2, <1>3, <1>4, <1>5, <1>6 DEF SpawnInvariant

(* The child is waited for (lines 151-157). *)
LEMMA SpawnCleanupWaitPreserves ==
  ASSUME SpawnInvariant, Spawn!CleanupWait
  PROVE  SpawnInvariant'
<1>. USE DEF SpawnInvariant, Spawn!CleanupWait, Spawn!Goes
<1>1. Spawn!TypeOK'
  <2>1. /\ main' \in {"pipe", "actions", "spawn", "destroy", "close", "read",
                     "wait", "verify", "cleanup", "cleanup_wait", "exited"}
        /\ child' \in {"none", "running", "zombie", "reaped", "vanished"}
        /\ status' \in {"none", "0", "1", "signal"}
        /\ result' \in {"EXIT_SUCCESS", "EXIT_FAILURE"}
        /\ ignored' \in BOOLEAN /\ givenUp' \in BOOLEAN
    OBVIOUS
  <2>2. /\ written' \in 0 .. OUTPUT /\ pipe' \in 0 .. PIPE_CAPACITY
        /\ got' \in 0 .. CAPTURE /\ faults' \in Nat
    BY DEF SpawnBytes
  <2>3. /\ table' \in [0 .. 4 -> {"closed", "other", "pr", "pw"}]
        /\ childTable' \in [0 .. 4 -> {"closed", "other", "pr", "pw"}]
        /\ pipefd' \in [{"pr", "pw"} -> 0 .. 4 \cup {-1}]
    BY DEF SpawnDescriptors
  <2>. QED  BY <2>1, <2>2, <2>3
<1>2. SpawnDescriptors'
  BY DEF SpawnDescriptors
<1>3. SpawnRedirected'
  BY DEF SpawnRedirected, SpawnStage
<1>4. SpawnStage'
  BY DEF SpawnStage, SpawnRedirected, SpawnBytes, SpawnDescriptors
<1>5. SpawnBytes'
  BY DEF SpawnBytes, SpawnStage, SpawnRedirected, SpawnDescriptors
<1>6. SpawnOutcome'
  BY DEF SpawnOutcome, SpawnStage, SpawnBytes, SpawnRedirected
<1>. QED  BY <1>1, <1>2, <1>3, <1>4, <1>5, <1>6 DEF SpawnInvariant

(* The wait of the cleanup fails (lines 151-155). *)
LEMMA SpawnCleanupWaitFailsPreserves ==
  ASSUME SpawnInvariant, Spawn!CleanupWaitFails
  PROVE  SpawnInvariant'
<1>. USE DEF SpawnInvariant, Spawn!CleanupWaitFails, Spawn!Goes
<1>1. Spawn!TypeOK'
  <2>1. /\ main' \in {"pipe", "actions", "spawn", "destroy", "close", "read",
                     "wait", "verify", "cleanup", "cleanup_wait", "exited"}
        /\ child' \in {"none", "running", "zombie", "reaped", "vanished"}
        /\ status' \in {"none", "0", "1", "signal"}
        /\ result' \in {"EXIT_SUCCESS", "EXIT_FAILURE"}
        /\ ignored' \in BOOLEAN /\ givenUp' \in BOOLEAN
    OBVIOUS
  <2>2. /\ written' \in 0 .. OUTPUT /\ pipe' \in 0 .. PIPE_CAPACITY
        /\ got' \in 0 .. CAPTURE /\ faults' \in Nat
    BY DEF SpawnBytes
  <2>3. /\ table' \in [0 .. 4 -> {"closed", "other", "pr", "pw"}]
        /\ childTable' \in [0 .. 4 -> {"closed", "other", "pr", "pw"}]
        /\ pipefd' \in [{"pr", "pw"} -> 0 .. 4 \cup {-1}]
    BY DEF SpawnDescriptors
  <2>. QED  BY <2>1, <2>2, <2>3
<1>2. SpawnDescriptors'
  BY DEF SpawnDescriptors
<1>3. SpawnRedirected'
  BY DEF SpawnRedirected, SpawnStage
<1>4. SpawnStage'
  BY DEF SpawnStage, SpawnRedirected, SpawnBytes, SpawnDescriptors
<1>5. SpawnBytes'
  BY DEF SpawnBytes, SpawnStage, SpawnRedirected, SpawnDescriptors
<1>6. SpawnOutcome'
  BY DEF SpawnOutcome, SpawnStage, SpawnBytes, SpawnRedirected
<1>. QED  BY <1>1, <1>2, <1>3, <1>4, <1>5, <1>6 DEF SpawnInvariant

(* The child prints or ends (lines 74-80). *)
LEMMA SpawnPrintOutputPreserves ==
  ASSUME SpawnInvariant, Spawn!PrintOutput
  PROVE  SpawnInvariant'
<1>. USE DEF SpawnInvariant, Spawn!PrintOutput, Spawn!ChildEnds, Spawn!Open
<1>1. Spawn!TypeOK'
  <2>1. /\ main' \in {"pipe", "actions", "spawn", "destroy", "close", "read",
                     "wait", "verify", "cleanup", "cleanup_wait", "exited"}
        /\ child' \in {"none", "running", "zombie", "reaped", "vanished"}
        /\ status' \in {"none", "0", "1", "signal"}
        /\ result' \in {"EXIT_SUCCESS", "EXIT_FAILURE"}
        /\ ignored' \in BOOLEAN /\ givenUp' \in BOOLEAN
    OBVIOUS
  <2>2. /\ written' \in 0 .. OUTPUT /\ pipe' \in 0 .. PIPE_CAPACITY
        /\ got' \in 0 .. CAPTURE /\ faults' \in Nat
    BY DEF SpawnBytes
  <2>3. /\ table' \in [0 .. 4 -> {"closed", "other", "pr", "pw"}]
        /\ childTable' \in [0 .. 4 -> {"closed", "other", "pr", "pw"}]
        /\ pipefd' \in [{"pr", "pw"} -> 0 .. 4 \cup {-1}]
    BY DEF SpawnDescriptors
  <2>. QED  BY <2>1, <2>2, <2>3
<1>2. SpawnDescriptors'
  BY DEF SpawnDescriptors
<1>3. SpawnRedirected'
  BY DEF SpawnRedirected, SpawnStage
<1>4. SpawnStage'
  BY DEF SpawnStage, SpawnRedirected, SpawnBytes, SpawnDescriptors
<1>5. SpawnBytes'
  BY DEF SpawnBytes, SpawnStage, SpawnRedirected, SpawnDescriptors
<1>6. SpawnOutcome'
  <2>1. child = "running" /\ main' = main /\ result' = result /\ got' = got
    OBVIOUS
  <2>2. result = "EXIT_FAILURE"
    BY <2>1 DEF SpawnOutcome
  <2>3. ~Spawn!Open("pr") => faults > 0
    <3>1. main \in {"destroy", "close", "read", "cleanup", "cleanup_wait",
                    "exited"}
      BY <2>1 DEF SpawnStage
    <3>2. main \in {"destroy", "close", "read"} => Spawn!Open("pr")
      BY DEF SpawnDescriptors
    <3>. QED  BY <2>2, <3>1, <3>2 DEF SpawnOutcome
  <2>4. faults' \in {faults, faults + 1}
    OBVIOUS
  <2>5. status' \in {"1", "signal"} => faults' > 0
    BY <2>3, <2>4 DEF SpawnStage
  <2>. QED  BY <2>1, <2>2, <2>4, <2>5 DEF SpawnOutcome
<1>. QED  BY <1>1, <1>2, <1>3, <1>4, <1>5, <1>6 DEF SpawnInvariant

(* The invariant holds before anything is done. *)
LEMMA SpawnInit ==
  ASSUME Spawn!Init
  PROVE  SpawnInvariant
<1>. USE DEF Spawn!Init
<1>1. Spawn!TypeOK
  <2>1. /\ main \in {"pipe", "actions", "spawn", "destroy", "close", "read",
                     "wait", "verify", "cleanup", "cleanup_wait", "exited"}
        /\ child \in {"none", "running", "zombie", "reaped", "vanished"}
        /\ status \in {"none", "0", "1", "signal"}
        /\ result \in {"EXIT_SUCCESS", "EXIT_FAILURE"}
        /\ ignored \in BOOLEAN /\ givenUp \in BOOLEAN
    OBVIOUS
  <2>2. /\ written \in 0 .. OUTPUT /\ pipe \in 0 .. PIPE_CAPACITY
        /\ got \in 0 .. CAPTURE /\ faults \in Nat
    BY DEF SpawnBytes
  <2>3. /\ table \in [0 .. 4 -> {"closed", "other", "pr", "pw"}]
        /\ childTable \in [0 .. 4 -> {"closed", "other", "pr", "pw"}]
        /\ pipefd \in [{"pr", "pw"} -> 0 .. 4 \cup {-1}]
    BY DEF SpawnDescriptors
  <2>. QED  BY <2>1, <2>2, <2>3
<1>2. SpawnDescriptors
  BY DEF SpawnDescriptors
<1>3. SpawnRedirected
  BY DEF SpawnRedirected
<1>4. SpawnStage
  BY DEF SpawnStage
<1>5. SpawnBytes
  BY DEF SpawnBytes
<1>6. SpawnOutcome
  BY DEF SpawnOutcome
<1>. QED  BY <1>1, <1>2, <1>3, <1>4, <1>5, <1>6 DEF SpawnInvariant

(* Every step keeps it. *)
LEMMA SpawnStep ==
  ASSUME SpawnInvariant, Spawn!Next
  PROVE  SpawnInvariant'
<1>1. CASE Spawn!MainStep
  BY <1>1, SpawnMakePipePreserves, SpawnPrepareActionsPreserves,
     SpawnSpawnPreserves, SpawnDestroyActionsPreserves,
     SpawnCloseWriterPreserves, SpawnReadOutputPreserves, SpawnWaitPreserves,
     SpawnVerifyPreserves, SpawnCleanupPreserves, SpawnCleanupWaitPreserves
     DEF Spawn!MainStep
<1>2. CASE \/ Spawn!ReadFails \/ Spawn!WaitFails \/ Spawn!CleanupWaitFails
           \/ Spawn!PrintOutput
  BY <1>2, SpawnReadFailsPreserves, SpawnWaitFailsPreserves,
     SpawnCleanupWaitFailsPreserves, SpawnPrintOutputPreserves
<1>3. CASE Spawn!Exited
  BY <1>3 DEF Spawn!Exited, Spawn!vars, SpawnInvariant, SpawnDescriptors,
             SpawnRedirected, SpawnStage, SpawnBytes, SpawnOutcome
<1>. QED  BY <1>1, <1>2, <1>3 DEF Spawn!Next

(* SessionReport: likewise. *)
USE SessionConstants
    DEF Session!ReportAssumption, Session!TypeOK, Session!kid

(* make_cloexec_pipe (lines 112-115). *)
LEMMA SessionMakePipePreserves ==
  ASSUME SessionInvariant, Session!MakePipe
  PROVE  SessionInvariant'
<1>. USE DEF SessionInvariant, Session!MakePipe, Session!Goes, Session!Fails,
             Session!Fault
<1>1. Session!TypeOK'
  <2>1. /\ main' \in {"pipe", "fork", "close_write", "read", "close_read",
                     "wait", "verify", "cleanup", "cleanup_wait", "exited"}
        /\ child' \in {"none", "close_read", "setsid", "write", "exit",
                      "zombie", "vanished", "gone"}
        /\ status' \in {"none", "0", "2", "3", "signal"}
        /\ ids' \in {"inherited", "own"}
        /\ result' \in {"EXIT_SUCCESS", "EXIT_FAILURE"}
    OBVIOUS
  <2>2. /\ report' \in [error : BOOLEAN, relation_ok : BOOLEAN]
        /\ child_reaped' \in BOOLEAN
        /\ ignored' \in BOOLEAN /\ givenUp' \in BOOLEAN
    OBVIOUS
  <2>3. /\ written' \in 0 .. REPORT /\ pipe' \in 0 .. REPORT
        /\ got' \in 0 .. REPORT /\ faults' \in Nat
    BY DEF SessionBytes
  <2>4. fds' \in [{"parent", "child"} -> SUBSET {"read", "write"}]
    OBVIOUS
  <2>. QED  BY <2>1, <2>2, <2>3, <2>4
<1>2. SessionEnds'
  BY DEF SessionEnds, SessionStage
<1>3. SessionStage'
  BY DEF SessionStage, SessionEnds, SessionOutcome
<1>4. SessionBytes'
  BY DEF SessionBytes, SessionStage, SessionEnds
<1>5. SessionOutcome'
  BY DEF SessionOutcome, SessionStage, SessionEnds, SessionBytes
<1>. QED  BY <1>1, <1>2, <1>3, <1>4, <1>5 DEF SessionInvariant

(* fork (lines 116-125). *)
LEMMA SessionForkPreserves ==
  ASSUME SessionInvariant, Session!Fork
  PROVE  SessionInvariant'
<1>. USE DEF SessionInvariant, Session!Fork, Session!Goes, Session!Fails,
             Session!Fault
<1>1. Session!TypeOK'
  <2>1. /\ main' \in {"pipe", "fork", "close_write", "read", "close_read",
                     "wait", "verify", "cleanup", "cleanup_wait", "exited"}
        /\ child' \in {"none", "close_read", "setsid", "write", "exit",
                      "zombie", "vanished", "gone"}
        /\ status' \in {"none", "0", "2", "3", "signal"}
        /\ ids' \in {"inherited", "own"}
        /\ result' \in {"EXIT_SUCCESS", "EXIT_FAILURE"}
    OBVIOUS
  <2>2. /\ report' \in [error : BOOLEAN, relation_ok : BOOLEAN]
        /\ child_reaped' \in BOOLEAN
        /\ ignored' \in BOOLEAN /\ givenUp' \in BOOLEAN
    OBVIOUS
  <2>3. /\ written' \in 0 .. REPORT /\ pipe' \in 0 .. REPORT
        /\ got' \in 0 .. REPORT /\ faults' \in Nat
    BY DEF SessionBytes
  <2>4. fds' \in [{"parent", "child"} -> SUBSET {"read", "write"}]
    OBVIOUS
  <2>. QED  BY <2>1, <2>2, <2>3, <2>4
<1>2. SessionEnds'
  BY DEF SessionEnds, SessionStage
<1>3. SessionStage'
  BY DEF SessionStage, SessionEnds, SessionOutcome
<1>4. SessionBytes'
  BY DEF SessionBytes, SessionStage, SessionEnds
<1>5. SessionOutcome'
  BY DEF SessionOutcome, SessionStage, SessionEnds, SessionBytes
<1>. QED  BY <1>1, <1>2, <1>3, <1>4, <1>5 DEF SessionInvariant

(* The parent closes its writing end (lines 126-131). *)
LEMMA SessionCloseWriteEndPreserves ==
  ASSUME SessionInvariant, Session!CloseEnd("write", "close_write", "read")
  PROVE  SessionInvariant'
<1>. USE DEF SessionInvariant, Session!CloseEnd, Session!Goes, Session!Fails,
             Session!Fault, Session!Close
<1>1. Session!TypeOK'
  <2>1. /\ main' \in {"pipe", "fork", "close_write", "read", "close_read",
                     "wait", "verify", "cleanup", "cleanup_wait", "exited"}
        /\ child' \in {"none", "close_read", "setsid", "write", "exit",
                      "zombie", "vanished", "gone"}
        /\ status' \in {"none", "0", "2", "3", "signal"}
        /\ ids' \in {"inherited", "own"}
        /\ result' \in {"EXIT_SUCCESS", "EXIT_FAILURE"}
    OBVIOUS
  <2>2. /\ report' \in [error : BOOLEAN, relation_ok : BOOLEAN]
        /\ child_reaped' \in BOOLEAN
        /\ ignored' \in BOOLEAN /\ givenUp' \in BOOLEAN
    OBVIOUS
  <2>3. /\ written' \in 0 .. REPORT /\ pipe' \in 0 .. REPORT
        /\ got' \in 0 .. REPORT /\ faults' \in Nat
    BY DEF SessionBytes
  <2>4. fds' \in [{"parent", "child"} -> SUBSET {"read", "write"}]
    OBVIOUS
  <2>. QED  BY <2>1, <2>2, <2>3, <2>4
<1>2. SessionEnds'
  BY DEF SessionEnds, SessionStage
<1>3. SessionStage'
  BY DEF SessionStage, SessionEnds, SessionOutcome
<1>4. SessionBytes'
  BY DEF SessionBytes, SessionStage, SessionEnds
<1>5. SessionOutcome'
  BY DEF SessionOutcome, SessionStage, SessionEnds, SessionBytes
<1>. QED  BY <1>1, <1>2, <1>3, <1>4, <1>5 DEF SessionInvariant

(* read_all (lines 132-135). *)
LEMMA SessionReadReportPreserves ==
  ASSUME SessionInvariant, Session!ReadReport
  PROVE  SessionInvariant'
<1>. USE DEF SessionInvariant, Session!ReadReport, Session!Goes, Session!Open
<1>1. Session!TypeOK'
  <2>1. /\ main' \in {"pipe", "fork", "close_write", "read", "close_read",
                     "wait", "verify", "cleanup", "cleanup_wait", "exited"}
        /\ child' \in {"none", "close_read", "setsid", "write", "exit",
                      "zombie", "vanished", "gone"}
        /\ status' \in {"none", "0", "2", "3", "signal"}
        /\ ids' \in {"inherited", "own"}
        /\ result' \in {"EXIT_SUCCESS", "EXIT_FAILURE"}
    OBVIOUS
  <2>2. /\ report' \in [error : BOOLEAN, relation_ok : BOOLEAN]
        /\ child_reaped' \in BOOLEAN
        /\ ignored' \in BOOLEAN /\ givenUp' \in BOOLEAN
    OBVIOUS
  <2>3. /\ written' \in 0 .. REPORT /\ pipe' \in 0 .. REPORT
        /\ got' \in 0 .. REPORT /\ faults' \in Nat
    BY DEF SessionBytes
  <2>4. fds' \in [{"parent", "child"} -> SUBSET {"read", "write"}]
    OBVIOUS
  <2>. QED  BY <2>1, <2>2, <2>3, <2>4
<1>2. SessionEnds'
  BY DEF SessionEnds, SessionStage
<1>3. SessionStage'
  BY DEF SessionStage, SessionEnds, SessionOutcome
<1>4. SessionBytes'
  BY DEF SessionBytes, SessionStage, SessionEnds
<1>5. SessionOutcome'
  BY DEF SessionOutcome, SessionStage, SessionEnds, SessionBytes
<1>. QED  BY <1>1, <1>2, <1>3, <1>4, <1>5 DEF SessionInvariant

(* read_all fails (lines 132-135). *)
LEMMA SessionReadFailsPreserves ==
  ASSUME SessionInvariant, Session!ReadFails
  PROVE  SessionInvariant'
<1>. USE DEF SessionInvariant, Session!ReadFails, Session!Goes, Session!Fails,
             Session!Fault
<1>1. Session!TypeOK'
  <2>1. /\ main' \in {"pipe", "fork", "close_write", "read", "close_read",
                     "wait", "verify", "cleanup", "cleanup_wait", "exited"}
        /\ child' \in {"none", "close_read", "setsid", "write", "exit",
                      "zombie", "vanished", "gone"}
        /\ status' \in {"none", "0", "2", "3", "signal"}
        /\ ids' \in {"inherited", "own"}
        /\ result' \in {"EXIT_SUCCESS", "EXIT_FAILURE"}
    OBVIOUS
  <2>2. /\ report' \in [error : BOOLEAN, relation_ok : BOOLEAN]
        /\ child_reaped' \in BOOLEAN
        /\ ignored' \in BOOLEAN /\ givenUp' \in BOOLEAN
    OBVIOUS
  <2>3. /\ written' \in 0 .. REPORT /\ pipe' \in 0 .. REPORT
        /\ got' \in 0 .. REPORT /\ faults' \in Nat
    BY DEF SessionBytes
  <2>4. fds' \in [{"parent", "child"} -> SUBSET {"read", "write"}]
    OBVIOUS
  <2>. QED  BY <2>1, <2>2, <2>3, <2>4
<1>2. SessionEnds'
  BY DEF SessionEnds, SessionStage
<1>3. SessionStage'
  BY DEF SessionStage, SessionEnds, SessionOutcome
<1>4. SessionBytes'
  BY DEF SessionBytes, SessionStage, SessionEnds
<1>5. SessionOutcome'
  BY DEF SessionOutcome, SessionStage, SessionEnds, SessionBytes
<1>. QED  BY <1>1, <1>2, <1>3, <1>4, <1>5 DEF SessionInvariant

(* waitpid fails (lines 147-150). *)
LEMMA SessionWaitFailsPreserves ==
  ASSUME SessionInvariant, Session!WaitFails
  PROVE  SessionInvariant'
<1>. USE DEF SessionInvariant, Session!WaitFails, Session!Goes,
             Session!Fails, Session!Fault
<1>1. Session!TypeOK'
  <2>1. /\ main' \in {"pipe", "fork", "close_write", "read", "close_read",
                     "wait", "verify", "cleanup", "cleanup_wait", "exited"}
        /\ child' \in {"none", "close_read", "setsid", "write", "exit",
                      "zombie", "vanished", "gone"}
        /\ status' \in {"none", "0", "2", "3", "signal"}
        /\ ids' \in {"inherited", "own"}
        /\ result' \in {"EXIT_SUCCESS", "EXIT_FAILURE"}
    OBVIOUS
  <2>2. /\ report' \in [error : BOOLEAN, relation_ok : BOOLEAN]
        /\ child_reaped' \in BOOLEAN
        /\ ignored' \in BOOLEAN /\ givenUp' \in BOOLEAN
    OBVIOUS
  <2>3. /\ written' \in 0 .. REPORT /\ pipe' \in 0 .. REPORT
        /\ got' \in 0 .. REPORT /\ faults' \in Nat
    BY DEF SessionBytes
  <2>4. fds' \in [{"parent", "child"} -> SUBSET {"read", "write"}]
    OBVIOUS
  <2>. QED  BY <2>1, <2>2, <2>3, <2>4
<1>2. SessionEnds'
  BY DEF SessionEnds, SessionStage
<1>3. SessionStage'
  BY DEF SessionStage, SessionEnds, SessionOutcome
<1>4. SessionBytes'
  BY DEF SessionBytes, SessionStage, SessionEnds
<1>5. SessionOutcome'
  BY DEF SessionOutcome, SessionStage, SessionEnds, SessionBytes
<1>. QED  BY <1>1, <1>2, <1>3, <1>4, <1>5 DEF SessionInvariant

(* The parent closes its reading end (lines 136-141). *)
LEMMA SessionCloseParentReadPreserves ==
  ASSUME SessionInvariant, Session!CloseEnd("read", "close_read", "wait")
  PROVE  SessionInvariant'
<1>. USE DEF SessionInvariant, Session!CloseEnd, Session!Goes, Session!Fails,
             Session!Fault, Session!Close
<1>1. Session!TypeOK'
  <2>1. /\ main' \in {"pipe", "fork", "close_write", "read", "close_read",
                     "wait", "verify", "cleanup", "cleanup_wait", "exited"}
        /\ child' \in {"none", "close_read", "setsid", "write", "exit",
                      "zombie", "vanished", "gone"}
        /\ status' \in {"none", "0", "2", "3", "signal"}
        /\ ids' \in {"inherited", "own"}
        /\ result' \in {"EXIT_SUCCESS", "EXIT_FAILURE"}
    OBVIOUS
  <2>2. /\ report' \in [error : BOOLEAN, relation_ok : BOOLEAN]
        /\ child_reaped' \in BOOLEAN
        /\ ignored' \in BOOLEAN /\ givenUp' \in BOOLEAN
    OBVIOUS
  <2>3. /\ written' \in 0 .. REPORT /\ pipe' \in 0 .. REPORT
        /\ got' \in 0 .. REPORT /\ faults' \in Nat
    BY DEF SessionBytes
  <2>4. fds' \in [{"parent", "child"} -> SUBSET {"read", "write"}]
    OBVIOUS
  <2>. QED  BY <2>1, <2>2, <2>3, <2>4
<1>2. SessionEnds'
  BY DEF SessionEnds, SessionStage
<1>3. SessionStage'
  BY DEF SessionStage, SessionEnds, SessionOutcome
<1>4. SessionBytes'
  BY DEF SessionBytes, SessionStage, SessionEnds
<1>5. SessionOutcome'
  BY DEF SessionOutcome, SessionStage, SessionEnds, SessionBytes
<1>. QED  BY <1>1, <1>2, <1>3, <1>4, <1>5 DEF SessionInvariant

(* waitpid (lines 60-66). *)
LEMMA SessionWaitPreserves ==
  ASSUME SessionInvariant, Session!Wait
  PROVE  SessionInvariant'
<1>. USE DEF SessionInvariant, Session!Wait, Session!Goes, Session!Fails,
             Session!Fault
<1>1. Session!TypeOK'
  <2>1. /\ main' \in {"pipe", "fork", "close_write", "read", "close_read",
                     "wait", "verify", "cleanup", "cleanup_wait", "exited"}
        /\ child' \in {"none", "close_read", "setsid", "write", "exit",
                      "zombie", "vanished", "gone"}
        /\ status' \in {"none", "0", "2", "3", "signal"}
        /\ ids' \in {"inherited", "own"}
        /\ result' \in {"EXIT_SUCCESS", "EXIT_FAILURE"}
    OBVIOUS
  <2>2. /\ report' \in [error : BOOLEAN, relation_ok : BOOLEAN]
        /\ child_reaped' \in BOOLEAN
        /\ ignored' \in BOOLEAN /\ givenUp' \in BOOLEAN
    OBVIOUS
  <2>3. /\ written' \in 0 .. REPORT /\ pipe' \in 0 .. REPORT
        /\ got' \in 0 .. REPORT /\ faults' \in Nat
    BY DEF SessionBytes
  <2>4. fds' \in [{"parent", "child"} -> SUBSET {"read", "write"}]
    OBVIOUS
  <2>. QED  BY <2>1, <2>2, <2>3, <2>4
<1>2. SessionEnds'
  BY DEF SessionEnds, SessionStage
<1>3. SessionStage'
  BY DEF SessionStage, SessionEnds, SessionOutcome
<1>4. SessionBytes'
  BY DEF SessionBytes, SessionStage, SessionEnds
<1>5. SessionOutcome'
  BY DEF SessionOutcome, SessionStage, SessionEnds, SessionBytes
<1>. QED  BY <1>1, <1>2, <1>3, <1>4, <1>5 DEF SessionInvariant

(* The report is verified (lines 148-166). *)
LEMMA SessionVerifyPreserves ==
  ASSUME SessionInvariant, Session!Verify
  PROVE  SessionInvariant'
<1>. USE DEF SessionInvariant, Session!Verify, Session!Goes
<1>1. Session!TypeOK'
  <2>1. /\ main' \in {"pipe", "fork", "close_write", "read", "close_read",
                     "wait", "verify", "cleanup", "cleanup_wait", "exited"}
        /\ child' \in {"none", "close_read", "setsid", "write", "exit",
                      "zombie", "vanished", "gone"}
        /\ status' \in {"none", "0", "2", "3", "signal"}
        /\ ids' \in {"inherited", "own"}
        /\ result' \in {"EXIT_SUCCESS", "EXIT_FAILURE"}
    OBVIOUS
  <2>2. /\ report' \in [error : BOOLEAN, relation_ok : BOOLEAN]
        /\ child_reaped' \in BOOLEAN
        /\ ignored' \in BOOLEAN /\ givenUp' \in BOOLEAN
    OBVIOUS
  <2>3. /\ written' \in 0 .. REPORT /\ pipe' \in 0 .. REPORT
        /\ got' \in 0 .. REPORT /\ faults' \in Nat
    BY DEF SessionBytes
  <2>4. fds' \in [{"parent", "child"} -> SUBSET {"read", "write"}]
    OBVIOUS
  <2>. QED  BY <2>1, <2>2, <2>3, <2>4
<1>2. SessionEnds'
  BY DEF SessionEnds, SessionStage
<1>3. SessionStage'
  BY DEF SessionStage, SessionEnds, SessionOutcome
<1>4. SessionBytes'
  BY DEF SessionBytes, SessionStage, SessionEnds
<1>5. SessionOutcome'
  BY DEF SessionOutcome, SessionStage, SessionEnds, SessionBytes
<1>. QED  BY <1>1, <1>2, <1>3, <1>4, <1>5 DEF SessionInvariant

(* The parent closes what it has open (lines 167-175). *)
LEMMA SessionCleanupClosesPreserves ==
  ASSUME SessionInvariant, Session!CleanupCloses
  PROVE  SessionInvariant'
<1>. USE DEF SessionInvariant, Session!CleanupCloses, Session!Goes,
             Session!Fault
<1>1. Session!TypeOK'
  <2>1. /\ main' \in {"pipe", "fork", "close_write", "read", "close_read",
                     "wait", "verify", "cleanup", "cleanup_wait", "exited"}
        /\ child' \in {"none", "close_read", "setsid", "write", "exit",
                      "zombie", "vanished", "gone"}
        /\ status' \in {"none", "0", "2", "3", "signal"}
        /\ ids' \in {"inherited", "own"}
        /\ result' \in {"EXIT_SUCCESS", "EXIT_FAILURE"}
    OBVIOUS
  <2>2. /\ report' \in [error : BOOLEAN, relation_ok : BOOLEAN]
        /\ child_reaped' \in BOOLEAN
        /\ ignored' \in BOOLEAN /\ givenUp' \in BOOLEAN
    OBVIOUS
  <2>3. /\ written' \in 0 .. REPORT /\ pipe' \in 0 .. REPORT
        /\ got' \in 0 .. REPORT /\ faults' \in Nat
    BY DEF SessionBytes
  <2>4. fds' \in [{"parent", "child"} -> SUBSET {"read", "write"}]
    OBVIOUS
  <2>. QED  BY <2>1, <2>2, <2>3, <2>4
<1>2. SessionEnds'
  BY DEF SessionEnds, SessionStage
<1>3. SessionStage'
  BY DEF SessionStage, SessionEnds, SessionOutcome
<1>4. SessionBytes'
  BY DEF SessionBytes, SessionStage, SessionEnds
<1>5. SessionOutcome'
  BY DEF SessionOutcome, SessionStage, SessionEnds, SessionBytes
<1>. QED  BY <1>1, <1>2, <1>3, <1>4, <1>5 DEF SessionInvariant

(* waitpid in the cleanup (lines 176-181). *)
LEMMA SessionCleanupWaitPreserves ==
  ASSUME SessionInvariant, Session!CleanupWait
  PROVE  SessionInvariant'
<1>. USE DEF SessionInvariant, Session!CleanupWait, Session!Goes
<1>1. Session!TypeOK'
  <2>1. /\ main' \in {"pipe", "fork", "close_write", "read", "close_read",
                     "wait", "verify", "cleanup", "cleanup_wait", "exited"}
        /\ child' \in {"none", "close_read", "setsid", "write", "exit",
                      "zombie", "vanished", "gone"}
        /\ status' \in {"none", "0", "2", "3", "signal"}
        /\ ids' \in {"inherited", "own"}
        /\ result' \in {"EXIT_SUCCESS", "EXIT_FAILURE"}
    OBVIOUS
  <2>2. /\ report' \in [error : BOOLEAN, relation_ok : BOOLEAN]
        /\ child_reaped' \in BOOLEAN
        /\ ignored' \in BOOLEAN /\ givenUp' \in BOOLEAN
    OBVIOUS
  <2>3. /\ written' \in 0 .. REPORT /\ pipe' \in 0 .. REPORT
        /\ got' \in 0 .. REPORT /\ faults' \in Nat
    BY DEF SessionBytes
  <2>4. fds' \in [{"parent", "child"} -> SUBSET {"read", "write"}]
    OBVIOUS
  <2>. QED  BY <2>1, <2>2, <2>3, <2>4
<1>2. SessionEnds'
  BY DEF SessionEnds, SessionStage
<1>3. SessionStage'
  BY DEF SessionStage, SessionEnds, SessionOutcome
<1>4. SessionBytes'
  BY DEF SessionBytes, SessionStage, SessionEnds
<1>5. SessionOutcome'
  BY DEF SessionOutcome, SessionStage, SessionEnds, SessionBytes
<1>. QED  BY <1>1, <1>2, <1>3, <1>4, <1>5 DEF SessionInvariant

(* The wait of the cleanup fails (lines 176-181). *)
LEMMA SessionCleanupWaitFailsPreserves ==
  ASSUME SessionInvariant, Session!CleanupWaitFails
  PROVE  SessionInvariant'
<1>. USE DEF SessionInvariant, Session!CleanupWaitFails, Session!Goes,
             Session!Fault
<1>1. Session!TypeOK'
  <2>1. /\ main' \in {"pipe", "fork", "close_write", "read", "close_read",
                     "wait", "verify", "cleanup", "cleanup_wait", "exited"}
        /\ child' \in {"none", "close_read", "setsid", "write", "exit",
                      "zombie", "vanished", "gone"}
        /\ status' \in {"none", "0", "2", "3", "signal"}
        /\ ids' \in {"inherited", "own"}
        /\ result' \in {"EXIT_SUCCESS", "EXIT_FAILURE"}
    OBVIOUS
  <2>2. /\ report' \in [error : BOOLEAN, relation_ok : BOOLEAN]
        /\ child_reaped' \in BOOLEAN
        /\ ignored' \in BOOLEAN /\ givenUp' \in BOOLEAN
    OBVIOUS
  <2>3. /\ written' \in 0 .. REPORT /\ pipe' \in 0 .. REPORT
        /\ got' \in 0 .. REPORT /\ faults' \in Nat
    BY DEF SessionBytes
  <2>4. fds' \in [{"parent", "child"} -> SUBSET {"read", "write"}]
    OBVIOUS
  <2>. QED  BY <2>1, <2>2, <2>3, <2>4
<1>2. SessionEnds'
  BY DEF SessionEnds, SessionStage
<1>3. SessionStage'
  BY DEF SessionStage, SessionEnds, SessionOutcome
<1>4. SessionBytes'
  BY DEF SessionBytes, SessionStage, SessionEnds
<1>5. SessionOutcome'
  BY DEF SessionOutcome, SessionStage, SessionEnds, SessionBytes
<1>. QED  BY <1>1, <1>2, <1>3, <1>4, <1>5 DEF SessionInvariant

(* The child closes its reading end (lines 121-123). *)
LEMMA SessionCloseReadEndPreserves ==
  ASSUME SessionInvariant, Session!CloseReadEnd
  PROVE  SessionInvariant'
<1>. USE DEF SessionInvariant, Session!CloseReadEnd, Session!ChildGoes,
             Session!Close
<1>1. Session!TypeOK'
  <2>1. /\ main' \in {"pipe", "fork", "close_write", "read", "close_read",
                     "wait", "verify", "cleanup", "cleanup_wait", "exited"}
        /\ child' \in {"none", "close_read", "setsid", "write", "exit",
                      "zombie", "vanished", "gone"}
        /\ status' \in {"none", "0", "2", "3", "signal"}
        /\ ids' \in {"inherited", "own"}
        /\ result' \in {"EXIT_SUCCESS", "EXIT_FAILURE"}
    OBVIOUS
  <2>2. /\ report' \in [error : BOOLEAN, relation_ok : BOOLEAN]
        /\ child_reaped' \in BOOLEAN
        /\ ignored' \in BOOLEAN /\ givenUp' \in BOOLEAN
    OBVIOUS
  <2>3. /\ written' \in 0 .. REPORT /\ pipe' \in 0 .. REPORT
        /\ got' \in 0 .. REPORT /\ faults' \in Nat
    BY DEF SessionBytes
  <2>4. fds' \in [{"parent", "child"} -> SUBSET {"read", "write"}]
    OBVIOUS
  <2>. QED  BY <2>1, <2>2, <2>3, <2>4
<1>2. SessionEnds'
  BY DEF SessionEnds, SessionStage
<1>3. SessionStage'
  BY DEF SessionStage, SessionEnds, SessionOutcome
<1>4. SessionBytes'
  BY DEF SessionBytes, SessionStage, SessionEnds
<1>5. SessionOutcome'
  BY DEF SessionOutcome, SessionStage, SessionEnds, SessionBytes
<1>. QED  BY <1>1, <1>2, <1>3, <1>4, <1>5 DEF SessionInvariant

(* setsid (lines 69-94). *)
LEMMA SessionMakeSessionPreserves ==
  ASSUME SessionInvariant, Session!MakeSession
  PROVE  SessionInvariant'
<1>. USE DEF SessionInvariant, Session!MakeSession, Session!ChildGoes,
             Session!Fault
<1>1. Session!TypeOK'
  <2>1. /\ main' \in {"pipe", "fork", "close_write", "read", "close_read",
                     "wait", "verify", "cleanup", "cleanup_wait", "exited"}
        /\ child' \in {"none", "close_read", "setsid", "write", "exit",
                      "zombie", "vanished", "gone"}
        /\ status' \in {"none", "0", "2", "3", "signal"}
        /\ ids' \in {"inherited", "own"}
        /\ result' \in {"EXIT_SUCCESS", "EXIT_FAILURE"}
    OBVIOUS
  <2>2. /\ report' \in [error : BOOLEAN, relation_ok : BOOLEAN]
        /\ child_reaped' \in BOOLEAN
        /\ ignored' \in BOOLEAN /\ givenUp' \in BOOLEAN
    OBVIOUS
  <2>3. /\ written' \in 0 .. REPORT /\ pipe' \in 0 .. REPORT
        /\ got' \in 0 .. REPORT /\ faults' \in Nat
    BY DEF SessionBytes
  <2>4. fds' \in [{"parent", "child"} -> SUBSET {"read", "write"}]
    OBVIOUS
  <2>. QED  BY <2>1, <2>2, <2>3, <2>4
<1>2. SessionEnds'
  BY DEF SessionEnds, SessionStage
<1>3. SessionStage'
  BY DEF SessionStage, SessionEnds, SessionOutcome
<1>4. SessionBytes'
  BY DEF SessionBytes, SessionStage, SessionEnds
<1>5. SessionOutcome'
  BY DEF SessionOutcome, SessionStage, SessionEnds, SessionBytes
<1>. QED  BY <1>1, <1>2, <1>3, <1>4, <1>5 DEF SessionInvariant

(* write_all (lines 96-100). *)
LEMMA SessionWriteReportPreserves ==
  ASSUME SessionInvariant, Session!WriteReport
  PROVE  SessionInvariant'
<1>. USE DEF SessionInvariant, Session!WriteReport, Session!Open,
             Session!Exit, Session!Fault
<1>1. Session!TypeOK'
  <2>1. /\ main' \in {"pipe", "fork", "close_write", "read", "close_read",
                     "wait", "verify", "cleanup", "cleanup_wait", "exited"}
        /\ child' \in {"none", "close_read", "setsid", "write", "exit",
                      "zombie", "vanished", "gone"}
        /\ status' \in {"none", "0", "2", "3", "signal"}
        /\ ids' \in {"inherited", "own"}
        /\ result' \in {"EXIT_SUCCESS", "EXIT_FAILURE"}
    OBVIOUS
  <2>2. /\ report' \in [error : BOOLEAN, relation_ok : BOOLEAN]
        /\ child_reaped' \in BOOLEAN
        /\ ignored' \in BOOLEAN /\ givenUp' \in BOOLEAN
    OBVIOUS
  <2>3. /\ written' \in 0 .. REPORT /\ pipe' \in 0 .. REPORT
        /\ got' \in 0 .. REPORT /\ faults' \in Nat
    BY DEF SessionBytes
  <2>4. fds' \in [{"parent", "child"} -> SUBSET {"read", "write"}]
    OBVIOUS
  <2>. QED  BY <2>1, <2>2, <2>3, <2>4
<1>2. SessionEnds'
  BY DEF SessionEnds, SessionStage
<1>3. SessionStage'
  BY DEF SessionStage, SessionEnds, SessionOutcome
<1>4. SessionBytes'
  BY DEF SessionBytes, SessionStage, SessionEnds
<1>5. SessionOutcome'
  BY DEF SessionOutcome, SessionStage, SessionEnds, SessionBytes
<1>. QED  BY <1>1, <1>2, <1>3, <1>4, <1>5 DEF SessionInvariant

(* The child ends (lines 101-102). *)
LEMMA SessionChildExitsPreserves ==
  ASSUME SessionInvariant, Session!ChildExits
  PROVE  SessionInvariant'
<1>. USE DEF SessionInvariant, Session!ChildExits, Session!Exit
<1>1. Session!TypeOK'
  <2>1. /\ main' \in {"pipe", "fork", "close_write", "read", "close_read",
                     "wait", "verify", "cleanup", "cleanup_wait", "exited"}
        /\ child' \in {"none", "close_read", "setsid", "write", "exit",
                      "zombie", "vanished", "gone"}
        /\ status' \in {"none", "0", "2", "3", "signal"}
        /\ ids' \in {"inherited", "own"}
        /\ result' \in {"EXIT_SUCCESS", "EXIT_FAILURE"}
    OBVIOUS
  <2>2. /\ report' \in [error : BOOLEAN, relation_ok : BOOLEAN]
        /\ child_reaped' \in BOOLEAN
        /\ ignored' \in BOOLEAN /\ givenUp' \in BOOLEAN
    OBVIOUS
  <2>3. /\ written' \in 0 .. REPORT /\ pipe' \in 0 .. REPORT
        /\ got' \in 0 .. REPORT /\ faults' \in Nat
    BY DEF SessionBytes
  <2>4. fds' \in [{"parent", "child"} -> SUBSET {"read", "write"}]
    OBVIOUS
  <2>. QED  BY <2>1, <2>2, <2>3, <2>4
<1>2. SessionEnds'
  BY DEF SessionEnds, SessionStage
<1>3. SessionStage'
  BY DEF SessionStage, SessionEnds, SessionOutcome
<1>4. SessionBytes'
  BY DEF SessionBytes, SessionStage, SessionEnds
<1>5. SessionOutcome'
  BY DEF SessionOutcome, SessionStage, SessionEnds, SessionBytes
<1>. QED  BY <1>1, <1>2, <1>3, <1>4, <1>5 DEF SessionInvariant

(* The invariant holds before anything is done. *)
LEMMA SessionInit ==
  ASSUME Session!Init
  PROVE  SessionInvariant
<1>. USE DEF Session!Init
<1>1. Session!TypeOK
  <2>1. /\ main \in {"pipe", "fork", "close_write", "read", "close_read",
                     "wait", "verify", "cleanup", "cleanup_wait", "exited"}
        /\ child \in {"none", "close_read", "setsid", "write", "exit",
                      "zombie", "vanished", "gone"}
        /\ status \in {"none", "0", "2", "3", "signal"}
        /\ ids \in {"inherited", "own"}
        /\ result \in {"EXIT_SUCCESS", "EXIT_FAILURE"}
    OBVIOUS
  <2>2. /\ report \in [error : BOOLEAN, relation_ok : BOOLEAN]
        /\ child_reaped \in BOOLEAN
        /\ ignored \in BOOLEAN /\ givenUp \in BOOLEAN
    OBVIOUS
  <2>3. /\ written \in 0 .. REPORT /\ pipe \in 0 .. REPORT
        /\ got \in 0 .. REPORT /\ faults \in Nat
    BY DEF SessionBytes
  <2>4. fds \in [{"parent", "child"} -> SUBSET {"read", "write"}]
    OBVIOUS
  <2>. QED  BY <2>1, <2>2, <2>3, <2>4
<1>2. SessionEnds
  BY DEF SessionEnds
<1>3. SessionStage
  BY DEF SessionStage
<1>4. SessionBytes
  BY DEF SessionBytes
<1>5. SessionOutcome
  BY DEF SessionOutcome
<1>. QED  BY <1>1, <1>2, <1>3, <1>4, <1>5 DEF SessionInvariant

(* Every step keeps it. *)
LEMMA SessionStep ==
  ASSUME SessionInvariant, Session!Next
  PROVE  SessionInvariant'
<1>1. CASE Session!ParentStep
  BY <1>1, SessionMakePipePreserves, SessionForkPreserves,
     SessionCloseWriteEndPreserves, SessionReadReportPreserves,
     SessionCloseParentReadPreserves, SessionWaitPreserves,
     SessionVerifyPreserves, SessionCleanupClosesPreserves,
     SessionCleanupWaitPreserves
     DEF Session!ParentStep
<1>2. CASE Session!ChildStep
  BY <1>2, SessionCloseReadEndPreserves, SessionMakeSessionPreserves,
     SessionWriteReportPreserves, SessionChildExitsPreserves
     DEF Session!ChildStep
<1>3. CASE Session!ReadFails \/ Session!WaitFails \/ Session!CleanupWaitFails
  BY <1>3, SessionReadFailsPreserves, SessionWaitFailsPreserves,
     SessionCleanupWaitFailsPreserves
<1>4. CASE Session!Exited
  BY <1>4 DEF Session!Exited, Session!vars, SessionInvariant, SessionEnds,
             SessionStage, SessionBytes, SessionOutcome
<1>. QED  BY <1>1, <1>2, <1>3, <1>4 DEF Session!Next

(* FifoChannel: likewise. *)
USE FifoConstants
    DEF Fifo!MessageAssumption, Fifo!TypeOK, Fifo!Alive, Fifo!paths,
        Fifo!channel, Fifo!kid

(* mkdtemp (lines 74-84). *)
LEMMA FifoMakeDirectoryPreserves ==
  ASSUME FifoInvariant, Fifo!MakeDirectory
  PROVE  FifoInvariant'
<1>. USE DEF FifoInvariant, Fifo!MakeDirectory, Fifo!Goes, Fifo!Fails,
             Fifo!Fault
<1>1. Fifo!TypeOK'
  <2>1. /\ main' \in {"mkdtemp", "mkfifo", "lstat", "open", "fork", "wait",
                     "poll", "cleanup", "reap", "remove", "exited"}
        /\ child' \in {"close", "open", "write", "exit", "none", "zombie",
                      "vanished", "gone"}
        /\ status' \in {"none", "0", "120", "121", "signal"}
        /\ waitError' \in {"none", "ECHILD", "other"}
        /\ result' \in {"EXIT_SUCCESS", "EXIT_FAILURE"}
        /\ readers' \in SUBSET {"parent", "child"}
        /\ writers' \in SUBSET {"child"}
    OBVIOUS
  <2>2. /\ directory' \in BOOLEAN /\ fifo' \in BOOLEAN
        /\ child_reaped' \in BOOLEAN
        /\ ignored' \in BOOLEAN /\ givenUp' \in BOOLEAN
    OBVIOUS
  <2>3. /\ pipe' \in 0 .. MESSAGE /\ got' \in 0 .. MESSAGE
        /\ faults' \in Nat
    BY DEF FifoBytes
  <2>. QED  BY <2>1, <2>2, <2>3
<1>2. FifoEnds'
  BY DEF FifoEnds, FifoStage, FifoOutcome
<1>3. FifoStage'
  BY DEF FifoStage, FifoEnds, FifoOutcome
<1>4. FifoBytes'
  BY DEF FifoBytes, FifoStage, FifoEnds
<1>5. FifoOutcome'
  BY DEF FifoOutcome, FifoStage, FifoEnds, FifoBytes
<1>. QED  BY <1>1, <1>2, <1>3, <1>4, <1>5 DEF FifoInvariant

(* mkfifo (lines 85-89). *)
LEMMA FifoMakeFifoPreserves ==
  ASSUME FifoInvariant, Fifo!MakeFifo
  PROVE  FifoInvariant'
<1>. USE DEF FifoInvariant, Fifo!MakeFifo, Fifo!Goes, Fifo!Fails, Fifo!Fault
<1>1. Fifo!TypeOK'
  <2>1. /\ main' \in {"mkdtemp", "mkfifo", "lstat", "open", "fork", "wait",
                     "poll", "cleanup", "reap", "remove", "exited"}
        /\ child' \in {"close", "open", "write", "exit", "none", "zombie",
                      "vanished", "gone"}
        /\ status' \in {"none", "0", "120", "121", "signal"}
        /\ waitError' \in {"none", "ECHILD", "other"}
        /\ result' \in {"EXIT_SUCCESS", "EXIT_FAILURE"}
        /\ readers' \in SUBSET {"parent", "child"}
        /\ writers' \in SUBSET {"child"}
    OBVIOUS
  <2>2. /\ directory' \in BOOLEAN /\ fifo' \in BOOLEAN
        /\ child_reaped' \in BOOLEAN
        /\ ignored' \in BOOLEAN /\ givenUp' \in BOOLEAN
    OBVIOUS
  <2>3. /\ pipe' \in 0 .. MESSAGE /\ got' \in 0 .. MESSAGE
        /\ faults' \in Nat
    BY DEF FifoBytes
  <2>. QED  BY <2>1, <2>2, <2>3
<1>2. FifoEnds'
  BY DEF FifoEnds, FifoStage, FifoOutcome
<1>3. FifoStage'
  BY DEF FifoStage, FifoEnds, FifoOutcome
<1>4. FifoBytes'
  BY DEF FifoBytes, FifoStage, FifoEnds
<1>5. FifoOutcome'
  BY DEF FifoOutcome, FifoStage, FifoEnds, FifoBytes
<1>. QED  BY <1>1, <1>2, <1>3, <1>4, <1>5 DEF FifoInvariant

(* lstat (lines 91-99). *)
LEMMA FifoVerifyFifoPreserves ==
  ASSUME FifoInvariant, Fifo!VerifyFifo
  PROVE  FifoInvariant'
<1>. USE DEF FifoInvariant, Fifo!VerifyFifo, Fifo!Goes, Fifo!Fails, Fifo!Fault
<1>1. Fifo!TypeOK'
  <2>1. /\ main' \in {"mkdtemp", "mkfifo", "lstat", "open", "fork", "wait",
                     "poll", "cleanup", "reap", "remove", "exited"}
        /\ child' \in {"close", "open", "write", "exit", "none", "zombie",
                      "vanished", "gone"}
        /\ status' \in {"none", "0", "120", "121", "signal"}
        /\ waitError' \in {"none", "ECHILD", "other"}
        /\ result' \in {"EXIT_SUCCESS", "EXIT_FAILURE"}
        /\ readers' \in SUBSET {"parent", "child"}
        /\ writers' \in SUBSET {"child"}
    OBVIOUS
  <2>2. /\ directory' \in BOOLEAN /\ fifo' \in BOOLEAN
        /\ child_reaped' \in BOOLEAN
        /\ ignored' \in BOOLEAN /\ givenUp' \in BOOLEAN
    OBVIOUS
  <2>3. /\ pipe' \in 0 .. MESSAGE /\ got' \in 0 .. MESSAGE
        /\ faults' \in Nat
    BY DEF FifoBytes
  <2>. QED  BY <2>1, <2>2, <2>3
<1>2. FifoEnds'
  BY DEF FifoEnds, FifoStage, FifoOutcome
<1>3. FifoStage'
  BY DEF FifoStage, FifoEnds, FifoOutcome
<1>4. FifoBytes'
  BY DEF FifoBytes, FifoStage, FifoEnds
<1>5. FifoOutcome'
  BY DEF FifoOutcome, FifoStage, FifoEnds, FifoBytes
<1>. QED  BY <1>1, <1>2, <1>3, <1>4, <1>5 DEF FifoInvariant

(* open (lines 100-101). *)
LEMMA FifoOpenReaderPreserves ==
  ASSUME FifoInvariant, Fifo!OpenReader
  PROVE  FifoInvariant'
<1>. USE DEF FifoInvariant, Fifo!OpenReader, Fifo!Goes
<1>1. Fifo!TypeOK'
  <2>1. /\ main' \in {"mkdtemp", "mkfifo", "lstat", "open", "fork", "wait",
                     "poll", "cleanup", "reap", "remove", "exited"}
        /\ child' \in {"close", "open", "write", "exit", "none", "zombie",
                      "vanished", "gone"}
        /\ status' \in {"none", "0", "120", "121", "signal"}
        /\ waitError' \in {"none", "ECHILD", "other"}
        /\ result' \in {"EXIT_SUCCESS", "EXIT_FAILURE"}
        /\ readers' \in SUBSET {"parent", "child"}
        /\ writers' \in SUBSET {"child"}
    OBVIOUS
  <2>2. /\ directory' \in BOOLEAN /\ fifo' \in BOOLEAN
        /\ child_reaped' \in BOOLEAN
        /\ ignored' \in BOOLEAN /\ givenUp' \in BOOLEAN
    OBVIOUS
  <2>3. /\ pipe' \in 0 .. MESSAGE /\ got' \in 0 .. MESSAGE
        /\ faults' \in Nat
    BY DEF FifoBytes
  <2>. QED  BY <2>1, <2>2, <2>3
<1>2. FifoEnds'
  BY DEF FifoEnds, FifoStage, FifoOutcome
<1>3. FifoStage'
  BY DEF FifoStage, FifoEnds, FifoOutcome
<1>4. FifoBytes'
  BY DEF FifoBytes, FifoStage, FifoEnds
<1>5. FifoOutcome'
  BY DEF FifoOutcome, FifoStage, FifoEnds, FifoBytes
<1>. QED  BY <1>1, <1>2, <1>3, <1>4, <1>5 DEF FifoInvariant

(* open fails (lines 101-105). *)
LEMMA FifoOpenFailsPreserves ==
  ASSUME FifoInvariant, Fifo!OpenFails
  PROVE  FifoInvariant'
<1>. USE DEF FifoInvariant, Fifo!OpenFails, Fifo!Goes, Fifo!Fails, Fifo!Fault
<1>1. Fifo!TypeOK'
  <2>1. /\ main' \in {"mkdtemp", "mkfifo", "lstat", "open", "fork", "wait",
                     "poll", "cleanup", "reap", "remove", "exited"}
        /\ child' \in {"close", "open", "write", "exit", "none", "zombie",
                      "vanished", "gone"}
        /\ status' \in {"none", "0", "120", "121", "signal"}
        /\ waitError' \in {"none", "ECHILD", "other"}
        /\ result' \in {"EXIT_SUCCESS", "EXIT_FAILURE"}
        /\ readers' \in SUBSET {"parent", "child"}
        /\ writers' \in SUBSET {"child"}
    OBVIOUS
  <2>2. /\ directory' \in BOOLEAN /\ fifo' \in BOOLEAN
        /\ child_reaped' \in BOOLEAN
        /\ ignored' \in BOOLEAN /\ givenUp' \in BOOLEAN
    OBVIOUS
  <2>3. /\ pipe' \in 0 .. MESSAGE /\ got' \in 0 .. MESSAGE
        /\ faults' \in Nat
    BY DEF FifoBytes
  <2>. QED  BY <2>1, <2>2, <2>3
<1>2. FifoEnds'
  BY DEF FifoEnds, FifoStage, FifoOutcome
<1>3. FifoStage'
  BY DEF FifoStage, FifoEnds, FifoOutcome
<1>4. FifoBytes'
  BY DEF FifoBytes, FifoStage, FifoEnds
<1>5. FifoOutcome'
  BY DEF FifoOutcome, FifoStage, FifoEnds, FifoBytes
<1>. QED  BY <1>1, <1>2, <1>3, <1>4, <1>5 DEF FifoInvariant

(* fork (lines 106-110). *)
LEMMA FifoForkPreserves ==
  ASSUME FifoInvariant, Fifo!Fork
  PROVE  FifoInvariant'
<1>. USE DEF FifoInvariant, Fifo!Fork, Fifo!Goes, Fifo!Fails, Fifo!Fault
<1>1. Fifo!TypeOK'
  <2>1. /\ main' \in {"mkdtemp", "mkfifo", "lstat", "open", "fork", "wait",
                     "poll", "cleanup", "reap", "remove", "exited"}
        /\ child' \in {"close", "open", "write", "exit", "none", "zombie",
                      "vanished", "gone"}
        /\ status' \in {"none", "0", "120", "121", "signal"}
        /\ waitError' \in {"none", "ECHILD", "other"}
        /\ result' \in {"EXIT_SUCCESS", "EXIT_FAILURE"}
        /\ readers' \in SUBSET {"parent", "child"}
        /\ writers' \in SUBSET {"child"}
    OBVIOUS
  <2>2. /\ directory' \in BOOLEAN /\ fifo' \in BOOLEAN
        /\ child_reaped' \in BOOLEAN
        /\ ignored' \in BOOLEAN /\ givenUp' \in BOOLEAN
    OBVIOUS
  <2>3. /\ pipe' \in 0 .. MESSAGE /\ got' \in 0 .. MESSAGE
        /\ faults' \in Nat
    BY DEF FifoBytes
  <2>. QED  BY <2>1, <2>2, <2>3
<1>2. FifoEnds'
  BY DEF FifoEnds, FifoStage, FifoOutcome
<1>3. FifoStage'
  BY DEF FifoStage, FifoEnds, FifoOutcome
<1>4. FifoBytes'
  BY DEF FifoBytes, FifoStage, FifoEnds
<1>5. FifoOutcome'
  BY DEF FifoOutcome, FifoStage, FifoEnds, FifoBytes
<1>. QED  BY <1>1, <1>2, <1>3, <1>4, <1>5 DEF FifoInvariant

(* wait_for_child and the test of the status (lines 125-141). *)
LEMMA FifoWaitPreserves ==
  ASSUME FifoInvariant, Fifo!Wait
  PROVE  FifoInvariant'
<1>. USE DEF FifoInvariant, Fifo!Wait, Fifo!Goes, Fifo!Fails, Fifo!Fault
<1>1. Fifo!TypeOK'
  <2>1. /\ main' \in {"mkdtemp", "mkfifo", "lstat", "open", "fork", "wait",
                     "poll", "cleanup", "reap", "remove", "exited"}
        /\ child' \in {"close", "open", "write", "exit", "none", "zombie",
                      "vanished", "gone"}
        /\ status' \in {"none", "0", "120", "121", "signal"}
        /\ waitError' \in {"none", "ECHILD", "other"}
        /\ result' \in {"EXIT_SUCCESS", "EXIT_FAILURE"}
        /\ readers' \in SUBSET {"parent", "child"}
        /\ writers' \in SUBSET {"child"}
    OBVIOUS
  <2>2. /\ directory' \in BOOLEAN /\ fifo' \in BOOLEAN
        /\ child_reaped' \in BOOLEAN
        /\ ignored' \in BOOLEAN /\ givenUp' \in BOOLEAN
    OBVIOUS
  <2>3. /\ pipe' \in 0 .. MESSAGE /\ got' \in 0 .. MESSAGE
        /\ faults' \in Nat
    BY DEF FifoBytes
  <2>. QED  BY <2>1, <2>2, <2>3
<1>2. FifoEnds'
  BY DEF FifoEnds, FifoStage, FifoOutcome
<1>3. FifoStage'
  BY DEF FifoStage, FifoEnds, FifoOutcome
<1>4. FifoBytes'
  BY DEF FifoBytes, FifoStage, FifoEnds
<1>5. FifoOutcome'
  BY DEF FifoOutcome, FifoStage, FifoEnds, FifoBytes
<1>. QED  BY <1>1, <1>2, <1>3, <1>4, <1>5 DEF FifoInvariant

(* The wait fails (lines 16-22). *)
LEMMA FifoWaitFailsPreserves ==
  ASSUME FifoInvariant, Fifo!WaitFails
  PROVE  FifoInvariant'
<1>. USE DEF FifoInvariant, Fifo!WaitFails, Fifo!Goes, Fifo!Fails, Fifo!Fault
<1>1. Fifo!TypeOK'
  <2>1. /\ main' \in {"mkdtemp", "mkfifo", "lstat", "open", "fork", "wait",
                     "poll", "cleanup", "reap", "remove", "exited"}
        /\ child' \in {"close", "open", "write", "exit", "none", "zombie",
                      "vanished", "gone"}
        /\ status' \in {"none", "0", "120", "121", "signal"}
        /\ waitError' \in {"none", "ECHILD", "other"}
        /\ result' \in {"EXIT_SUCCESS", "EXIT_FAILURE"}
        /\ readers' \in SUBSET {"parent", "child"}
        /\ writers' \in SUBSET {"child"}
    OBVIOUS
  <2>2. /\ directory' \in BOOLEAN /\ fifo' \in BOOLEAN
        /\ child_reaped' \in BOOLEAN
        /\ ignored' \in BOOLEAN /\ givenUp' \in BOOLEAN
    OBVIOUS
  <2>3. /\ pipe' \in 0 .. MESSAGE /\ got' \in 0 .. MESSAGE
        /\ faults' \in Nat
    BY DEF FifoBytes
  <2>. QED  BY <2>1, <2>2, <2>3
<1>2. FifoEnds'
  BY DEF FifoEnds, FifoStage, FifoOutcome
<1>3. FifoStage'
  BY DEF FifoStage, FifoEnds, FifoOutcome
<1>4. FifoBytes'
  BY DEF FifoBytes, FifoStage, FifoEnds
<1>5. FifoOutcome'
  BY DEF FifoOutcome, FifoStage, FifoEnds, FifoBytes
<1>. QED  BY <1>1, <1>2, <1>3, <1>4, <1>5 DEF FifoInvariant

(* poll and read, or the comparison (lines 24-60). *)
LEMMA FifoReceivePreserves ==
  ASSUME FifoInvariant, Fifo!Receive
  PROVE  FifoInvariant'
<1>. USE DEF FifoInvariant, Fifo!Receive
<1>1. Fifo!TypeOK'
  <2>1. /\ main' \in {"mkdtemp", "mkfifo", "lstat", "open", "fork", "wait",
                     "poll", "cleanup", "reap", "remove", "exited"}
        /\ child' \in {"close", "open", "write", "exit", "none", "zombie",
                      "vanished", "gone"}
        /\ status' \in {"none", "0", "120", "121", "signal"}
        /\ waitError' \in {"none", "ECHILD", "other"}
        /\ result' \in {"EXIT_SUCCESS", "EXIT_FAILURE"}
        /\ readers' \in SUBSET {"parent", "child"}
        /\ writers' \in SUBSET {"child"}
    OBVIOUS
  <2>2. /\ directory' \in BOOLEAN /\ fifo' \in BOOLEAN
        /\ child_reaped' \in BOOLEAN
        /\ ignored' \in BOOLEAN /\ givenUp' \in BOOLEAN
    OBVIOUS
  <2>3. /\ pipe' \in 0 .. MESSAGE /\ got' \in 0 .. MESSAGE
        /\ faults' \in Nat
    BY DEF FifoBytes
  <2>. QED  BY <2>1, <2>2, <2>3
<1>2. FifoEnds'
  BY DEF FifoEnds, FifoStage, FifoOutcome
<1>3. FifoStage'
  BY DEF FifoStage, FifoEnds, FifoOutcome
<1>4. FifoBytes'
  BY DEF FifoBytes, FifoStage, FifoEnds
<1>5. FifoOutcome'
  BY DEF FifoOutcome, FifoStage, FifoEnds, FifoBytes
<1>. QED  BY <1>1, <1>2, <1>3, <1>4, <1>5 DEF FifoInvariant

(* poll or read fails (lines 29-46). *)
LEMMA FifoReceiveFailsPreserves ==
  ASSUME FifoInvariant, Fifo!ReceiveFails
  PROVE  FifoInvariant'
<1>. USE DEF FifoInvariant, Fifo!ReceiveFails, Fifo!Goes, Fifo!Fails,
             Fifo!Fault
<1>1. Fifo!TypeOK'
  <2>1. /\ main' \in {"mkdtemp", "mkfifo", "lstat", "open", "fork", "wait",
                     "poll", "cleanup", "reap", "remove", "exited"}
        /\ child' \in {"close", "open", "write", "exit", "none", "zombie",
                      "vanished", "gone"}
        /\ status' \in {"none", "0", "120", "121", "signal"}
        /\ waitError' \in {"none", "ECHILD", "other"}
        /\ result' \in {"EXIT_SUCCESS", "EXIT_FAILURE"}
        /\ readers' \in SUBSET {"parent", "child"}
        /\ writers' \in SUBSET {"child"}
    OBVIOUS
  <2>2. /\ directory' \in BOOLEAN /\ fifo' \in BOOLEAN
        /\ child_reaped' \in BOOLEAN
        /\ ignored' \in BOOLEAN /\ givenUp' \in BOOLEAN
    OBVIOUS
  <2>3. /\ pipe' \in 0 .. MESSAGE /\ got' \in 0 .. MESSAGE
        /\ faults' \in Nat
    BY DEF FifoBytes
  <2>. QED  BY <2>1, <2>2, <2>3
<1>2. FifoEnds'
  BY DEF FifoEnds, FifoStage, FifoOutcome
<1>3. FifoStage'
  BY DEF FifoStage, FifoEnds, FifoOutcome
<1>4. FifoBytes'
  BY DEF FifoBytes, FifoStage, FifoEnds
<1>5. FifoOutcome'
  BY DEF FifoOutcome, FifoStage, FifoEnds, FifoBytes
<1>. QED  BY <1>1, <1>2, <1>3, <1>4, <1>5 DEF FifoInvariant

(* SIGTERM (lines 152-157). *)
LEMMA FifoCleanupKillPreserves ==
  ASSUME FifoInvariant, Fifo!CleanupKill
  PROVE  FifoInvariant'
<1>. USE DEF FifoInvariant, Fifo!CleanupKill, Fifo!Goes, Fifo!ChildEnds,
             Fifo!Fault
<1>1. Fifo!TypeOK'
  <2>1. /\ main' \in {"mkdtemp", "mkfifo", "lstat", "open", "fork", "wait",
                     "poll", "cleanup", "reap", "remove", "exited"}
        /\ child' \in {"close", "open", "write", "exit", "none", "zombie",
                      "vanished", "gone"}
        /\ status' \in {"none", "0", "120", "121", "signal"}
        /\ waitError' \in {"none", "ECHILD", "other"}
        /\ result' \in {"EXIT_SUCCESS", "EXIT_FAILURE"}
        /\ readers' \in SUBSET {"parent", "child"}
        /\ writers' \in SUBSET {"child"}
    OBVIOUS
  <2>2. /\ directory' \in BOOLEAN /\ fifo' \in BOOLEAN
        /\ child_reaped' \in BOOLEAN
        /\ ignored' \in BOOLEAN /\ givenUp' \in BOOLEAN
    OBVIOUS
  <2>3. /\ pipe' \in 0 .. MESSAGE /\ got' \in 0 .. MESSAGE
        /\ faults' \in Nat
    BY DEF FifoBytes
  <2>. QED  BY <2>1, <2>2, <2>3
<1>2. FifoEnds'
  BY DEF FifoEnds, FifoStage, FifoOutcome
<1>3. FifoStage'
  BY DEF FifoStage, FifoEnds, FifoOutcome
<1>4. FifoBytes'
  BY DEF FifoBytes, FifoStage, FifoEnds
<1>5. FifoOutcome'
  BY DEF FifoOutcome, FifoStage, FifoEnds, FifoBytes
<1>. QED  BY <1>1, <1>2, <1>3, <1>4, <1>5 DEF FifoInvariant

(* The child is reaped (lines 158-163). *)
LEMMA FifoCleanupReapPreserves ==
  ASSUME FifoInvariant, Fifo!CleanupReap
  PROVE  FifoInvariant'
<1>. USE DEF FifoInvariant, Fifo!CleanupReap, Fifo!Goes
<1>1. Fifo!TypeOK'
  <2>1. /\ main' \in {"mkdtemp", "mkfifo", "lstat", "open", "fork", "wait",
                     "poll", "cleanup", "reap", "remove", "exited"}
        /\ child' \in {"close", "open", "write", "exit", "none", "zombie",
                      "vanished", "gone"}
        /\ status' \in {"none", "0", "120", "121", "signal"}
        /\ waitError' \in {"none", "ECHILD", "other"}
        /\ result' \in {"EXIT_SUCCESS", "EXIT_FAILURE"}
        /\ readers' \in SUBSET {"parent", "child"}
        /\ writers' \in SUBSET {"child"}
    OBVIOUS
  <2>2. /\ directory' \in BOOLEAN /\ fifo' \in BOOLEAN
        /\ child_reaped' \in BOOLEAN
        /\ ignored' \in BOOLEAN /\ givenUp' \in BOOLEAN
    OBVIOUS
  <2>3. /\ pipe' \in 0 .. MESSAGE /\ got' \in 0 .. MESSAGE
        /\ faults' \in Nat
    BY DEF FifoBytes
  <2>. QED  BY <2>1, <2>2, <2>3
<1>2. FifoEnds'
  BY DEF FifoEnds, FifoStage, FifoOutcome
<1>3. FifoStage'
  BY DEF FifoStage, FifoEnds, FifoOutcome
<1>4. FifoBytes'
  BY DEF FifoBytes, FifoStage, FifoEnds
<1>5. FifoOutcome'
  BY DEF FifoOutcome, FifoStage, FifoEnds, FifoBytes
<1>. QED  BY <1>1, <1>2, <1>3, <1>4, <1>5 DEF FifoInvariant

(* waitpid fails in the cleanup (lines 159-162). *)
LEMMA FifoCleanupReapFailsPreserves ==
  ASSUME FifoInvariant, Fifo!CleanupReapFails
  PROVE  FifoInvariant'
<1>. USE DEF FifoInvariant, Fifo!CleanupReapFails, Fifo!Goes, Fifo!Fault
<1>1. Fifo!TypeOK'
  <2>1. /\ main' \in {"mkdtemp", "mkfifo", "lstat", "open", "fork", "wait",
                     "poll", "cleanup", "reap", "remove", "exited"}
        /\ child' \in {"close", "open", "write", "exit", "none", "zombie",
                      "vanished", "gone"}
        /\ status' \in {"none", "0", "120", "121", "signal"}
        /\ waitError' \in {"none", "ECHILD", "other"}
        /\ result' \in {"EXIT_SUCCESS", "EXIT_FAILURE"}
        /\ readers' \in SUBSET {"parent", "child"}
        /\ writers' \in SUBSET {"child"}
    OBVIOUS
  <2>2. /\ directory' \in BOOLEAN /\ fifo' \in BOOLEAN
        /\ child_reaped' \in BOOLEAN
        /\ ignored' \in BOOLEAN /\ givenUp' \in BOOLEAN
    OBVIOUS
  <2>3. /\ pipe' \in 0 .. MESSAGE /\ got' \in 0 .. MESSAGE
        /\ faults' \in Nat
    BY DEF FifoBytes
  <2>. QED  BY <2>1, <2>2, <2>3
<1>2. FifoEnds'
  BY DEF FifoEnds, FifoStage, FifoOutcome
<1>3. FifoStage'
  BY DEF FifoStage, FifoEnds, FifoOutcome
<1>4. FifoBytes'
  BY DEF FifoBytes, FifoStage, FifoEnds
<1>5. FifoOutcome'
  BY DEF FifoOutcome, FifoStage, FifoEnds, FifoBytes
<1>. QED  BY <1>1, <1>2, <1>3, <1>4, <1>5 DEF FifoInvariant

(* There is no child to reap (lines 152-153). *)
LEMMA FifoCleanupNoChildPreserves ==
  ASSUME FifoInvariant, Fifo!CleanupNoChild
  PROVE  FifoInvariant'
<1>. USE DEF FifoInvariant, Fifo!CleanupNoChild, Fifo!Goes
<1>1. Fifo!TypeOK'
  <2>1. /\ main' \in {"mkdtemp", "mkfifo", "lstat", "open", "fork", "wait",
                     "poll", "cleanup", "reap", "remove", "exited"}
        /\ child' \in {"close", "open", "write", "exit", "none", "zombie",
                      "vanished", "gone"}
        /\ status' \in {"none", "0", "120", "121", "signal"}
        /\ waitError' \in {"none", "ECHILD", "other"}
        /\ result' \in {"EXIT_SUCCESS", "EXIT_FAILURE"}
        /\ readers' \in SUBSET {"parent", "child"}
        /\ writers' \in SUBSET {"child"}
    OBVIOUS
  <2>2. /\ directory' \in BOOLEAN /\ fifo' \in BOOLEAN
        /\ child_reaped' \in BOOLEAN
        /\ ignored' \in BOOLEAN /\ givenUp' \in BOOLEAN
    OBVIOUS
  <2>3. /\ pipe' \in 0 .. MESSAGE /\ got' \in 0 .. MESSAGE
        /\ faults' \in Nat
    BY DEF FifoBytes
  <2>. QED  BY <2>1, <2>2, <2>3
<1>2. FifoEnds'
  BY DEF FifoEnds, FifoStage, FifoOutcome
<1>3. FifoStage'
  BY DEF FifoStage, FifoEnds, FifoOutcome
<1>4. FifoBytes'
  BY DEF FifoBytes, FifoStage, FifoEnds
<1>5. FifoOutcome'
  BY DEF FifoOutcome, FifoStage, FifoEnds, FifoBytes
<1>. QED  BY <1>1, <1>2, <1>3, <1>4, <1>5 DEF FifoInvariant

(* close, unlink, rmdir (lines 164-175). *)
LEMMA FifoCleanupRemovePreserves ==
  ASSUME FifoInvariant, Fifo!CleanupRemove
  PROVE  FifoInvariant'
<1>. USE DEF FifoInvariant, Fifo!CleanupRemove, Fifo!Goes, Fifo!Fault
<1>1. Fifo!TypeOK'
  <2>1. /\ main' \in {"mkdtemp", "mkfifo", "lstat", "open", "fork", "wait",
                     "poll", "cleanup", "reap", "remove", "exited"}
        /\ child' \in {"close", "open", "write", "exit", "none", "zombie",
                      "vanished", "gone"}
        /\ status' \in {"none", "0", "120", "121", "signal"}
        /\ waitError' \in {"none", "ECHILD", "other"}
        /\ result' \in {"EXIT_SUCCESS", "EXIT_FAILURE"}
        /\ readers' \in SUBSET {"parent", "child"}
        /\ writers' \in SUBSET {"child"}
    OBVIOUS
  <2>4. directory' \in BOOLEAN
    <3>1. directory' = directory \/ directory' = FALSE
      OBVIOUS
    <3>. QED  BY <3>1
  <2>5. fifo' \in BOOLEAN
    <3>1. fifo' = fifo \/ fifo' = FALSE
      OBVIOUS
    <3>. QED  BY <3>1
  <2>2. /\ child_reaped' \in BOOLEAN
        /\ ignored' \in BOOLEAN /\ givenUp' \in BOOLEAN
    OBVIOUS
  <2>3. /\ pipe' \in 0 .. MESSAGE /\ got' \in 0 .. MESSAGE
        /\ faults' \in Nat
    <3>1. pipe' = 0 /\ got' = got /\ faults' \in {faults, faults + 1}
      OBVIOUS
    <3>. QED  BY <3>1
  <2>. QED  BY <2>1, <2>2, <2>3, <2>4, <2>5
<1>2. FifoEnds'
  <2>1. main' = "exited" /\ readers' = {} /\ writers' = writers
    OBVIOUS
  <2>2. fifo' => directory'
    OBVIOUS
  <2>3. directory' => result' = "EXIT_FAILURE" /\ faults' > 0
    OBVIOUS
  <2>4. child' = child
    OBVIOUS
  <2>. QED  BY <2>1, <2>2, <2>3, <2>4 DEF FifoEnds
<1>3. FifoStage'
  BY DEF FifoStage, FifoEnds, FifoOutcome
<1>4. FifoBytes'
  BY DEF FifoBytes, FifoStage, FifoEnds
<1>5. FifoOutcome'
  <2>1. /\ main = "remove" /\ main' = "exited" /\ child' = child
        /\ status' = status /\ got' = got
    OBVIOUS
  <2>2. \/ result' = result /\ faults' = faults
        \/ result' = "EXIT_FAILURE" /\ faults' = faults + 1
    OBVIOUS
  <2>. QED  BY <2>1, <2>2 DEF FifoOutcome
<1>. QED  BY <1>1, <1>2, <1>3, <1>4, <1>5 DEF FifoInvariant

(* The child closes the reading end (lines 111-112). *)
LEMMA FifoChildClosesPreserves ==
  ASSUME FifoInvariant, Fifo!ChildCloses
  PROVE  FifoInvariant'
<1>. USE DEF FifoInvariant, Fifo!ChildCloses
<1>1. Fifo!TypeOK'
  <2>1. /\ main' \in {"mkdtemp", "mkfifo", "lstat", "open", "fork", "wait",
                     "poll", "cleanup", "reap", "remove", "exited"}
        /\ child' \in {"close", "open", "write", "exit", "none", "zombie",
                      "vanished", "gone"}
        /\ status' \in {"none", "0", "120", "121", "signal"}
        /\ waitError' \in {"none", "ECHILD", "other"}
        /\ result' \in {"EXIT_SUCCESS", "EXIT_FAILURE"}
        /\ readers' \in SUBSET {"parent", "child"}
        /\ writers' \in SUBSET {"child"}
    OBVIOUS
  <2>2. /\ directory' \in BOOLEAN /\ fifo' \in BOOLEAN
        /\ child_reaped' \in BOOLEAN
        /\ ignored' \in BOOLEAN /\ givenUp' \in BOOLEAN
    OBVIOUS
  <2>3. /\ pipe' \in 0 .. MESSAGE /\ got' \in 0 .. MESSAGE
        /\ faults' \in Nat
    BY DEF FifoBytes
  <2>. QED  BY <2>1, <2>2, <2>3
<1>2. FifoEnds'
  BY DEF FifoEnds, FifoStage, FifoOutcome
<1>3. FifoStage'
  BY DEF FifoStage, FifoEnds, FifoOutcome
<1>4. FifoBytes'
  BY DEF FifoBytes, FifoStage, FifoEnds
<1>5. FifoOutcome'
  BY DEF FifoOutcome, FifoStage, FifoEnds, FifoBytes
<1>. QED  BY <1>1, <1>2, <1>3, <1>4, <1>5 DEF FifoInvariant

(* The child opens the writing end (lines 113-116). *)
LEMMA FifoChildOpensPreserves ==
  ASSUME FifoInvariant, Fifo!ChildOpens
  PROVE  FifoInvariant'
<1>. USE DEF FifoInvariant, Fifo!ChildOpens, Fifo!ChildEnds, Fifo!Fault
<1>1. Fifo!TypeOK'
  <2>1. /\ main' \in {"mkdtemp", "mkfifo", "lstat", "open", "fork", "wait",
                     "poll", "cleanup", "reap", "remove", "exited"}
        /\ child' \in {"close", "open", "write", "exit", "none", "zombie",
                      "vanished", "gone"}
        /\ status' \in {"none", "0", "120", "121", "signal"}
        /\ waitError' \in {"none", "ECHILD", "other"}
        /\ result' \in {"EXIT_SUCCESS", "EXIT_FAILURE"}
        /\ readers' \in SUBSET {"parent", "child"}
        /\ writers' \in SUBSET {"child"}
    OBVIOUS
  <2>2. /\ directory' \in BOOLEAN /\ fifo' \in BOOLEAN
        /\ child_reaped' \in BOOLEAN
        /\ ignored' \in BOOLEAN /\ givenUp' \in BOOLEAN
    OBVIOUS
  <2>3. /\ pipe' \in 0 .. MESSAGE /\ got' \in 0 .. MESSAGE
        /\ faults' \in Nat
    BY DEF FifoBytes
  <2>. QED  BY <2>1, <2>2, <2>3
<1>2. FifoEnds'
  BY DEF FifoEnds, FifoStage, FifoOutcome
<1>3. FifoStage'
  BY DEF FifoStage, FifoEnds, FifoOutcome
<1>4. FifoBytes'
  BY DEF FifoBytes, FifoStage, FifoEnds
<1>5. FifoOutcome'
  BY DEF FifoOutcome, FifoStage, FifoEnds, FifoBytes
<1>. QED  BY <1>1, <1>2, <1>3, <1>4, <1>5 DEF FifoInvariant

(* The one write (lines 117-121). *)
LEMMA FifoChildWritesPreserves ==
  ASSUME FifoInvariant, Fifo!ChildWrites
  PROVE  FifoInvariant'
<1>. USE DEF FifoInvariant, Fifo!ChildWrites, Fifo!ChildEnds, Fifo!Fault
<1>1. Fifo!TypeOK'
  <2>1. /\ main' \in {"mkdtemp", "mkfifo", "lstat", "open", "fork", "wait",
                     "poll", "cleanup", "reap", "remove", "exited"}
        /\ child' \in {"close", "open", "write", "exit", "none", "zombie",
                      "vanished", "gone"}
        /\ status' \in {"none", "0", "120", "121", "signal"}
        /\ waitError' \in {"none", "ECHILD", "other"}
        /\ result' \in {"EXIT_SUCCESS", "EXIT_FAILURE"}
        /\ readers' \in SUBSET {"parent", "child"}
        /\ writers' \in SUBSET {"child"}
    OBVIOUS
  <2>2. /\ directory' \in BOOLEAN /\ fifo' \in BOOLEAN
        /\ child_reaped' \in BOOLEAN
        /\ ignored' \in BOOLEAN /\ givenUp' \in BOOLEAN
    OBVIOUS
  <2>3. /\ pipe' \in 0 .. MESSAGE /\ got' \in 0 .. MESSAGE
        /\ faults' \in Nat
    BY DEF FifoBytes
  <2>. QED  BY <2>1, <2>2, <2>3
<1>2. FifoEnds'
  BY DEF FifoEnds, FifoStage, FifoOutcome
<1>3. FifoStage'
  BY DEF FifoStage, FifoEnds, FifoOutcome
<1>4. FifoBytes'
  BY DEF FifoBytes, FifoStage, FifoEnds
<1>5. FifoOutcome'
  BY DEF FifoOutcome, FifoStage, FifoEnds, FifoBytes
<1>. QED  BY <1>1, <1>2, <1>3, <1>4, <1>5 DEF FifoInvariant

(* The child ends (lines 121-124). *)
LEMMA FifoChildExitsPreserves ==
  ASSUME FifoInvariant, Fifo!ChildExits
  PROVE  FifoInvariant'
<1>. USE DEF FifoInvariant, Fifo!ChildExits, Fifo!ChildEnds, Fifo!Fault
<1>1. Fifo!TypeOK'
  <2>1. /\ main' \in {"mkdtemp", "mkfifo", "lstat", "open", "fork", "wait",
                     "poll", "cleanup", "reap", "remove", "exited"}
        /\ child' \in {"close", "open", "write", "exit", "none", "zombie",
                      "vanished", "gone"}
        /\ status' \in {"none", "0", "120", "121", "signal"}
        /\ waitError' \in {"none", "ECHILD", "other"}
        /\ result' \in {"EXIT_SUCCESS", "EXIT_FAILURE"}
        /\ readers' \in SUBSET {"parent", "child"}
        /\ writers' \in SUBSET {"child"}
    OBVIOUS
  <2>2. /\ directory' \in BOOLEAN /\ fifo' \in BOOLEAN
        /\ child_reaped' \in BOOLEAN
        /\ ignored' \in BOOLEAN /\ givenUp' \in BOOLEAN
    OBVIOUS
  <2>3. /\ pipe' \in 0 .. MESSAGE /\ got' \in 0 .. MESSAGE
        /\ faults' \in Nat
    BY DEF FifoBytes
  <2>. QED  BY <2>1, <2>2, <2>3
<1>2. FifoEnds'
  BY DEF FifoEnds, FifoStage, FifoOutcome
<1>3. FifoStage'
  BY DEF FifoStage, FifoEnds, FifoOutcome
<1>4. FifoBytes'
  BY DEF FifoBytes, FifoStage, FifoEnds
<1>5. FifoOutcome'
  BY DEF FifoOutcome, FifoStage, FifoEnds, FifoBytes
<1>. QED  BY <1>1, <1>2, <1>3, <1>4, <1>5 DEF FifoInvariant

(* The invariant holds before anything is done. *)
LEMMA FifoInit ==
  ASSUME Fifo!Init
  PROVE  FifoInvariant
<1>. USE DEF Fifo!Init
<1>1. Fifo!TypeOK
  <2>1. /\ main \in {"mkdtemp", "mkfifo", "lstat", "open", "fork", "wait",
                     "poll", "cleanup", "reap", "remove", "exited"}
        /\ child \in {"close", "open", "write", "exit", "none", "zombie",
                      "vanished", "gone"}
        /\ status \in {"none", "0", "120", "121", "signal"}
        /\ waitError \in {"none", "ECHILD", "other"}
        /\ result \in {"EXIT_SUCCESS", "EXIT_FAILURE"}
        /\ readers \in SUBSET {"parent", "child"}
        /\ writers \in SUBSET {"child"}
    OBVIOUS
  <2>2. /\ directory \in BOOLEAN /\ fifo \in BOOLEAN
        /\ child_reaped \in BOOLEAN
        /\ ignored \in BOOLEAN /\ givenUp \in BOOLEAN
    OBVIOUS
  <2>3. /\ pipe \in 0 .. MESSAGE /\ got \in 0 .. MESSAGE
        /\ faults \in Nat
    BY DEF FifoBytes
  <2>. QED  BY <2>1, <2>2, <2>3
<1>2. FifoEnds
  BY DEF FifoEnds
<1>3. FifoStage
  BY DEF FifoStage
<1>4. FifoBytes
  BY DEF FifoBytes
<1>5. FifoOutcome
  BY DEF FifoOutcome
<1>. QED  BY <1>1, <1>2, <1>3, <1>4, <1>5 DEF FifoInvariant

(* Every step keeps it. *)
LEMMA FifoStep ==
  ASSUME FifoInvariant, Fifo!Next
  PROVE  FifoInvariant'
<1>1. CASE Fifo!MainStep
  BY <1>1, FifoMakeDirectoryPreserves, FifoMakeFifoPreserves,
     FifoVerifyFifoPreserves, FifoOpenReaderPreserves, FifoForkPreserves,
     FifoWaitPreserves, FifoReceivePreserves, FifoCleanupKillPreserves,
     FifoCleanupReapPreserves, FifoCleanupNoChildPreserves,
     FifoCleanupRemovePreserves
     DEF Fifo!MainStep
<1>2. CASE Fifo!ChildStep
  BY <1>2, FifoChildClosesPreserves, FifoChildOpensPreserves,
     FifoChildWritesPreserves, FifoChildExitsPreserves
     DEF Fifo!ChildStep
<1>3. CASE \/ Fifo!OpenFails \/ Fifo!WaitFails \/ Fifo!ReceiveFails
           \/ Fifo!CleanupReapFails
  BY <1>3, FifoOpenFailsPreserves, FifoWaitFailsPreserves,
     FifoReceiveFailsPreserves, FifoCleanupReapFailsPreserves
<1>4. CASE Fifo!Exited
  BY <1>4 DEF Fifo!Exited, Fifo!vars, FifoInvariant, FifoEnds, FifoStage,
             FifoBytes, FifoOutcome
<1>. QED  BY <1>1, <1>2, <1>3, <1>4 DEF Fifo!Next

(* SharedMemory: likewise. *)
USE DEF Shared!TypeOK, Shared!Alive, Shared!kid

(* shm_open, ..., sem_init (lines 45-76). *)
LEMMA SharedPreparePreserves ==
  ASSUME SharedInvariant, Shared!Prepare
  PROVE  SharedInvariant'
<1>. USE DEF SharedInvariant, Shared!Prepare, Shared!SetUp, Shared!Goes,
             Shared!Fault
<1>1. Shared!TypeOK'
  <2>1. /\ main' \in {"shm_open", "ftruncate", "mmap", "shm_unlink",
                     "sem_init", "fork", "sem_post", "wait", "kill", "reap",
                     "verify", "release", "exited"}
        /\ child' \in {"sem_wait", "compute", "exit", "none", "zombie",
                      "vanished", "gone"}
        /\ status' \in {"none", "0", "2", "signal"}
        /\ result' \in {"EXIT_SUCCESS", "EXIT_FAILURE"}
        /\ held' \in SUBSET {"name", "descriptor", "mapping", "semaphore"}
    OBVIOUS
  <2>2. /\ doubled' \in BOOLEAN
        /\ ignored' \in BOOLEAN /\ givenUp' \in BOOLEAN
    OBVIOUS
  <2>3. semaphore' \in 0 .. 1 /\ faults' \in Nat
    BY DEF SharedValue
  <2>. QED  BY <2>1, <2>2, <2>3
<1>2. SharedHeld'
  BY DEF SharedHeld
<1>3. SharedStage'
  BY DEF SharedStage
<1>4. SharedValue'
  BY DEF SharedValue
<1>5. SharedOutcome'
  BY DEF SharedOutcome
<1>. QED  BY <1>1, <1>2, <1>3, <1>4, <1>5 DEF SharedInvariant

(* fork (lines 80-86). *)
LEMMA SharedForkPreserves ==
  ASSUME SharedInvariant, Shared!Fork
  PROVE  SharedInvariant'
<1>. USE DEF SharedInvariant, Shared!Fork, Shared!Goes, Shared!Fault
<1>1. Shared!TypeOK'
  <2>1. /\ main' \in {"shm_open", "ftruncate", "mmap", "shm_unlink",
                     "sem_init", "fork", "sem_post", "wait", "kill", "reap",
                     "verify", "release", "exited"}
        /\ child' \in {"sem_wait", "compute", "exit", "none", "zombie",
                      "vanished", "gone"}
        /\ status' \in {"none", "0", "2", "signal"}
        /\ result' \in {"EXIT_SUCCESS", "EXIT_FAILURE"}
        /\ held' \in SUBSET {"name", "descriptor", "mapping", "semaphore"}
    OBVIOUS
  <2>2. /\ doubled' \in BOOLEAN
        /\ ignored' \in BOOLEAN /\ givenUp' \in BOOLEAN
    OBVIOUS
  <2>3. semaphore' \in 0 .. 1 /\ faults' \in Nat
    BY DEF SharedValue
  <2>. QED  BY <2>1, <2>2, <2>3
<1>2. SharedHeld'
  BY DEF SharedHeld
<1>3. SharedStage'
  BY DEF SharedStage
<1>4. SharedValue'
  BY DEF SharedValue, SharedStage
<1>5. SharedOutcome'
  BY DEF SharedOutcome
<1>. QED  BY <1>1, <1>2, <1>3, <1>4, <1>5 DEF SharedInvariant

(* sem_post (lines 96-104). *)
LEMMA SharedPostPreserves ==
  ASSUME SharedInvariant, Shared!Post
  PROVE  SharedInvariant'
<1>. USE DEF SharedInvariant, Shared!Post, Shared!Goes, Shared!Fault
<1>1. Shared!TypeOK'
  <2>1. /\ main' \in {"shm_open", "ftruncate", "mmap", "shm_unlink",
                     "sem_init", "fork", "sem_post", "wait", "kill", "reap",
                     "verify", "release", "exited"}
        /\ child' \in {"sem_wait", "compute", "exit", "none", "zombie",
                      "vanished", "gone"}
        /\ status' \in {"none", "0", "2", "signal"}
        /\ result' \in {"EXIT_SUCCESS", "EXIT_FAILURE"}
        /\ held' \in SUBSET {"name", "descriptor", "mapping", "semaphore"}
    OBVIOUS
  <2>2. /\ doubled' \in BOOLEAN
        /\ ignored' \in BOOLEAN /\ givenUp' \in BOOLEAN
    OBVIOUS
  <2>3. semaphore' \in 0 .. 1 /\ faults' \in Nat
    BY DEF SharedValue
  <2>. QED  BY <2>1, <2>2, <2>3
<1>2. SharedHeld'
  BY DEF SharedHeld
<1>3. SharedStage'
  BY DEF SharedStage
<1>4. SharedValue'
  BY DEF SharedValue, SharedStage
<1>5. SharedOutcome'
  BY DEF SharedOutcome
<1>. QED  BY <1>1, <1>2, <1>3, <1>4, <1>5 DEF SharedInvariant

(* waitpid (lines 106-119). *)
LEMMA SharedWaitPreserves ==
  ASSUME SharedInvariant, Shared!Wait
  PROVE  SharedInvariant'
<1>. USE DEF SharedInvariant, Shared!Wait, Shared!Goes, Shared!Fault
<1>1. Shared!TypeOK'
  <2>1. /\ main' \in {"shm_open", "ftruncate", "mmap", "shm_unlink",
                     "sem_init", "fork", "sem_post", "wait", "kill", "reap",
                     "verify", "release", "exited"}
        /\ child' \in {"sem_wait", "compute", "exit", "none", "zombie",
                      "vanished", "gone"}
        /\ status' \in {"none", "0", "2", "signal"}
        /\ result' \in {"EXIT_SUCCESS", "EXIT_FAILURE"}
        /\ held' \in SUBSET {"name", "descriptor", "mapping", "semaphore"}
    OBVIOUS
  <2>2. /\ doubled' \in BOOLEAN
        /\ ignored' \in BOOLEAN /\ givenUp' \in BOOLEAN
    OBVIOUS
  <2>3. semaphore' \in 0 .. 1 /\ faults' \in Nat
    BY DEF SharedValue
  <2>. QED  BY <2>1, <2>2, <2>3
<1>2. SharedHeld'
  BY DEF SharedHeld
<1>3. SharedStage'
  BY DEF SharedStage
<1>4. SharedValue'
  BY DEF SharedValue, SharedStage
<1>5. SharedOutcome'
  BY DEF SharedOutcome, SharedStage
<1>. QED  BY <1>1, <1>2, <1>3, <1>4, <1>5 DEF SharedInvariant

(* waitpid fails (lines 111-119). *)
LEMMA SharedWaitFailsPreserves ==
  ASSUME SharedInvariant, Shared!WaitFails
  PROVE  SharedInvariant'
<1>. USE DEF SharedInvariant, Shared!WaitFails, Shared!Goes, Shared!Fault
<1>1. Shared!TypeOK'
  <2>1. /\ main' \in {"shm_open", "ftruncate", "mmap", "shm_unlink",
                     "sem_init", "fork", "sem_post", "wait", "kill", "reap",
                     "verify", "release", "exited"}
        /\ child' \in {"sem_wait", "compute", "exit", "none", "zombie",
                      "vanished", "gone"}
        /\ status' \in {"none", "0", "2", "signal"}
        /\ result' \in {"EXIT_SUCCESS", "EXIT_FAILURE"}
        /\ held' \in SUBSET {"name", "descriptor", "mapping", "semaphore"}
    OBVIOUS
  <2>2. /\ doubled' \in BOOLEAN
        /\ ignored' \in BOOLEAN /\ givenUp' \in BOOLEAN
    OBVIOUS
  <2>3. semaphore' \in 0 .. 1 /\ faults' \in Nat
    BY DEF SharedValue
  <2>. QED  BY <2>1, <2>2, <2>3
<1>2. SharedHeld'
  BY DEF SharedHeld
<1>3. SharedStage'
  BY DEF SharedStage
<1>4. SharedValue'
  BY DEF SharedValue
<1>5. SharedOutcome'
  BY DEF SharedOutcome, SharedStage
<1>. QED  BY <1>1, <1>2, <1>3, <1>4, <1>5 DEF SharedInvariant

(* terminate_and_reap kills (lines 29-32). *)
LEMMA SharedKillPreserves ==
  ASSUME SharedInvariant, Shared!Kill
  PROVE  SharedInvariant'
<1>. USE DEF SharedInvariant, Shared!Kill, Shared!Goes, Shared!ChildEnds
<1>1. Shared!TypeOK'
  <2>1. /\ main' \in {"shm_open", "ftruncate", "mmap", "shm_unlink",
                     "sem_init", "fork", "sem_post", "wait", "kill", "reap",
                     "verify", "release", "exited"}
        /\ child' \in {"sem_wait", "compute", "exit", "none", "zombie",
                      "vanished", "gone"}
        /\ status' \in {"none", "0", "2", "signal"}
        /\ result' \in {"EXIT_SUCCESS", "EXIT_FAILURE"}
        /\ held' \in SUBSET {"name", "descriptor", "mapping", "semaphore"}
    OBVIOUS
  <2>2. /\ doubled' \in BOOLEAN
        /\ ignored' \in BOOLEAN /\ givenUp' \in BOOLEAN
    OBVIOUS
  <2>3. semaphore' \in 0 .. 1 /\ faults' \in Nat
    BY DEF SharedValue
  <2>. QED  BY <2>1, <2>2, <2>3
<1>2. SharedHeld'
  BY DEF SharedHeld
<1>3. SharedStage'
  BY DEF SharedStage
<1>4. SharedValue'
  BY DEF SharedValue, SharedStage
<1>5. SharedOutcome'
  BY DEF SharedOutcome, SharedStage
<1>. QED  BY <1>1, <1>2, <1>3, <1>4, <1>5 DEF SharedInvariant

(* ... and reaps (lines 33-35). *)
LEMMA SharedReapPreserves ==
  ASSUME SharedInvariant, Shared!Reap
  PROVE  SharedInvariant'
<1>. USE DEF SharedInvariant, Shared!Reap, Shared!Goes
<1>1. Shared!TypeOK'
  <2>1. /\ main' \in {"shm_open", "ftruncate", "mmap", "shm_unlink",
                     "sem_init", "fork", "sem_post", "wait", "kill", "reap",
                     "verify", "release", "exited"}
        /\ child' \in {"sem_wait", "compute", "exit", "none", "zombie",
                      "vanished", "gone"}
        /\ status' \in {"none", "0", "2", "signal"}
        /\ result' \in {"EXIT_SUCCESS", "EXIT_FAILURE"}
        /\ held' \in SUBSET {"name", "descriptor", "mapping", "semaphore"}
    OBVIOUS
  <2>2. /\ doubled' \in BOOLEAN
        /\ ignored' \in BOOLEAN /\ givenUp' \in BOOLEAN
    OBVIOUS
  <2>3. semaphore' \in 0 .. 1 /\ faults' \in Nat
    BY DEF SharedValue
  <2>. QED  BY <2>1, <2>2, <2>3
<1>2. SharedHeld'
  BY DEF SharedHeld
<1>3. SharedStage'
  BY DEF SharedStage
<1>4. SharedValue'
  BY DEF SharedValue, SharedStage
<1>5. SharedOutcome'
  BY DEF SharedOutcome, SharedStage
<1>. QED  BY <1>1, <1>2, <1>3, <1>4, <1>5 DEF SharedInvariant

(* ... and waitpid fails (lines 33-35). *)
LEMMA SharedReapFailsPreserves ==
  ASSUME SharedInvariant, Shared!ReapFails
  PROVE  SharedInvariant'
<1>. USE DEF SharedInvariant, Shared!ReapFails, Shared!Goes, Shared!Fault
<1>1. Shared!TypeOK'
  <2>1. /\ main' \in {"shm_open", "ftruncate", "mmap", "shm_unlink",
                     "sem_init", "fork", "sem_post", "wait", "kill", "reap",
                     "verify", "release", "exited"}
        /\ child' \in {"sem_wait", "compute", "exit", "none", "zombie",
                      "vanished", "gone"}
        /\ status' \in {"none", "0", "2", "signal"}
        /\ result' \in {"EXIT_SUCCESS", "EXIT_FAILURE"}
        /\ held' \in SUBSET {"name", "descriptor", "mapping", "semaphore"}
    OBVIOUS
  <2>2. /\ doubled' \in BOOLEAN
        /\ ignored' \in BOOLEAN /\ givenUp' \in BOOLEAN
    OBVIOUS
  <2>3. semaphore' \in 0 .. 1 /\ faults' \in Nat
    BY DEF SharedValue
  <2>. QED  BY <2>1, <2>2, <2>3
<1>2. SharedHeld'
  BY DEF SharedHeld
<1>3. SharedStage'
  BY DEF SharedStage
<1>4. SharedValue'
  BY DEF SharedValue, SharedStage
<1>5. SharedOutcome'
  BY DEF SharedOutcome, SharedStage
<1>. QED  BY <1>1, <1>2, <1>3, <1>4, <1>5 DEF SharedInvariant

(* The output is verified (lines 121-126). *)
LEMMA SharedVerifyPreserves ==
  ASSUME SharedInvariant, Shared!Verify
  PROVE  SharedInvariant'
<1>. USE DEF SharedInvariant, Shared!Verify, Shared!Goes
<1>1. Shared!TypeOK'
  <2>1. /\ main' \in {"shm_open", "ftruncate", "mmap", "shm_unlink",
                     "sem_init", "fork", "sem_post", "wait", "kill", "reap",
                     "verify", "release", "exited"}
        /\ child' \in {"sem_wait", "compute", "exit", "none", "zombie",
                      "vanished", "gone"}
        /\ status' \in {"none", "0", "2", "signal"}
        /\ result' \in {"EXIT_SUCCESS", "EXIT_FAILURE"}
        /\ held' \in SUBSET {"name", "descriptor", "mapping", "semaphore"}
    OBVIOUS
  <2>2. /\ doubled' \in BOOLEAN
        /\ ignored' \in BOOLEAN /\ givenUp' \in BOOLEAN
    OBVIOUS
  <2>3. semaphore' \in 0 .. 1 /\ faults' \in Nat
    BY DEF SharedValue
  <2>. QED  BY <2>1, <2>2, <2>3
<1>2. SharedHeld'
  BY DEF SharedHeld
<1>3. SharedStage'
  BY DEF SharedStage
<1>4. SharedValue'
  BY DEF SharedValue, SharedStage
<1>5. SharedOutcome'
  BY DEF SharedOutcome, SharedStage, SharedValue
<1>. QED  BY <1>1, <1>2, <1>3, <1>4, <1>5 DEF SharedInvariant

(* Something is released (lines 128-136). *)
LEMMA SharedReleasePreserves ==
  ASSUME SharedInvariant, Shared!Release
  PROVE  SharedInvariant'
<1>. USE DEF SharedInvariant, Shared!Release, Shared!Fault
<1>1. Shared!TypeOK'
  <2>1. /\ main' \in {"shm_open", "ftruncate", "mmap", "shm_unlink",
                     "sem_init", "fork", "sem_post", "wait", "kill", "reap",
                     "verify", "release", "exited"}
        /\ child' \in {"sem_wait", "compute", "exit", "none", "zombie",
                      "vanished", "gone"}
        /\ status' \in {"none", "0", "2", "signal"}
        /\ result' \in {"EXIT_SUCCESS", "EXIT_FAILURE"}
        /\ held' \in SUBSET {"name", "descriptor", "mapping", "semaphore"}
    OBVIOUS
  <2>2. /\ doubled' \in BOOLEAN
        /\ ignored' \in BOOLEAN /\ givenUp' \in BOOLEAN
    OBVIOUS
  <2>3. semaphore' \in 0 .. 1 /\ faults' \in Nat
    BY DEF SharedValue
  <2>. QED  BY <2>1, <2>2, <2>3
<1>2. SharedHeld'
  BY DEF SharedHeld
<1>3. SharedStage'
  BY DEF SharedStage
<1>4. SharedValue'
  BY DEF SharedValue
<1>5. SharedOutcome'
  BY DEF SharedOutcome, SharedStage
<1>. QED  BY <1>1, <1>2, <1>3, <1>4, <1>5 DEF SharedInvariant

(* main returns (lines 136-138). *)
LEMMA SharedReturnPreserves ==
  ASSUME SharedInvariant, Shared!Return
  PROVE  SharedInvariant'
<1>. USE DEF SharedInvariant, Shared!Return, Shared!Goes
<1>1. Shared!TypeOK'
  <2>1. /\ main' \in {"shm_open", "ftruncate", "mmap", "shm_unlink",
                     "sem_init", "fork", "sem_post", "wait", "kill", "reap",
                     "verify", "release", "exited"}
        /\ child' \in {"sem_wait", "compute", "exit", "none", "zombie",
                      "vanished", "gone"}
        /\ status' \in {"none", "0", "2", "signal"}
        /\ result' \in {"EXIT_SUCCESS", "EXIT_FAILURE"}
        /\ held' \in SUBSET {"name", "descriptor", "mapping", "semaphore"}
    OBVIOUS
  <2>2. /\ doubled' \in BOOLEAN
        /\ ignored' \in BOOLEAN /\ givenUp' \in BOOLEAN
    OBVIOUS
  <2>3. semaphore' \in 0 .. 1 /\ faults' \in Nat
    BY DEF SharedValue
  <2>. QED  BY <2>1, <2>2, <2>3
<1>2. SharedHeld'
  BY DEF SharedHeld
<1>3. SharedStage'
  BY DEF SharedStage
<1>4. SharedValue'
  BY DEF SharedValue
<1>5. SharedOutcome'
  BY DEF SharedOutcome
<1>. QED  BY <1>1, <1>2, <1>3, <1>4, <1>5 DEF SharedInvariant

(* wait_for_semaphore (lines 87-90). *)
LEMMA SharedChildWaitsPreserves ==
  ASSUME SharedInvariant, Shared!ChildWaits
  PROVE  SharedInvariant'
<1>. USE DEF SharedInvariant, Shared!ChildWaits, Shared!ChildEnds,
             Shared!Fault
<1>1. Shared!TypeOK'
  <2>1. /\ main' \in {"shm_open", "ftruncate", "mmap", "shm_unlink",
                     "sem_init", "fork", "sem_post", "wait", "kill", "reap",
                     "verify", "release", "exited"}
        /\ child' \in {"sem_wait", "compute", "exit", "none", "zombie",
                      "vanished", "gone"}
        /\ status' \in {"none", "0", "2", "signal"}
        /\ result' \in {"EXIT_SUCCESS", "EXIT_FAILURE"}
        /\ held' \in SUBSET {"name", "descriptor", "mapping", "semaphore"}
    OBVIOUS
  <2>2. /\ doubled' \in BOOLEAN
        /\ ignored' \in BOOLEAN /\ givenUp' \in BOOLEAN
    OBVIOUS
  <2>3. semaphore' \in 0 .. 1 /\ faults' \in Nat
    BY DEF SharedValue
  <2>. QED  BY <2>1, <2>2, <2>3
<1>2. SharedHeld'
  BY DEF SharedHeld
<1>3. SharedStage'
  BY DEF SharedStage
<1>4. SharedValue'
  BY DEF SharedValue, SharedStage
<1>5. SharedOutcome'
  BY DEF SharedOutcome, SharedStage
<1>. QED  BY <1>1, <1>2, <1>3, <1>4, <1>5 DEF SharedInvariant

(* The child doubles the input (lines 91-92). *)
LEMMA SharedChildComputesPreserves ==
  ASSUME SharedInvariant, Shared!ChildComputes
  PROVE  SharedInvariant'
<1>. USE DEF SharedInvariant, Shared!ChildComputes
<1>1. Shared!TypeOK'
  <2>1. /\ main' \in {"shm_open", "ftruncate", "mmap", "shm_unlink",
                     "sem_init", "fork", "sem_post", "wait", "kill", "reap",
                     "verify", "release", "exited"}
        /\ child' \in {"sem_wait", "compute", "exit", "none", "zombie",
                      "vanished", "gone"}
        /\ status' \in {"none", "0", "2", "signal"}
        /\ result' \in {"EXIT_SUCCESS", "EXIT_FAILURE"}
        /\ held' \in SUBSET {"name", "descriptor", "mapping", "semaphore"}
    OBVIOUS
  <2>2. /\ doubled' \in BOOLEAN
        /\ ignored' \in BOOLEAN /\ givenUp' \in BOOLEAN
    OBVIOUS
  <2>3. semaphore' \in 0 .. 1 /\ faults' \in Nat
    BY DEF SharedValue
  <2>. QED  BY <2>1, <2>2, <2>3
<1>2. SharedHeld'
  BY DEF SharedHeld
<1>3. SharedStage'
  BY DEF SharedStage
<1>4. SharedValue'
  BY DEF SharedValue, SharedStage
<1>5. SharedOutcome'
  BY DEF SharedOutcome, SharedStage, SharedValue
<1>. QED  BY <1>1, <1>2, <1>3, <1>4, <1>5 DEF SharedInvariant

(* The child ends (lines 93-94). *)
LEMMA SharedChildExitsPreserves ==
  ASSUME SharedInvariant, Shared!ChildExits
  PROVE  SharedInvariant'
<1>. USE DEF SharedInvariant, Shared!ChildExits, Shared!ChildEnds
<1>1. Shared!TypeOK'
  <2>1. /\ main' \in {"shm_open", "ftruncate", "mmap", "shm_unlink",
                     "sem_init", "fork", "sem_post", "wait", "kill", "reap",
                     "verify", "release", "exited"}
        /\ child' \in {"sem_wait", "compute", "exit", "none", "zombie",
                      "vanished", "gone"}
        /\ status' \in {"none", "0", "2", "signal"}
        /\ result' \in {"EXIT_SUCCESS", "EXIT_FAILURE"}
        /\ held' \in SUBSET {"name", "descriptor", "mapping", "semaphore"}
    OBVIOUS
  <2>2. /\ doubled' \in BOOLEAN
        /\ ignored' \in BOOLEAN /\ givenUp' \in BOOLEAN
    OBVIOUS
  <2>3. semaphore' \in 0 .. 1 /\ faults' \in Nat
    BY DEF SharedValue
  <2>. QED  BY <2>1, <2>2, <2>3
<1>2. SharedHeld'
  BY DEF SharedHeld
<1>3. SharedStage'
  BY DEF SharedStage
<1>4. SharedValue'
  BY DEF SharedValue
<1>5. SharedOutcome'
  BY DEF SharedOutcome, SharedStage
<1>. QED  BY <1>1, <1>2, <1>3, <1>4, <1>5 DEF SharedInvariant

(* The invariant holds before anything is done. *)
LEMMA SharedInit ==
  ASSUME Shared!Init
  PROVE  SharedInvariant
<1>. USE DEF Shared!Init
<1>1. Shared!TypeOK
  <2>1. /\ main \in {"shm_open", "ftruncate", "mmap", "shm_unlink",
                     "sem_init", "fork", "sem_post", "wait", "kill", "reap",
                     "verify", "release", "exited"}
        /\ child \in {"sem_wait", "compute", "exit", "none", "zombie",
                      "vanished", "gone"}
        /\ status \in {"none", "0", "2", "signal"}
        /\ result \in {"EXIT_SUCCESS", "EXIT_FAILURE"}
        /\ held \in SUBSET {"name", "descriptor", "mapping", "semaphore"}
    OBVIOUS
  <2>2. /\ doubled \in BOOLEAN
        /\ ignored \in BOOLEAN /\ givenUp \in BOOLEAN
    OBVIOUS
  <2>3. semaphore \in 0 .. 1 /\ faults \in Nat
    BY DEF SharedValue
  <2>. QED  BY <2>1, <2>2, <2>3
<1>2. SharedHeld
  BY DEF SharedHeld
<1>3. SharedStage
  BY DEF SharedStage
<1>4. SharedValue
  BY DEF SharedValue
<1>5. SharedOutcome
  BY DEF SharedOutcome
<1>. QED  BY <1>1, <1>2, <1>3, <1>4, <1>5 DEF SharedInvariant

(* Every step keeps it. *)
LEMMA SharedStep ==
  ASSUME SharedInvariant, Shared!Next
  PROVE  SharedInvariant'
<1>1. CASE Shared!MainStep
  BY <1>1, SharedPreparePreserves, SharedForkPreserves, SharedPostPreserves,
     SharedWaitPreserves, SharedKillPreserves, SharedReapPreserves,
     SharedVerifyPreserves, SharedReleasePreserves, SharedReturnPreserves
     DEF Shared!MainStep
<1>2. CASE \/ Shared!WaitFails \/ Shared!ReapFails
           \/ Shared!ChildWaits \/ Shared!ChildStep
  BY <1>2, SharedWaitFailsPreserves, SharedReapFailsPreserves,
     SharedChildWaitsPreserves, SharedChildComputesPreserves,
     SharedChildExitsPreserves
     DEF Shared!ChildStep
<1>3. CASE Shared!Exited
  BY <1>3 DEF Shared!Exited, Shared!vars, SharedInvariant, SharedHeld,
             SharedStage, SharedValue, SharedOutcome
<1>. QED  BY <1>1, <1>2, <1>3 DEF Shared!Next

(* PidFd: likewise. *)
USE PidConstants DEF Pid!TimeoutAssumption, Pid!TypeOK, Pid!kid

(* fork (lines 53-60). *)
LEMMA PidForkPreserves ==
  ASSUME PidInvariant, Pid!Fork
  PROVE  PidInvariant'
<1>. USE DEF PidInvariant, Pid!Fork, Pid!Goes, Pid!Fails, Pid!Fault
<1>1. Pid!TypeOK'
  <2>1. /\ main' \in {"fork", "pidfd_open", "poll", "waitid", "cleanup",
                     "cleanup_wait", "exited"}
        /\ child' \in {"none", "running", "zombie", "vanished", "gone"}
        /\ status' \in {"none", "42", "signal"}
        /\ pidfd' \in {"closed", "child", "stranger"}
        /\ result' \in {"EXIT_SUCCESS", "EXIT_FAILURE"}
    OBVIOUS
  <2>2. /\ readable' \in BOOLEAN /\ child_reaped' \in BOOLEAN
        /\ ignored' \in BOOLEAN /\ givenUp' \in BOOLEAN
    OBVIOUS
  <2>3. left' \in 0 .. TIMEOUT /\ faults' \in Nat
    OBVIOUS
  <2>. QED  BY <2>1, <2>2, <2>3
<1>2. PidStage'
  BY DEF PidStage
<1>3. PidOutcome'
  BY DEF PidOutcome, PidStage
<1>. QED  BY <1>1, <1>2, <1>3 DEF PidInvariant

(* pidfd_open (lines 62-66). *)
LEMMA PidOpenPidFdPreserves ==
  ASSUME PidInvariant, Pid!OpenPidFd
  PROVE  PidInvariant'
<1>. USE DEF PidInvariant, Pid!OpenPidFd, Pid!Goes, Pid!Fails, Pid!Fault
<1>1. Pid!TypeOK'
  <2>1. /\ main' \in {"fork", "pidfd_open", "poll", "waitid", "cleanup",
                     "cleanup_wait", "exited"}
        /\ child' \in {"none", "running", "zombie", "vanished", "gone"}
        /\ status' \in {"none", "42", "signal"}
        /\ pidfd' \in {"closed", "child", "stranger"}
        /\ result' \in {"EXIT_SUCCESS", "EXIT_FAILURE"}
    OBVIOUS
  <2>2. /\ readable' \in BOOLEAN /\ child_reaped' \in BOOLEAN
        /\ ignored' \in BOOLEAN /\ givenUp' \in BOOLEAN
    OBVIOUS
  <2>3. left' \in 0 .. TIMEOUT /\ faults' \in Nat
    OBVIOUS
  <2>. QED  BY <2>1, <2>2, <2>3
<1>2. PidStage'
  BY DEF PidStage
<1>3. PidOutcome'
  BY DEF PidOutcome, PidStage
<1>. QED  BY <1>1, <1>2, <1>3 DEF PidInvariant

(* poll finds the pidfd readable (lines 68-87). *)
LEMMA PidPollPreserves ==
  ASSUME PidInvariant, Pid!Poll
  PROVE  PidInvariant'
<1>. USE DEF PidInvariant, Pid!Poll, Pid!Goes
<1>1. Pid!TypeOK'
  <2>1. /\ main' \in {"fork", "pidfd_open", "poll", "waitid", "cleanup",
                     "cleanup_wait", "exited"}
        /\ child' \in {"none", "running", "zombie", "vanished", "gone"}
        /\ status' \in {"none", "42", "signal"}
        /\ pidfd' \in {"closed", "child", "stranger"}
        /\ result' \in {"EXIT_SUCCESS", "EXIT_FAILURE"}
    OBVIOUS
  <2>2. /\ readable' \in BOOLEAN /\ child_reaped' \in BOOLEAN
        /\ ignored' \in BOOLEAN /\ givenUp' \in BOOLEAN
    OBVIOUS
  <2>3. left' \in 0 .. TIMEOUT /\ faults' \in Nat
    OBVIOUS
  <2>. QED  BY <2>1, <2>2, <2>3
<1>2. PidStage'
  BY DEF PidStage
<1>3. PidOutcome'
  BY DEF PidOutcome, PidStage
<1>. QED  BY <1>1, <1>2, <1>3 DEF PidInvariant

(* Time passes in poll (lines 38-44). *)
LEMMA PidPollWaitsPreserves ==
  ASSUME PidInvariant, Pid!PollWaits
  PROVE  PidInvariant'
<1>. USE DEF PidInvariant, Pid!PollWaits
<1>1. Pid!TypeOK'
  <2>1. /\ main' \in {"fork", "pidfd_open", "poll", "waitid", "cleanup",
                     "cleanup_wait", "exited"}
        /\ child' \in {"none", "running", "zombie", "vanished", "gone"}
        /\ status' \in {"none", "42", "signal"}
        /\ pidfd' \in {"closed", "child", "stranger"}
        /\ result' \in {"EXIT_SUCCESS", "EXIT_FAILURE"}
    OBVIOUS
  <2>2. /\ readable' \in BOOLEAN /\ child_reaped' \in BOOLEAN
        /\ ignored' \in BOOLEAN /\ givenUp' \in BOOLEAN
    OBVIOUS
  <2>3. left' \in 0 .. TIMEOUT /\ faults' \in Nat
    OBVIOUS
  <2>. QED  BY <2>1, <2>2, <2>3
<1>2. PidStage'
  BY DEF PidStage
<1>3. PidOutcome'
  BY DEF PidOutcome, PidStage
<1>. QED  BY <1>1, <1>2, <1>3 DEF PidInvariant

(* poll times out (lines 78-81). *)
LEMMA PidPollTimesOutPreserves ==
  ASSUME PidInvariant, Pid!PollTimesOut
  PROVE  PidInvariant'
<1>. USE DEF PidInvariant, Pid!PollTimesOut, Pid!Goes, Pid!Fails, Pid!Fault
<1>1. Pid!TypeOK'
  <2>1. /\ main' \in {"fork", "pidfd_open", "poll", "waitid", "cleanup",
                     "cleanup_wait", "exited"}
        /\ child' \in {"none", "running", "zombie", "vanished", "gone"}
        /\ status' \in {"none", "42", "signal"}
        /\ pidfd' \in {"closed", "child", "stranger"}
        /\ result' \in {"EXIT_SUCCESS", "EXIT_FAILURE"}
    OBVIOUS
  <2>2. /\ readable' \in BOOLEAN /\ child_reaped' \in BOOLEAN
        /\ ignored' \in BOOLEAN /\ givenUp' \in BOOLEAN
    OBVIOUS
  <2>3. left' \in 0 .. TIMEOUT /\ faults' \in Nat
    OBVIOUS
  <2>. QED  BY <2>1, <2>2, <2>3
<1>2. PidStage'
  BY DEF PidStage
<1>3. PidOutcome'
  BY DEF PidOutcome, PidStage
<1>. QED  BY <1>1, <1>2, <1>3 DEF PidInvariant

(* poll fails (lines 74-77). *)
LEMMA PidPollFailsPreserves ==
  ASSUME PidInvariant, Pid!PollFails
  PROVE  PidInvariant'
<1>. USE DEF PidInvariant, Pid!PollFails, Pid!Goes, Pid!Fails, Pid!Fault
<1>1. Pid!TypeOK'
  <2>1. /\ main' \in {"fork", "pidfd_open", "poll", "waitid", "cleanup",
                     "cleanup_wait", "exited"}
        /\ child' \in {"none", "running", "zombie", "vanished", "gone"}
        /\ status' \in {"none", "42", "signal"}
        /\ pidfd' \in {"closed", "child", "stranger"}
        /\ result' \in {"EXIT_SUCCESS", "EXIT_FAILURE"}
    OBVIOUS
  <2>2. /\ readable' \in BOOLEAN /\ child_reaped' \in BOOLEAN
        /\ ignored' \in BOOLEAN /\ givenUp' \in BOOLEAN
    OBVIOUS
  <2>3. left' \in 0 .. TIMEOUT /\ faults' \in Nat
    OBVIOUS
  <2>. QED  BY <2>1, <2>2, <2>3
<1>2. PidStage'
  BY DEF PidStage
<1>3. PidOutcome'
  BY DEF PidOutcome, PidStage
<1>. QED  BY <1>1, <1>2, <1>3 DEF PidInvariant

(* waitid and the test of what it says (lines 88-106). *)
LEMMA PidWaitByPidFdPreserves ==
  ASSUME PidInvariant, Pid!WaitByPidFd
  PROVE  PidInvariant'
<1>. USE DEF PidInvariant, Pid!WaitByPidFd, Pid!Goes, Pid!Fails, Pid!Fault
<1>1. Pid!TypeOK'
  <2>1. /\ main' \in {"fork", "pidfd_open", "poll", "waitid", "cleanup",
                     "cleanup_wait", "exited"}
        /\ child' \in {"none", "running", "zombie", "vanished", "gone"}
        /\ status' \in {"none", "42", "signal"}
        /\ pidfd' \in {"closed", "child", "stranger"}
        /\ result' \in {"EXIT_SUCCESS", "EXIT_FAILURE"}
    OBVIOUS
  <2>2. /\ readable' \in BOOLEAN /\ child_reaped' \in BOOLEAN
        /\ ignored' \in BOOLEAN /\ givenUp' \in BOOLEAN
    OBVIOUS
  <2>3. left' \in 0 .. TIMEOUT /\ faults' \in Nat
    OBVIOUS
  <2>. QED  BY <2>1, <2>2, <2>3
<1>2. PidStage'
  BY DEF PidStage
<1>3. PidOutcome'
  BY DEF PidOutcome, PidStage
<1>. QED  BY <1>1, <1>2, <1>3 DEF PidInvariant

(* waitid fails (lines 93-96). *)
LEMMA PidWaitByPidFdFailsPreserves ==
  ASSUME PidInvariant, Pid!WaitByPidFdFails
  PROVE  PidInvariant'
<1>. USE DEF PidInvariant, Pid!WaitByPidFdFails, Pid!Goes, Pid!Fails,
             Pid!Fault
<1>1. Pid!TypeOK'
  <2>1. /\ main' \in {"fork", "pidfd_open", "poll", "waitid", "cleanup",
                     "cleanup_wait", "exited"}
        /\ child' \in {"none", "running", "zombie", "vanished", "gone"}
        /\ status' \in {"none", "42", "signal"}
        /\ pidfd' \in {"closed", "child", "stranger"}
        /\ result' \in {"EXIT_SUCCESS", "EXIT_FAILURE"}
    OBVIOUS
  <2>2. /\ readable' \in BOOLEAN /\ child_reaped' \in BOOLEAN
        /\ ignored' \in BOOLEAN /\ givenUp' \in BOOLEAN
    OBVIOUS
  <2>3. left' \in 0 .. TIMEOUT /\ faults' \in Nat
    OBVIOUS
  <2>. QED  BY <2>1, <2>2, <2>3
<1>2. PidStage'
  BY DEF PidStage
<1>3. PidOutcome'
  BY DEF PidOutcome, PidStage
<1>. QED  BY <1>1, <1>2, <1>3 DEF PidInvariant

(* The pidfd is closed (lines 108-112). *)
LEMMA PidCleanupClosesPreserves ==
  ASSUME PidInvariant, Pid!CleanupCloses
  PROVE  PidInvariant'
<1>. USE DEF PidInvariant, Pid!CleanupCloses, Pid!Goes, Pid!Fault
<1>1. Pid!TypeOK'
  <2>1. /\ main' \in {"fork", "pidfd_open", "poll", "waitid", "cleanup",
                     "cleanup_wait", "exited"}
        /\ child' \in {"none", "running", "zombie", "vanished", "gone"}
        /\ status' \in {"none", "42", "signal"}
        /\ pidfd' \in {"closed", "child", "stranger"}
        /\ result' \in {"EXIT_SUCCESS", "EXIT_FAILURE"}
    OBVIOUS
  <2>2. /\ readable' \in BOOLEAN /\ child_reaped' \in BOOLEAN
        /\ ignored' \in BOOLEAN /\ givenUp' \in BOOLEAN
    OBVIOUS
  <2>3. left' \in 0 .. TIMEOUT /\ faults' \in Nat
    OBVIOUS
  <2>. QED  BY <2>1, <2>2, <2>3
<1>2. PidStage'
  BY DEF PidStage
<1>3. PidOutcome'
  BY DEF PidOutcome, PidStage
<1>. QED  BY <1>1, <1>2, <1>3 DEF PidInvariant

(* waitpid in the cleanup (lines 113-123). *)
LEMMA PidCleanupWaitsPreserves ==
  ASSUME PidInvariant, Pid!CleanupWaits
  PROVE  PidInvariant'
<1>. USE DEF PidInvariant, Pid!CleanupWaits, Pid!Goes
<1>1. Pid!TypeOK'
  <2>1. /\ main' \in {"fork", "pidfd_open", "poll", "waitid", "cleanup",
                     "cleanup_wait", "exited"}
        /\ child' \in {"none", "running", "zombie", "vanished", "gone"}
        /\ status' \in {"none", "42", "signal"}
        /\ pidfd' \in {"closed", "child", "stranger"}
        /\ result' \in {"EXIT_SUCCESS", "EXIT_FAILURE"}
    OBVIOUS
  <2>2. /\ readable' \in BOOLEAN /\ child_reaped' \in BOOLEAN
        /\ ignored' \in BOOLEAN /\ givenUp' \in BOOLEAN
    OBVIOUS
  <2>3. left' \in 0 .. TIMEOUT /\ faults' \in Nat
    OBVIOUS
  <2>. QED  BY <2>1, <2>2, <2>3
<1>2. PidStage'
  BY DEF PidStage
<1>3. PidOutcome'
  BY DEF PidOutcome, PidStage
<1>. QED  BY <1>1, <1>2, <1>3 DEF PidInvariant

(* The wait of the cleanup fails (lines 119-122). *)
LEMMA PidCleanupWaitFailsPreserves ==
  ASSUME PidInvariant, Pid!CleanupWaitFails
  PROVE  PidInvariant'
<1>. USE DEF PidInvariant, Pid!CleanupWaitFails, Pid!Goes, Pid!Fault
<1>1. Pid!TypeOK'
  <2>1. /\ main' \in {"fork", "pidfd_open", "poll", "waitid", "cleanup",
                     "cleanup_wait", "exited"}
        /\ child' \in {"none", "running", "zombie", "vanished", "gone"}
        /\ status' \in {"none", "42", "signal"}
        /\ pidfd' \in {"closed", "child", "stranger"}
        /\ result' \in {"EXIT_SUCCESS", "EXIT_FAILURE"}
    OBVIOUS
  <2>2. /\ readable' \in BOOLEAN /\ child_reaped' \in BOOLEAN
        /\ ignored' \in BOOLEAN /\ givenUp' \in BOOLEAN
    OBVIOUS
  <2>3. left' \in 0 .. TIMEOUT /\ faults' \in Nat
    OBVIOUS
  <2>. QED  BY <2>1, <2>2, <2>3
<1>2. PidStage'
  BY DEF PidStage
<1>3. PidOutcome'
  BY DEF PidOutcome, PidStage
<1>. QED  BY <1>1, <1>2, <1>3 DEF PidInvariant

(* The child ends (lines 58-60). *)
LEMMA PidChildEndsPreserves ==
  ASSUME PidInvariant, Pid!ChildEnds
  PROVE  PidInvariant'
<1>. USE DEF PidInvariant, Pid!ChildEnds, Pid!Fault
<1>1. Pid!TypeOK'
  <2>1. /\ main' \in {"fork", "pidfd_open", "poll", "waitid", "cleanup",
                     "cleanup_wait", "exited"}
        /\ child' \in {"none", "running", "zombie", "vanished", "gone"}
        /\ status' \in {"none", "42", "signal"}
        /\ pidfd' \in {"closed", "child", "stranger"}
        /\ result' \in {"EXIT_SUCCESS", "EXIT_FAILURE"}
    OBVIOUS
  <2>2. /\ readable' \in BOOLEAN /\ child_reaped' \in BOOLEAN
        /\ ignored' \in BOOLEAN /\ givenUp' \in BOOLEAN
    OBVIOUS
  <2>3. left' \in 0 .. TIMEOUT /\ faults' \in Nat
    OBVIOUS
  <2>. QED  BY <2>1, <2>2, <2>3
<1>2. PidStage'
  BY DEF PidStage
<1>3. PidOutcome'
  BY DEF PidOutcome, PidStage
<1>. QED  BY <1>1, <1>2, <1>3 DEF PidInvariant

(* The invariant holds before anything is done. *)
LEMMA PidInit ==
  ASSUME Pid!Init
  PROVE  PidInvariant
<1>. USE DEF Pid!Init
<1>1. Pid!TypeOK
  <2>1. /\ main \in {"fork", "pidfd_open", "poll", "waitid", "cleanup",
                     "cleanup_wait", "exited"}
        /\ child \in {"none", "running", "zombie", "vanished", "gone"}
        /\ status \in {"none", "42", "signal"}
        /\ pidfd \in {"closed", "child", "stranger"}
        /\ result \in {"EXIT_SUCCESS", "EXIT_FAILURE"}
    OBVIOUS
  <2>2. /\ readable \in BOOLEAN /\ child_reaped \in BOOLEAN
        /\ ignored \in BOOLEAN /\ givenUp \in BOOLEAN
    OBVIOUS
  <2>3. left \in 0 .. TIMEOUT /\ faults \in Nat
    OBVIOUS
  <2>. QED  BY <2>1, <2>2, <2>3
<1>2. PidStage
  BY DEF PidStage
<1>3. PidOutcome
  BY DEF PidOutcome
<1>. QED  BY <1>1, <1>2, <1>3 DEF PidInvariant

(* Every step keeps it. *)
LEMMA PidStep ==
  ASSUME PidInvariant, Pid!Next
  PROVE  PidInvariant'
<1>1. CASE Pid!MainStep
  BY <1>1, PidForkPreserves, PidOpenPidFdPreserves, PidPollPreserves,
     PidWaitByPidFdPreserves, PidCleanupClosesPreserves,
     PidCleanupWaitsPreserves
     DEF Pid!MainStep
<1>2. CASE \/ Pid!PollWaits \/ Pid!PollTimesOut \/ Pid!PollFails
           \/ Pid!WaitByPidFdFails \/ Pid!CleanupWaitFails \/ Pid!ChildEnds
  BY <1>2, PidPollWaitsPreserves, PidPollTimesOutPreserves,
     PidPollFailsPreserves, PidWaitByPidFdFailsPreserves,
     PidCleanupWaitFailsPreserves, PidChildEndsPreserves
<1>3. CASE Pid!Exited
  BY <1>3 DEF Pid!Exited, Pid!vars, PidInvariant, PidStage, PidOutcome
<1>. QED  BY <1>1, <1>2, <1>3 DEF Pid!Next

(* SysvQueue: likewise. *)
USE DEF Sysv!TypeOK, Sysv!Alive, Sysv!kid

(* msgget (lines 34-38). *)
LEMMA SysvMakeQueuePreserves ==
  ASSUME SysvInvariant, Sysv!MakeQueue
  PROVE  SysvInvariant'
<1>. USE DEF SysvInvariant, Sysv!MakeQueue, Sysv!Goes, Sysv!Fails, Sysv!Fault
<1>1. Sysv!TypeOK'
  <2>1. /\ main' \in {"msgget", "fork", "wait", "stat", "msgrcv",
                     "stat_after", "cleanup", "kill", "reap", "exited"}
        /\ child' \in {"msgsnd", "sent", "not_sent", "none", "zombie",
                      "vanished", "gone"}
        /\ status' \in {"none", "0", "120", "signal"}
        /\ queue' \in {"none", "exists", "removed", "left"}
        /\ waitError' \in {"none", "ECHILD", "other"}
        /\ result' \in {"EXIT_SUCCESS", "EXIT_FAILURE"}
    OBVIOUS
  <2>2. /\ received' \in BOOLEAN /\ child_reaped' \in BOOLEAN
        /\ ignored' \in BOOLEAN /\ givenUp' \in BOOLEAN
    OBVIOUS
  <2>3. queued' \in 0 .. 1 /\ faults' \in Nat
    BY DEF SysvQueueTracked
  <2>. QED  BY <2>1, <2>2, <2>3
<1>2. SysvQueueTracked'
  BY DEF SysvQueueTracked, SysvStage
<1>3. SysvStage'
  BY DEF SysvStage, SysvQueueTracked
<1>4. SysvOutcome'
  BY DEF SysvOutcome, SysvStage, SysvQueueTracked
<1>. QED  BY <1>1, <1>2, <1>3, <1>4 DEF SysvInvariant

(* fork (lines 40-44). *)
LEMMA SysvForkPreserves ==
  ASSUME SysvInvariant, Sysv!Fork
  PROVE  SysvInvariant'
<1>. USE DEF SysvInvariant, Sysv!Fork, Sysv!Goes, Sysv!Fails, Sysv!Fault
<1>1. Sysv!TypeOK'
  <2>1. /\ main' \in {"msgget", "fork", "wait", "stat", "msgrcv",
                     "stat_after", "cleanup", "kill", "reap", "exited"}
        /\ child' \in {"msgsnd", "sent", "not_sent", "none", "zombie",
                      "vanished", "gone"}
        /\ status' \in {"none", "0", "120", "signal"}
        /\ queue' \in {"none", "exists", "removed", "left"}
        /\ waitError' \in {"none", "ECHILD", "other"}
        /\ result' \in {"EXIT_SUCCESS", "EXIT_FAILURE"}
    OBVIOUS
  <2>2. /\ received' \in BOOLEAN /\ child_reaped' \in BOOLEAN
        /\ ignored' \in BOOLEAN /\ givenUp' \in BOOLEAN
    OBVIOUS
  <2>3. queued' \in 0 .. 1 /\ faults' \in Nat
    BY DEF SysvQueueTracked
  <2>. QED  BY <2>1, <2>2, <2>3
<1>2. SysvQueueTracked'
  BY DEF SysvQueueTracked, SysvStage
<1>3. SysvStage'
  BY DEF SysvStage, SysvQueueTracked
<1>4. SysvOutcome'
  BY DEF SysvOutcome, SysvStage, SysvQueueTracked
<1>. QED  BY <1>1, <1>2, <1>3, <1>4 DEF SysvInvariant

(* wait_for_child and the test of the status (lines 55-69). *)
LEMMA SysvWaitPreserves ==
  ASSUME SysvInvariant, Sysv!Wait
  PROVE  SysvInvariant'
<1>. USE DEF SysvInvariant, Sysv!Wait, Sysv!Goes, Sysv!Fails, Sysv!Fault
<1>1. Sysv!TypeOK'
  <2>1. /\ main' \in {"msgget", "fork", "wait", "stat", "msgrcv",
                     "stat_after", "cleanup", "kill", "reap", "exited"}
        /\ child' \in {"msgsnd", "sent", "not_sent", "none", "zombie",
                      "vanished", "gone"}
        /\ status' \in {"none", "0", "120", "signal"}
        /\ queue' \in {"none", "exists", "removed", "left"}
        /\ waitError' \in {"none", "ECHILD", "other"}
        /\ result' \in {"EXIT_SUCCESS", "EXIT_FAILURE"}
    OBVIOUS
  <2>2. /\ received' \in BOOLEAN /\ child_reaped' \in BOOLEAN
        /\ ignored' \in BOOLEAN /\ givenUp' \in BOOLEAN
    OBVIOUS
  <2>3. queued' \in 0 .. 1 /\ faults' \in Nat
    BY DEF SysvQueueTracked
  <2>. QED  BY <2>1, <2>2, <2>3
<1>2. SysvQueueTracked'
  BY DEF SysvQueueTracked, SysvStage
<1>3. SysvStage'
  BY DEF SysvStage, SysvQueueTracked
<1>4. SysvOutcome'
  BY DEF SysvOutcome, SysvStage, SysvQueueTracked
<1>. QED  BY <1>1, <1>2, <1>3, <1>4 DEF SysvInvariant

(* The wait fails (lines 56-64). *)
LEMMA SysvWaitFailsPreserves ==
  ASSUME SysvInvariant, Sysv!WaitFails
  PROVE  SysvInvariant'
<1>. USE DEF SysvInvariant, Sysv!WaitFails, Sysv!Goes, Sysv!Fails, Sysv!Fault
<1>1. Sysv!TypeOK'
  <2>1. /\ main' \in {"msgget", "fork", "wait", "stat", "msgrcv",
                     "stat_after", "cleanup", "kill", "reap", "exited"}
        /\ child' \in {"msgsnd", "sent", "not_sent", "none", "zombie",
                      "vanished", "gone"}
        /\ status' \in {"none", "0", "120", "signal"}
        /\ queue' \in {"none", "exists", "removed", "left"}
        /\ waitError' \in {"none", "ECHILD", "other"}
        /\ result' \in {"EXIT_SUCCESS", "EXIT_FAILURE"}
    OBVIOUS
  <2>2. /\ received' \in BOOLEAN /\ child_reaped' \in BOOLEAN
        /\ ignored' \in BOOLEAN /\ givenUp' \in BOOLEAN
    OBVIOUS
  <2>3. queued' \in 0 .. 1 /\ faults' \in Nat
    BY DEF SysvQueueTracked
  <2>. QED  BY <2>1, <2>2, <2>3
<1>2. SysvQueueTracked'
  BY DEF SysvQueueTracked, SysvStage
<1>3. SysvStage'
  BY DEF SysvStage, SysvQueueTracked
<1>4. SysvOutcome'
  BY DEF SysvOutcome, SysvStage, SysvQueueTracked
<1>. QED  BY <1>1, <1>2, <1>3, <1>4 DEF SysvInvariant

(* IPC_STAT before (lines 71-79). *)
LEMMA SysvCountBeforePreserves ==
  ASSUME SysvInvariant, Sysv!Count("stat", 1, "msgrcv")
  PROVE  SysvInvariant'
<1>. USE DEF SysvInvariant, Sysv!Count, Sysv!Goes, Sysv!Fails, Sysv!Fault
<1>1. Sysv!TypeOK'
  <2>1. /\ main' \in {"msgget", "fork", "wait", "stat", "msgrcv",
                     "stat_after", "cleanup", "kill", "reap", "exited"}
        /\ child' \in {"msgsnd", "sent", "not_sent", "none", "zombie",
                      "vanished", "gone"}
        /\ status' \in {"none", "0", "120", "signal"}
        /\ queue' \in {"none", "exists", "removed", "left"}
        /\ waitError' \in {"none", "ECHILD", "other"}
        /\ result' \in {"EXIT_SUCCESS", "EXIT_FAILURE"}
    OBVIOUS
  <2>2. /\ received' \in BOOLEAN /\ child_reaped' \in BOOLEAN
        /\ ignored' \in BOOLEAN /\ givenUp' \in BOOLEAN
    OBVIOUS
  <2>3. queued' \in 0 .. 1 /\ faults' \in Nat
    BY DEF SysvQueueTracked
  <2>. QED  BY <2>1, <2>2, <2>3
<1>2. SysvQueueTracked'
  BY DEF SysvQueueTracked, SysvStage
<1>3. SysvStage'
  BY DEF SysvStage, SysvQueueTracked
<1>4. SysvOutcome'
  BY DEF SysvOutcome, SysvStage, SysvQueueTracked
<1>. QED  BY <1>1, <1>2, <1>3, <1>4 DEF SysvInvariant

(* msgrcv (lines 81-95). *)
LEMMA SysvReceivePreserves ==
  ASSUME SysvInvariant, Sysv!Receive
  PROVE  SysvInvariant'
<1>. USE DEF SysvInvariant, Sysv!Receive, Sysv!Goes, Sysv!Fails, Sysv!Fault
<1>1. Sysv!TypeOK'
  <2>1. /\ main' \in {"msgget", "fork", "wait", "stat", "msgrcv",
                     "stat_after", "cleanup", "kill", "reap", "exited"}
        /\ child' \in {"msgsnd", "sent", "not_sent", "none", "zombie",
                      "vanished", "gone"}
        /\ status' \in {"none", "0", "120", "signal"}
        /\ queue' \in {"none", "exists", "removed", "left"}
        /\ waitError' \in {"none", "ECHILD", "other"}
        /\ result' \in {"EXIT_SUCCESS", "EXIT_FAILURE"}
    OBVIOUS
  <2>2. /\ received' \in BOOLEAN /\ child_reaped' \in BOOLEAN
        /\ ignored' \in BOOLEAN /\ givenUp' \in BOOLEAN
    OBVIOUS
  <2>3. queued' \in 0 .. 1 /\ faults' \in Nat
    BY DEF SysvQueueTracked
  <2>. QED  BY <2>1, <2>2, <2>3
<1>2. SysvQueueTracked'
  BY DEF SysvQueueTracked, SysvStage
<1>3. SysvStage'
  BY DEF SysvStage, SysvQueueTracked
<1>4. SysvOutcome'
  BY DEF SysvOutcome, SysvStage, SysvQueueTracked
<1>. QED  BY <1>1, <1>2, <1>3, <1>4 DEF SysvInvariant

(* IPC_STAT after (lines 97-104). *)
LEMMA SysvCountAfterPreserves ==
  ASSUME SysvInvariant, Sysv!Count("stat_after", 0, "cleanup")
  PROVE  SysvInvariant'
<1>. USE DEF SysvInvariant, Sysv!Count, Sysv!Goes, Sysv!Fails, Sysv!Fault
<1>1. Sysv!TypeOK'
  <2>1. /\ main' \in {"msgget", "fork", "wait", "stat", "msgrcv",
                     "stat_after", "cleanup", "kill", "reap", "exited"}
        /\ child' \in {"msgsnd", "sent", "not_sent", "none", "zombie",
                      "vanished", "gone"}
        /\ status' \in {"none", "0", "120", "signal"}
        /\ queue' \in {"none", "exists", "removed", "left"}
        /\ waitError' \in {"none", "ECHILD", "other"}
        /\ result' \in {"EXIT_SUCCESS", "EXIT_FAILURE"}
    OBVIOUS
  <2>2. /\ received' \in BOOLEAN /\ child_reaped' \in BOOLEAN
        /\ ignored' \in BOOLEAN /\ givenUp' \in BOOLEAN
    OBVIOUS
  <2>3. queued' \in 0 .. 1 /\ faults' \in Nat
    BY DEF SysvQueueTracked
  <2>. QED  BY <2>1, <2>2, <2>3
<1>2. SysvQueueTracked'
  BY DEF SysvQueueTracked, SysvStage
<1>3. SysvStage'
  BY DEF SysvStage, SysvQueueTracked
<1>4. SysvOutcome'
  BY DEF SysvOutcome, SysvStage, SysvQueueTracked
<1>. QED  BY <1>1, <1>2, <1>3, <1>4 DEF SysvInvariant

(* IPC_RMID (lines 107-111). *)
LEMMA SysvCleanupRemovesPreserves ==
  ASSUME SysvInvariant, Sysv!CleanupRemoves
  PROVE  SysvInvariant'
<1>. USE DEF SysvInvariant, Sysv!CleanupRemoves, Sysv!Goes, Sysv!Fault
<1>1. Sysv!TypeOK'
  <2>1. /\ main' \in {"msgget", "fork", "wait", "stat", "msgrcv",
                     "stat_after", "cleanup", "kill", "reap", "exited"}
        /\ child' \in {"msgsnd", "sent", "not_sent", "none", "zombie",
                      "vanished", "gone"}
        /\ status' \in {"none", "0", "120", "signal"}
        /\ queue' \in {"none", "exists", "removed", "left"}
        /\ waitError' \in {"none", "ECHILD", "other"}
        /\ result' \in {"EXIT_SUCCESS", "EXIT_FAILURE"}
    OBVIOUS
  <2>2. /\ received' \in BOOLEAN /\ child_reaped' \in BOOLEAN
        /\ ignored' \in BOOLEAN /\ givenUp' \in BOOLEAN
    OBVIOUS
  <2>3. queued' \in 0 .. 1 /\ faults' \in Nat
    BY DEF SysvQueueTracked
  <2>. QED  BY <2>1, <2>2, <2>3
<1>2. SysvQueueTracked'
  BY DEF SysvQueueTracked, SysvStage
<1>3. SysvStage'
  BY DEF SysvStage, SysvQueueTracked
<1>4. SysvOutcome'
  BY DEF SysvOutcome, SysvStage, SysvQueueTracked
<1>. QED  BY <1>1, <1>2, <1>3, <1>4 DEF SysvInvariant

(* SIGTERM (lines 112-116). *)
LEMMA SysvCleanupKillsPreserves ==
  ASSUME SysvInvariant, Sysv!CleanupKills
  PROVE  SysvInvariant'
<1>. USE DEF SysvInvariant, Sysv!CleanupKills, Sysv!Goes, Sysv!ChildEnds,
             Sysv!Fault
<1>1. Sysv!TypeOK'
  <2>1. /\ main' \in {"msgget", "fork", "wait", "stat", "msgrcv",
                     "stat_after", "cleanup", "kill", "reap", "exited"}
        /\ child' \in {"msgsnd", "sent", "not_sent", "none", "zombie",
                      "vanished", "gone"}
        /\ status' \in {"none", "0", "120", "signal"}
        /\ queue' \in {"none", "exists", "removed", "left"}
        /\ waitError' \in {"none", "ECHILD", "other"}
        /\ result' \in {"EXIT_SUCCESS", "EXIT_FAILURE"}
    OBVIOUS
  <2>2. /\ received' \in BOOLEAN /\ child_reaped' \in BOOLEAN
        /\ ignored' \in BOOLEAN /\ givenUp' \in BOOLEAN
    OBVIOUS
  <2>3. queued' \in 0 .. 1 /\ faults' \in Nat
    BY DEF SysvQueueTracked
  <2>. QED  BY <2>1, <2>2, <2>3
<1>2. SysvQueueTracked'
  BY DEF SysvQueueTracked, SysvStage
<1>3. SysvStage'
  BY DEF SysvStage, SysvQueueTracked
<1>4. SysvOutcome'
  BY DEF SysvOutcome, SysvStage, SysvQueueTracked
<1>. QED  BY <1>1, <1>2, <1>3, <1>4 DEF SysvInvariant

(* The child is reaped (lines 117-122). *)
LEMMA SysvCleanupReapsPreserves ==
  ASSUME SysvInvariant, Sysv!CleanupReaps
  PROVE  SysvInvariant'
<1>. USE DEF SysvInvariant, Sysv!CleanupReaps, Sysv!Goes
<1>1. Sysv!TypeOK'
  <2>1. /\ main' \in {"msgget", "fork", "wait", "stat", "msgrcv",
                     "stat_after", "cleanup", "kill", "reap", "exited"}
        /\ child' \in {"msgsnd", "sent", "not_sent", "none", "zombie",
                      "vanished", "gone"}
        /\ status' \in {"none", "0", "120", "signal"}
        /\ queue' \in {"none", "exists", "removed", "left"}
        /\ waitError' \in {"none", "ECHILD", "other"}
        /\ result' \in {"EXIT_SUCCESS", "EXIT_FAILURE"}
    OBVIOUS
  <2>2. /\ received' \in BOOLEAN /\ child_reaped' \in BOOLEAN
        /\ ignored' \in BOOLEAN /\ givenUp' \in BOOLEAN
    OBVIOUS
  <2>3. queued' \in 0 .. 1 /\ faults' \in Nat
    BY DEF SysvQueueTracked
  <2>. QED  BY <2>1, <2>2, <2>3
<1>2. SysvQueueTracked'
  BY DEF SysvQueueTracked, SysvStage
<1>3. SysvStage'
  BY DEF SysvStage, SysvQueueTracked
<1>4. SysvOutcome'
  BY DEF SysvOutcome, SysvStage, SysvQueueTracked
<1>. QED  BY <1>1, <1>2, <1>3, <1>4 DEF SysvInvariant

(* waitpid fails in the cleanup (lines 118-121). *)
LEMMA SysvCleanupReapsFailsPreserves ==
  ASSUME SysvInvariant, Sysv!CleanupReapsFails
  PROVE  SysvInvariant'
<1>. USE DEF SysvInvariant, Sysv!CleanupReapsFails, Sysv!Goes, Sysv!Fault
<1>1. Sysv!TypeOK'
  <2>1. /\ main' \in {"msgget", "fork", "wait", "stat", "msgrcv",
                     "stat_after", "cleanup", "kill", "reap", "exited"}
        /\ child' \in {"msgsnd", "sent", "not_sent", "none", "zombie",
                      "vanished", "gone"}
        /\ status' \in {"none", "0", "120", "signal"}
        /\ queue' \in {"none", "exists", "removed", "left"}
        /\ waitError' \in {"none", "ECHILD", "other"}
        /\ result' \in {"EXIT_SUCCESS", "EXIT_FAILURE"}
    OBVIOUS
  <2>2. /\ received' \in BOOLEAN /\ child_reaped' \in BOOLEAN
        /\ ignored' \in BOOLEAN /\ givenUp' \in BOOLEAN
    OBVIOUS
  <2>3. queued' \in 0 .. 1 /\ faults' \in Nat
    BY DEF SysvQueueTracked
  <2>. QED  BY <2>1, <2>2, <2>3
<1>2. SysvQueueTracked'
  BY DEF SysvQueueTracked, SysvStage
<1>3. SysvStage'
  BY DEF SysvStage, SysvQueueTracked
<1>4. SysvOutcome'
  BY DEF SysvOutcome, SysvStage, SysvQueueTracked
<1>. QED  BY <1>1, <1>2, <1>3, <1>4 DEF SysvInvariant

(* msgsnd (lines 45-51). *)
LEMMA SysvChildSendsPreserves ==
  ASSUME SysvInvariant, Sysv!ChildSends
  PROVE  SysvInvariant'
<1>. USE DEF SysvInvariant, Sysv!ChildSends, Sysv!Fault
<1>1. Sysv!TypeOK'
  <2>1. /\ main' \in {"msgget", "fork", "wait", "stat", "msgrcv",
                     "stat_after", "cleanup", "kill", "reap", "exited"}
        /\ child' \in {"msgsnd", "sent", "not_sent", "none", "zombie",
                      "vanished", "gone"}
        /\ status' \in {"none", "0", "120", "signal"}
        /\ queue' \in {"none", "exists", "removed", "left"}
        /\ waitError' \in {"none", "ECHILD", "other"}
        /\ result' \in {"EXIT_SUCCESS", "EXIT_FAILURE"}
    OBVIOUS
  <2>2. /\ received' \in BOOLEAN /\ child_reaped' \in BOOLEAN
        /\ ignored' \in BOOLEAN /\ givenUp' \in BOOLEAN
    OBVIOUS
  <2>3. queued' \in 0 .. 1 /\ faults' \in Nat
    BY DEF SysvQueueTracked
  <2>. QED  BY <2>1, <2>2, <2>3
<1>2. SysvQueueTracked'
  BY DEF SysvQueueTracked, SysvStage
<1>3. SysvStage'
  BY DEF SysvStage, SysvQueueTracked
<1>4. SysvOutcome'
  BY DEF SysvOutcome, SysvStage, SysvQueueTracked
<1>. QED  BY <1>1, <1>2, <1>3, <1>4 DEF SysvInvariant

(* The child ends (lines 52-53). *)
LEMMA SysvChildExitsPreserves ==
  ASSUME SysvInvariant, Sysv!ChildExits
  PROVE  SysvInvariant'
<1>. USE DEF SysvInvariant, Sysv!ChildExits, Sysv!ChildEnds
<1>1. Sysv!TypeOK'
  <2>1. /\ main' \in {"msgget", "fork", "wait", "stat", "msgrcv",
                     "stat_after", "cleanup", "kill", "reap", "exited"}
        /\ child' \in {"msgsnd", "sent", "not_sent", "none", "zombie",
                      "vanished", "gone"}
        /\ status' \in {"none", "0", "120", "signal"}
        /\ queue' \in {"none", "exists", "removed", "left"}
        /\ waitError' \in {"none", "ECHILD", "other"}
        /\ result' \in {"EXIT_SUCCESS", "EXIT_FAILURE"}
    OBVIOUS
  <2>2. /\ received' \in BOOLEAN /\ child_reaped' \in BOOLEAN
        /\ ignored' \in BOOLEAN /\ givenUp' \in BOOLEAN
    OBVIOUS
  <2>3. queued' \in 0 .. 1 /\ faults' \in Nat
    BY DEF SysvQueueTracked
  <2>. QED  BY <2>1, <2>2, <2>3
<1>2. SysvQueueTracked'
  BY DEF SysvQueueTracked, SysvStage
<1>3. SysvStage'
  BY DEF SysvStage, SysvQueueTracked
<1>4. SysvOutcome'
  BY DEF SysvOutcome, SysvStage, SysvQueueTracked
<1>. QED  BY <1>1, <1>2, <1>3, <1>4 DEF SysvInvariant

(* The invariant holds before anything is done. *)
LEMMA SysvInit ==
  ASSUME Sysv!Init
  PROVE  SysvInvariant
<1>. USE DEF Sysv!Init
<1>1. Sysv!TypeOK
  <2>1. /\ main \in {"msgget", "fork", "wait", "stat", "msgrcv",
                     "stat_after", "cleanup", "kill", "reap", "exited"}
        /\ child \in {"msgsnd", "sent", "not_sent", "none", "zombie",
                      "vanished", "gone"}
        /\ status \in {"none", "0", "120", "signal"}
        /\ queue \in {"none", "exists", "removed", "left"}
        /\ waitError \in {"none", "ECHILD", "other"}
        /\ result \in {"EXIT_SUCCESS", "EXIT_FAILURE"}
    OBVIOUS
  <2>2. /\ received \in BOOLEAN /\ child_reaped \in BOOLEAN
        /\ ignored \in BOOLEAN /\ givenUp \in BOOLEAN
    OBVIOUS
  <2>3. queued \in 0 .. 1 /\ faults \in Nat
    BY DEF SysvQueueTracked
  <2>. QED  BY <2>1, <2>2, <2>3
<1>2. SysvQueueTracked
  BY DEF SysvQueueTracked
<1>3. SysvStage
  BY DEF SysvStage
<1>4. SysvOutcome
  BY DEF SysvOutcome
<1>. QED  BY <1>1, <1>2, <1>3, <1>4 DEF SysvInvariant

(* Every step keeps it. *)
LEMMA SysvStep ==
  ASSUME SysvInvariant, Sysv!Next
  PROVE  SysvInvariant'
<1>1. CASE Sysv!MainStep
  BY <1>1, SysvMakeQueuePreserves, SysvForkPreserves, SysvWaitPreserves,
     SysvCountBeforePreserves, SysvReceivePreserves, SysvCountAfterPreserves,
     SysvCleanupRemovesPreserves, SysvCleanupKillsPreserves,
     SysvCleanupReapsPreserves
     DEF Sysv!MainStep
<1>2. CASE Sysv!WaitFails \/ Sysv!CleanupReapsFails \/ Sysv!ChildStep
  BY <1>2, SysvWaitFailsPreserves, SysvCleanupReapsFailsPreserves,
     SysvChildSendsPreserves, SysvChildExitsPreserves
     DEF Sysv!ChildStep
<1>3. CASE Sysv!Exited
  BY <1>3 DEF Sysv!Exited, Sysv!vars, SysvInvariant, SysvQueueTracked,
             SysvStage, SysvOutcome
<1>. QED  BY <1>1, <1>2, <1>3 DEF Sysv!Next

-----------------------------------------------------------------------------
(* All of them: a step that changes nothing keeps the invariants.          *)
LEMMA StutterPreserves ==
  ASSUME ChildInvariant, UNCHANGED vars
  PROVE  ChildInvariant'
<1>. USE DEF vars, common, shared, own
<1>1. FdInvariant => FdInvariant'
  BY DEF FdInvariant, FdDescriptors, FdStage,
         FdBytes, FdOutcome
<1>2. SpawnInvariant => SpawnInvariant'
  BY DEF SpawnInvariant,
         SpawnDescriptors, SpawnRedirected, SpawnStage, SpawnBytes,
         SpawnOutcome
<1>3. SessionInvariant => SessionInvariant'
  BY DEF SessionInvariant,
         SessionEnds, SessionStage, SessionBytes, SessionOutcome
<1>4. FifoInvariant => FifoInvariant'
  BY DEF FifoInvariant, FifoEnds,
         FifoStage, FifoBytes, FifoOutcome
<1>5. SharedInvariant => SharedInvariant'
  BY DEF SharedInvariant, SharedHeld,
         SharedStage, SharedValue, SharedOutcome
<1>6. PidInvariant => PidInvariant'
  BY DEF PidInvariant, PidStage, PidOutcome
<1>7. SysvInvariant => SysvInvariant'
  BY DEF SysvInvariant, SysvQueueTracked,
         SysvStage, SysvOutcome
<1>. QED  BY <1>1, <1>2, <1>3, <1>4, <1>5, <1>6, <1>7
          DEF ChildInvariant

(* The invariant holds for every value of the constants. *)
THEOREM Invariance == Spec => []ChildInvariant
<1>1. Init => ChildInvariant
  BY FdInit, SpawnInit, SessionInit, FifoInit, SharedInit, PidInit, SysvInit
     DEF Init, ChildInvariant
<1>2. ChildInvariant /\ [Next]_vars => ChildInvariant'
  <2>1. SUFFICES ASSUME ChildInvariant, [Next]_vars PROVE ChildInvariant'
    OBVIOUS
  <2>2. CASE Of("fd_passing", Fd!Next)
    BY <2>1, <2>2, FdStep DEF ChildInvariant, Of
  <2>3. CASE Of("process_control", Spawn!Next)
    BY <2>1, <2>3, SpawnStep DEF ChildInvariant, Of
  <2>4. CASE Of("process_groups", Session!Next)
    BY <2>1, <2>4, SessionStep DEF ChildInvariant, Of
  <2>5. CASE Of("fifo", Fifo!Next)
    BY <2>1, <2>5, FifoStep DEF ChildInvariant, Of
  <2>6. CASE Of("shared_memory", Shared!Next)
    BY <2>1, <2>6, SharedStep DEF ChildInvariant, Of
  <2>7. CASE Of("pidfd", Pid!Next)
    BY <2>1, <2>7, PidStep DEF ChildInvariant, Of
  <2>8. CASE Of("sysv_message_queue", Sysv!Next)
    BY <2>1, <2>8, SysvStep DEF ChildInvariant, Of
  <2>9. CASE UNCHANGED vars
    BY <2>1, <2>9, StutterPreserves
  <2>. QED  BY <2>1, <2>2, <2>3, <2>4, <2>5, <2>6, <2>7, <2>8, <2>9 DEF Next
<1>. QED  BY <1>1, <1>2, PTL DEF Spec

(* From the moment the descriptor is sent until the child reads, the whole *)
(* payload is in the pipe the parent has closed (09, lines 229-250,        *)
(* 210-213).                                                               *)
THEOREM HandoverCorrect == Spec => []PayloadSurvivesHandover
<1>1. ChildInvariant => PayloadSurvivesHandover
  BY DEF ChildInvariant, FdInvariant, FdBytes, PayloadSurvivesHandover,
         Fd!PayloadSurvivesHandover
<1>. QED  BY <1>1, Invariance, PTL

(* Whatever numbers the pipe got, the child's standard output is its write *)
(* end, and it has no other end of it (05, lines 34-44, 74-80).            *)
THEOREM RedirectionCorrect == Spec => []StdoutIsPipe
<1>1. ChildInvariant => StdoutIsPipe
  BY DEF ChildInvariant, SpawnInvariant, SpawnRedirected, StdoutIsPipe,
         Spawn!StdoutIsPipe, Spawn!STDOUT_FILENO
<1>. QED  BY <1>1, Invariance, PTL

(* When the program polls, all that is missing is in the FIFO (25, comment *)
(* of lines 125-126).                                                      *)
THEOREM PollCorrect == Spec => []PollNeverWaits
<1>1. ChildInvariant => PollNeverWaits
  BY DEF ChildInvariant, FifoInvariant, FifoStage, FifoBytes,
         PollNeverWaits, Fifo!PollNeverWaits
<1>. QED  BY <1>1, Invariance, PTL

(* SIGTERM goes to a process that is still this child, never to a pid the  *)
(* kernel has given away (25:130-132, 26:58-60).                           *)
THEOREM KillCorrect == Spec => []KillHitsChild
<1>1. ChildInvariant => KillHitsChild
  <2>1. FifoInvariant => Fifo!KillHitsChild
    BY DEF FifoInvariant, FifoStage, Fifo!KillHitsChild
  <2>2. SysvInvariant => Sysv!KillHitsChild
    BY DEF SysvInvariant, SysvStage, Sysv!KillHitsChild
  <2>. QED  BY <2>1, <2>2 DEF ChildInvariant, KillHitsChild
<1>. QED  BY <1>1, Invariance, PTL

(* The semaphore is not destroyed under a child that may still wait for    *)
(* it, and the output is read only when nobody writes it (08, lines        *)
(* 106-137).                                                               *)
THEOREM SharingCorrect == Spec => []SharedStateOutlivesChild
<1>1. ChildInvariant => SharedStateOutlivesChild
  <2>1. SharedInvariant => Shared!SharedStateOutlivesChild
    BY DEF SharedInvariant, SharedHeld, SharedStage, SharedValue,
           Shared!SharedStateOutlivesChild
  <2>. QED  BY <2>1 DEF ChildInvariant, SharedStateOutlivesChild
<1>. QED  BY <1>1, Invariance, PTL
-----------------------------------------------------------------------------
(* The refinement: a step of a program is a step of ChildExchange, or      *)
(* changes nothing of what that speaks of.                                 *)

(* A step of the child is one of ChildExchange, also when the program has  *)
(* returned, which then has given it up.                                   *)
LEMMA ChildGoesOn ==
  ASSUME State.faulty => State'.faulty,
         State.verdict # "running" => State.givenUp /\ ~State'.held,
         Exchange!End \/ Exchange!Exchange \/ Exchange!Manage
  PROVE  Exchange!ExchangeNext
  BY DEF Exchange!ExchangeNext, Exchange!GoesOn

USE FdConstants
    DEF Fd!CapacityAssumption, Fd!TypeOK, Fd!Descriptors, Fd!Alive, Fd!kid,
        Fd!channel, Fd!outcome

(* 09_fd_passing (lines 168-258). *)
LEMMA FdRefines ==
  ASSUME FdInvariant, FdInvariant', Fd!Next, State = Fd!ExchangeState,
         State' = Fd!ExchangeState'
  PROVE  [Exchange!ExchangeNext]_(Exchange!exchangeVars)
<1>. USE DEF Exchange!ExchangeNext, Exchange!exchangeVars, Fd!ExchangeState,
             FdInvariant
<1>1. CASE Fd!SocketPair
  BY <1>1, ZenonT(60)
     DEF Fd!SocketPair, Fd!Gain, Fd!Exit, Fd!Fault, Exchange!Manage,
         Exchange!Return, FdDescriptors, FdStage, FdBytes, FdOutcome
<1>2. CASE Fd!Fork
  BY <1>2, ZenonT(60)
     DEF Fd!Fork, Fd!Lose, Fd!Exit, Fd!Fault, Exchange!Start, Exchange!Return,
         FdDescriptors, FdStage, FdBytes, FdOutcome
<1>3. CASE Fd!CloseCh1
  BY <1>3 DEF Fd!CloseCh1, Fd!Parent, Fd!Lose, Exchange!Manage, FdDescriptors
<1>4. CASE Fd!MakePipe
  BY <1>4 DEF Fd!MakePipe, Fd!Gain, Fd!Abandon, Fd!Lose, Fd!PipeFollows,
              Fd!Fault, Exchange!Manage, FdOutcome
<1>5. CASE Fd!Write
  BY <1>5 DEF Fd!Write, Exchange!Manage
<1>6. CASE Fd!WriteFails
  BY <1>6 DEF Fd!WriteFails, Fd!Abandon, Fd!Lose, Fd!PipeFollows, Fd!Fault,
              Exchange!Manage, FdOutcome
<1>7. CASE Fd!ClosePw
  BY <1>7 DEF Fd!ClosePw, Fd!Parent, Fd!Lose, Exchange!Manage, FdDescriptors
<1>8. CASE Fd!Send
  BY <1>8 DEF Fd!Send, Fd!Abandon, Fd!Lose, Fd!PipeFollows, Fd!Fault,
              Exchange!Manage, FdOutcome
<1>9. CASE Fd!CloseAll
  BY <1>9 DEF Fd!CloseAll, Fd!Parent, Fd!Lose, Fd!PipeFollows,
              Exchange!Manage, FdOutcome
<1>10. CASE Fd!Kill
  BY <1>10 DEF Fd!Kill, Fd!Parent, Fd!ChildEnds, Fd!PipeFollows,
               Exchange!Manage, Exchange!End, FdDescriptors, FdStage, FdBytes,
               FdOutcome
<1>11. CASE Fd!Reap
  <2>1. /\ State'.child = "gone"
        /\ State.child \in {"zombie", "gone"}
    BY <1>11 DEF Fd!Reap
  <2>2. /\ State'.status = State.status /\ State'.exchanged = State.exchanged
        /\ State.verdict = "running" /\ State'.faulty = State.faulty
        /\ State'.givenUp = State.givenUp /\ State.givenUp = FALSE
    BY <1>11 DEF Fd!Reap, FdOutcome, FdStage
  <2>3. ~State'.held
    BY <1>11 DEF Fd!Reap, FdDescriptors
  <2>4. /\ State'.verdict \in {"EXIT_SUCCESS", "EXIT_FAILURE"}
        /\ State'.verdict = "EXIT_SUCCESS"
             => State.exchanged /\ State.status = "well"
    BY <1>11 DEF Fd!Reap, Fd!Exit, FdOutcome
  <2>5. State'.verdict = "EXIT_FAILURE" => State'.faulty
    BY <1>11 DEF FdOutcome
  <2>. HIDE DEF Fd!ExchangeState
  <2>. QED  BY <2>1, <2>2, <2>3, <2>4, <2>5 DEF Exchange!Return
<1>12. CASE Fd!ReapFails
  <2>1. State'.child = State.child /\ State.child # "none"
    BY <1>12 DEF Fd!ReapFails, FdStage
  <2>2. /\ State'.status = State.status /\ State'.exchanged = State.exchanged
        /\ State.verdict = "running" /\ State'.verdict = "EXIT_FAILURE"
        /\ State'.givenUp /\ State'.faulty
    BY <1>12 DEF Fd!ReapFails, Fd!Exit, Fd!Fault, FdOutcome
  <2>3. ~State'.held
    BY <1>12 DEF Fd!ReapFails, FdDescriptors
  <2>. HIDE DEF Fd!ExchangeState
  <2>. QED  BY <2>1, <2>2, <2>3 DEF Exchange!Return
<1>13. ASSUME Fd!ChildStep \/ Fd!ReadFails
       PROVE  /\ State.verdict # "running" => State.givenUp /\ ~State'.held
              /\ State'.verdict = State.verdict
              /\ State'.givenUp = State.givenUp
  <2>1. /\ result' = result /\ givenUp' = givenUp
        /\ child \in Fd!Alive /\ fds'["parent"] = fds["parent"]
    BY <1>13 DEF Fd!ChildStep, Fd!CloseCh0, Fd!Receive, Fd!SetCloexec,
                 Fd!Read, Fd!ReadFails, Fd!ChildExits, Fd!Child, Fd!Lose,
                 Fd!Gain, Fd!ChildEnds
  <2>2. result # "running" => givenUp /\ fds["parent"] = {}
    BY <2>1 DEF FdStage, FdOutcome, FdDescriptors
  <2>. QED  BY <2>1, <2>2
<1>14. CASE Fd!Receive \/ Fd!SetCloexec
  <2>1. State'.exchanged = State.exchanged /\ State.child = "alive"
    BY <1>14 DEF Fd!Receive, Fd!SetCloexec
  <2>2. State.faulty => State'.faulty
    BY <1>14 DEF Fd!Receive, Fd!SetCloexec, Fd!Fault
  <2>3. \/ State'.child = State.child /\ State'.status = State.status
        \/ /\ State'.child = IF ignored THEN "gone" ELSE "zombie"
           /\ State'.status = "ill" /\ State'.faulty
    <3>1. CASE child' \in Fd!Alive
      BY <1>14, <2>1, <3>1
         DEF Fd!Receive, Fd!SetCloexec, Fd!ChildEnds, Fd!Fault
    <3>2. CASE child' \notin Fd!Alive
      <4>1. /\ child' = IF ignored THEN "vanished" ELSE "zombie"
            /\ status' = "2" /\ faults' > 0
        BY <1>14, <3>2 DEF Fd!Receive, Fd!SetCloexec, Fd!ChildEnds, Fd!Fault
      <4>. QED  BY <4>1
    <3>. QED  BY <3>1, <3>2
  <2>4. ignored => State.faulty
    OBVIOUS
  <2>5. Fd!ChildStep
    BY <1>14 DEF Fd!ChildStep
  <2>6. Exchange!End \/ Exchange!Manage
    <3>. HIDE DEF Fd!ExchangeState
    <3>. QED  BY <1>13, <2>1, <2>3, <2>4, <2>5
              DEF Exchange!End, Exchange!Manage
  <2>. QED  BY <1>13, <2>2, <2>5, <2>6, ChildGoesOn
<1>15. CASE Fd!Read
  <2>1. /\ State'.child = State.child /\ State'.status = State.status
        /\ State'.held = State.held /\ State'.faulty = State.faulty
        /\ State.child # "none"
    BY <1>15 DEF Fd!Read
  <2>2. got = PAYLOAD => got' = PAYLOAD
    BY <1>15 DEF Fd!Read, FdBytes
  <2>3. State.exchanged => State'.exchanged
    BY <2>2
  <2>4. State.exchanged \in BOOLEAN /\ State'.exchanged \in BOOLEAN
    OBVIOUS
  <2>5. Fd!ChildStep
    BY <1>15 DEF Fd!ChildStep
  <2>6. Exchange!Exchange \/ Exchange!Manage
    <3>. HIDE DEF Fd!ExchangeState
    <3>. QED  BY <1>13, <2>1, <2>3, <2>4, <2>5
              DEF Exchange!Exchange, Exchange!Manage
  <2>. QED  BY <1>13, <2>1, <2>5, <2>6, ChildGoesOn
<1>16. CASE Fd!CloseCh0 \/ Fd!ReadFails
  <2>1. Exchange!Manage
    BY <1>16 DEF Fd!CloseCh0, Fd!ReadFails, Fd!Child, Exchange!Manage
  <2>2. State.faulty => State'.faulty
    BY <1>16 DEF Fd!CloseCh0, Fd!ReadFails, Fd!Fault
  <2>3. Fd!ChildStep \/ Fd!ReadFails
    BY <1>16 DEF Fd!ChildStep
  <2>. QED  BY <1>13, <2>1, <2>2, <2>3, ChildGoesOn
<1>17. CASE Fd!ChildExits
  <2>1. State'.exchanged = State.exchanged /\ State.child = "alive"
    BY <1>17 DEF Fd!ChildExits
  <2>2. State'.child = IF ignored THEN "gone" ELSE "zombie"
    BY <1>17 DEF Fd!ChildExits, Fd!ChildEnds
  <2>3. State'.status = "well" \/ (State'.status = "ill" /\ State'.faulty)
    BY <1>17 DEF Fd!ChildExits, Fd!ChildEnds, FdOutcome
  <2>4. (ignored => State.faulty) /\ (State.faulty => State'.faulty)
    BY <1>17 DEF Fd!ChildExits
  <2>5. Fd!ChildStep
    BY <1>17 DEF Fd!ChildStep
  <2>6. Exchange!End
    <3>. HIDE DEF Fd!ExchangeState
    <3>. QED  BY <1>13, <2>1, <2>2, <2>3, <2>4, <2>5 DEF Exchange!End
  <2>. QED  BY <1>13, <2>4, <2>5, <2>6, ChildGoesOn
<1>18. CASE Fd!Exited
  BY <1>18 DEF Fd!Exited, Fd!vars
<1>. QED  BY <1>1, <1>2, <1>3, <1>4, <1>5, <1>6, <1>7, <1>8, <1>9, <1>10,
             <1>11, <1>12, <1>14, <1>15, <1>16, <1>17, <1>18
          DEF Fd!Next, Fd!ParentStep, Fd!ChildStep

USE SpawnConstants
    DEF Spawn!OutputAssumption, Spawn!TypeOK, Spawn!Numbers, Spawn!kid

(* 05_process_control (lines 89-156). *)
LEMMA SpawnRefines ==
  ASSUME SpawnInvariant, SpawnInvariant', Spawn!Next,
         State = Spawn!ExchangeState, State' = Spawn!ExchangeState'
  PROVE  [Exchange!ExchangeNext]_(Exchange!exchangeVars)
<1>. USE DEF Exchange!ExchangeNext, Exchange!exchangeVars,
             Spawn!ExchangeState, SpawnInvariant
<1>1. CASE Spawn!MakePipe
  BY <1>1 DEF Spawn!MakePipe, Spawn!Goes, Spawn!Fails, Exchange!Manage
<1>2. CASE Spawn!PrepareActions
  BY <1>2 DEF Spawn!PrepareActions, Spawn!Goes, Spawn!Fails, Exchange!Manage
<1>3. CASE Spawn!Spawn
  BY <1>3 DEF Spawn!Spawn, Spawn!Goes, Spawn!Fails, Exchange!Manage,
              Exchange!Start, SpawnStage
<1>4. CASE Spawn!DestroyActions
  BY <1>4 DEF Spawn!DestroyActions, Spawn!Goes, Spawn!Fails, Exchange!Manage
<1>5. CASE Spawn!CloseWriter
  BY <1>5 DEF Spawn!CloseWriter, Spawn!Goes, Spawn!Fails, Exchange!Manage
<1>6. CASE Spawn!ReadOutput
  <2>1. /\ State'.child = State.child /\ State'.status = State.status
        /\ State'.verdict = State.verdict /\ State.verdict = "running"
        /\ State'.held = State.held /\ State'.faulty = State.faulty
        /\ State'.givenUp = State.givenUp /\ State.child # "none"
    BY <1>6 DEF Spawn!ReadOutput, Spawn!Goes, SpawnStage, SpawnOutcome
  <2>2. got = OUTPUT => got' = OUTPUT
    BY <1>6 DEF Spawn!ReadOutput, Spawn!Goes, SpawnBytes
  <2>3. State.exchanged => State'.exchanged
    BY <2>2
  <2>4. State.exchanged \in BOOLEAN /\ State'.exchanged \in BOOLEAN
    OBVIOUS
  <2>. HIDE DEF Spawn!ExchangeState
  <2>. QED  BY <2>1, <2>3, <2>4 DEF Exchange!Manage, Exchange!Exchange
<1>7. CASE Spawn!ReadFails
  BY <1>7 DEF Spawn!ReadFails, Spawn!Goes, Spawn!Fails, Exchange!Manage
<1>8. CASE Spawn!Wait \/ Spawn!WaitFails
  BY <1>8 DEF Spawn!Wait, Spawn!WaitFails, Spawn!Goes, Spawn!Fails,
              Exchange!Manage, Exchange!Reap, SpawnStage
<1>9. CASE Spawn!Verify
  BY <1>9 DEF Spawn!Verify, Spawn!Goes, Exchange!Manage
<1>10. CASE Spawn!Cleanup
  <2>1. State'.child = State.child /\ State'.status = State.status
    BY <1>10 DEF Spawn!Cleanup
  <2>2. /\ State'.exchanged = State.exchanged /\ State.verdict = "running"
        /\ State.faulty => State'.faulty
        /\ State'.givenUp = State.givenUp /\ State.givenUp = FALSE
    BY <1>10 DEF Spawn!Cleanup, Spawn!Goes, SpawnStage
  <2>3. ~State'.held
    BY <1>10 DEF Spawn!Cleanup, SpawnDescriptors
  <2>4. \/ State'.verdict = "running"
        \/ State'.child \in {"none", "gone"} /\ State'.verdict = result'
    BY <1>10 DEF Spawn!Cleanup, Spawn!Goes
  <2>5. /\ result' = "EXIT_SUCCESS"
             => State'.exchanged /\ State.status = "well"
        /\ result' = "EXIT_FAILURE" => State'.faulty
    BY <1>10 DEF Spawn!Cleanup, Spawn!Goes, SpawnOutcome
  <2>6. result' \in {"EXIT_SUCCESS", "EXIT_FAILURE"}
    OBVIOUS
  <2>. HIDE DEF Spawn!ExchangeState
  <2>. QED  BY <2>1, <2>2, <2>3, <2>4, <2>5, <2>6
            DEF Exchange!Manage, Exchange!Return
<1>11. CASE Spawn!CleanupWait
  <2>1. /\ State.child \in {"zombie", "gone"} /\ State'.child = "gone"
        /\ State'.status = State.status /\ State.verdict = "running"
        /\ State'.givenUp = State.givenUp
    BY <1>11 DEF Spawn!CleanupWait, Spawn!Goes, SpawnStage
  <2>2. State'.exchanged = State.exchanged /\ State'.faulty = State.faulty
    BY <1>11 DEF Spawn!CleanupWait
  <2>3. ~State'.held
    BY <1>11 DEF Spawn!CleanupWait, Spawn!Goes, SpawnDescriptors
  <2>4. State'.verdict = "EXIT_FAILURE" /\ State'.faulty
    BY <1>11 DEF Spawn!CleanupWait, Spawn!Goes, SpawnOutcome, SpawnStage
  <2>. HIDE DEF Spawn!ExchangeState
  <2>. QED  BY <2>1, <2>2, <2>3, <2>4 DEF Exchange!Return
<1>12. CASE Spawn!CleanupWaitFails
  <2>1. /\ State.child # "none" /\ State'.child = State.child
        /\ State'.status = State.status /\ State.verdict = "running"
        /\ State'.exchanged = State.exchanged
    BY <1>12 DEF Spawn!CleanupWaitFails, Spawn!Goes, SpawnStage
  <2>2. ~State'.held
    BY <1>12 DEF Spawn!CleanupWaitFails, Spawn!Goes, SpawnDescriptors
  <2>3. child # "reaped"
    BY <1>12 DEF Spawn!CleanupWaitFails, Spawn!Goes, SpawnStage
  <2>4. result' = "EXIT_FAILURE"
    BY <1>12, <2>3 DEF Spawn!CleanupWaitFails, SpawnOutcome
  <2>5. main' = "exited" /\ givenUp' = TRUE /\ faults' > 0
    BY <1>12 DEF Spawn!CleanupWaitFails, Spawn!Goes
  <2>6. State'.verdict = "EXIT_FAILURE" /\ State'.faulty /\ State'.givenUp
    BY <2>4, <2>5
  <2>. HIDE DEF Spawn!ExchangeState
  <2>. QED  BY <2>1, <2>2, <2>6 DEF Exchange!Return
<1>13. CASE Spawn!PrintOutput
  <2>1. /\ State'.exchanged = State.exchanged /\ State'.held = State.held
        /\ State'.verdict = State.verdict /\ State.child = "alive"
        /\ State'.givenUp = State.givenUp
    BY <1>13 DEF Spawn!PrintOutput
  <2>2. State.verdict # "running" => State.givenUp /\ ~State'.held
    <3>1. main = "exited" => givenUp
      BY <1>13 DEF Spawn!PrintOutput, SpawnStage
    <3>2. main = "exited" => ~State.held
      BY DEF SpawnDescriptors
    <3>. QED  BY <2>1, <3>1, <3>2
  <2>3. State.faulty => State'.faulty
    BY <1>13 DEF Spawn!PrintOutput
  <2>4. \/ State'.child = State.child /\ State'.status = State.status
        \/ /\ \/ State'.child = "zombie"
              \/ State'.child = "gone" /\ State.faulty
           /\ status' \in {"0", "1", "signal"}
    BY <1>13 DEF Spawn!PrintOutput, Spawn!ChildEnds
  <2>5. /\ status' = "0" => State'.status = "well"
        /\ status' \in {"1", "signal"}
             => State'.status = "ill" /\ State'.faulty
    BY DEF SpawnOutcome
  <2>6. Exchange!Manage \/ Exchange!End
    <3>. HIDE DEF Spawn!ExchangeState
    <3>. QED  BY <2>1, <2>4, <2>5 DEF Exchange!Manage, Exchange!End
  <2>. QED  BY <2>2, <2>3, <2>6, ChildGoesOn
<1>14. CASE Spawn!Exited
  BY <1>14 DEF Spawn!Exited, Spawn!vars
<1>. QED  BY <1>1, <1>2, <1>3, <1>4, <1>5, <1>6, <1>7, <1>8, <1>9, <1>10,
             <1>11, <1>12, <1>13, <1>14
          DEF Spawn!Next, Spawn!MainStep

USE SessionConstants
    DEF Session!ReportAssumption, Session!TypeOK, Session!kid

(* 22_process_groups (lines 47-180). *)
LEMMA SessionRefines ==
  ASSUME SessionInvariant, SessionInvariant', Session!Next,
         State = Session!ExchangeState, State' = Session!ExchangeState'
  PROVE  [Exchange!ExchangeNext]_(Exchange!exchangeVars)
<1>. USE DEF Exchange!ExchangeNext, Exchange!exchangeVars,
             Session!ExchangeState, SessionInvariant
<1>1. CASE Session!MakePipe
  BY <1>1 DEF Session!MakePipe, Session!Goes, Session!Fails, Session!Fault,
              Exchange!Manage
<1>2. CASE Session!Fork
  BY <1>2 DEF Session!Fork, Session!Goes, Session!Fails, Session!Fault,
              Exchange!Manage, Exchange!Start, SessionStage
<1>3. CASE Session!CloseEnd("write", "close_write", "read")
  BY <1>3 DEF Session!CloseEnd, Session!Goes, Session!Fails, Session!Fault,
              Session!Close, Exchange!Manage
<1>4. CASE Session!ReadReport
  <2>1. /\ State'.child = State.child /\ State'.status = State.status
        /\ State'.verdict = State.verdict /\ State.verdict = "running"
        /\ State'.held = State.held /\ State'.faulty = State.faulty
        /\ State'.givenUp = State.givenUp /\ State.child # "none"
    BY <1>4 DEF Session!ReadReport, Session!Goes, SessionStage, SessionOutcome
  <2>2. got = REPORT => got' = REPORT /\ ids' = ids
    BY <1>4 DEF Session!ReadReport, Session!Goes, SessionBytes
  <2>3. State.exchanged => State'.exchanged
    BY <2>2
  <2>4. State.exchanged \in BOOLEAN /\ State'.exchanged \in BOOLEAN
    OBVIOUS
  <2>. HIDE DEF Session!ExchangeState
  <2>. QED  BY <2>1, <2>3, <2>4 DEF Exchange!Manage, Exchange!Exchange
<1>5. CASE Session!ReadFails
  BY <1>5 DEF Session!ReadFails, Session!Goes, Session!Fails, Session!Fault,
              Exchange!Manage
<1>6. CASE Session!CloseEnd("read", "close_read", "wait")
  BY <1>6 DEF Session!CloseEnd, Session!Goes, Session!Fails, Session!Fault,
              Session!Close, Exchange!Manage
<1>7. CASE Session!Wait \/ Session!WaitFails
  BY <1>7 DEF Session!Wait, Session!WaitFails, Session!Goes, Session!Fails,
              Session!Fault, Exchange!Manage, Exchange!Reap, SessionStage
<1>8. CASE Session!Verify
  BY <1>8 DEF Session!Verify, Session!Goes, Exchange!Manage
<1>9. CASE Session!CleanupCloses
  <2>1. State'.child = State.child /\ State'.status = State.status
    BY <1>9 DEF Session!CleanupCloses
  <2>2. /\ State'.exchanged = State.exchanged /\ State.verdict = "running"
        /\ State.faulty => State'.faulty
        /\ State'.givenUp = State.givenUp /\ State.givenUp = FALSE
    BY <1>9 DEF Session!CleanupCloses, Session!Goes, Session!Fault,
                SessionStage
  <2>3. ~State'.held
    BY <1>9 DEF Session!CleanupCloses
  <2>4. \/ State'.verdict = "running"
        \/ State'.child \in {"none", "gone"} /\ State'.verdict = result'
    BY <1>9 DEF Session!CleanupCloses, Session!Goes, SessionStage
  <2>5. /\ result' = "EXIT_SUCCESS"
             => State'.exchanged /\ State'.status = "well"
        /\ result' = "EXIT_FAILURE" => State'.faulty
    BY <1>9 DEF Session!CleanupCloses, Session!Goes, SessionOutcome
  <2>6. result' \in {"EXIT_SUCCESS", "EXIT_FAILURE"}
    OBVIOUS
  <2>. HIDE DEF Session!ExchangeState
  <2>. QED  BY <2>1, <2>2, <2>3, <2>4, <2>5, <2>6
            DEF Exchange!Manage, Exchange!Return
<1>10. CASE Session!CleanupWait \/ Session!CleanupWaitFails
  <2>1. /\ child \notin {"none", "gone"} /\ child_reaped = FALSE
        /\ main = "cleanup_wait" /\ main' = "exited"
    BY <1>10 DEF Session!CleanupWait, Session!CleanupWaitFails, Session!Goes,
                 SessionStage
  <2>2. /\ State'.status = State.status /\ State.verdict = "running"
        /\ State'.exchanged = State.exchanged
    BY <1>10, <2>1 DEF Session!CleanupWait, Session!CleanupWaitFails
  <2>3. ~State'.held
    BY <2>1 DEF SessionEnds
  <2>4. result = "EXIT_FAILURE"
    BY <2>1 DEF SessionOutcome
  <2>5. State'.verdict = "EXIT_FAILURE"
    BY <1>10, <2>1, <2>4 DEF Session!CleanupWait, Session!CleanupWaitFails
  <2>6. State'.faulty
    BY <2>1, <2>5 DEF SessionOutcome
  <2>7. \/ /\ State.child \in {"zombie", "gone"} /\ State'.child = "gone"
           /\ State'.givenUp = State.givenUp
        \/ /\ State'.child = State.child /\ State.child # "none"
           /\ State'.givenUp
    BY <1>10, <2>1 DEF Session!CleanupWait, Session!CleanupWaitFails
  <2>. HIDE DEF Session!ExchangeState
  <2>. QED  BY <2>2, <2>3, <2>5, <2>6, <2>7 DEF Exchange!Return
<1>11. ASSUME Session!ChildStep
       PROVE  /\ State.verdict # "running" => State.givenUp /\ ~State'.held
              /\ State.faulty => State'.faulty
              /\ State'.verdict = State.verdict
              /\ State'.givenUp = State.givenUp
              /\ State'.exchanged = State.exchanged
              /\ State.child = "alive"
  <2>1. /\ main' = main /\ result' = result /\ givenUp' = givenUp
        /\ ignored' = ignored /\ got' = got
        /\ faults' = faults \/ faults' = faults + 1
        /\ fds'["parent"] = fds["parent"]
        /\ child \in {"close_read", "setsid", "write", "exit"}
    BY <1>11
       DEF Session!ChildStep, Session!CloseReadEnd, Session!MakeSession,
           Session!WriteReport, Session!ChildExits, Session!ChildGoes,
           Session!Close, Session!Exit, Session!Fault
  <2>2. main = "exited" => givenUp /\ fds["parent"] = {}
    BY <2>1 DEF SessionStage, SessionEnds
  <2>3. ids' = ids \/ (got = 0 /\ got' = 0)
    BY <1>11
       DEF Session!ChildStep, Session!CloseReadEnd, Session!MakeSession,
           Session!WriteReport, Session!ChildExits, Session!ChildGoes,
           SessionBytes
  <2>4. State'.exchanged = State.exchanged
    BY <2>1, <2>3
  <2>5. State.faulty => State'.faulty
    BY <2>1
  <2>6. /\ State'.verdict = State.verdict /\ State'.givenUp = State.givenUp
        /\ State.child = "alive"
    BY <2>1
  <2>7. State.verdict # "running" => State.givenUp /\ ~State'.held
    BY <2>1, <2>2
  <2>. QED  BY <2>4, <2>5, <2>6, <2>7
<1>12. CASE Session!CloseReadEnd \/ Session!MakeSession
  <2>1. Session!ChildStep
    BY <1>12 DEF Session!ChildStep
  <2>2. State'.child = State.child /\ State'.status = State.status
    BY <1>12 DEF Session!CloseReadEnd, Session!MakeSession, Session!ChildGoes
  <2>3. Exchange!Manage
    <3>. HIDE DEF Session!ExchangeState
    <3>. QED  BY <1>11, <2>1, <2>2 DEF Exchange!Manage
  <2>. QED  BY <1>11, <2>1, <2>3, ChildGoesOn
<1>13. CASE Session!WriteReport \/ Session!ChildExits
  <2>1. Session!ChildStep
    BY <1>13 DEF Session!ChildStep
  <2>2. \/ State'.child = State.child /\ State'.status = State.status
        \/ /\ \/ State'.child = "zombie"
              \/ State'.child = "gone" /\ State.faulty
           /\ status' \in {"0", "2", "3", "signal"}
    BY <1>13
       DEF Session!WriteReport, Session!ChildExits, Session!Exit
  <2>3. /\ status' = "0" => State'.status = "well"
        /\ status' \in {"2", "3", "signal"}
             => State'.status = "ill" /\ State'.faulty
    BY DEF SessionOutcome
  <2>4. Exchange!Manage \/ Exchange!End
    <3>. HIDE DEF Session!ExchangeState
    <3>. QED  BY <1>11, <2>1, <2>2, <2>3 DEF Exchange!Manage, Exchange!End
  <2>. QED  BY <1>11, <2>1, <2>4, ChildGoesOn
<1>14. CASE Session!Exited
  BY <1>14 DEF Session!Exited, Session!vars
<1>. QED  BY <1>1, <1>2, <1>3, <1>4, <1>5, <1>6, <1>7, <1>8, <1>9, <1>10,
             <1>12, <1>13, <1>14
          DEF Session!Next, Session!ParentStep, Session!ChildStep

USE FifoConstants
    DEF Fifo!MessageAssumption, Fifo!TypeOK, Fifo!Alive, Fifo!paths,
        Fifo!channel, Fifo!kid

(* 25_fifo (lines 100-175). *)
LEMMA FifoRefines ==
  ASSUME FifoInvariant, FifoInvariant', Fifo!Next, State = Fifo!ExchangeState,
         State' = Fifo!ExchangeState'
  PROVE  [Exchange!ExchangeNext]_(Exchange!exchangeVars)
<1>. USE DEF Exchange!ExchangeNext, Exchange!exchangeVars, Fifo!ExchangeState,
             FifoInvariant
<1>1. CASE Fifo!MakeDirectory
  BY <1>1 DEF Fifo!MakeDirectory, Fifo!Goes, Fifo!Fails, Fifo!Fault,
              Exchange!Manage
<1>2. CASE Fifo!MakeFifo
  BY <1>2 DEF Fifo!MakeFifo, Fifo!Goes, Fifo!Fails, Fifo!Fault,
              Exchange!Manage
<1>3. CASE Fifo!VerifyFifo
  BY <1>3 DEF Fifo!VerifyFifo, Fifo!Goes, Fifo!Fails, Fifo!Fault,
              Exchange!Manage
<1>4. CASE Fifo!OpenReader
  BY <1>4 DEF Fifo!OpenReader, Fifo!Goes, Exchange!Manage
<1>5. CASE Fifo!OpenFails
  BY <1>5 DEF Fifo!OpenFails, Fifo!Goes, Fifo!Fails, Fifo!Fault,
              Exchange!Manage
<1>6. CASE Fifo!Fork
  BY <1>6 DEF Fifo!Fork, Fifo!Goes, Fifo!Fails, Fifo!Fault, Exchange!Manage,
              Exchange!Start, FifoStage
<1>7. CASE Fifo!Wait
  BY <1>7 DEF Fifo!Wait, Fifo!Goes, Fifo!Fails, Fifo!Fault, Exchange!Manage,
              Exchange!Reap, FifoStage
<1>8. CASE Fifo!WaitFails
  BY <1>8 DEF Fifo!WaitFails, Fifo!Goes, Fifo!Fails, Fifo!Fault,
              Exchange!Manage
<1>9. CASE Fifo!Receive
  <2>1. /\ State'.child = State.child /\ State'.status = State.status
        /\ State'.verdict = State.verdict /\ State.verdict = "running"
        /\ State'.faulty = State.faulty /\ State.child # "none"
        /\ State'.givenUp = State.givenUp
    BY <1>9 DEF Fifo!Receive, FifoStage
  <2>2. got = MESSAGE => got' = MESSAGE
    BY <1>9 DEF Fifo!Receive
  <2>3. State.exchanged => State'.exchanged
    BY <2>2
  <2>4. State.exchanged \in BOOLEAN /\ State'.exchanged \in BOOLEAN
    OBVIOUS
  <2>. HIDE DEF Fifo!ExchangeState
  <2>. QED  BY <2>1, <2>3, <2>4 DEF Exchange!Manage, Exchange!Exchange
<1>10. CASE Fifo!ReceiveFails
  BY <1>10 DEF Fifo!ReceiveFails, Fifo!Goes, Fifo!Fails, Fifo!Fault,
               Exchange!Manage
<1>11. CASE Fifo!CleanupKill
  BY <1>11, ZenonT(60)
     DEF Fifo!CleanupKill, Fifo!ChildEnds, Exchange!Manage, Exchange!End,
         FifoEnds, FifoStage, FifoBytes, FifoOutcome
<1>12. CASE Fifo!CleanupReap
  BY <1>12 DEF Fifo!CleanupReap, Fifo!Goes, Exchange!Manage, Exchange!Reap,
               FifoStage
<1>13. CASE Fifo!CleanupNoChild
  BY <1>13 DEF Fifo!CleanupNoChild, Fifo!Goes, Exchange!Manage
<1>14. CASE Fifo!CleanupRemove
  <2>1. /\ State'.child = State.child /\ State'.status = State.status
        /\ State.verdict = "running" /\ State'.givenUp = State.givenUp
    BY <1>14 DEF Fifo!CleanupRemove, Fifo!Goes
  <2>2. State'.exchanged = State.exchanged
    BY <1>14 DEF Fifo!CleanupRemove
  <2>3. ignored' = ignored /\ (faults' = faults \/ faults' = faults + 1)
    BY <1>14 DEF Fifo!CleanupRemove, Fifo!Fault
  <2>4. /\ State'.verdict = result'
        /\ result' \in {"EXIT_SUCCESS", "EXIT_FAILURE"}
    BY <1>14 DEF Fifo!CleanupRemove, Fifo!Goes
  <2>5. readers' = {} /\ (fifo' => directory')
    BY <1>14 DEF Fifo!CleanupRemove
  <2>6. directory' => result' = "EXIT_FAILURE" /\ faults' > 0
    BY <1>14 DEF Fifo!CleanupRemove, Fifo!Goes, FifoEnds
  <2>7. ~State'.held
    BY <2>5, <2>6
  <2>8. /\ result' = "EXIT_SUCCESS"
             => State'.exchanged /\ State'.status = "well"
        /\ result' = "EXIT_FAILURE" => State'.faulty
    BY <1>14 DEF Fifo!CleanupRemove, Fifo!Goes, FifoOutcome
  <2>9. State.faulty => State'.faulty
    BY <2>3
  <2>10. \/ State.child \in {"none", "gone"} /\ givenUp = FALSE
         \/ State.child # "none" /\ givenUp = TRUE
    BY <1>14 DEF Fifo!CleanupRemove, Fifo!Goes, FifoStage
  <2>11. result' = "EXIT_SUCCESS" => givenUp' = FALSE
    BY DEF FifoStage, FifoOutcome
  <2>12. State.givenUp = givenUp /\ State'.givenUp = givenUp'
    OBVIOUS
  <2>. HIDE DEF Fifo!ExchangeState
  <2>. QED  BY <2>1, <2>2, <2>4, <2>7, <2>8, <2>9, <2>10, <2>11, <2>12
            DEF Exchange!Return
<1>15. CASE Fifo!ChildCloses
  BY <1>15 DEF Fifo!ChildCloses, Exchange!Manage, FifoStage
<1>16. CASE Fifo!ChildOpens
  BY <1>16, ZenonT(60)
     DEF Fifo!ChildOpens, Fifo!ChildEnds, Fifo!Fault, Exchange!Manage,
         Exchange!End, FifoEnds, FifoStage, FifoBytes, FifoOutcome
<1>17. CASE Fifo!ChildWrites
  BY <1>17, ZenonT(60)
     DEF Fifo!ChildWrites, Fifo!ChildEnds, Fifo!Fault, Exchange!Manage,
         Exchange!End, FifoEnds, FifoStage, FifoBytes, FifoOutcome
<1>18. CASE Fifo!ChildExits
  BY <1>18, ZenonT(60)
     DEF Fifo!ChildExits, Fifo!ChildEnds, Fifo!Fault, Exchange!End, FifoEnds,
         FifoStage, FifoBytes, FifoOutcome
<1>19. CASE Fifo!CleanupReapFails
  <2>1. /\ State'.child = State.child /\ State.child # "none"
        /\ State'.status = State.status /\ State'.exchanged = State.exchanged
        /\ State.verdict = "running" /\ State'.verdict = "running"
    BY <1>19 DEF Fifo!CleanupReapFails, Fifo!Goes, FifoStage
  <2>2. givenUp = FALSE /\ givenUp' = TRUE /\ faults' > 0
    BY <1>19 DEF Fifo!CleanupReapFails, Fifo!Goes, Fifo!Fault, FifoStage
  <2>3. /\ State.givenUp = FALSE /\ State'.givenUp = TRUE
        /\ State'.faulty
    BY <2>2
  <2>. HIDE DEF Fifo!ExchangeState
  <2>. QED  BY <2>1, <2>3 DEF Exchange!GiveUp
<1>20. CASE Fifo!Exited
  BY <1>20 DEF Fifo!Exited, Fifo!vars
<1>. QED  BY <1>1, <1>2, <1>3, <1>4, <1>5, <1>6, <1>7, <1>8, <1>9, <1>10,
             <1>11, <1>12, <1>13, <1>14, <1>15, <1>16, <1>17, <1>18, <1>19,
             <1>20
          DEF Fifo!Next, Fifo!MainStep, Fifo!ChildStep

USE DEF Shared!TypeOK, Shared!Alive, Shared!kid

(* 08_shared_memory (lines 60-137). *)
LEMMA SharedRefines ==
  ASSUME SharedInvariant, SharedInvariant', Shared!Next,
         State = Shared!ExchangeState, State' = Shared!ExchangeState'
  PROVE  [Exchange!ExchangeNext]_(Exchange!exchangeVars)
<1>. USE DEF Exchange!ExchangeNext, Exchange!exchangeVars,
             Shared!ExchangeState, SharedInvariant
<1>1. CASE Shared!Prepare
  BY <1>1 DEF Shared!Prepare, Shared!SetUp, Shared!Goes, Shared!Fault,
              Exchange!Manage
<1>2. CASE Shared!Fork
  BY <1>2 DEF Shared!Fork, Shared!Goes, Shared!Fault, Exchange!Manage,
              Exchange!Start, SharedStage
<1>3. CASE Shared!Post
  BY <1>3 DEF Shared!Post, Shared!Goes, Shared!Fault, Exchange!Manage
<1>4. CASE Shared!Wait
  BY <1>4 DEF Shared!Wait, Shared!Goes, Shared!Fault, Exchange!Manage,
              Exchange!Reap, SharedStage
<1>5. CASE Shared!WaitFails
  BY <1>5 DEF Shared!WaitFails, Shared!Goes, Shared!Fault, Exchange!Manage
<1>6. CASE Shared!Kill
  BY <1>6, ZenonT(60)
     DEF Shared!Kill, Shared!Goes, Shared!ChildEnds, Exchange!Manage,
         Exchange!End, SharedHeld, SharedStage, SharedValue, SharedOutcome
<1>7. CASE Shared!Reap
  BY <1>7 DEF Shared!Reap, Shared!Goes, Exchange!Manage, Exchange!Reap,
              SharedStage
<1>8. CASE Shared!Verify
  BY <1>8 DEF Shared!Verify, Shared!Goes, Exchange!Manage
<1>9. CASE Shared!Release
  BY <1>9 DEF Shared!Release, Shared!Fault, Exchange!Manage
<1>10. CASE Shared!Return
  BY <1>10 DEF Shared!Return, Shared!Goes, Exchange!Return, SharedHeld,
               SharedStage, SharedValue, SharedOutcome
<1>11. CASE Shared!ChildWaits
  BY <1>11, ZenonT(60)
     DEF Shared!ChildWaits, Shared!ChildEnds, Shared!Fault, Exchange!Manage,
         Exchange!End, SharedHeld, SharedStage, SharedValue, SharedOutcome
<1>12. CASE Shared!ChildComputes
  BY <1>12 DEF Shared!ChildComputes, Exchange!Exchange, SharedHeld,
               SharedStage, SharedValue, SharedOutcome
<1>13. CASE Shared!ChildExits
  BY <1>13 DEF Shared!ChildExits, Shared!ChildEnds, Exchange!End, SharedStage
<1>14. CASE Shared!ReapFails
  <2>1. /\ State'.child = State.child /\ State.child # "none"
        /\ State'.status = State.status /\ State'.exchanged = State.exchanged
        /\ State.verdict = "running" /\ State'.verdict = "running"
    BY <1>14 DEF Shared!ReapFails, Shared!Goes, SharedStage
  <2>2. givenUp = FALSE /\ givenUp' = TRUE /\ faults' > 0
    BY <1>14 DEF Shared!ReapFails, Shared!Goes, Shared!Fault, SharedStage
  <2>3. /\ State.givenUp = FALSE /\ State'.givenUp = TRUE
        /\ State'.faulty
    BY <2>2
  <2>. HIDE DEF Shared!ExchangeState
  <2>. QED  BY <2>1, <2>3 DEF Exchange!GiveUp
<1>15. CASE Shared!Exited
  BY <1>15 DEF Shared!Exited, Shared!vars
<1>. QED  BY <1>1, <1>2, <1>3, <1>4, <1>5, <1>6, <1>7, <1>8, <1>9, <1>10,
             <1>11, <1>12, <1>13, <1>14, <1>15
          DEF Shared!Next, Shared!MainStep, Shared!ChildStep

USE PidConstants DEF Pid!TimeoutAssumption, Pid!TypeOK, Pid!kid

(* 17_pidfd (lines 53-124). *)
LEMMA PidRefines ==
  ASSUME PidInvariant, PidInvariant', Pid!Next, State = Pid!ExchangeState,
         State' = Pid!ExchangeState'
  PROVE  [Exchange!ExchangeNext]_(Exchange!exchangeVars)
<1>. USE DEF Exchange!ExchangeNext, Exchange!exchangeVars, Pid!ExchangeState,
             PidInvariant
<1>1. CASE Pid!Fork
  BY <1>1 DEF Pid!Fork, Pid!Goes, Pid!Fails, Pid!Fault, Exchange!Manage,
              Exchange!Start, PidStage
<1>2. CASE Pid!OpenPidFd
  BY <1>2 DEF Pid!OpenPidFd, Pid!Goes, Pid!Fails, Pid!Fault, Exchange!Manage
<1>3. CASE Pid!Poll
  BY <1>3 DEF Pid!Poll, Pid!Goes, Exchange!Exchange, Exchange!Manage,
              PidStage, PidOutcome
<1>4. CASE Pid!PollWaits
  BY <1>4 DEF Pid!PollWaits, Exchange!Manage
<1>5. CASE Pid!PollTimesOut
  BY <1>5 DEF Pid!PollTimesOut, Pid!Goes, Pid!Fails, Pid!Fault,
              Exchange!Manage
<1>6. CASE Pid!PollFails
  BY <1>6 DEF Pid!PollFails, Pid!Goes, Pid!Fails, Pid!Fault, Exchange!Manage
<1>7. CASE Pid!WaitByPidFd
  BY <1>7 DEF Pid!WaitByPidFd, Pid!Goes, Pid!Fails, Pid!Fault,
              Exchange!Manage, Exchange!Reap, PidStage
<1>8. CASE Pid!WaitByPidFdFails
  BY <1>8 DEF Pid!WaitByPidFdFails, Pid!Goes, Pid!Fails, Pid!Fault,
              Exchange!Manage
<1>9. CASE Pid!CleanupCloses
  BY <1>9 DEF Pid!CleanupCloses, Pid!Goes, Pid!Fault, Exchange!Manage,
              Exchange!Return, PidStage, PidOutcome
<1>10. CASE Pid!CleanupWaits
  BY <1>10 DEF Pid!CleanupWaits, Pid!Goes, Exchange!Return, PidStage,
               PidOutcome
<1>11. CASE Pid!ChildEnds
  <2>1. State.verdict # "running" => State.givenUp /\ ~State'.held
    BY <1>11 DEF Pid!ChildEnds, PidStage
  <2>2. (State.faulty => State'.faulty) /\ (ignored => State.faulty)
    BY <1>11 DEF Pid!ChildEnds, Pid!Fault
  <2>3. /\ State.child = "alive"
        /\ State'.child = IF ignored THEN "gone" ELSE "zombie"
        /\ State'.exchanged = State.exchanged
        /\ State'.givenUp = State.givenUp /\ State'.verdict = State.verdict
    BY <1>11 DEF Pid!ChildEnds
  <2>4. State'.status = "well" \/ (State'.status = "ill" /\ State'.faulty)
    <3>1. \/ status' = "42"
          \/ status' = "signal" /\ faults' > 0
      BY <1>11 DEF Pid!ChildEnds, Pid!Fault
    <3>. QED  BY <3>1
  <2>5. Exchange!End
    <3>. HIDE DEF Pid!ExchangeState
    <3>. QED  BY <2>2, <2>3, <2>4 DEF Exchange!End
  <2>. QED  BY <2>1, <2>2, <2>5, ChildGoesOn
<1>12. CASE Pid!CleanupWaitFails
  <2>1. /\ State'.child = State.child /\ State.child # "none"
        /\ State'.status = State.status /\ State'.exchanged = State.exchanged
        /\ State.verdict = "running" /\ State'.verdict = "EXIT_FAILURE"
    BY <1>12 DEF Pid!CleanupWaitFails, Pid!Goes, PidStage
  <2>2. pidfd' = "closed" /\ givenUp' = TRUE /\ faults' > 0
    BY <1>12 DEF Pid!CleanupWaitFails, Pid!Goes, Pid!Fault, PidStage
  <2>3. ~State'.held /\ State'.givenUp = TRUE /\ State'.faulty
    BY <2>2
  <2>. HIDE DEF Pid!ExchangeState
  <2>. QED  BY <2>1, <2>3 DEF Exchange!Return
<1>13. CASE Pid!Exited
  BY <1>13 DEF Pid!Exited, Pid!vars
<1>. QED  BY <1>1, <1>2, <1>3, <1>4, <1>5, <1>6, <1>7, <1>8, <1>9, <1>10,
             <1>11, <1>12, <1>13
          DEF Pid!Next, Pid!MainStep

USE DEF Sysv!TypeOK, Sysv!Alive, Sysv!kid

(* 26_sysv_message_queue (lines 55-127). *)
LEMMA SysvRefines ==
  ASSUME SysvInvariant, SysvInvariant', Sysv!Next, State = Sysv!ExchangeState,
         State' = Sysv!ExchangeState'
  PROVE  [Exchange!ExchangeNext]_(Exchange!exchangeVars)
<1>. USE DEF Exchange!ExchangeNext, Exchange!exchangeVars, Sysv!ExchangeState,
             SysvInvariant
<1>1. CASE Sysv!MakeQueue
  BY <1>1 DEF Sysv!MakeQueue, Sysv!Goes, Sysv!Fails, Sysv!Fault,
              Exchange!Manage
<1>2. CASE Sysv!Fork
  BY <1>2 DEF Sysv!Fork, Sysv!Goes, Sysv!Fails, Sysv!Fault, Exchange!Manage,
              Exchange!Start, SysvStage
<1>3. CASE Sysv!Wait
  BY <1>3 DEF Sysv!Wait, Sysv!Goes, Sysv!Fails, Sysv!Fault, Exchange!Manage,
              Exchange!Reap, SysvStage
<1>4. CASE Sysv!WaitFails
  BY <1>4 DEF Sysv!WaitFails, Sysv!Goes, Sysv!Fails, Sysv!Fault,
              Exchange!Manage
<1>5. CASE Sysv!Count("stat", 1, "msgrcv")
  BY <1>5 DEF Sysv!Count, Sysv!Goes, Sysv!Fails, Sysv!Fault, Exchange!Manage
<1>6. CASE Sysv!Receive
  BY <1>6 DEF Sysv!Receive, Sysv!Goes, Sysv!Fails, Sysv!Fault,
              Exchange!Exchange, Exchange!Manage, SysvQueueTracked
<1>7. CASE Sysv!Count("stat_after", 0, "cleanup")
  BY <1>7 DEF Sysv!Count, Sysv!Goes, Sysv!Fails, Sysv!Fault, Exchange!Manage
<1>8. CASE Sysv!CleanupRemoves
  <2>1. State'.child = State.child /\ State'.status = State.status
    BY <1>8 DEF Sysv!CleanupRemoves
  <2>2. /\ State'.exchanged = State.exchanged /\ State.verdict = "running"
        /\ State.faulty => State'.faulty
        /\ State'.givenUp = State.givenUp /\ State.givenUp = FALSE
    BY <1>8 DEF Sysv!CleanupRemoves, Sysv!Goes, Sysv!Fault, SysvStage
  <2>3. ~State'.held
    BY <1>8 DEF Sysv!CleanupRemoves
  <2>4. \/ State'.verdict = "running"
        \/ State'.child \in {"none", "gone"} /\ State'.verdict = result'
    BY <1>8 DEF Sysv!CleanupRemoves, Sysv!Goes, SysvStage
  <2>5. /\ result' = "EXIT_SUCCESS"
             => State'.exchanged /\ State'.status = "well"
        /\ result' = "EXIT_FAILURE" /\ main' = "exited" => State'.faulty
    BY <1>8 DEF Sysv!CleanupRemoves, SysvOutcome
  <2>6. /\ result' \in {"EXIT_SUCCESS", "EXIT_FAILURE"}
        /\ State'.verdict # "running" => main' = "exited"
    OBVIOUS
  <2>. HIDE DEF Sysv!ExchangeState
  <2>. QED  BY <2>1, <2>2, <2>3, <2>4, <2>5, <2>6
            DEF Exchange!Manage, Exchange!Return
<1>9. CASE Sysv!CleanupKills
  BY <1>9 DEF Sysv!CleanupKills, Sysv!Goes, Sysv!ChildEnds, Exchange!Manage,
              Exchange!End, SysvQueueTracked, SysvStage, SysvOutcome
<1>10. CASE Sysv!CleanupReaps
  BY <1>10 DEF Sysv!CleanupReaps, Sysv!Goes, Exchange!Return, Exchange!Reap,
               SysvQueueTracked, SysvStage, SysvOutcome
<1>11. CASE Sysv!ChildSends
  BY <1>11 DEF Sysv!ChildSends, Sysv!Fault, Exchange!Manage, SysvStage
<1>12. CASE Sysv!ChildExits
  BY <1>12 DEF Sysv!ChildExits, Sysv!ChildEnds, Exchange!End,
               SysvQueueTracked, SysvStage, SysvOutcome
<1>13. CASE Sysv!CleanupReapsFails
  <2>1. /\ State'.child = State.child /\ State.child # "none"
        /\ State'.status = State.status /\ State'.exchanged = State.exchanged
        /\ State.verdict = "running" /\ State'.verdict = "EXIT_FAILURE"
    BY <1>13 DEF Sysv!CleanupReapsFails, Sysv!Goes, SysvStage
  <2>2. queue' # "exists" /\ givenUp' = TRUE /\ faults' > 0
    BY <1>13 DEF Sysv!CleanupReapsFails, Sysv!Goes, Sysv!Fault,
                 SysvQueueTracked
  <2>3. ~State'.held /\ State'.givenUp = TRUE /\ State'.faulty
    BY <2>2
  <2>. HIDE DEF Sysv!ExchangeState
  <2>. QED  BY <2>1, <2>3 DEF Exchange!Return
<1>14. CASE Sysv!Exited
  BY <1>14 DEF Sysv!Exited, Sysv!vars
<1>. QED  BY <1>1, <1>2, <1>3, <1>4, <1>5, <1>6, <1>7, <1>8, <1>9, <1>10,
             <1>11, <1>12, <1>13, <1>14
          DEF Sysv!Next, Sysv!MainStep, Sysv!ChildStep

(* The seven programs implement ChildExchange: whatever fails and in       *)
(* whatever order program and child run, who returns holds nothing and has *)
(* reaped the child unless the last wait for it failed; success means that *)
(* the exchange took place with a child that ended well and was reaped,    *)
(* and failure that a call failed (the lines are with each program's       *)
(* ExchangeState).                                                         *)
THEOREM Refinement == Spec => ImplementsExchange
<1>1. Init => Exchange!ExchangeInit
  <2>. SUFFICES ASSUME Init PROVE Exchange!ExchangeInit
    OBVIOUS
  <2>. USE DEF State, Exchange!ExchangeInit
  <2>1. CASE program = "fd_passing" /\ Fd!Init
    BY <2>1, FdConstants
       DEF Fd!Init, Fd!ExchangeState, Fd!Alive, Fd!CapacityAssumption
  <2>2. CASE program = "process_control" /\ Spawn!Init
    <3>1. \A f \in Spawn!Numbers : table[f] \in {"other", "closed"}
      BY <2>2 DEF Spawn!Init, Spawn!Numbers
    <3>. QED  BY <2>2, <3>1, SpawnConstants
              DEF Spawn!Init, Spawn!ExchangeState, Spawn!OutputAssumption
  <2>3. CASE program = "process_groups" /\ Session!Init
    BY <2>3, SessionConstants
       DEF Session!Init, Session!ExchangeState, Session!ReportAssumption
  <2>4. CASE program = "fifo" /\ Fifo!Init
    BY <2>4, FifoConstants
       DEF Fifo!Init, Fifo!ExchangeState, Fifo!MessageAssumption
  <2>5. CASE program = "shared_memory" /\ Shared!Init
    BY <2>5 DEF Shared!Init, Shared!ExchangeState
  <2>6. CASE program = "pidfd" /\ Pid!Init
    BY <2>6 DEF Pid!Init, Pid!ExchangeState
  <2>7. CASE program = "sysv_message_queue" /\ Sysv!Init
    BY <2>7 DEF Sysv!Init, Sysv!ExchangeState, Sysv!Alive
  <2>. QED  BY <2>1, <2>2, <2>3, <2>4, <2>5, <2>6, <2>7 DEF Init
<1>2. ChildInvariant /\ ChildInvariant' /\ [Next]_vars
        => [Exchange!ExchangeNext]_(Exchange!exchangeVars)
  <2>. SUFFICES ASSUME ChildInvariant, ChildInvariant', [Next]_vars
                PROVE  [Exchange!ExchangeNext]_(Exchange!exchangeVars)
    OBVIOUS
  <2>. USE DEF ChildInvariant, Of, State
  <2>1. CASE Of("fd_passing", Fd!Next)
    BY <2>1, FdRefines
  <2>2. CASE Of("process_control", Spawn!Next)
    BY <2>2, SpawnRefines
  <2>3. CASE Of("process_groups", Session!Next)
    BY <2>3, SessionRefines
  <2>4. CASE Of("fifo", Fifo!Next)
    BY <2>4, FifoRefines
  <2>5. CASE Of("shared_memory", Shared!Next)
    BY <2>5, SharedRefines
  <2>6. CASE Of("pidfd", Pid!Next)
    BY <2>6, PidRefines
  <2>7. CASE Of("sysv_message_queue", Sysv!Next)
    BY <2>7, SysvRefines
  <2>8. CASE UNCHANGED vars
    BY <2>8 DEF vars, common, shared, own, Exchange!exchangeVars,
       Fd!ExchangeState, Spawn!ExchangeState, Session!ExchangeState,
       Fifo!ExchangeState, Shared!ExchangeState, Pid!ExchangeState,
       Sysv!ExchangeState
  <2>. QED  BY <2>1, <2>2, <2>3, <2>4, <2>5, <2>6, <2>7, <2>8 DEF Next
<1>. QED  BY <1>1, <1>2, Invariance, PTL
          DEF Spec, ImplementsExchange, Exchange!ExchangeSpec
=============================================================================
