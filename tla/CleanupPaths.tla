---------------------------- MODULE CleanupPaths ----------------------------
(***************************************************************************)
(* The experiments that are one sequence of calls: each call may fail and  *)
(* then jumps to the label cleanup, which releases what the variables of   *)
(* the program say it has (fd >= 0, file_created, mapping != MAP_FAILED).  *)
(* A program is the table of its calls, with the resources each uses,      *)
(* gives and takes, and the order in which cleanup releases them.  A check *)
(* of the data is part of the call it looks at; the data themselves, and   *)
(* the loops of TransferLoop and VectoredTransfer, are one call here.      *)
(***************************************************************************)
EXTENDS Naturals, Sequences

Call(c, u) == [call |-> c, uses |-> u, gives |-> {}, takes |-> {}]
Get(c, u, g) == [Call(c, u) EXCEPT !.gives = g]
Release(c, r) == [Call(c, {r}) EXCEPT !.takes = {r}]
Rename(c, u, r, s) == [Call(c, u) EXCEPT !.takes = {r}, !.gives = {s}]

(* Descriptors, which Linux closes even if close fails. *)
Descriptors ==
  {"fd", "dirfd", "filefd", "owner", "duplicate", "contender", "input_fd",
   "pipe_fds[0]", "pipe_fds[1]", "master_fd", "slave_fd", "directory_fd",
   "queue"}

(* Names in the directory of 02, which the program keeps no variable for. *)
Names == {"source.txt", "source.link", "renamed.txt"}

(* What cannot fail: umask and free. *)
Certain == {"umask", "free"}

-----------------------------------------------------------------------------
(* The programs. *)

file_io ==
  [body |-> <<
     Get("mkstemp", {}, {"fd", "path"}), Call("writev", {"fd"}),
     Call("pwrite", {"fd"}), Call("lseek", {"fd"}), Call("pread", {"fd"}),
     Call("lseek", {"fd"}), Call("lseek", {"fd"}), Call("readv", {"fd"})>>,
   cleanup |-> <<"fd", "path">>]

filesystem ==
  [body |-> <<
     Get("mkdtemp", {}, {"directory"}), Get("open", {"directory"}, {"dirfd"}),
     Get("openat", {"dirfd"}, {"filefd", "source.txt"}),
     Call("write", {"filefd"}), Release("close", "filefd"),
     Call("fstatat", {"dirfd", "source.txt"}),
     Get("symlinkat", {"dirfd"}, {"source.link"}),
     Call("openat", {"dirfd", "source.link"}),
     Rename("renameat", {"dirfd", "source.txt"}, "source.txt", "renamed.txt"),
     Release("unlinkat", "source.link"), Release("unlinkat", "renamed.txt")>>,
   cleanup |-> <<"filefd", "source.link", "source.txt", "renamed.txt",
                 "dirfd", "directory">>]

memory_mapping ==
  [body |-> <<
     Call("sysconf", {}), Get("mkstemp", {}, {"fd", "path"}),
     Call("ftruncate", {"fd"}), Get("mmap", {"fd"}, {"mapping"}),
     Call("msync", {"mapping"}), Release("munmap", "mapping"),
     Call("pread", {"fd"})>>,
   cleanup |-> <<"mapping", "fd", "path">>]

file_locking ==
  [body |-> <<
     Get("mkstemp", {}, {"owner", "path"}), Call("write", {"owner"}),
     Get("dup", {"owner"}, {"duplicate"}),
     Get("open", {"path"}, {"contender"}), Call("set_ofd_lock", {"owner"}),
     Call("expect_conflict", {"contender"}), Release("close", "owner"),
     Call("expect_conflict", {"contender"}),
     Call("set_ofd_lock", {"duplicate"}),
     Call("set_ofd_lock", {"contender"})>>,
   cleanup |-> <<"owner", "duplicate", "contender", "path">>]

zero_copy ==
  [body |-> <<
     Get("mkstemp", {}, {"input_fd", "path"}), Release("unlink", "path"),
     Call("write", {"input_fd"}),
     Get("pipe2", {}, {"pipe_fds[0]", "pipe_fds[1]"}),
     Call("splice", {"input_fd", "pipe_fds[1]"}),
     Release("close", "pipe_fds[1]"), Call("read", {"pipe_fds[0]"})>>,
   cleanup |-> <<"pipe_fds[0]", "pipe_fds[1]", "input_fd", "path">>]

resource_limits ==
  [body |-> <<
     Call("getrlimit", {}), Call("prlimit", {}),
     Get("prlimit", {}, {"limit"}), Call("same_limit", {}),
     Call("getrlimit", {}), Release("prlimit", "limit"),
     Call("getrusage", {})>>,
   cleanup |-> <<"limit">>]

cpu_affinity ==
  [body |-> <<
     Call("sched_getaffinity", {}), Get("sched_setaffinity", {}, {"affinity"}),
     Call("sched_getaffinity", {}), Release("sched_setaffinity", "affinity"),
     Call("sched_getaffinity", {})>>,
   cleanup |-> <<"affinity">>]

terminal ==
  [body |-> <<
     Get("posix_openpt", {}, {"master_fd"}), Call("grantpt", {"master_fd"}),
     Call("unlockpt", {"master_fd"}), Call("ptsname", {"master_fd"}),
     Get("open", {"master_fd"}, {"slave_fd"}), Call("tcgetattr", {"slave_fd"}),
     Get("tcsetattr", {"slave_fd"}, {"attributes"}),
     Call("write", {"master_fd"}), Call("read", {"slave_fd"}),
     Call("write", {"slave_fd"}), Call("read", {"master_fd"})>>,
   cleanup |-> <<"attributes", "slave_fd", "master_fd">>]

message_queue ==
  [body |-> <<
     Call("clock_gettime", {}), Get("mq_open", {}, {"queue", "queue_name"}),
     Call("mq_send", {"queue"}), Call("mq_send", {"queue"}),
     Call("mq_getattr", {"queue"}), Call("mq_receive", {"queue"}),
     Call("mq_receive", {"queue"})>>,
   cleanup |-> <<"queue", "queue_name">>]

file_metadata ==
  [body |-> <<
     Get("mkdtemp", {}, {"directory"}),
     Get("open", {"directory"}, {"directory_fd"}), Get("umask", {}, {"mask"}),
     Get("openat", {"directory_fd"}, {"fd", "sample"}), Call("fstat", {"fd"}),
     Release("umask", "mask"), Call("umask", {}), Call("fchmod", {"fd"}),
     Call("futimens", {"fd"}), Call("fstat", {"fd"})>>,
   cleanup |-> <<"mask", "fd", "sample", "directory_fd", "directory">>]

extended_attributes ==
  [body |-> <<
     Get("mkstemp", {}, {"fd", "path"}), Call("fsetxattr", {"fd"}),
     Call("fgetxattr", {"fd"}), Call("fgetxattr", {"fd"}),
     Call("flistxattr", {"fd"}), Get("malloc", {}, {"attribute_list"}),
     Call("flistxattr", {"fd", "attribute_list"}),
     Call("fremovexattr", {"fd"}), Call("fgetxattr", {"fd"})>>,
   cleanup |-> <<"attribute_list", "fd", "path">>]

memfd_seals ==
  [body |-> <<
     Get("memfd_create", {}, {"fd"}), Call("write", {"fd"}),
     Call("F_ADD_SEALS", {"fd"}), Call("F_ADD_SEALS", {"fd"}),
     Call("F_GET_SEALS", {"fd"}), Call("F_ADD_SEALS", {"fd"}),
     Call("pwrite", {"fd"}), Call("ftruncate", {"fd"}),
     Call("ftruncate", {"fd"}), Call("pread", {"fd"})>>,
   cleanup |-> <<"fd">>]

dynamic_loading ==
  [body |-> <<Get("dlopen", {}, {"handle"}), Call("dlsym", {"handle"}),
              Call("cosine", {"handle"})>>,
   cleanup |-> <<"handle">>]

Programs ==
  {file_io, filesystem, memory_mapping, file_locking, zero_copy,
   resource_limits, cpu_affinity, terminal, message_queue, file_metadata,
   extended_attributes, memfd_seals, dynamic_loading}

-----------------------------------------------------------------------------
(* Running a program. *)

VARIABLES program,
          phase,    \* "body", "cleanup" or "exited"
          pc,       \* the call in the body, or the release in the cleanup
          held,     \* what the process has, as the kernel knows it
          known,    \* what the variables of the program say it has
          result,
          stuck,    \* history: what could not be released at the end
          faults    \* history: calls that failed

vars == <<program, phase, pc, held, known, result, stuck, faults>>

Init ==
  /\ program \in Programs /\ phase = "body" /\ pc = 1
  /\ held = {} /\ known = {} /\ result = "EXIT_FAILURE"
  /\ stuck = {} /\ faults = 0

Current == program.body[pc]

Succeeds ==
  /\ phase = "body"
  /\ held' = (held \cup Current.gives) \ Current.takes
  /\ known' = (known \cup (Current.gives \ Names)) \ Current.takes
  /\ IF pc < Len(program.body)
     THEN pc' = pc + 1 /\ UNCHANGED <<phase, result>>
     ELSE pc' = 1 /\ phase' = "cleanup" /\ result' = "EXIT_SUCCESS"
  /\ UNCHANGED <<program, stuck, faults>>

(* A faulty variant of Forgotten: the variable keeps the old number. *)
ForgottenNot(taken) == {}

(* A body that fails to close a descriptor sets its variable to -1. *)
Forgotten(taken) == taken \cap Descriptors

Fails ==
  /\ phase = "body" /\ Current.call \notin Certain
  /\ held' = held \ (Current.takes \cap Descriptors)
  /\ known' = known \ Forgotten(Current.takes)
  /\ phase' = "cleanup" /\ pc' = 1 /\ faults' = faults + 1
  /\ UNCHANGED <<program, result, stuck>>

Resource == program.cleanup[pc]

(* A faulty variant of Tried: the names belong to the descriptor of the    *)
(* file, which may be closed.                                              *)
TriedWithFile == (IF Resource \in Names THEN "filefd" ELSE Resource) \in known

(* The names are tried whenever the directory is open, for what they may   *)
(* be; all else is released if the variable says it is there.              *)
Tried == (IF Resource \in Names THEN "dirfd" ELSE Resource) \in known

Empty(r) == r = "directory" => held \cap (Names \cup {"sample"}) = {}

Releases ==
  /\ held' = held \ {Resource} /\ known' = known \ {Resource}
  /\ UNCHANGED <<result, stuck, faults>>

(* The result of unlinkat is ignored for the names. *)
Remains ==
  /\ IF Resource \in Descriptors
     THEN held' = held \ {Resource} /\ UNCHANGED stuck
     ELSE stuck' = stuck \cup {Resource} /\ UNCHANGED held
  /\ known' = known \ {Resource} /\ faults' = faults + 1
  /\ result' = IF Resource \in Names THEN result ELSE "EXIT_FAILURE"

Cleanup ==
  /\ phase = "cleanup"
  /\ IF Tried /\ (Resource \in Names => Resource \in held)
     THEN \/ Empty(Resource) /\ Releases
          \/ Resource \notin {"mask", "attribute_list"} /\ Remains
     ELSE UNCHANGED <<held, known, result, stuck, faults>>
  /\ IF pc < Len(program.cleanup) THEN pc' = pc + 1 /\ UNCHANGED phase
                                  ELSE phase' = "exited" /\ UNCHANGED pc
  /\ UNCHANGED program

Exited == phase = "exited" /\ UNCHANGED vars

MainStep == Succeeds \/ Cleanup

Next == MainStep \/ Fails \/ Exited

Spec == Init /\ [][Next]_vars

-----------------------------------------------------------------------------
(* Properties. *)

Resources(p) == UNION {{p.cleanup[i]} : i \in DOMAIN p.cleanup}

TypeOK ==
  /\ program \in Programs /\ phase \in {"body", "cleanup", "exited"}
  /\ pc \in 1 .. Len(IF phase = "body" THEN program.body ELSE program.cleanup)
  /\ held \in SUBSET Resources(program) /\ known \in SUBSET Resources(program)
  /\ stuck \in SUBSET Resources(program) /\ faults \in Nat
  /\ result \in {"EXIT_SUCCESS", "EXIT_FAILURE"}

(* What a release goes through besides the resource itself. *)
Through(r) ==
  CASE r \in Names -> {"dirfd"}
    [] r = "sample" -> {"directory_fd", r}
    [] r = "attributes" -> {"slave_fd", r}
    [] OTHER -> {r}

(* No call is made on something the process does not have, a descriptor    *)
(* closed before, perhaps taken by another since, or a mapping gone: not   *)
(* in the body, and not in the cleanup, wherever the body stopped.         *)
UsesWhatItHas ==
  /\ phase = "body" => Current.uses \subseteq held
  /\ phase = "cleanup" /\ Tried => Through(Resource) \subseteq held

(* At the end nothing is left but what could not be released, and success  *)
(* is reported exactly when no call failed, those of the cleanup too.      *)
LeavesNothing ==
  phase = "exited" =>
    /\ held \subseteq stuck
    /\ result = "EXIT_SUCCESS" <=> faults = 0
=============================================================================
