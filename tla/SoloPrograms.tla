---------------------------- MODULE SoloPrograms ----------------------------
(***************************************************************************)
(* The experiments that are one process with one thread, and nothing but   *)
(* the kernel and the library to answer it: event_loop, filesystem_events, *)
(* stdio_buffering and sparse_files, and the sequences of CleanupPaths,    *)
(* each a test of its own for ctest (cmake/AddUnixExperiment.cmake:65).  A *)
(* run is a run of one of them, and the variables it does not have keep    *)
(* one value.                                                              *)
(***************************************************************************)

CONSTANTS DELAY, TIMEOUT,             \* EventLoop
          LIMIT, READ, MaxForeign,    \* FilesystemEvents
          SIZE,                       \* StdioBuffer
          tail_offset                 \* SparseExtents

VARIABLES program,
          result, faults,                                  \* of all of them
          main,                                     \* of all but the last
          held,                                     \* of all but the first
          fds, registered, armed, counter, waited, events, saw, value,
                                                           \* EventLoop
          written, queue, observed, dropped, foreign,   \* FilesystemEvents
          buffered, committed, taken, received,            \* StdioBuffer
          layout, found, detail,                         \* SparseExtents
          table, phase, pc, known, stuck                  \* CleanupPaths

loop   == <<fds, registered, armed, counter, waited, events, saw, value>>
files  == <<written, queue, observed, dropped, foreign>>
stream == <<buffered, committed, taken, received>>
sparse == <<layout, found, detail>>
paths  == <<table, phase, pc, known, stuck>>
vars   == <<program, result, faults, main, held, loop, files, stream, sparse,
            paths>>

Loop   == INSTANCE EventLoop
Files  == INSTANCE FilesystemEvents
Stdio  == INSTANCE StdioBuffer
Sparse == INSTANCE SparseExtents
Paths  == INSTANCE CleanupPaths WITH program <- table

ASSUME LoopConstants   == Loop!DelayAssumption
ASSUME FilesConstants  == Files!QueueAssumption /\ Files!ForeignAssumption
ASSUME StdioConstants  == Stdio!SizeAssumption
ASSUME SparseConstants == Sparse!TailAssumption

(* Something that is so, or done, unless this program runs, or if it does. *)
Unless(p, F) == IF program = p THEN TRUE ELSE F
If(p, F)     == IF program = p THEN F ELSE TRUE

(* The variables that the program does not have. *)
Absent ==
  /\ If("sequence", main = "absent") /\ If("event_loop", held = "absent")
  /\ Unless("event_loop",
            /\ fds = "absent" /\ registered = "absent" /\ armed = "absent"
            /\ counter = "absent" /\ waited = "absent" /\ events = "absent"
            /\ saw = "absent" /\ value = "absent")
  /\ Unless("filesystem_events",
            /\ written = "absent" /\ queue = "absent" /\ observed = "absent"
            /\ dropped = "absent" /\ foreign = "absent")
  /\ Unless("stdio_buffering",
            /\ buffered = "absent" /\ committed = "absent"
            /\ taken = "absent" /\ received = "absent")
  /\ Unless("sparse_files",
            layout = "absent" /\ found = "absent" /\ detail = "absent")
  /\ Unless("sequence",
            /\ table = "absent" /\ phase = "absent" /\ pc = "absent"
            /\ known = "absent" /\ stuck = "absent")

StayAbsent ==
  /\ If("sequence", UNCHANGED main) /\ If("event_loop", UNCHANGED held)
  /\ Unless("event_loop", UNCHANGED loop)
  /\ Unless("filesystem_events", UNCHANGED files)
  /\ Unless("stdio_buffering", UNCHANGED stream)
  /\ Unless("sparse_files", UNCHANGED sparse)
  /\ Unless("sequence", UNCHANGED paths)

Init ==
  /\ \/ program = "event_loop" /\ Loop!Init
     \/ program = "filesystem_events" /\ Files!Init
     \/ program = "stdio_buffering" /\ Stdio!Init
     \/ program = "sparse_files" /\ Sparse!Init
     \/ program = "sequence" /\ Paths!Init
  /\ Absent

(* A step of the program p, and of nothing else. *)
Of(p, Step) == program = p /\ Step /\ UNCHANGED program /\ StayAbsent

Next ==
  \/ Of("event_loop", Loop!Next) \/ Of("filesystem_events", Files!Next)
  \/ Of("stdio_buffering", Stdio!Next) \/ Of("sparse_files", Sparse!Next)
  \/ Of("sequence", Paths!Next)

ProgramRuns ==
  \/ Of("event_loop", Loop!MainStep) \/ Of("filesystem_events", Files!MainStep)
  \/ Of("stdio_buffering", Stdio!MainStep)
  \/ Of("sparse_files", Sparse!MainStep) \/ Of("sequence", Paths!MainStep)

Spec == Init /\ [][Next]_vars

(* The fairness of each of the programs. *)
FairSpec ==
  /\ Spec
  /\ WF_vars(ProgramRuns) /\ WF_vars(Of("event_loop", Loop!Tick))

-----------------------------------------------------------------------------
(* Properties: those of the program that runs, each explained in its       *)
(* module.                                                                 *)

TypeOK ==
  /\ program = "event_loop" => Loop!TypeOK
  /\ program = "filesystem_events" => Files!TypeOK
  /\ program = "stdio_buffering" => Stdio!TypeOK
  /\ program = "sparse_files" => Sparse!TypeOK
  /\ program = "sequence" => Paths!TypeOK

(* 11: success exactly when no call failed, in whatever order the sources  *)
(* become ready and however often the wait is interrupted (lines 97-148).  *)
LoopVerdict == program = "event_loop" => Loop!LoopVerdict

(* 12: the three events are observed unless a call fails or the kernel     *)
(* drops events, and success means that they were (lines 94-182).          *)
EventsVerdict == program = "filesystem_events" => Files!EventsVerdict

(* 21: the whole message is read, whatever the library committed early,    *)
(* and the cleanup does not kill the program (lines 84-126).               *)
StreamVerdict == program = "stdio_buffering" => Stdio!StreamVerdict

(* 20: what is printed is the layout, and one extent or two are accepted   *)
(* (lines 116-147).                                                        *)
VerdictMatchesLayout == program = "sparse_files" => Sparse!VerdictMatchesLayout

(* The sequences: no call, and no release of the cleanup, is made on       *)
(* something the process does not have (for 02, lines 34-132).             *)
UsesWhatItHas == program = "sequence" => Paths!UsesWhatItHas

(* The sequences: nothing is left at the end but what could not be         *)
(* released, and the result tells of every failure (for 02, lines 34-132). *)
LeavesNothing == program = "sequence" => Paths!LeavesNothing

(* Every program ends: it does not spin on what it does not read, and does *)
(* not wait for what does not come (for 11, lines 97-134).                 *)
Terminates ==
  <>(IF program = "sequence" THEN phase = "exited"
                             ELSE main \in {"exited", "killed"})
=============================================================================
