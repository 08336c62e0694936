-------------------------- MODULE FilesystemEvents --------------------------
(***************************************************************************)
(* experiments/12_filesystem_events/main.c: the program watches a new      *)
(* directory with inotify, creates, writes, closes and removes a file in   *)
(* it, and then polls and reads until it has seen the creation, the        *)
(* closing and the removal.  The kernel queues the events: it merges one   *)
(* into an equal one at the end of the queue, and when the queue is full   *)
(* it drops events and says so once.  Other programs may use other names   *)
(* in the directory at any moment.                                         *)
(***************************************************************************)
EXTENDS Integers, Sequences, SequencesExt

CONSTANTS LIMIT,       \* events the kernel queues (16384 on Linux)
          READ,        \* events that fit into the buffer of a read
          MaxForeign   \* events of other programs

QueueAssumption == LIMIT \in Nat \ {0} /\ READ \in Nat \ {0}
ForeignAssumption == MaxForeign \in Nat

VARIABLES main, result,
          held,       \* what the cleanup would have to release
          written,    \* has a call of write_all written a part?
          queue,      \* the events of the inotify descriptor
          observed,
          dropped,    \* history: has the kernel dropped an event?
          foreign,    \* history: events of other programs
          faults      \* history: calls that failed

vars == <<main, result, held, written, queue, observed, dropped, foreign,
          faults>>

required_events == {"IN_CREATE", "IN_CLOSE_WRITE", "IN_DELETE"}
Events == required_events \cup {"IN_MODIFY", "IN_Q_OVERFLOW", "other"}

Init ==
  /\ main = "mkdtemp" /\ result = "EXIT_FAILURE" /\ held = {}
  /\ written = FALSE /\ queue = <<>> /\ observed = {}
  /\ dropped = FALSE /\ foreign = 0 /\ faults = 0

(* The kernel, as far as the directory is watched. *)
Emit(e) ==
  LET queued == {queue[i] : i \in DOMAIN queue}
      full   == Len(queue) >= LIMIT
  IN  IF "watch" \notin held \/ (queue # <<>> /\ Last(queue) = e)
      THEN UNCHANGED <<queue, dropped>>
      ELSE /\ queue' = IF ~full THEN Append(queue, e)
                       ELSE IF "IN_Q_OVERFLOW" \in queued THEN queue
                       ELSE Append(queue, "IN_Q_OVERFLOW")
           /\ dropped' = (dropped \/ full)

Foreign ==
  /\ main # "exited" /\ foreign < MaxForeign /\ "watch" \in held
  /\ Emit("other") /\ foreign' = foreign + 1
  /\ UNCHANGED <<main, result, held, written, observed, faults>>

-----------------------------------------------------------------------------
(* The preparation and the changes to the file. *)

Goes(from, to) == main = from /\ main' = to
Fault == faults' = faults + 1

Fails(from) ==
  /\ Goes(from, "cleanup") /\ Fault
  /\ held' = IF from = "close" THEN held \ {"file_fd"} ELSE held
  /\ UNCHANGED <<result, written, queue, observed, dropped, foreign>>

Acquire(from, to, r) ==
  /\ Goes(from, to) /\ held' = held \cup {r}
  /\ UNCHANGED <<result, written, queue, observed, dropped, foreign, faults>>

CreateFile ==
  /\ Goes("open", "write") /\ held' = held \cup {"file_fd", "file"}
  /\ Emit("IN_CREATE")
  /\ UNCHANGED <<result, written, observed, foreign, faults>>

(* write_all, in one call or in more. *)
Write ==
  /\ main = "write" /\ Emit("IN_MODIFY")
  /\ \/ written' = TRUE /\ ~written /\ UNCHANGED main
     \/ main' = "close" /\ UNCHANGED written
  /\ UNCHANGED <<result, held, observed, foreign, faults>>

CloseFile ==
  /\ Goes("close", "unlink") /\ held' = held \ {"file_fd"}
  /\ Emit("IN_CLOSE_WRITE")
  /\ UNCHANGED <<result, written, observed, foreign, faults>>

RemoveFile ==
  /\ Goes("unlink", "loop") /\ held' = held \ {"file"}
  /\ Emit("IN_DELETE")
  /\ UNCHANGED <<result, written, observed, foreign, faults>>

Prepare ==
  \/ Acquire("mkdtemp", "inotify_init", "directory")
  \/ Acquire("inotify_init", "add_watch", "inotify_fd")
  \/ Acquire("add_watch", "open", "watch")
  \/ CreateFile \/ Write \/ CloseFile \/ RemoveFile

-----------------------------------------------------------------------------
(* The loop: test, poll, read with the parsing of what was read. *)

Loop ==
  /\ main = "loop"
  /\ IF observed = required_events
     THEN main' = "cleanup" /\ result' = "EXIT_SUCCESS"
     ELSE main' = "poll" /\ UNCHANGED result
  /\ UNCHANGED <<held, written, queue, observed, dropped, foreign, faults>>

(* poll returns at once when an event is queued; else its second passes.   *)
Poll ==
  /\ Goes("poll", IF queue = <<>> THEN "cleanup" ELSE "read")
  /\ UNCHANGED <<result, held, written, queue, observed, dropped, foreign,
                 faults>>

(* A faulty variant of Observed: = for |=. *)
ObservedNow(batch) == {batch[i] : i \in DOMAIN batch} \cap required_events

Observed(batch) ==
  observed \cup ({batch[i] : i \in DOMAIN batch} \cap required_events)

(* read gives whole events, and only this program reads: there is no event *)
(* cut short, no EAGAIN and no end of file.                                *)
Read ==
  LET n     == IF Len(queue) < READ THEN Len(queue) ELSE READ
      batch == SubSeq(queue, 1, n)
  IN  /\ Goes("read", IF Contains(batch, "IN_Q_OVERFLOW") THEN "cleanup"
                                                         ELSE "loop")
      /\ queue' = SubSeq(queue, n + 1, Len(queue))
      /\ observed' = Observed(batch)
      /\ UNCHANGED <<result, held, written, dropped, foreign, faults>>

-----------------------------------------------------------------------------
(* The cleanup. *)

Order == <<"file_fd", "file", "watch", "inotify_fd", "directory">>

(* What is held is released in this order, whether or not one fails; a     *)
(* file that could not be removed makes rmdir fail after it.  The events   *)
(* of the cleanup itself are not read any more.                            *)
Cleanup ==
  /\ main = "cleanup"
  /\ IF held = {} THEN main' = "exited" /\ UNCHANGED <<held, result, faults>>
     ELSE /\ held' = held \ {SelectSeq(Order, LAMBDA r : r \in held)[1]}
          /\ \/ UNCHANGED <<result, faults>>
             \/ result' = "EXIT_FAILURE" /\ Fault
          /\ UNCHANGED main
  /\ UNCHANGED <<written, queue, observed, dropped, foreign>>

Exited == main = "exited" /\ UNCHANGED vars

MainStep == Prepare \/ Loop \/ Poll \/ Read \/ Cleanup

Fallible == {"mkdtemp", "inotify_init", "add_watch", "open", "write", "close",
             "unlink", "poll", "read"}

Next ==
  MainStep \/ Foreign \/ Exited \/ \E from \in Fallible : Fails(from)

Spec == Init /\ [][Next]_vars
FairSpec == Spec /\ WF_vars(MainStep)    \* the program runs

-----------------------------------------------------------------------------
(* Properties. *)

TypeOK ==
  /\ main \in Fallible \cup {"loop", "cleanup", "exited"}
  /\ result \in {"EXIT_SUCCESS", "EXIT_FAILURE"}
  /\ held \in SUBSET {Order[i] : i \in DOMAIN Order} /\ written \in BOOLEAN
  /\ queue \in Seq(Events) /\ Len(queue) <= LIMIT + 1
  /\ observed \in SUBSET required_events /\ dropped \in BOOLEAN
  /\ foreign \in 0 .. MaxForeign /\ faults \in Nat

(* At the end nothing is left to release.  If no call failed and the queue *)
(* dropped nothing, the program reports success: poll never finds the      *)
(* queue empty, however events are merged, grouped into reads and mixed    *)
(* with those of others.  Success means that all three were observed, and  *)
(* no call failed (94-182).                                                *)
EventsVerdict ==
  main = "exited" =>
    /\ held = {}
    /\ result = "EXIT_SUCCESS" => observed = required_events /\ faults = 0
    /\ faults = 0 /\ ~dropped => result = "EXIT_SUCCESS"
=============================================================================
