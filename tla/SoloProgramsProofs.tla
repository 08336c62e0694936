------------------------ MODULE SoloProgramsProofs -------------------------
(***************************************************************************)
(* Proofs about SoloPrograms, for every delay and timeout, every length of *)
(* the queue, of a read and of the message, every layout of a file of any  *)
(* size, and for the thirteen sequences.                                   *)
(***************************************************************************)
EXTENDS SoloPrograms, Integers, Sequences, NaturalsInduction,
        WellFoundedInduction, FiniteSetTheorems, TLAPS

-----------------------------------------------------------------------------
(* 11_event_loop: the inductive invariant. *)

Looping   == {"loop", "epoll_wait", "dispatch"}
Following == Looping \cup {"verify"}

(* The eventfd holds what was written to it until it is read (lines        *)
(* 90-95, 110-119).                                                        *)
EventTracked ==
  main \in Following =>
    IF "event_fd" \in saw
    THEN counter["event_fd"] = 0 /\ value["event_fd"] = Loop!wake_value
    ELSE counter["event_fd"] = Loop!wake_value

(* The timer is running, has expired, or has been read, and expires once   *)
(* (lines 80-88, 120-130).                                                 *)
TimerTracked ==
  main \in Following \cup {"write"} =>
    IF "timer_fd" \in saw
    THEN armed = -1 /\ counter["timer_fd"] = 0 /\ value["timer_fd"] = 1
    ELSE IF armed = -1 THEN counter["timer_fd"] = 1
         ELSE armed > 0 /\ counter["timer_fd"] = 0

(* Nothing is read before the loop, and both are registered by then (lines *)
(* 71-95).                                                                 *)
NothingYet ==
  /\ main \notin Following \cup {"cleanup", "exited"} => saw = {}
  /\ main \notin Following \cup {"write", "cleanup", "exited"}
       => armed = -1 /\ counter["timer_fd"] = 0
  /\ main = "add_timer" => "event_fd" \in registered
  /\ main \in Following \cup {"settime", "write"}
       => registered = Loop!Sources

(* A wait has not lasted longer than the timer has been running, which is  *)
(* less than the timeout (lines 17, 97-107).                               *)
WaitBounded ==
  /\ main = "epoll_wait" /\ armed > 0 => waited + armed <= DELAY
  /\ main = "epoll_wait" => saw # Loop!Sources
  /\ main = "verify" => saw = Loop!Sources

(* What epoll_wait has reported and is not yet seen can be read, each      *)
(* descriptor once (lines 108-131).                                        *)
Reported ==
  main = "dispatch" =>
    /\ \A i \in 1 .. Len(events) : counter[events[i]] > 0
    /\ \A i, j \in 1 .. Len(events) : i # j => events[i] # events[j]

(* The result, and the faults that it tells of (lines 52, 133-147). *)
LoopOutcome ==
  /\ main \notin {"cleanup", "exited"}
       => result = "EXIT_FAILURE" /\ faults = 0
  /\ main \in {"cleanup", "exited"} => (result = "EXIT_SUCCESS" <=> faults = 0)
  /\ main = "exited" => fds = {}

LoopInvariant ==
  /\ Loop!TypeOK /\ EventTracked /\ TimerTracked /\ NothingYet
  /\ WaitBounded /\ Reported /\ LoopOutcome

-----------------------------------------------------------------------------
(* 12_filesystem_events: the inductive invariant. *)

InQueue(e) == \E i \in 1 .. Len(queue) : queue[i] = e

(* What the program has caused by what it did to the file (lines 119-137). *)
Caused ==
  (IF main \in {"write", "close", "unlink", "loop", "poll", "read"}
   THEN {"IN_CREATE"} ELSE {})
  \cup (IF main \in {"unlink", "loop", "poll", "read"}
        THEN {"IN_CLOSE_WRITE"} ELSE {})
  \cup (IF main \in {"loop", "poll", "read"} THEN {"IN_DELETE"} ELSE {})

(* What was caused was seen, waits in the queue, or was dropped (lines     *)
(* 119-171).                                                               *)
EventsTracked == \A e \in Caused : e \in observed \/ InQueue(e) \/ dropped

(* The queue is never longer than its limit, but for the event that says   *)
(* that others were dropped.                                               *)
OverflowTold ==
  /\ InQueue("IN_Q_OVERFLOW") => dropped
  /\ Len(queue) > LIMIT => InQueue("IN_Q_OVERFLOW")

(* The watch stands while the program causes events and waits for them,    *)
(* and it waits only for what it has not seen (lines 106-171).             *)
WatchHeld ==
  /\ main \in {"open", "write", "close", "unlink", "loop", "poll", "read"}
       => "watch" \in held
  /\ main \in {"poll", "read"} => observed # Files!required_events

(* The result, and the faults that it tells of (lines 172-182). *)
FilesOutcome ==
  /\ main \notin {"cleanup", "exited"}
       => result = "EXIT_FAILURE" /\ faults = 0
  /\ result = "EXIT_SUCCESS"
       => observed = Files!required_events /\ faults = 0
  /\ main \in {"cleanup", "exited"} /\ faults = 0 /\ ~dropped
       => result = "EXIT_SUCCESS"
  /\ main = "exited" => held = {}

FilesInvariant ==
  /\ Files!TypeOK /\ EventsTracked /\ OverflowTold /\ WatchHeld
  /\ FilesOutcome

-----------------------------------------------------------------------------
(* 21_stdio_buffering: the inductive invariant. *)

(* How far the message has come: into the stream, into the pipe, and out   *)
(* of it, each byte to its place (lines 84-113).                           *)
MessageTracked ==
  /\ main \in {"pipe", "set_nonblocking", "fdopen", "setvbuf", "fileno",
               "fwrite", "probe"} => taken = 0
  /\ main \in {"probe", "fflush", "read_exact", "verify"} => buffered = SIZE
  /\ main \in {"read_exact", "verify"} => committed = SIZE
  /\ main = "verify" => taken = SIZE
  /\ \A i \in 1 .. SIZE : i <= taken => received[i] = i

(* The stream is never without a reader (lines 52-74, 115-126). *)
StreamHasReader == "stream" \in held => "read_end" \in held

(* The result, and the faults that it tells of (lines 108-126). *)
StdioOutcome ==
  /\ main \notin {"cleanup", "exited"}
       => result = "EXIT_FAILURE" /\ faults = 0
  /\ main \in {"cleanup", "exited"} => (result = "EXIT_SUCCESS" <=> faults = 0)
  /\ main = "exited" => held = {}
  /\ main # "killed"

StdioInvariant ==
  Stdio!TypeOK /\ MessageTracked /\ StreamHasReader /\ StdioOutcome

-----------------------------------------------------------------------------
(* 20_sparse_files: the inductive invariant. *)

(* d is the first data from the block a on, and h the first hole. *)
DataFrom(a, d) ==
  /\ d \in layout /\ d >= a
  /\ \A b \in Sparse!Blocks : a <= b /\ b < d => b \notin layout
HoleFrom(a, h) ==
  /\ h \in a .. Sparse!expected_size /\ h \notin layout
  /\ \A b \in Sparse!Blocks : a <= b /\ b < h => b \in layout

FirstData == found.first_data = 0
Hole  == HoleFrom(0, found.first_hole)
Data  == /\ found.first_hole < Sparse!expected_size
         /\ DataFrom(found.first_hole, found.second_data)
End   == HoleFrom(found.second_data, found.end_hole)

(* What has been asked for, while nothing was skipped, is what the file    *)
(* system was to answer (lines 22-78).                                     *)
Answered ==
  /\ main \in {"first_hole", "second_data", "end_hole"} => FirstData
  /\ main \in {"second_data", "end_hole"} => Hole
  /\ main = "end_hole" => Data
  /\ main = "verify" /\ detail = 1 => FirstData /\ Hole /\ Data /\ End
  /\ detail = 0 => main \in {"verify", "cleanup", "exited"}

(* The test of lines 135-142. *)
Accepted ==
  /\ found.first_hole \in 1 .. tail_offset - 1
  /\ found.second_data \in found.first_hole .. tail_offset
  /\ found.end_hole = Sparse!expected_size

(* What the verdict says, from the time when it is reached (lines          *)
(* 130-155).                                                               *)
SparseOutcome ==
  /\ main \notin {"cleanup", "exited"}
       => result = "EXIT_FAILURE" /\ faults = 0
  /\ result = "EXIT_SUCCESS" => faults = 0
  /\ result = "EXIT_SUCCESS" /\ detail = 1
       => FirstData /\ Hole /\ Data /\ End /\ Accepted
  /\ main \in {"cleanup", "exited"} /\ faults = 0 /\ detail = 0
       => result = "EXIT_SUCCESS"
  /\ main \in {"cleanup", "exited"} /\ faults = 0 /\ detail = 1
       => /\ FirstData /\ Hole /\ Data /\ End
          /\ Accepted => result = "EXIT_SUCCESS"

ExtentsInvariant == Sparse!TypeOK /\ Answered /\ SparseOutcome

-----------------------------------------------------------------------------

-----------------------------------------------------------------------------
(* The sequences: what the tables say. *)

(* The cleanup of p releases a, if at all, before b. *)
Precedes(p, a, b) ==
  \A j, k \in 1 .. Len(p.cleanup) :
    p.cleanup[j] = a /\ p.cleanup[k] = b => j < k

(* The cleanup of p can release all of S: what something in S is released  *)
(* through is in S, and released after it.                                 *)
Orderly(p, S) ==
  /\ S \subseteq Paths!Resources(p)
  /\ \A r \in S : \A d \in Paths!Through(r) :
       d \in S /\ (d # r => Precedes(p, r, d))

(* The cleanup releases each resource once. *)
WellFormed(p) ==
  /\ Len(p.body) \in Nat \ {0} /\ Len(p.cleanup) \in Nat \ {0}
  /\ DOMAIN p.cleanup = 1 .. Len(p.cleanup)
  /\ \A j, k \in 1 .. Len(p.cleanup) : p.cleanup[j] = p.cleanup[k] => j = k

(* The process has has[i] when it makes the call i of p, for every i it    *)
(* reaches: the call uses no more, and the cleanup can release what is     *)
(* there if it fails, and what is there at the end.                        *)
Follows(p, has) ==
  LET n == Len(p.body) IN
  /\ \A i \in 1 .. n + 1 : has[i] \subseteq Paths!Resources(p)
  /\ has[1] = {} /\ has[n + 1] \cap Paths!Names = {}
  /\ Orderly(p, has[n + 1])
  /\ \A i \in 1 .. n :
       /\ p.body[i].uses \subseteq has[i]
       /\ has[i + 1] = (has[i] \cup p.body[i].gives) \ p.body[i].takes
       /\ Orderly(p, has[i] \ (p.body[i].takes \cap Paths!Descriptors))

(* The fields of a call that only uses something. *)
LEMMA CallFields ==
  ASSUME NEW c, NEW u
  PROVE  /\ Paths!Call(c, u).call = c /\ Paths!Call(c, u).uses = u
         /\ Paths!Call(c, u).gives = {} /\ Paths!Call(c, u).takes = {}
BY DEF Paths!Call

(* The same for a call that gets something. *)
LEMMA GetFields ==
  ASSUME NEW c, NEW u, NEW g
  PROVE  /\ Paths!Get(c, u, g).call = c /\ Paths!Get(c, u, g).uses = u
         /\ Paths!Get(c, u, g).gives = g /\ Paths!Get(c, u, g).takes = {}
BY DEF Paths!Call, Paths!Get

(* The same for a call that releases something. *)
LEMMA ReleaseFields ==
  ASSUME NEW c, NEW r
  PROVE  /\ Paths!Release(c, r).call = c /\ Paths!Release(c, r).uses = {r}
         /\ Paths!Release(c, r).gives = {} /\ Paths!Release(c, r).takes = {r}
BY DEF Paths!Call, Paths!Release

(* The same for a call that renames something (02, lines 98-101). *)
LEMMA RenameFields ==
  ASSUME NEW c, NEW u, NEW r, NEW s
  PROVE  /\ Paths!Rename(c, u, r, s).call = c
         /\ Paths!Rename(c, u, r, s).uses = u
         /\ Paths!Rename(c, u, r, s).gives = {s}
         /\ Paths!Rename(c, u, r, s).takes = {r}
BY DEF Paths!Call, Paths!Rename

(* Where nothing is released through something else, the order of the      *)
(* cleanup does not matter (ten of the tables).                            *)
LEMMA PlainFollows ==
  ASSUME NEW p, WellFormed(p), NEW has,
         \A i \in 1 .. Len(p.body) + 1 : has[i] \subseteq Paths!Resources(p),
         has[1] = {},
         Paths!Resources(p) \cap (Paths!Names \cup {"sample", "attributes"})
           = {},
         \A i \in 1 .. Len(p.body) :
           /\ p.body[i].uses \subseteq has[i]
           /\ has[i + 1] = (has[i] \cup p.body[i].gives) \ p.body[i].takes
  PROVE  Follows(p, has)
<1>1. ASSUME NEW S \in SUBSET Paths!Resources(p) PROVE Orderly(p, S)
  BY DEF Orderly, Paths!Through
<1>2. Len(p.body) + 1 \in 1 .. Len(p.body) + 1
  BY DEF WellFormed
<1>3. ASSUME NEW i \in 1 .. Len(p.body)
      PROVE  Orderly(p, has[i] \ (p.body[i].takes \cap Paths!Descriptors))
  BY <1>1 DEF WellFormed
<1>. QED  BY <1>1, <1>2, <1>3 DEF Follows

(* 01: what the process has at each call (lines 95-182).                   *)
LEMMA FileIoFollows ==
  WellFormed(Paths!file_io)
  /\ \E has : Follows(Paths!file_io, has)
<1>. DEFINE p   == Paths!file_io
            has == [i \in 1 .. 9 |->
                      (IF i >= 2 THEN {"fd", "path"} ELSE {})]
            R   == {"fd", "path"}
<1>1. /\ Len(p.body) = 8 /\ Len(p.cleanup) = 2 /\ DOMAIN p.cleanup = 1 .. 2
      /\ p.cleanup[1] = "fd" /\ p.cleanup[2] = "path"
  BY DEF Paths!file_io
<1>2. Paths!Resources(p) = R
  BY <1>1 DEF Paths!Resources
<1>3. ASSUME NEW i \in 1 .. 8 PROVE p.body[i].uses \subseteq has[i]
  BY CallFields, GetFields, ReleaseFields DEF Paths!file_io
<1>4. ASSUME NEW i \in 1 .. 8
      PROVE  has[i + 1] = (has[i] \cup p.body[i].gives) \ p.body[i].takes
  BY CallFields, GetFields, ReleaseFields DEF Paths!file_io
<1>5. has[1] = {} /\ \A i \in 1 .. 8 + 1 : has[i] \subseteq R
  OBVIOUS
<1>. HIDE DEF p, has
<1>6. WellFormed(p)
  BY <1>1 DEF WellFormed
<1>7. R \cap (Paths!Names \cup {"sample", "attributes"}) = {}
  BY DEF Paths!Names
<1>8. Follows(p, has)
  <2>. HIDE DEF R
  <2>1. \A i \in 1 .. Len(p.body) + 1 : has[i] \subseteq Paths!Resources(p)
    BY <1>1, <1>2, <1>5
  <2>2. \A i \in 1 .. Len(p.body) :
          /\ p.body[i].uses \subseteq has[i]
          /\ has[i + 1] = (has[i] \cup p.body[i].gives) \ p.body[i].takes
    BY <1>1, <1>3, <1>4
  <2>3. Paths!Resources(p) \cap (Paths!Names \cup {"sample", "attributes"})
          = {}
    BY <1>2, <1>7
  <2>4. has[1] = {}
    BY <1>5
  <2>. QED  BY <1>6, <2>1, <2>2, <2>3, <2>4, PlainFollows
<1>. QED  BY <1>6, <1>8 DEF p

(* 03: what the process has at each call (lines 27-103).                   *)
LEMMA MemoryMappingFollows ==
  WellFormed(Paths!memory_mapping)
  /\ \E has : Follows(Paths!memory_mapping, has)
<1>. DEFINE p   == Paths!memory_mapping
            has == [i \in 1 .. 8 |->
                      (IF i >= 3 THEN {"fd", "path"} ELSE {})
                      \cup (IF i \in 5 .. 6 THEN {"mapping"} ELSE {})]
            R   == {"mapping", "fd", "path"}
<1>1. /\ Len(p.body) = 7 /\ Len(p.cleanup) = 3 /\ DOMAIN p.cleanup = 1 .. 3
      /\ p.cleanup[1] = "mapping" /\ p.cleanup[2] = "fd"
      /\ p.cleanup[3] = "path"
  BY DEF Paths!memory_mapping
<1>2. Paths!Resources(p) = R
  BY <1>1 DEF Paths!Resources
<1>3. ASSUME NEW i \in 1 .. 7 PROVE p.body[i].uses \subseteq has[i]
  BY CallFields, GetFields, ReleaseFields DEF Paths!memory_mapping
<1>4. ASSUME NEW i \in 1 .. 7
      PROVE  has[i + 1] = (has[i] \cup p.body[i].gives) \ p.body[i].takes
  BY CallFields, GetFields, ReleaseFields DEF Paths!memory_mapping
<1>5. has[1] = {} /\ \A i \in 1 .. 7 + 1 : has[i] \subseteq R
  OBVIOUS
<1>. HIDE DEF p, has
<1>6. WellFormed(p)
  BY <1>1 DEF WellFormed
<1>7. R \cap (Paths!Names \cup {"sample", "attributes"}) = {}
  BY DEF Paths!Names
<1>8. Follows(p, has)
  <2>. HIDE DEF R
  <2>1. \A i \in 1 .. Len(p.body) + 1 : has[i] \subseteq Paths!Resources(p)
    BY <1>1, <1>2, <1>5
  <2>2. \A i \in 1 .. Len(p.body) :
          /\ p.body[i].uses \subseteq has[i]
          /\ has[i + 1] = (has[i] \cup p.body[i].gives) \ p.body[i].takes
    BY <1>1, <1>3, <1>4
  <2>3. Paths!Resources(p) \cap (Paths!Names \cup {"sample", "attributes"})
          = {}
    BY <1>2, <1>7
  <2>4. has[1] = {}
    BY <1>5
  <2>. QED  BY <1>6, <2>1, <2>2, <2>3, <2>4, PlainFollows
<1>. QED  BY <1>6, <1>8 DEF p

(* 04: what the process has at each call (lines 33-119).                   *)
LEMMA FileLockingFollows ==
  WellFormed(Paths!file_locking)
  /\ \E has : Follows(Paths!file_locking, has)
<1>. DEFINE p   == Paths!file_locking
            has == [i \in 1 .. 11 |->
                      (IF i \in 2 .. 7 THEN {"owner"} ELSE {})
                      \cup (IF i >= 2 THEN {"path"} ELSE {})
                      \cup (IF i >= 4 THEN {"duplicate"} ELSE {})
                      \cup (IF i >= 5 THEN {"contender"} ELSE {})]
            R   == {"owner", "duplicate", "contender", "path"}
<1>1. /\ Len(p.body) = 10 /\ Len(p.cleanup) = 4 /\ DOMAIN p.cleanup = 1 .. 4
      /\ p.cleanup[1] = "owner" /\ p.cleanup[2] = "duplicate"
      /\ p.cleanup[3] = "contender" /\ p.cleanup[4] = "path"
  BY DEF Paths!file_locking
<1>2. Paths!Resources(p) = R
  BY <1>1 DEF Paths!Resources
<1>3. ASSUME NEW i \in 1 .. 10 PROVE p.body[i].uses \subseteq has[i]
  BY CallFields, GetFields, ReleaseFields DEF Paths!file_locking
<1>4. ASSUME NEW i \in 1 .. 10
      PROVE  has[i + 1] = (has[i] \cup p.body[i].gives) \ p.body[i].takes
  BY CallFields, GetFields, ReleaseFields DEF Paths!file_locking
<1>5. has[1] = {} /\ \A i \in 1 .. 10 + 1 : has[i] \subseteq R
  OBVIOUS
<1>. HIDE DEF p, has
<1>6. WellFormed(p)
  BY <1>1 DEF WellFormed
<1>7. R \cap (Paths!Names \cup {"sample", "attributes"}) = {}
  BY DEF Paths!Names
<1>8. Follows(p, has)
  <2>. HIDE DEF R
  <2>1. \A i \in 1 .. Len(p.body) + 1 : has[i] \subseteq Paths!Resources(p)
    BY <1>1, <1>2, <1>5
  <2>2. \A i \in 1 .. Len(p.body) :
          /\ p.body[i].uses \subseteq has[i]
          /\ has[i + 1] = (has[i] \cup p.body[i].gives) \ p.body[i].takes
    BY <1>1, <1>3, <1>4
  <2>3. Paths!Resources(p) \cap (Paths!Names \cup {"sample", "attributes"})
          = {}
    BY <1>2, <1>7
  <2>4. has[1] = {}
    BY <1>5
  <2>. QED  BY <1>6, <2>1, <2>2, <2>3, <2>4, PlainFollows
<1>. QED  BY <1>6, <1>8 DEF p

(* 13: what the process has at each call (lines 51-139).                   *)
LEMMA ZeroCopyFollows ==
  WellFormed(Paths!zero_copy)
  /\ \E has : Follows(Paths!zero_copy, has)
<1>. DEFINE p   == Paths!zero_copy
            has == [i \in 1 .. 8 |->
                      (IF i = 2 THEN {"path"} ELSE {})
                      \cup (IF i >= 2 THEN {"input_fd"} ELSE {})
                      \cup (IF i \in 5 .. 6 THEN {"pipe_fds[1]"} ELSE {})
                      \cup (IF i >= 5 THEN {"pipe_fds[0]"} ELSE {})]
            R   == {"pipe_fds[0]", "pipe_fds[1]", "input_fd", "path"}
<1>1. /\ Len(p.body) = 7 /\ Len(p.cleanup) = 4 /\ DOMAIN p.cleanup = 1 .. 4
      /\ p.cleanup[1] = "pipe_fds[0]" /\ p.cleanup[2] = "pipe_fds[1]"
      /\ p.cleanup[3] = "input_fd" /\ p.cleanup[4] = "path"
  BY DEF Paths!zero_copy
<1>2. Paths!Resources(p) = R
  BY <1>1 DEF Paths!Resources
<1>3. ASSUME NEW i \in 1 .. 7 PROVE p.body[i].uses \subseteq has[i]
  BY CallFields, GetFields, ReleaseFields DEF Paths!zero_copy
<1>4. ASSUME NEW i \in 1 .. 7
      PROVE  has[i + 1] = (has[i] \cup p.body[i].gives) \ p.body[i].takes
  BY CallFields, GetFields, ReleaseFields DEF Paths!zero_copy
<1>5. has[1] = {} /\ \A i \in 1 .. 7 + 1 : has[i] \subseteq R
  OBVIOUS
<1>. HIDE DEF p, has
<1>6. WellFormed(p)
  BY <1>1 DEF WellFormed
<1>7. R \cap (Paths!Names \cup {"sample", "attributes"}) = {}
  BY DEF Paths!Names
<1>8. Follows(p, has)
  <2>. HIDE DEF R
  <2>1. \A i \in 1 .. Len(p.body) + 1 : has[i] \subseteq Paths!Resources(p)
    BY <1>1, <1>2, <1>5
  <2>2. \A i \in 1 .. Len(p.body) :
          /\ p.body[i].uses \subseteq has[i]
          /\ has[i + 1] = (has[i] \cup p.body[i].gives) \ p.body[i].takes
    BY <1>1, <1>3, <1>4
  <2>3. Paths!Resources(p) \cap (Paths!Names \cup {"sample", "attributes"})
          = {}
    BY <1>2, <1>7
  <2>4. has[1] = {}
    BY <1>5
  <2>. QED  BY <1>6, <2>1, <2>2, <2>3, <2>4, PlainFollows
<1>. QED  BY <1>6, <1>8 DEF p

(* 14: what the process has at each call (lines 19-94).                    *)
LEMMA ResourceLimitsFollows ==
  WellFormed(Paths!resource_limits)
  /\ \E has : Follows(Paths!resource_limits, has)
<1>. DEFINE p   == Paths!resource_limits
            has == [i \in 1 .. 8 |->
                      (IF i \in 4 .. 6 THEN {"limit"} ELSE {})]
            R   == {"limit"}
<1>1. /\ Len(p.body) = 7 /\ Len(p.cleanup) = 1 /\ DOMAIN p.cleanup = 1 .. 1
      /\ p.cleanup[1] = "limit"
  BY DEF Paths!resource_limits
<1>2. Paths!Resources(p) = R
  BY <1>1 DEF Paths!Resources
<1>3. ASSUME NEW i \in 1 .. 7 PROVE p.body[i].uses \subseteq has[i]
  BY CallFields, GetFields, ReleaseFields DEF Paths!resource_limits
<1>4. ASSUME NEW i \in 1 .. 7
      PROVE  has[i + 1] = (has[i] \cup p.body[i].gives) \ p.body[i].takes
  BY CallFields, GetFields, ReleaseFields DEF Paths!resource_limits
<1>5. has[1] = {} /\ \A i \in 1 .. 7 + 1 : has[i] \subseteq R
  OBVIOUS
<1>. HIDE DEF p, has
<1>6. WellFormed(p)
  BY <1>1 DEF WellFormed
<1>7. R \cap (Paths!Names \cup {"sample", "attributes"}) = {}
  BY DEF Paths!Names
<1>8. Follows(p, has)
  <2>. HIDE DEF R
  <2>1. \A i \in 1 .. Len(p.body) + 1 : has[i] \subseteq Paths!Resources(p)
    BY <1>1, <1>2, <1>5
  <2>2. \A i \in 1 .. Len(p.body) :
          /\ p.body[i].uses \subseteq has[i]
          /\ has[i + 1] = (has[i] \cup p.body[i].gives) \ p.body[i].takes
    BY <1>1, <1>3, <1>4
  <2>3. Paths!Resources(p) \cap (Paths!Names \cup {"sample", "attributes"})
          = {}
    BY <1>2, <1>7
  <2>4. has[1] = {}
    BY <1>5
  <2>. QED  BY <1>6, <2>1, <2>2, <2>3, <2>4, PlainFollows
<1>. QED  BY <1>6, <1>8 DEF p

(* 15: what the process has at each call (lines 7-83).                     *)
LEMMA CpuAffinityFollows ==
  WellFormed(Paths!cpu_affinity)
  /\ \E has : Follows(Paths!cpu_affinity, has)
<1>. DEFINE p   == Paths!cpu_affinity
            has == [i \in 1 .. 6 |->
                      (IF i \in 3 .. 4 THEN {"affinity"} ELSE {})]
            R   == {"affinity"}
<1>1. /\ Len(p.body) = 5 /\ Len(p.cleanup) = 1 /\ DOMAIN p.cleanup = 1 .. 1
      /\ p.cleanup[1] = "affinity"
  BY DEF Paths!cpu_affinity
<1>2. Paths!Resources(p) = R
  BY <1>1 DEF Paths!Resources
<1>3. ASSUME NEW i \in 1 .. 5 PROVE p.body[i].uses \subseteq has[i]
  BY CallFields, GetFields, ReleaseFields DEF Paths!cpu_affinity
<1>4. ASSUME NEW i \in 1 .. 5
      PROVE  has[i + 1] = (has[i] \cup p.body[i].gives) \ p.body[i].takes
  BY CallFields, GetFields, ReleaseFields DEF Paths!cpu_affinity
<1>5. has[1] = {} /\ \A i \in 1 .. 5 + 1 : has[i] \subseteq R
  OBVIOUS
<1>. HIDE DEF p, has
<1>6. WellFormed(p)
  BY <1>1 DEF WellFormed
<1>7. R \cap (Paths!Names \cup {"sample", "attributes"}) = {}
  BY DEF Paths!Names
<1>8. Follows(p, has)
  <2>. HIDE DEF R
  <2>1. \A i \in 1 .. Len(p.body) + 1 : has[i] \subseteq Paths!Resources(p)
    BY <1>1, <1>2, <1>5
  <2>2. \A i \in 1 .. Len(p.body) :
          /\ p.body[i].uses \subseteq has[i]
          /\ has[i + 1] = (has[i] \cup p.body[i].gives) \ p.body[i].takes
    BY <1>1, <1>3, <1>4
  <2>3. Paths!Resources(p) \cap (Paths!Names \cup {"sample", "attributes"})
          = {}
    BY <1>2, <1>7
  <2>4. has[1] = {}
    BY <1>5
  <2>. QED  BY <1>6, <2>1, <2>2, <2>3, <2>4, PlainFollows
<1>. QED  BY <1>6, <1>8 DEF p

(* 18: what the process has at each call (lines 45-124).                   *)
LEMMA MessageQueueFollows ==
  WellFormed(Paths!message_queue)
  /\ \E has : Follows(Paths!message_queue, has)
<1>. DEFINE p   == Paths!message_queue
            has == [i \in 1 .. 8 |->
                      (IF i >= 3 THEN {"queue", "queue_name"} ELSE {})]
            R   == {"queue", "queue_name"}
<1>1. /\ Len(p.body) = 7 /\ Len(p.cleanup) = 2 /\ DOMAIN p.cleanup = 1 .. 2
      /\ p.cleanup[1] = "queue" /\ p.cleanup[2] = "queue_name"
  BY DEF Paths!message_queue
<1>2. Paths!Resources(p) = R
  BY <1>1 DEF Paths!Resources
<1>3. ASSUME NEW i \in 1 .. 7 PROVE p.body[i].uses \subseteq has[i]
  BY CallFields, GetFields, ReleaseFields DEF Paths!message_queue
<1>4. ASSUME NEW i \in 1 .. 7
      PROVE  has[i + 1] = (has[i] \cup p.body[i].gives) \ p.body[i].takes
  BY CallFields, GetFields, ReleaseFields DEF Paths!message_queue
<1>5. has[1] = {} /\ \A i \in 1 .. 7 + 1 : has[i] \subseteq R
  OBVIOUS
<1>. HIDE DEF p, has
<1>6. WellFormed(p)
  BY <1>1 DEF WellFormed
<1>7. R \cap (Paths!Names \cup {"sample", "attributes"}) = {}
  BY DEF Paths!Names
<1>8. Follows(p, has)
  <2>. HIDE DEF R
  <2>1. \A i \in 1 .. Len(p.body) + 1 : has[i] \subseteq Paths!Resources(p)
    BY <1>1, <1>2, <1>5
  <2>2. \A i \in 1 .. Len(p.body) :
          /\ p.body[i].uses \subseteq has[i]
          /\ has[i + 1] = (has[i] \cup p.body[i].gives) \ p.body[i].takes
    BY <1>1, <1>3, <1>4
  <2>3. Paths!Resources(p) \cap (Paths!Names \cup {"sample", "attributes"})
          = {}
    BY <1>2, <1>7
  <2>4. has[1] = {}
    BY <1>5
  <2>. QED  BY <1>6, <2>1, <2>2, <2>3, <2>4, PlainFollows
<1>. QED  BY <1>6, <1>8 DEF p

(* 28: what the process has at each call (lines 27-125).                   *)
LEMMA ExtendedAttributesFollows ==
  WellFormed(Paths!extended_attributes)
  /\ \E has : Follows(Paths!extended_attributes, has)
<1>. DEFINE p   == Paths!extended_attributes
            has == [i \in 1 .. 10 |->
                      (IF i >= 2 THEN {"fd", "path"} ELSE {})
                      \cup (IF i >= 7 THEN {"attribute_list"} ELSE {})]
            R   == {"attribute_list", "fd", "path"}
<1>1. /\ Len(p.body) = 9 /\ Len(p.cleanup) = 3 /\ DOMAIN p.cleanup = 1 .. 3
      /\ p.cleanup[1] = "attribute_list" /\ p.cleanup[2] = "fd"
      /\ p.cleanup[3] = "path"
  BY DEF Paths!extended_attributes
<1>2. Paths!Resources(p) = R
  BY <1>1 DEF Paths!Resources
<1>3. ASSUME NEW i \in 1 .. 9 PROVE p.body[i].uses \subseteq has[i]
  BY CallFields, GetFields, ReleaseFields DEF Paths!extended_attributes
<1>4. ASSUME NEW i \in 1 .. 9
      PROVE  has[i + 1] = (has[i] \cup p.body[i].gives) \ p.body[i].takes
  BY CallFields, GetFields, ReleaseFields DEF Paths!extended_attributes
<1>5. has[1] = {} /\ \A i \in 1 .. 9 + 1 : has[i] \subseteq R
  OBVIOUS
<1>. HIDE DEF p, has
<1>6. WellFormed(p)
  BY <1>1 DEF WellFormed
<1>7. R \cap (Paths!Names \cup {"sample", "attributes"}) = {}
  BY DEF Paths!Names
<1>8. Follows(p, has)
  <2>. HIDE DEF R
  <2>1. \A i \in 1 .. Len(p.body) + 1 : has[i] \subseteq Paths!Resources(p)
    BY <1>1, <1>2, <1>5
  <2>2. \A i \in 1 .. Len(p.body) :
          /\ p.body[i].uses \subseteq has[i]
          /\ has[i + 1] = (has[i] \cup p.body[i].gives) \ p.body[i].takes
    BY <1>1, <1>3, <1>4
  <2>3. Paths!Resources(p) \cap (Paths!Names \cup {"sample", "attributes"})
          = {}
    BY <1>2, <1>7
  <2>4. has[1] = {}
    BY <1>5
  <2>. QED  BY <1>6, <2>1, <2>2, <2>3, <2>4, PlainFollows
<1>. QED  BY <1>6, <1>8 DEF p

(* 29: what the process has at each call (lines 65-141).                   *)
LEMMA MemfdSealsFollows ==
  WellFormed(Paths!memfd_seals)
  /\ \E has : Follows(Paths!memfd_seals, has)
<1>. DEFINE p   == Paths!memfd_seals
            has == [i \in 1 .. 11 |->
                      (IF i >= 2 THEN {"fd"} ELSE {})]
            R   == {"fd"}
<1>1. /\ Len(p.body) = 10 /\ Len(p.cleanup) = 1 /\ DOMAIN p.cleanup = 1 .. 1
      /\ p.cleanup[1] = "fd"
  BY DEF Paths!memfd_seals
<1>2. Paths!Resources(p) = R
  BY <1>1 DEF Paths!Resources
<1>3. ASSUME NEW i \in 1 .. 10 PROVE p.body[i].uses \subseteq has[i]
  BY CallFields, GetFields, ReleaseFields DEF Paths!memfd_seals
<1>4. ASSUME NEW i \in 1 .. 10
      PROVE  has[i + 1] = (has[i] \cup p.body[i].gives) \ p.body[i].takes
  BY CallFields, GetFields, ReleaseFields DEF Paths!memfd_seals
<1>5. has[1] = {} /\ \A i \in 1 .. 10 + 1 : has[i] \subseteq R
  OBVIOUS
<1>. HIDE DEF p, has
<1>6. WellFormed(p)
  BY <1>1 DEF WellFormed
<1>7. R \cap (Paths!Names \cup {"sample", "attributes"}) = {}
  BY DEF Paths!Names
<1>8. Follows(p, has)
  <2>. HIDE DEF R
  <2>1. \A i \in 1 .. Len(p.body) + 1 : has[i] \subseteq Paths!Resources(p)
    BY <1>1, <1>2, <1>5
  <2>2. \A i \in 1 .. Len(p.body) :
          /\ p.body[i].uses \subseteq has[i]
          /\ has[i + 1] = (has[i] \cup p.body[i].gives) \ p.body[i].takes
    BY <1>1, <1>3, <1>4
  <2>3. Paths!Resources(p) \cap (Paths!Names \cup {"sample", "attributes"})
          = {}
    BY <1>2, <1>7
  <2>4. has[1] = {}
    BY <1>5
  <2>. QED  BY <1>6, <2>1, <2>2, <2>3, <2>4, PlainFollows
<1>. QED  BY <1>6, <1>8 DEF p

(* 30: what the process has at each call (lines 8-54).                     *)
LEMMA DynamicLoadingFollows ==
  WellFormed(Paths!dynamic_loading)
  /\ \E has : Follows(Paths!dynamic_loading, has)
<1>. DEFINE p   == Paths!dynamic_loading
            has == [i \in 1 .. 4 |->
                      (IF i >= 2 THEN {"handle"} ELSE {})]
            R   == {"handle"}
<1>1. /\ Len(p.body) = 3 /\ Len(p.cleanup) = 1 /\ DOMAIN p.cleanup = 1 .. 1
      /\ p.cleanup[1] = "handle"
  BY DEF Paths!dynamic_loading
<1>2. Paths!Resources(p) = R
  BY <1>1 DEF Paths!Resources
<1>3. ASSUME NEW i \in 1 .. 3 PROVE p.body[i].uses \subseteq has[i]
  BY CallFields, GetFields, ReleaseFields DEF Paths!dynamic_loading
<1>4. ASSUME NEW i \in 1 .. 3
      PROVE  has[i + 1] = (has[i] \cup p.body[i].gives) \ p.body[i].takes
  BY CallFields, GetFields, ReleaseFields DEF Paths!dynamic_loading
<1>5. has[1] = {} /\ \A i \in 1 .. 3 + 1 : has[i] \subseteq R
  OBVIOUS
<1>. HIDE DEF p, has
<1>6. WellFormed(p)
  BY <1>1 DEF WellFormed
<1>7. R \cap (Paths!Names \cup {"sample", "attributes"}) = {}
  BY DEF Paths!Names
<1>8. Follows(p, has)
  <2>. HIDE DEF R
  <2>1. \A i \in 1 .. Len(p.body) + 1 : has[i] \subseteq Paths!Resources(p)
    BY <1>1, <1>2, <1>5
  <2>2. \A i \in 1 .. Len(p.body) :
          /\ p.body[i].uses \subseteq has[i]
          /\ has[i + 1] = (has[i] \cup p.body[i].gives) \ p.body[i].takes
    BY <1>1, <1>3, <1>4
  <2>3. Paths!Resources(p) \cap (Paths!Names \cup {"sample", "attributes"})
          = {}
    BY <1>2, <1>7
  <2>4. has[1] = {}
    BY <1>5
  <2>. QED  BY <1>6, <2>1, <2>2, <2>3, <2>4, PlainFollows
<1>. QED  BY <1>6, <1>8 DEF p

(* 02: what the process has at each call (lines 34-133).                   *)
LEMMA FilesystemFollows ==
  WellFormed(Paths!filesystem)
  /\ \E has : Follows(Paths!filesystem, has)
<1>. DEFINE p   == Paths!filesystem
            has == [i \in 1 .. 12 |->
                      (IF i >= 2 THEN {"directory"} ELSE {})
                      \cup (IF i >= 3 THEN {"dirfd"} ELSE {})
                      \cup (IF i \in 4 .. 5 THEN {"filefd"} ELSE {})
                      \cup (IF i \in 4 .. 9 THEN {"source.txt"} ELSE {})
                      \cup (IF i \in 8 .. 10 THEN {"source.link"} ELSE {})
                      \cup (IF i \in 10 .. 11 THEN {"renamed.txt"} ELSE {})]
            R   == {"filefd", "source.link", "source.txt", "renamed.txt",
                    "dirfd", "directory"}
<1>1. /\ Len(p.body) = 11 /\ Len(p.cleanup) = 6 /\ DOMAIN p.cleanup = 1 .. 6
      /\ p.cleanup[1] = "filefd" /\ p.cleanup[2] = "source.link"
      /\ p.cleanup[3] = "source.txt" /\ p.cleanup[4] = "renamed.txt"
      /\ p.cleanup[5] = "dirfd" /\ p.cleanup[6] = "directory"
  BY DEF Paths!filesystem
<1>2. Paths!Resources(p) = R
  BY <1>1 DEF Paths!Resources
<1>3. ASSUME NEW i \in 1 .. 11 PROVE p.body[i].uses \subseteq has[i]
  BY CallFields, GetFields, ReleaseFields, RenameFields DEF Paths!filesystem
<1>4. ASSUME NEW i \in 1 .. 11
      PROVE  has[i + 1] = (has[i] \cup p.body[i].gives) \ p.body[i].takes
  BY CallFields, GetFields, ReleaseFields, RenameFields DEF Paths!filesystem
<1>5. has[1] = {} /\ \A i \in 1 .. 11 + 1 : has[i] \subseteq R
  OBVIOUS
<1>6. ASSUME NEW i \in 1 .. 11 + 1
      PROVE  LET T == has[i] IN
             T \cap Paths!Names # {} => "dirfd" \in T
  BY DEF Paths!Names
<1>7. ASSUME NEW i \in 1 .. 11
      PROVE  LET T == has[i] \ (p.body[i].takes \cap Paths!Descriptors) IN
             T \cap Paths!Names # {} => "dirfd" \in T
  BY CallFields, GetFields, ReleaseFields, RenameFields
     DEF Paths!filesystem, Paths!Names, Paths!Descriptors
<1>8. has[11 + 1] \cap Paths!Names = {}
  BY DEF Paths!Names
<1>. HIDE DEF p, has
<1>9. WellFormed(p)
  BY <1>1 DEF WellFormed
<1>10. ASSUME NEW T \in SUBSET R,
              T \cap Paths!Names # {} => "dirfd" \in T
       PROVE  Orderly(p, T)
  BY <1>1, <1>2, <1>10 DEF Orderly, Precedes, Paths!Through, Paths!Names
<1>11. Follows(p, has)
  <2>. HIDE DEF R
  <2>1. Orderly(p, has[11 + 1])
    BY <1>5, <1>6, <1>10
  <2>2. ASSUME NEW i \in 1 .. 11
        PROVE  Orderly(p, has[i] \ (p.body[i].takes \cap Paths!Descriptors))
    BY <1>5, <1>7, <1>10
  <2>3. \A i \in 1 .. Len(p.body) + 1 : has[i] \subseteq Paths!Resources(p)
    BY <1>1, <1>2, <1>5
  <2>4. \A i \in 1 .. Len(p.body) :
          /\ p.body[i].uses \subseteq has[i]
          /\ has[i + 1] = (has[i] \cup p.body[i].gives) \ p.body[i].takes
          /\ Orderly(p, has[i] \ (p.body[i].takes \cap Paths!Descriptors))
    BY <1>1, <1>3, <1>4, <2>2
  <2>5. /\ Orderly(p, has[Len(p.body) + 1])
        /\ has[Len(p.body) + 1] \cap Paths!Names = {}
    BY <1>1, <1>8, <2>1
  <2>. QED  BY <1>5, <2>3, <2>4, <2>5 DEF Follows
<1>. QED  BY <1>9, <1>11 DEF p

(* 16: what the process has at each call (lines 46-125).                   *)
LEMMA TerminalFollows ==
  WellFormed(Paths!terminal)
  /\ \E has : Follows(Paths!terminal, has)
<1>. DEFINE p   == Paths!terminal
            has == [i \in 1 .. 12 |->
                      (IF i >= 2 THEN {"master_fd"} ELSE {})
                      \cup (IF i >= 6 THEN {"slave_fd"} ELSE {})
                      \cup (IF i >= 8 THEN {"attributes"} ELSE {})]
            R   == {"attributes", "slave_fd", "master_fd"}
<1>1. /\ Len(p.body) = 11 /\ Len(p.cleanup) = 3 /\ DOMAIN p.cleanup = 1 .. 3
      /\ p.cleanup[1] = "attributes" /\ p.cleanup[2] = "slave_fd"
      /\ p.cleanup[3] = "master_fd"
  BY DEF Paths!terminal
<1>2. Paths!Resources(p) = R
  BY <1>1 DEF Paths!Resources
<1>3. ASSUME NEW i \in 1 .. 11 PROVE p.body[i].uses \subseteq has[i]
  BY CallFields, GetFields, ReleaseFields DEF Paths!terminal
<1>4. ASSUME NEW i \in 1 .. 11
      PROVE  has[i + 1] = (has[i] \cup p.body[i].gives) \ p.body[i].takes
  BY CallFields, GetFields, ReleaseFields DEF Paths!terminal
<1>5. has[1] = {} /\ \A i \in 1 .. 11 + 1 : has[i] \subseteq R
  OBVIOUS
<1>6. ASSUME NEW i \in 1 .. 11 + 1
      PROVE  LET T == has[i] IN
             "attributes" \in T => "slave_fd" \in T
  BY DEF Paths!Names
<1>7. ASSUME NEW i \in 1 .. 11
      PROVE  LET T == has[i] \ (p.body[i].takes \cap Paths!Descriptors) IN
             "attributes" \in T => "slave_fd" \in T
  BY CallFields, GetFields, ReleaseFields
     DEF Paths!terminal, Paths!Names, Paths!Descriptors
<1>8. has[11 + 1] \cap Paths!Names = {}
  BY DEF Paths!Names
<1>. HIDE DEF p, has
<1>9. WellFormed(p)
  BY <1>1 DEF WellFormed
<1>10. ASSUME NEW T \in SUBSET R,
              "attributes" \in T => "slave_fd" \in T
       PROVE  Orderly(p, T)
  BY <1>1, <1>2, <1>10 DEF Orderly, Precedes, Paths!Through, Paths!Names
<1>11. Follows(p, has)
  <2>. HIDE DEF R
  <2>1. Orderly(p, has[11 + 1])
    BY <1>5, <1>6, <1>10
  <2>2. ASSUME NEW i \in 1 .. 11
        PROVE  Orderly(p, has[i] \ (p.body[i].takes \cap Paths!Descriptors))
    BY <1>5, <1>7, <1>10
  <2>3. \A i \in 1 .. Len(p.body) + 1 : has[i] \subseteq Paths!Resources(p)
    BY <1>1, <1>2, <1>5
  <2>4. \A i \in 1 .. Len(p.body) :
          /\ p.body[i].uses \subseteq has[i]
          /\ has[i + 1] = (has[i] \cup p.body[i].gives) \ p.body[i].takes
          /\ Orderly(p, has[i] \ (p.body[i].takes \cap Paths!Descriptors))
    BY <1>1, <1>3, <1>4, <2>2
  <2>5. /\ Orderly(p, has[Len(p.body) + 1])
        /\ has[Len(p.body) + 1] \cap Paths!Names = {}
    BY <1>1, <1>8, <2>1
  <2>. QED  BY <1>5, <2>3, <2>4, <2>5 DEF Follows
<1>. QED  BY <1>9, <1>11 DEF p

(* 19: what the process has at each call (lines 34-150).                   *)
LEMMA FileMetadataFollows ==
  WellFormed(Paths!file_metadata)
  /\ \E has : Follows(Paths!file_metadata, has)
<1>. DEFINE p   == Paths!file_metadata
            has == [i \in 1 .. 11 |->
                      (IF i >= 2 THEN {"directory"} ELSE {})
                      \cup (IF i >= 3 THEN {"directory_fd"} ELSE {})
                      \cup (IF i \in 4 .. 6 THEN {"mask"} ELSE {})
                      \cup (IF i >= 5 THEN {"fd", "sample"} ELSE {})]
            R   == {"mask", "fd", "sample", "directory_fd", "directory"}
<1>1. /\ Len(p.body) = 10 /\ Len(p.cleanup) = 5 /\ DOMAIN p.cleanup = 1 .. 5
      /\ p.cleanup[1] = "mask" /\ p.cleanup[2] = "fd"
      /\ p.cleanup[3] = "sample" /\ p.cleanup[4] = "directory_fd"
      /\ p.cleanup[5] = "directory"
  BY DEF Paths!file_metadata
<1>2. Paths!Resources(p) = R
  BY <1>1 DEF Paths!Resources
<1>3. ASSUME NEW i \in 1 .. 10 PROVE p.body[i].uses \subseteq has[i]
  BY CallFields, GetFields, ReleaseFields DEF Paths!file_metadata
<1>4. ASSUME NEW i \in 1 .. 10
      PROVE  has[i + 1] = (has[i] \cup p.body[i].gives) \ p.body[i].takes
  BY CallFields, GetFields, ReleaseFields DEF Paths!file_metadata
<1>5. has[1] = {} /\ \A i \in 1 .. 10 + 1 : has[i] \subseteq R
  OBVIOUS
<1>6. ASSUME NEW i \in 1 .. 10 + 1
      PROVE  LET T == has[i] IN
             "sample" \in T => "directory_fd" \in T
  BY DEF Paths!Names
<1>7. ASSUME NEW i \in 1 .. 10
      PROVE  LET T == has[i] \ (p.body[i].takes \cap Paths!Descriptors) IN
             "sample" \in T => "directory_fd" \in T
  BY CallFields, GetFields, ReleaseFields
     DEF Paths!file_metadata, Paths!Names, Paths!Descriptors
<1>8. has[10 + 1] \cap Paths!Names = {}
  BY DEF Paths!Names
<1>. HIDE DEF p, has
<1>9. WellFormed(p)
  BY <1>1 DEF WellFormed
<1>10. ASSUME NEW T \in SUBSET R,
              "sample" \in T => "directory_fd" \in T
       PROVE  Orderly(p, T)
  BY <1>1, <1>2, <1>10 DEF Orderly, Precedes, Paths!Through, Paths!Names
<1>11. Follows(p, has)
  <2>. HIDE DEF R
  <2>1. Orderly(p, has[10 + 1])
    BY <1>5, <1>6, <1>10
  <2>2. ASSUME NEW i \in 1 .. 10
        PROVE  Orderly(p, has[i] \ (p.body[i].takes \cap Paths!Descriptors))
    BY <1>5, <1>7, <1>10
  <2>3. \A i \in 1 .. Len(p.body) + 1 : has[i] \subseteq Paths!Resources(p)
    BY <1>1, <1>2, <1>5
  <2>4. \A i \in 1 .. Len(p.body) :
          /\ p.body[i].uses \subseteq has[i]
          /\ has[i + 1] = (has[i] \cup p.body[i].gives) \ p.body[i].takes
          /\ Orderly(p, has[i] \ (p.body[i].takes \cap Paths!Descriptors))
    BY <1>1, <1>3, <1>4, <2>2
  <2>5. /\ Orderly(p, has[Len(p.body) + 1])
        /\ has[Len(p.body) + 1] \cap Paths!Names = {}
    BY <1>1, <1>8, <2>1
  <2>. QED  BY <1>5, <2>3, <2>4, <2>5 DEF Follows
<1>. QED  BY <1>9, <1>11 DEF p

(* The thirteen tables: the cleanup of each releases each resource once,   *)
(* and has something for each call to use, and nothing to release that it  *)
(* cannot, wherever the body stops.                                        *)
LEMMA ProgramsFollow ==
  ASSUME NEW p \in Paths!Programs
  PROVE  WellFormed(p) /\ \E has : Follows(p, has)
BY FileIoFollows, FilesystemFollows, MemoryMappingFollows,
   FileLockingFollows, ZeroCopyFollows, ResourceLimitsFollows,
   CpuAffinityFollows, TerminalFollows, MessageQueueFollows,
   FileMetadataFollows, ExtendedAttributesFollows, MemfdSealsFollows,
   DynamicLoadingFollows, Zenon DEF Paths!Programs

-----------------------------------------------------------------------------
(* The sequences: the inductive invariant, and one lemma for each action. *)

(* In the body no call has failed, and the variables tell of all that the  *)
(* process has but the names.                                              *)
BodyTracked ==
  /\ result = "EXIT_FAILURE" /\ faults = 0 /\ stuck = {}
  /\ \E has : Follows(table, has) /\ held = has[pc]
              /\ known = has[pc] \ Paths!Names

(* What the cleanup has been through. *)
Released ==
  {table.cleanup[j] : j \in 1 .. (IF phase = "exited"
                                  THEN Len(table.cleanup) ELSE pc - 1)}

(* The cleanup began with S: what it has been through is gone, or could    *)
(* not be released, and the variables tell of what is still to come.       *)
CleanupTracked ==
  /\ result = "EXIT_SUCCESS" <=> faults = 0
  /\ \E S : /\ Orderly(table, S)
            /\ result = "EXIT_SUCCESS" => S \cap Paths!Names = {}
            /\ known = (S \ Paths!Names) \ Released
            /\ held = (S \ Released) \cup stuck
            /\ stuck \subseteq S \cap Released

PathsInvariant ==
  /\ Paths!TypeOK
  /\ phase = "body" => BodyTracked
  /\ phase # "body" => CleanupTracked

(* The invariant holds before the first call of each. *)
LEMMA PathsInit ==
  ASSUME Paths!Init
  PROVE  PathsInvariant
<1>. USE DEF Paths!Init
<1>1. WellFormed(table)
  BY ProgramsFollow
<1>2. Paths!TypeOK
  <2>1. pc \in 1 .. Len(table.body)
    BY <1>1 DEF WellFormed
  <2>2. /\ held \in SUBSET Paths!Resources(table)
        /\ known \in SUBSET Paths!Resources(table)
        /\ stuck \in SUBSET Paths!Resources(table)
    OBVIOUS
  <2>3. table \in Paths!Programs /\ phase \in {"body", "cleanup", "exited"}
        /\ result \in {"EXIT_SUCCESS", "EXIT_FAILURE"} /\ faults \in Nat
    OBVIOUS
  <2>. QED  BY <2>1, <2>2, <2>3 DEF Paths!TypeOK
<1>3. BodyTracked
  <2>1. PICK has : Follows(table, has)
    BY ProgramsFollow
  <2>2. held = has[pc] /\ known = has[pc] \ Paths!Names
    BY <2>1 DEF Follows
  <2>. QED  BY <2>1, <2>2 DEF BodyTracked
<1>. QED  BY <1>2, <1>3 DEF PathsInvariant

(* The call of the body succeeds. *)
LEMMA SucceedsPreserves ==
  ASSUME PathsInvariant, Paths!Succeeds
  PROVE  PathsInvariant'
<1>. DEFINE n == Len(table.body)
            c == table.body[pc]
<1>1. PICK has : Follows(table, has) /\ held = has[pc]
                 /\ known = has[pc] \ Paths!Names
  BY DEF PathsInvariant, BodyTracked, Paths!Succeeds
<1>2. /\ phase = "body" /\ table \in Paths!Programs /\ pc \in 1 .. n
      /\ result = "EXIT_FAILURE" /\ faults = 0 /\ stuck = {}
      /\ UNCHANGED <<table, stuck, faults>>
      /\ held' = (held \cup c.gives) \ c.takes
      /\ known' = (known \cup (c.gives \ Paths!Names)) \ c.takes
      /\ IF pc < n THEN pc' = pc + 1 /\ UNCHANGED <<phase, result>>
                   ELSE pc' = 1 /\ phase' = "cleanup"
                        /\ result' = "EXIT_SUCCESS"
  BY DEF PathsInvariant, BodyTracked, Paths!TypeOK, Paths!Succeeds,
         Paths!Current
<1>3. WellFormed(table) /\ n \in Nat
  BY <1>2, ProgramsFollow DEF WellFormed
<1>. HIDE DEF n
<1>4. held' = has[pc + 1] /\ known' = has[pc + 1] \ Paths!Names
      /\ pc + 1 \in 1 .. n + 1 /\ has[pc + 1] \subseteq Paths!Resources(table)
  <2>1. has[pc + 1] = (has[pc] \cup c.gives) \ c.takes
    BY <1>1, <1>2 DEF Follows, n
  <2>2. pc + 1 \in 1 .. n + 1
    BY <1>2, <1>3
  <2>3. has[pc + 1] \subseteq Paths!Resources(table)
    BY <1>1, <2>2 DEF Follows, n
  <2>. HIDE DEF c
  <2>4. known' = has[pc + 1] \ Paths!Names
    BY <1>1, <1>2, <2>1
  <2>. QED  BY <1>1, <1>2, <2>1, <2>2, <2>3, <2>4
<1>. HIDE DEF c
<1>5. Paths!TypeOK'
  <2>1. pc' \in 1 .. Len(IF phase' = "body" THEN table'.body
                                            ELSE table'.cleanup)
    BY <1>2, <1>3 DEF WellFormed, n
  <2>2. /\ held' \in SUBSET Paths!Resources(table)'
        /\ known' \in SUBSET Paths!Resources(table)'
        /\ stuck' \in SUBSET Paths!Resources(table)'
    BY <1>2, <1>4
  <2>3. phase' \in {"body", "cleanup", "exited"}
        /\ result' \in {"EXIT_SUCCESS", "EXIT_FAILURE"} /\ faults' \in Nat
    BY <1>2
  <2>. QED  BY <1>2, <2>1, <2>2, <2>3 DEF Paths!TypeOK
<1>6. CASE pc < n
  <2>1. pc' = pc + 1 /\ phase' = "body" /\ result' = "EXIT_FAILURE"
    BY <1>2, <1>6
  <2>2. BodyTracked'
    BY <1>1, <1>2, <1>4, <2>1 DEF BodyTracked
  <2>. QED  BY <1>5, <2>1, <2>2 DEF PathsInvariant
<1>7. CASE ~(pc < n)
  <2>1. pc' = 1 /\ phase' = "cleanup" /\ result' = "EXIT_SUCCESS" /\ pc = n
    BY <1>2, <1>3, <1>7
  <2>2. Released' = {}
    BY <2>1 DEF Released
  <2>3. Orderly(table, has[pc + 1]) /\ has[pc + 1] \cap Paths!Names = {}
    BY <1>1, <2>1 DEF Follows, n
  <2>4. CleanupTracked'
    BY <1>2, <1>4, <2>1, <2>2, <2>3 DEF CleanupTracked
  <2>. QED  BY <1>5, <2>1, <2>4 DEF PathsInvariant
<1>. QED  BY <1>6, <1>7

(* The call of the body fails. *)
LEMMA PathsFailsPreserves ==
  ASSUME PathsInvariant, Paths!Fails
  PROVE  PathsInvariant'
<1>. DEFINE c == table.body[pc]
            X == c.takes \cap Paths!Descriptors
<1>1. PICK has : Follows(table, has) /\ held = has[pc]
                 /\ known = has[pc] \ Paths!Names
  BY DEF PathsInvariant, BodyTracked, Paths!Fails
<1>2. /\ table \in Paths!Programs /\ pc \in 1 .. Len(table.body)
      /\ result = "EXIT_FAILURE" /\ faults = 0 /\ stuck = {}
      /\ UNCHANGED <<table, result, stuck>>
      /\ held' = held \ X /\ known' = known \ X
      /\ phase' = "cleanup" /\ pc' = 1 /\ faults' = 1
  BY DEF PathsInvariant, BodyTracked, Paths!TypeOK, Paths!Fails,
         Paths!Current, Paths!Forgotten
<1>3. Orderly(table, has[pc] \ X)
  BY <1>1, <1>2 DEF Follows
<1>4. WellFormed(table)
  BY <1>2, ProgramsFollow
<1>. HIDE DEF X
<1>5. Released' = {}
  BY <1>2 DEF Released
<1>6. known' = ((has[pc] \ X) \ Paths!Names) /\ held' = has[pc] \ X
  BY <1>1, <1>2
<1>7. CleanupTracked'
  BY <1>2, <1>3, <1>5, <1>6 DEF CleanupTracked
<1>8. Paths!TypeOK'
  <2>1. pc' \in 1 .. Len(table'.cleanup)
    BY <1>2, <1>4 DEF WellFormed
  <2>2. /\ held' \in SUBSET Paths!Resources(table)'
        /\ known' \in SUBSET Paths!Resources(table)'
        /\ stuck' \in SUBSET Paths!Resources(table)'
    BY <1>2, <1>3, <1>6 DEF Orderly
  <2>. QED  BY <1>2, <2>1, <2>2 DEF Paths!TypeOK
<1>. QED  BY <1>2, <1>7, <1>8 DEF PathsInvariant

(* The names are released through the directory (lines 119-123 of 02).     *)
LEMMA NamesThrough ==
  ASSUME NEW r \in Paths!Names
  PROVE  Paths!Through(r) = {"dirfd"}
<1>1. r \notin {"sample", "attributes"}
  BY DEF Paths!Names
<1>. QED  BY <1>1 DEF Paths!Through

(* What the cleanup goes through next is still there, if it was there when *)
(* the cleanup began, and so is what it is released through.               *)
LEMMA NextInOrder ==
  ASSUME Paths!TypeOK, phase = "cleanup", NEW S, Orderly(table, S)
  PROVE  /\ Paths!Resource \notin Released
         /\ Paths!Resource \in S
              => Paths!Through(Paths!Resource) \subseteq S \ Released
         /\ Paths!Resource \in Paths!Resources(table)
<1>1. /\ WellFormed(table) /\ pc \in 1 .. Len(table.cleanup)
      /\ Len(table.cleanup) \in Nat
  BY ProgramsFollow DEF Paths!TypeOK, WellFormed
<1>2. \A d \in Released : \E j \in 1 .. pc - 1 : table.cleanup[j] = d
  BY DEF Released
<1>3. Paths!Resource \notin Released
  BY <1>1, <1>2 DEF WellFormed, Paths!Resource
<1>4. ASSUME Paths!Resource \in S, NEW d \in Paths!Through(Paths!Resource)
      PROVE  d \in S \ Released
  <2>1. d \in S
        /\ (d # Paths!Resource => Precedes(table, Paths!Resource, d))
    BY <1>4 DEF Orderly
  <2>2. CASE d = Paths!Resource
    BY <1>3, <2>1, <2>2
  <2>3. CASE d # Paths!Resource
    <3>1. SUFFICES ASSUME d \in Released PROVE FALSE
      BY <2>1
    <3>2. PICK j \in 1 .. pc - 1 : table.cleanup[j] = d
      BY <1>2, <3>1
    <3>3. pc < j
      BY <1>1, <2>1, <2>3, <3>2 DEF Precedes, Paths!Resource
    <3>. QED  BY <1>1, <3>3
  <2>. QED  BY <2>2, <2>3
<1>5. Paths!Resource \in Paths!Resources(table)
  BY <1>1 DEF Paths!Resource, Paths!Resources, WellFormed
<1>. QED  BY <1>3, <1>4, <1>5

(* A step of the cleanup: the resource is released, remains, or is not     *)
(* there.                                                                  *)
LEMMA PathsCleanupPreserves ==
  ASSUME PathsInvariant, Paths!Cleanup
  PROVE  PathsInvariant'
<1>. DEFINE r == Paths!Resource
            m == Len(table.cleanup)
<1>1. /\ phase = "cleanup" /\ CleanupTracked /\ Paths!TypeOK
      /\ table \in Paths!Programs /\ pc \in 1 .. m /\ faults \in Nat
      /\ table' = table
      /\ IF pc < m THEN pc' = pc + 1 /\ UNCHANGED phase
                   ELSE phase' = "exited" /\ UNCHANGED pc
  BY DEF PathsInvariant, Paths!TypeOK, Paths!Cleanup
<1>2. PICK S : /\ Orderly(table, S)
               /\ result = "EXIT_SUCCESS" => S \cap Paths!Names = {}
               /\ known = (S \ Paths!Names) \ Released
               /\ held = (S \ Released) \cup stuck
               /\ stuck \subseteq S \cap Released
  BY <1>1 DEF CleanupTracked
<1>3. /\ r \notin Released /\ r \in Paths!Resources(table)
      /\ r \in S => Paths!Through(r) \subseteq S \ Released
  BY <1>1, <1>2, NextInOrder
<1>4. Released' = Released \cup {r}
  <2>1. m \in Nat
    BY <1>1, ProgramsFollow DEF WellFormed
  <2>2. (IF phase' = "exited" THEN m ELSE pc' - 1) = pc
    BY <1>1, <2>1
  <2>3. Released' = {table.cleanup[j] : j \in 1 .. pc}
    BY <1>1, <2>2 DEF Released
  <2>4. Released = {table.cleanup[j] : j \in 1 .. pc - 1}
    BY <1>1 DEF Released
  <2>5. \A j \in 1 .. pc : j \in 1 .. pc - 1 \/ j = pc
    BY <1>1
  <2>6. pc \in 1 .. pc /\ \A j \in 1 .. pc - 1 : j \in 1 .. pc
    BY <1>1
  <2>. QED  BY <2>3, <2>4, <2>5, <2>6 DEF Paths!Resource
<1>5. \/ /\ Paths!Tried /\ (r \in Paths!Names => r \in held)
         /\ Paths!Releases \/ Paths!Remains
      \/ /\ ~(Paths!Tried /\ (r \in Paths!Names => r \in held))
         /\ UNCHANGED <<held, known, result, stuck, faults>>
  BY DEF Paths!Cleanup
<1>6. r \in Paths!Names => Paths!Through(r) = {"dirfd"}
  BY NamesThrough
<1>7. "dirfd" \notin Paths!Names
  BY DEF Paths!Names
<1>. DEFINE R1 == Released \cup {r}
<1>8. /\ known' = (S \ Paths!Names) \ R1
      /\ held' = (S \ R1) \cup stuck'
      /\ stuck' \subseteq S \cap R1
      /\ result' = "EXIT_SUCCESS" <=> faults' = 0
      /\ result' = "EXIT_SUCCESS" => S \cap Paths!Names = {}
      /\ result' \in {"EXIT_SUCCESS", "EXIT_FAILURE"} /\ faults' \in Nat
  <2>. HIDE DEF r
  <2>1. result \in {"EXIT_SUCCESS", "EXIT_FAILURE"}
        /\ (result = "EXIT_SUCCESS" <=> faults = 0)
    BY <1>1 DEF Paths!TypeOK, CleanupTracked
  <2>2. CASE /\ Paths!Tried /\ (r \in Paths!Names => r \in held)
             /\ Paths!Releases
    <3>1. /\ held' = held \ {r} /\ known' = known \ {r}
          /\ UNCHANGED <<result, stuck, faults>>
      BY <2>2 DEF Paths!Releases, r
    <3>. QED  BY <1>1, <1>2, <1>3, <2>1, <3>1
  <2>3. CASE /\ Paths!Tried /\ (r \in Paths!Names => r \in held)
             /\ Paths!Remains
    <3>1. r \in S /\ r \in held
      <4>1. CASE r \in Paths!Names
        BY <1>2, <1>3, <2>3, <4>1
      <4>2. CASE r \notin Paths!Names
        BY <1>2, <2>3, <4>2 DEF Paths!Tried, r
      <4>. QED  BY <4>1, <4>2
    <3>2. /\ known' = known \ {r} /\ faults' = faults + 1
          /\ IF r \in Paths!Descriptors
             THEN held' = held \ {r} /\ stuck' = stuck
             ELSE stuck' = stuck \cup {r} /\ held' = held
          /\ result' = IF r \in Paths!Names THEN result ELSE "EXIT_FAILURE"
      BY <2>3 DEF Paths!Remains, r
    <3>3. result' = "EXIT_FAILURE" /\ faults' \in Nat \ {0}
      BY <1>1, <1>2, <2>1, <3>1, <3>2
    <3>4. held' = (S \ R1) \cup stuck' /\ stuck' \subseteq S \cap R1
      BY <1>2, <1>3, <3>1, <3>2
    <3>5. known' = (S \ Paths!Names) \ R1
      BY <1>2, <3>2
    <3>. QED  BY <3>3, <3>4, <3>5
  <2>4. CASE /\ ~(Paths!Tried /\ (r \in Paths!Names => r \in held))
             /\ UNCHANGED <<held, known, result, stuck, faults>>
    <3>1. r \notin S
      <4>1. CASE r \notin Paths!Names
        BY <1>2, <1>3, <2>4, <4>1 DEF Paths!Tried, r
      <4>2. CASE r \in Paths!Names /\ r \notin held
        BY <1>2, <1>3, <4>2
      <4>3. CASE r \in Paths!Names /\ ~Paths!Tried
        <5>1. "dirfd" \notin S \ Released
          BY <1>2, <1>7, <4>3 DEF Paths!Tried, r
        <5>. QED  BY <1>3, <1>6, <4>3, <5>1
      <4>. QED  BY <2>4, <4>1, <4>2, <4>3
    <3>. QED  BY <1>1, <1>2, <2>1, <2>4, <3>1
  <2>. QED  BY <1>5, <2>2, <2>3, <2>4
<1>9. CleanupTracked'
  BY <1>1, <1>2, <1>4, <1>8 DEF CleanupTracked
<1>10. Paths!TypeOK'
  <2>1. S \subseteq Paths!Resources(table)
    BY <1>2 DEF Orderly
  <2>2. /\ held' \in SUBSET Paths!Resources(table)'
        /\ known' \in SUBSET Paths!Resources(table)'
        /\ stuck' \in SUBSET Paths!Resources(table)'
    BY <1>1, <1>8, <2>1
  <2>3. pc' \in 1 .. m /\ phase' \in {"cleanup", "exited"}
    BY <1>1
  <2>. QED  BY <1>1, <1>8, <2>2, <2>3 DEF Paths!TypeOK
<1>. QED  BY <1>1, <1>9, <1>10 DEF PathsInvariant

(* Nothing happens. *)
LEMMA PathsStutter ==
  ASSUME PathsInvariant, UNCHANGED <<table, phase, pc, held, known, result,
                                     stuck, faults>>
  PROVE  PathsInvariant'
BY DEF PathsInvariant, BodyTracked, CleanupTracked, Released, Paths!TypeOK

(* Every step of a sequence. *)
LEMMA PathsStep ==
  ASSUME PathsInvariant, Paths!Next
  PROVE  PathsInvariant'
BY SucceedsPreserves, PathsFailsPreserves, PathsCleanupPreserves,
   PathsStutter DEF Paths!Next, Paths!MainStep, Paths!Exited, Paths!vars

(* What the invariant says of each use and of the end. *)
LEMMA PathsProperties ==
  ASSUME PathsInvariant
  PROVE  Paths!UsesWhatItHas /\ Paths!LeavesNothing
<1>. USE DEF PathsInvariant
<1>1. ASSUME phase = "body"
      PROVE  Paths!Current.uses \subseteq held
  <2>1. PICK has : Follows(table, has) /\ held = has[pc]
    BY <1>1 DEF BodyTracked
  <2>. QED  BY <1>1, <2>1 DEF Follows, Paths!Current, Paths!TypeOK
<1>2. ASSUME phase = "cleanup", Paths!Tried
      PROVE  Paths!Through(Paths!Resource) \subseteq held
  <2>. DEFINE r == Paths!Resource
  <2>1. PICK S : /\ Orderly(table, S)
                 /\ known = (S \ Paths!Names) \ Released
                 /\ held = (S \ Released) \cup stuck
    BY <1>2 DEF CleanupTracked
  <2>2. r \in S => Paths!Through(r) \subseteq S \ Released
    BY <1>2, <2>1, NextInOrder
  <2>3. CASE r \in Paths!Names
    BY <1>2, <2>1, <2>3, NamesThrough DEF Paths!Tried
  <2>4. CASE r \notin Paths!Names
    BY <1>2, <2>1, <2>2, <2>4 DEF Paths!Tried
  <2>. QED  BY <2>3, <2>4
<1>3. ASSUME phase = "exited"
      PROVE  held \subseteq stuck /\ (result = "EXIT_SUCCESS" <=> faults = 0)
  <2>1. PICK S : Orderly(table, S) /\ held = (S \ Released) \cup stuck
    BY <1>3 DEF CleanupTracked
  <2>2. WellFormed(table)
    BY ProgramsFollow DEF Paths!TypeOK
  <2>3. Paths!Resources(table) \subseteq Released
    BY <1>3, <2>2 DEF Paths!Resources, Released, WellFormed
  <2>. QED  BY <1>3, <2>1, <2>3 DEF Orderly, CleanupTracked
<1>. QED  BY <1>1, <1>2, <1>3 DEF Paths!UsesWhatItHas, Paths!LeavesNothing
(* 11_event_loop: one lemma for each action. *)

USE LoopConstants DEF Loop!DelayAssumption, Loop!Sources, Loop!wake_value

(* What epoll_wait may return is what is ready, each descriptor once. *)
LEMMA ReadyReported ==
  ASSUME registered \in SUBSET Loop!Sources,
         NEW e \in Loop!SetToSeqs(Loop!Ready)
  PROVE  /\ e \in Seq(Loop!Sources)
         /\ \A i \in 1 .. Len(e) : e[i] \in Loop!Ready
         /\ \A i, j \in 1 .. Len(e) : i # j => e[i] # e[j]
<1>. DEFINE R == Loop!Ready
            n == Cardinality(R)
<1>1. R \in SUBSET Loop!Sources
  BY DEF Loop!Ready
<1>2. n \in Nat
  <2>1. IsFiniteSet({"event_fd"})
    BY FS_Singleton
  <2>2. IsFiniteSet({"event_fd"} \cup {"timer_fd"})
    BY <2>1, FS_AddElement
  <2>3. {"event_fd"} \cup {"timer_fd"} = Loop!Sources
    OBVIOUS
  <2>4. IsFiniteSet(R)
    BY <1>1, <2>2, <2>3, FS_Subset
  <2>. QED  BY <2>4, FS_CardinalityType
<1>3. Loop!Cardinality(R) = n
  BY Zenon DEF Cardinality, Loop!Cardinality
<1>. HIDE DEF R, n
<1>4. e \in [1 .. n -> R] /\ \A i, j \in 1 .. n : i # j => e[i] # e[j]
  BY <1>3 DEF Loop!SetToSeqs, R
<1>5. e \in Seq(Loop!Sources) /\ Len(e) = n
  <2>. HIDE DEF Loop!Sources
  <2>1. e \in [1 .. n -> Loop!Sources]
    BY <1>1, <1>4
  <2>. QED  BY <1>2, <2>1
<1>. QED  BY <1>4, <1>5 DEF R

(* The invariant holds before the first call (lines 40-52). *)
LEMMA LoopInit ==
  ASSUME Loop!Init
  PROVE  LoopInvariant
<1>. USE DEF Loop!Init
<1>1. Loop!TypeOK
  <2>1. /\ counter \in [Loop!Sources -> Nat] /\ value \in [Loop!Sources -> Nat]
        /\ events \in Seq(Loop!Sources)
    OBVIOUS
  <2>2. armed \in -1 .. DELAY /\ waited \in 0 .. TIMEOUT /\ faults \in Nat
    OBVIOUS
  <2>. QED  BY <2>1, <2>2 DEF Loop!TypeOK, Loop!Fallible
<1>2. EventTracked /\ TimerTracked /\ Reported
  BY DEF EventTracked, TimerTracked, Reported, Following, Looping
<1>3. NothingYet /\ WaitBounded /\ LoopOutcome
  BY DEF NothingYet, WaitBounded, LoopOutcome, Following, Looping
<1>. QED  BY <1>1, <1>2, <1>3 DEF LoopInvariant

(* The calls of the preparation succeed (lines 53-95). *)
LEMMA LoopPreparePreserves ==
  ASSUME LoopInvariant, Loop!Prepare
  PROVE  LoopInvariant'
<1>. USE DEF LoopInvariant, Loop!Prepare, Loop!Open, Loop!Register,
             Loop!StartTimer, Loop!WriteEvent, Loop!Goes, Loop!clock,
             Loop!loop
<1>1. Loop!TypeOK'
  <2>. USE DEF Loop!TypeOK
  <2>1. /\ main' \in Loop!Fallible \cup {"loop"}
        /\ fds' \in SUBSET (Loop!Sources \cup {"epoll_fd"})
        /\ registered' \in SUBSET Loop!Sources
    BY DEF Loop!Fallible
  <2>2. armed' \in -1 .. DELAY /\ counter' \in [Loop!Sources -> Nat]
    OBVIOUS
  <2>3. UNCHANGED <<result, waited, events, saw, value, faults>>
    OBVIOUS
  <2>. QED  BY <2>1, <2>2, <2>3
<1>2. EventTracked'
  BY DEF EventTracked, NothingYet, Following, Looping, Loop!TypeOK
<1>3. TimerTracked'
  <2>1. CASE main = "settime"
    BY <2>1 DEF TimerTracked, NothingYet, Following, Looping, Loop!TypeOK
  <2>2. CASE main = "write"
    BY <2>2 DEF TimerTracked, Following, Looping, Loop!TypeOK
  <2>3. CASE main \notin {"settime", "write"}
    BY <2>3 DEF TimerTracked, Following, Looping
  <2>. QED  BY <2>1, <2>2, <2>3
<1>4. NothingYet'
  <2>1. main' \notin Following \cup {"cleanup", "exited"} => saw' = {}
    BY DEF NothingYet, Following, Looping
  <2>2. main' \notin Following \cup {"write", "cleanup", "exited"}
          => armed' = -1 /\ counter'["timer_fd"] = 0
    BY DEF NothingYet, Following, Looping
  <2>3. main' = "add_timer" => "event_fd" \in registered'
    BY DEF NothingYet, Following, Looping
  <2>4. main' \in Following \cup {"settime", "write"}
          => registered' = Loop!Sources
    <3>1. CASE main = "add_timer"
      <4>1. /\ "event_fd" \in registered /\ registered \in SUBSET Loop!Sources
            /\ registered' = registered \cup {"timer_fd"}
        BY <3>1 DEF NothingYet, Loop!TypeOK
      <4>. QED  BY <4>1
    <3>2. CASE main # "add_timer"
      BY <3>2 DEF NothingYet, Following, Looping
    <3>. QED  BY <3>1, <3>2
  <2>. QED  BY <2>1, <2>2, <2>3, <2>4 DEF NothingYet
<1>5. WaitBounded' /\ Reported'
  BY DEF WaitBounded, Reported
<1>6. LoopOutcome'
  BY DEF LoopOutcome
<1>. QED  BY <1>1, <1>2, <1>3, <1>4, <1>5, <1>6

(* A call fails (lines 53-131). *)
LEMMA LoopFailsPreserves ==
  ASSUME LoopInvariant, NEW from \in Loop!Fallible, Loop!Fails(from)
  PROVE  LoopInvariant'
<1>. USE DEF LoopInvariant, Loop!Fails, Loop!Goes, Loop!Fault, Loop!clock,
             Loop!loop
<1>1. Loop!TypeOK'
  BY DEF Loop!TypeOK
<1>2. EventTracked' /\ TimerTracked' /\ NothingYet' /\ WaitBounded'
      /\ Reported'
  BY DEF EventTracked, TimerTracked, NothingYet, WaitBounded, Reported,
         Following, Looping
<1>3. LoopOutcome'
  BY DEF LoopOutcome, Loop!Fallible, Loop!TypeOK
<1>. QED  BY <1>1, <1>2, <1>3

(* A tick of the timer (lines 80-88). *)
LEMMA TickPreserves ==
  ASSUME LoopInvariant, Loop!Tick
  PROVE  LoopInvariant'
<1>. USE DEF LoopInvariant, Loop!Tick, Loop!loop
<1>1. /\ armed \in 1 .. DELAY /\ waited \in 0 .. TIMEOUT
      /\ armed' = (IF armed > 1 THEN armed - 1 ELSE -1)
      /\ counter \in [Loop!Sources -> Nat]
      /\ UNCHANGED <<main, result, fds, registered, events, saw, value,
                     faults>>
  BY DEF Loop!TypeOK
<1>2. /\ counter' \in [Loop!Sources -> Nat]
      /\ counter'["event_fd"] = counter["event_fd"]
      /\ counter'["timer_fd"] = counter["timer_fd"]
                                  + (IF armed > 1 THEN 0 ELSE 1)
  BY <1>1
<1>3. Loop!TypeOK'
  <2>1. armed' \in -1 .. DELAY /\ waited' \in 0 .. TIMEOUT
    BY <1>1
  <2>. QED  BY <1>1, <1>2, <2>1 DEF Loop!TypeOK
<1>4. EventTracked'
  BY <1>1, <1>2 DEF EventTracked
<1>5. TimerTracked'
  BY <1>1, <1>2 DEF TimerTracked
<1>6. NothingYet'
  BY <1>1, <1>2 DEF NothingYet
<1>7. WaitBounded'
  BY <1>1 DEF WaitBounded
<1>8. Reported'
  <2>. SUFFICES ASSUME main = "dispatch", NEW i \in 1 .. Len(events)
                PROVE  counter'[events[i]] > 0
    BY <1>1 DEF Reported
  <2>1. events[i] \in Loop!Sources /\ counter[events[i]] > 0
    BY DEF Reported, Loop!TypeOK
  <2>. QED  BY <1>1, <1>2, <2>1
<1>9. LoopOutcome'
  BY <1>1 DEF LoopOutcome
<1>. QED  BY <1>3, <1>4, <1>5, <1>6, <1>7, <1>8, <1>9

(* The test of the loop (line 97). *)
LEMMA LoopTestPreserves ==
  ASSUME LoopInvariant, Loop!Loop
  PROVE  LoopInvariant'
<1>. USE DEF LoopInvariant, Loop!Loop, Loop!Goes, Loop!Done, Loop!loop
<1>1. Loop!TypeOK'
  BY DEF Loop!TypeOK, Loop!Fallible
<1>2. EventTracked' /\ TimerTracked' /\ NothingYet'
  BY DEF EventTracked, TimerTracked, NothingYet, Following, Looping
<1>3. WaitBounded' /\ Reported'
  BY DEF WaitBounded, Reported, Loop!TypeOK
<1>4. LoopOutcome'
  BY DEF LoopOutcome
<1>. QED  BY <1>1, <1>2, <1>3, <1>4

(* The wait is interrupted, and begins again (lines 100-102). *)
LEMMA LoopInterruptedPreserves ==
  ASSUME LoopInvariant, Loop!Interrupted
  PROVE  LoopInvariant'
<1>. USE DEF LoopInvariant, Loop!Interrupted, Loop!loop
<1>1. Loop!TypeOK'
  BY DEF Loop!TypeOK
<1>2. EventTracked' /\ TimerTracked' /\ NothingYet'
  BY DEF EventTracked, TimerTracked, NothingYet
<1>3. WaitBounded' /\ Reported'
  BY DEF WaitBounded, Reported, Loop!TypeOK
<1>4. LoopOutcome'
  BY DEF LoopOutcome
<1>. QED  BY <1>1, <1>2, <1>3, <1>4

(* The wait never ends without an event: what is not yet seen is ready, or *)
(* is the timer, which expires before the timeout (lines 97-107).          *)
LEMMA NeverTimesOut ==
  ASSUME LoopInvariant, main = "epoll_wait",
         Loop!Ready # {} \/ waited = TIMEOUT
  PROVE  Loop!Ready # {}
<1>. SUFFICES ASSUME waited = TIMEOUT, Loop!Ready = {} PROVE FALSE
  OBVIOUS
<1>. USE DEF LoopInvariant
<1>1. /\ registered = Loop!Sources /\ saw # Loop!Sources
      /\ saw \in SUBSET Loop!Sources
  BY DEF NothingYet, WaitBounded, Following, Looping, Loop!TypeOK
<1>2. ~(counter["event_fd"] > 0) /\ ~(counter["timer_fd"] > 0)
  BY <1>1 DEF Loop!Ready
<1>3. "event_fd" \in saw
  BY <1>2 DEF EventTracked, Following, Looping
<1>4. "timer_fd" \notin saw
  BY <1>1, <1>3
<1>5. armed \in -1 .. DELAY /\ armed > 0
  BY <1>2, <1>4 DEF TimerTracked, Following, Looping, Loop!TypeOK
<1>6. waited + armed <= DELAY
  BY <1>5 DEF WaitBounded
<1>. QED  BY <1>5, <1>6

(* epoll_wait returns (lines 97-107). *)
LEMMA EpollWaitPreserves ==
  ASSUME LoopInvariant, Loop!EpollWait
  PROVE  LoopInvariant'
<1>. USE DEF LoopInvariant
<1>1. /\ main = "epoll_wait" /\ main' = "dispatch"
      /\ UNCHANGED <<result, fds, registered, armed, waited, counter, saw,
                     value, faults>>
  BY NeverTimesOut DEF Loop!EpollWait, Loop!Goes, Loop!clock
<1>2. /\ events' \in Seq(Loop!Sources)
      /\ \A i \in 1 .. Len(events') : events'[i] \in Loop!Ready
      /\ \A i, j \in 1 .. Len(events') : i # j => events'[i] # events'[j]
  BY ReadyReported DEF Loop!EpollWait, Loop!TypeOK
<1>3. Loop!TypeOK'
  BY <1>1, <1>2 DEF Loop!TypeOK, Loop!Fallible
<1>4. EventTracked' /\ TimerTracked' /\ NothingYet' /\ WaitBounded'
  BY <1>1
     DEF EventTracked, TimerTracked, NothingYet, WaitBounded, Following,
         Looping
<1>5. Reported'
  BY <1>1, <1>2 DEF Reported, Loop!Ready
<1>6. LoopOutcome'
  BY <1>1 DEF LoopOutcome
<1>. QED  BY <1>3, <1>4, <1>5, <1>6

(* One round of the inner loop: what is read has something to read (lines  *)
(* 108-131).                                                               *)
LEMMA DispatchPreserves ==
  ASSUME LoopInvariant, Loop!Dispatch
  PROVE  LoopInvariant'
<1>. USE DEF LoopInvariant
<1>1. /\ main = "dispatch" /\ events \in Seq(Loop!Sources)
      /\ counter \in [Loop!Sources -> Nat] /\ value \in [Loop!Sources -> Nat]
      /\ UNCHANGED <<result, fds, registered, armed, waited, faults>>
  BY DEF Loop!Dispatch, Loop!TypeOK, Loop!clock
<1>2. CASE events = <<>>
  <2>1. main' = "loop" /\ UNCHANGED <<counter, events, saw, value>>
    BY <1>2 DEF Loop!Dispatch, Loop!loop
  <2>2. Loop!TypeOK'
    BY <1>1, <2>1 DEF Loop!TypeOK
  <2>3. EventTracked' /\ TimerTracked' /\ NothingYet' /\ WaitBounded'
        /\ Reported' /\ LoopOutcome'
    BY <1>1, <2>1
       DEF EventTracked, TimerTracked, NothingYet, WaitBounded, Reported,
           LoopOutcome, Following, Looping
  <2>. QED  BY <2>2, <2>3
<1>3. CASE events # <<>>
  <2>. DEFINE d == Head(events)
  <2>1. /\ d \in Loop!Sources /\ d = events[1] /\ Len(events) \in Nat \ {0}
        /\ Tail(events) \in Seq(Loop!Sources)
        /\ Len(Tail(events)) = Len(events) - 1
        /\ \A i \in 1 .. Len(Tail(events)) :
             i + 1 \in 1 .. Len(events) /\ Tail(events)[i] = events[i + 1]
    BY <1>1, <1>3
  <2>2. counter[d] > 0 /\ counter[d] \in Nat
    BY <1>1, <2>1 DEF Reported
  <2>3. \A i \in 1 .. Len(Tail(events)) :
          /\ counter[Tail(events)[i]] > 0 /\ Tail(events)[i] # d
          /\ Tail(events)[i] \in Loop!Sources
    <3>. TAKE i \in 1 .. Len(Tail(events))
    <3>1. i + 1 \in 1 .. Len(events) /\ i + 1 # 1 /\ 1 \in 1 .. Len(events)
      BY <2>1
    <3>2. events[i + 1] # events[1] /\ counter[events[i + 1]] > 0
      BY <1>1, <3>1 DEF Reported
    <3>. QED  BY <1>1, <2>1, <3>1, <3>2
  <2>4. \A i, j \in 1 .. Len(Tail(events)) :
          i # j => Tail(events)[i] # Tail(events)[j]
    <3>. SUFFICES ASSUME NEW i \in 1 .. Len(Tail(events)),
                         NEW j \in 1 .. Len(Tail(events)), i # j
                  PROVE  events[i + 1] # events[j + 1]
      BY <2>1
    <3>1. /\ i + 1 \in 1 .. Len(events) /\ j + 1 \in 1 .. Len(events)
          /\ i + 1 # j + 1
      BY <2>1
    <3>. QED  BY <1>1, <3>1 DEF Reported
  <2>5. /\ main' = "dispatch" /\ events' = Tail(events)
        /\ IF d \in saw THEN UNCHANGED <<counter, saw, value>>
           ELSE /\ value' = [value EXCEPT ![d] = counter[d]]
                /\ counter' = [counter EXCEPT ![d] = 0]
                /\ saw' = saw \cup {d}
    BY <1>1, <1>3, <2>2 DEF Loop!Dispatch
  <2>. HIDE DEF d
  <2>6. Loop!TypeOK'
    <3>1. /\ counter' \in [Loop!Sources -> Nat]
          /\ value' \in [Loop!Sources -> Nat]
      <4>1. CASE d \in saw
        BY <1>1, <2>5, <4>1
      <4>2. CASE d \notin saw
        <5>1. /\ value' = [value EXCEPT ![d] = counter[d]]
              /\ counter' = [counter EXCEPT ![d] = 0]
          BY <2>5, <4>2
        <5>. HIDE DEF Loop!Sources
        <5>. QED  BY <1>1, <2>1, <2>2, <5>1
      <4>. QED  BY <4>1, <4>2
    <3>2. saw' \in SUBSET Loop!Sources
      <4>1. saw \subseteq Loop!Sources
        BY DEF Loop!TypeOK
      <4>2. saw' = saw \/ saw' = saw \cup {d}
        BY <2>5
      <4>. HIDE DEF Loop!Sources
      <4>. QED  BY <2>1, <4>1, <4>2
    <3>. QED  BY <1>1, <2>1, <2>5, <3>1, <3>2 DEF Loop!TypeOK, Loop!Fallible
  <2>7. EventTracked'
    BY <1>1, <2>1, <2>5 DEF EventTracked, Following, Looping
  <2>8. TimerTracked'
    BY <1>1, <2>1, <2>2, <2>5
       DEF TimerTracked, Following, Looping, Loop!TypeOK
  <2>9. NothingYet' /\ WaitBounded' /\ LoopOutcome'
    BY <1>1, <2>5
       DEF NothingYet, WaitBounded, LoopOutcome, Following, Looping
  <2>10. Reported'
    BY <1>1, <2>1, <2>3, <2>4, <2>5 DEF Reported
  <2>. QED  BY <2>6, <2>7, <2>8, <2>9, <2>10
<1>. QED  BY <1>2, <1>3

(* The verdict, which is always good: both were read, each with what it    *)
(* was to hold (lines 133-137).                                            *)
LEMMA LoopVerifyPreserves ==
  ASSUME LoopInvariant, Loop!Verify
  PROVE  LoopInvariant'
<1>. USE DEF LoopInvariant, Loop!Verify, Loop!Goes, Loop!clock, Loop!loop
<1>1. Loop!TypeOK'
  <2>1. main' = "cleanup" /\ result' \in {"EXIT_SUCCESS", "EXIT_FAILURE"}
    OBVIOUS
  <2>2. UNCHANGED <<fds, registered, armed, waited, counter, events, saw,
                    value, faults>>
    OBVIOUS
  <2>. QED  BY <2>1, <2>2 DEF Loop!TypeOK
<1>2. EventTracked' /\ TimerTracked' /\ NothingYet' /\ WaitBounded'
      /\ Reported'
  BY DEF EventTracked, TimerTracked, NothingYet, WaitBounded, Reported,
         Following, Looping
<1>3. value["event_fd"] = Loop!wake_value /\ value["timer_fd"] = 1
  BY DEF EventTracked, TimerTracked, WaitBounded, Following
<1>4. LoopOutcome'
  BY <1>3 DEF LoopOutcome
<1>. QED  BY <1>1, <1>2, <1>4

(* The descriptors are closed, or the program ends (lines 139-148). *)
LEMMA LoopCleanupPreserves ==
  ASSUME LoopInvariant, Loop!Cleanup
  PROVE  LoopInvariant'
<1>. USE DEF LoopInvariant, Loop!Cleanup, Loop!Fault, Loop!clock, Loop!loop
<1>1. Loop!TypeOK'
  <2>1. /\ main' \in {"cleanup", "exited"}
        /\ result' \in {result, "EXIT_FAILURE"} /\ fds' \in {fds, {}}
    OBVIOUS
  <2>2. faults' \in Nat
    BY DEF Loop!TypeOK
  <2>3. UNCHANGED <<registered, armed, waited, counter, events, saw, value>>
    OBVIOUS
  <2>. QED  BY <2>1, <2>2, <2>3 DEF Loop!TypeOK
<1>2. EventTracked' /\ TimerTracked' /\ NothingYet' /\ WaitBounded'
      /\ Reported'
  BY DEF EventTracked, TimerTracked, NothingYet, WaitBounded, Reported,
         Following, Looping
<1>3. LoopOutcome'
  <2>1. faults \in Nat /\ main = "cleanup"
        /\ (result = "EXIT_SUCCESS" <=> faults = 0)
    BY DEF LoopOutcome, Loop!TypeOK
  <2>2. \/ UNCHANGED <<result, faults>>
        \/ result' = "EXIT_FAILURE" /\ faults' = faults + 1
    OBVIOUS
  <2>3. main' \in {"cleanup", "exited"} /\ (main' = "exited" => fds' = {})
    OBVIOUS
  <2>. QED  BY <2>1, <2>2, <2>3 DEF LoopOutcome
<1>. QED  BY <1>1, <1>2, <1>3

(* Nothing happens. *)
LEMMA LoopStutter ==
  ASSUME LoopInvariant, UNCHANGED Loop!vars
  PROVE  LoopInvariant'
BY DEF LoopInvariant, Loop!vars, Loop!clock, Loop!loop, Loop!TypeOK,
       EventTracked, TimerTracked, NothingYet, WaitBounded, Reported,
       LoopOutcome

(* Every step of the program. *)
LEMMA LoopStep ==
  ASSUME LoopInvariant, Loop!Next
  PROVE  LoopInvariant'
BY LoopPreparePreserves, LoopFailsPreserves, TickPreserves,
   LoopTestPreserves, LoopInterruptedPreserves, EpollWaitPreserves,
   DispatchPreserves, LoopVerifyPreserves, LoopCleanupPreserves, LoopStutter
   DEF Loop!Next, Loop!MainStep, Loop!Exited

-----------------------------------------------------------------------------
(* 12_filesystem_events: one lemma for each action. *)

USE FilesConstants
    DEF Files!QueueAssumption, Files!ForeignAssumption,
        Files!required_events, Files!Events

(* The set of the queued events, as Emit has it. *)
LEMMA QueuedIsInQueue ==
  ASSUME queue \in Seq(Files!Events), NEW x
  PROVE  x \in {queue[i] : i \in DOMAIN queue} <=> InQueue(x)
<1>1. DOMAIN queue = 1 .. Len(queue)
  OBVIOUS
<1>. QED  BY <1>1 DEF InQueue

(* An event at the end of the queue. *)
LEMMA AppendQueues ==
  ASSUME NEW q \in Seq(Files!Events), NEW e \in Files!Events
  PROVE  /\ Append(q, e) \in Seq(Files!Events)
         /\ Len(Append(q, e)) = Len(q) + 1 /\ Len(q) \in Nat
         /\ \A i \in 1 .. Len(q) : Append(q, e)[i] = q[i]
         /\ Append(q, e)[Len(q) + 1] = e
<1>. HIDE DEF Files!Events
<1>. QED  OBVIOUS

(* The kernel queues an event of the watched directory, merges it into an  *)
(* equal one, or drops it and says so (for lines 119-137).                 *)
LEMMA EmitQueues ==
  ASSUME FilesInvariant, NEW e \in Files!Events \ {"IN_Q_OVERFLOW"},
         Files!Emit(e)
  PROVE  /\ queue' \in Seq(Files!Events) /\ Len(queue') <= LIMIT + 1
         /\ dropped' \in BOOLEAN /\ OverflowTold'
         /\ dropped => dropped'
         /\ \A x : InQueue(x) => InQueue(x)'
         /\ "watch" \in held => InQueue(e)' \/ dropped'
<1>. DEFINE full == Len(queue) >= LIMIT
            o    == "IN_Q_OVERFLOW"
<1>1. /\ queue \in Seq(Files!Events) /\ Len(queue) <= LIMIT + 1
      /\ Len(queue) \in Nat /\ dropped \in BOOLEAN /\ OverflowTold
      /\ LIMIT \in Nat \ {0}
  BY DEF FilesInvariant, Files!TypeOK
<1>2. CASE UNCHANGED <<queue, dropped>>
  <2>1. /\ "watch" \in held => InQueue(e) \/ dropped
    <3>1. CASE "watch" \notin held
      BY <3>1
    <3>2. CASE queue # <<>> /\ queue[Len(queue)] = e
      <4>1. Len(queue) \in 1 .. Len(queue)
        BY <1>1, <3>2
      <4>. QED  BY <3>2, <4>1 DEF InQueue
    <3>3. CASE "watch" \in held /\ ~(queue # <<>> /\ queue[Len(queue)] = e)
      <4>1. full
        <5>1. CASE ~full
          <6>1. queue' = Append(queue, e)
            BY <3>3, <5>1 DEF Files!Emit, Files!Last
          <6>2. Len(Append(queue, e)) = Len(queue) + 1
            BY <1>1, AppendQueues
          <6>. QED  BY <1>1, <1>2, <6>1, <6>2
        <5>. QED  BY <5>1
      <4>2. dropped' = (dropped \/ full)
        BY <3>3 DEF Files!Emit, Files!Last
      <4>3. dropped' = TRUE
        BY <4>1, <4>2
      <4>. QED  BY <1>2, <4>3
    <3>. QED  BY <3>1, <3>2, <3>3
  <2>. QED  BY <1>1, <1>2, <2>1 DEF OverflowTold, InQueue
<1>3. CASE ~UNCHANGED <<queue, dropped>>
  <2>1. /\ queue' = IF ~full THEN Append(queue, e)
                    ELSE IF InQueue(o) THEN queue
                    ELSE Append(queue, o)
        /\ dropped' = (dropped \/ full)
    BY <1>1, <1>3, QueuedIsInQueue DEF Files!Emit
  <2>2. CASE ~full
    <3>1. queue' = Append(queue, e) /\ dropped' = dropped
      BY <1>1, <2>1, <2>2
    <3>2. /\ queue' \in Seq(Files!Events) /\ Len(queue') = Len(queue) + 1
          /\ \A i \in 1 .. Len(queue) : queue'[i] = queue[i]
          /\ queue'[Len(queue) + 1] = e
      BY <1>1, <3>1, AppendQueues
    <3>3. Len(queue') <= LIMIT
      BY <1>1, <2>2, <3>2
    <3>4. \A x : InQueue(x) => InQueue(x)'
      BY <1>1, <3>2 DEF InQueue
    <3>5. InQueue(e)'
      BY <1>1, <3>2 DEF InQueue
    <3>6. InQueue(o)' => InQueue(o)
      BY <1>1, <3>2 DEF InQueue
    <3>7. OverflowTold'
      BY <1>1, <3>1, <3>2, <3>3, <3>6 DEF OverflowTold
    <3>. QED  BY <1>1, <3>1, <3>2, <3>3, <3>4, <3>5, <3>7
  <2>3. CASE full /\ InQueue(o)
    <3>1. queue' = queue /\ dropped' = TRUE
      BY <2>1, <2>3
    <3>. QED  BY <1>1, <2>3, <3>1 DEF OverflowTold, InQueue
  <2>4. CASE full /\ ~InQueue(o)
    <3>1. queue' = Append(queue, o) /\ dropped' = TRUE
      BY <2>1, <2>4
    <3>2. /\ queue' \in Seq(Files!Events) /\ Len(queue') = Len(queue) + 1
          /\ \A i \in 1 .. Len(queue) : queue'[i] = queue[i]
          /\ queue'[Len(queue) + 1] = o
      BY <1>1, <3>1, AppendQueues
    <3>3. Len(queue') <= LIMIT + 1
      BY <1>1, <2>4, <3>2 DEF OverflowTold
    <3>4. \A x : InQueue(x) => InQueue(x)'
      BY <1>1, <3>2 DEF InQueue
    <3>5. InQueue(o)'
      BY <1>1, <3>2 DEF InQueue
    <3>. QED  BY <3>1, <3>2, <3>3, <3>4, <3>5 DEF OverflowTold
  <2>. QED  BY <2>2, <2>3, <2>4
<1>. QED  BY <1>2, <1>3

(* A read takes the first events of the queue and leaves the rest (lines   *)
(* 151-170).                                                               *)
LEMMA ReadSplits ==
  ASSUME queue \in Seq(Files!Events), NEW n \in 0 .. Len(queue)
  PROVE  LET batch == SubSeq(queue, 1, n)
             rest  == SubSeq(queue, n + 1, Len(queue))
         IN  /\ Len(batch) = n /\ DOMAIN batch = 1 .. n
             /\ \A i \in 1 .. n : batch[i] = queue[i]
             /\ rest \in Seq(Files!Events) /\ Len(rest) = Len(queue) - n
             /\ \A i \in 1 .. Len(queue) - n : rest[i] = queue[n + i]
<1>. HIDE DEF Files!Events
<1>1. Len(queue) \in Nat /\ n \in Nat /\ n <= Len(queue)
  OBVIOUS
<1>2. /\ SubSeq(queue, 1, n) \in Seq(Files!Events)
      /\ Len(SubSeq(queue, 1, n)) = n
      /\ \A i \in 1 .. n : SubSeq(queue, 1, n)[i] = queue[i]
  BY <1>1
<1>3. DOMAIN SubSeq(queue, 1, n) = 1 .. n
  BY <1>2
<1>4. /\ SubSeq(queue, n + 1, Len(queue)) \in Seq(Files!Events)
      /\ Len(SubSeq(queue, n + 1, Len(queue))) = Len(queue) - n
  BY <1>1
<1>5. \A i \in 1 .. Len(queue) - n :
        SubSeq(queue, n + 1, Len(queue))[i] = queue[n + i]
  BY <1>1, <1>4
<1>. QED  BY <1>2, <1>3, <1>4, <1>5

-----------------------------------------------------------------------------
(* The invariant holds before the first call (lines 94-105). *)
LEMMA FilesInit ==
  ASSUME Files!Init
  PROVE  FilesInvariant
<1>. USE DEF Files!Init
<1>1. Files!TypeOK
  <2>1. queue \in Seq(Files!Events) /\ Len(queue) = 0
    OBVIOUS
  <2>2. /\ main \in Files!Fallible \cup {"loop", "cleanup", "exited"}
        /\ result \in {"EXIT_SUCCESS", "EXIT_FAILURE"}
    BY DEF Files!Fallible
  <2>3. /\ held \in SUBSET {Files!Order[i] : i \in DOMAIN Files!Order}
        /\ observed \in SUBSET Files!required_events
    OBVIOUS
  <2>4. written \in BOOLEAN /\ dropped \in BOOLEAN
    OBVIOUS
  <2>5. foreign \in 0 .. MaxForeign /\ faults \in Nat /\ LIMIT \in Nat
    OBVIOUS
  <2>. QED  BY <2>1, <2>2, <2>3, <2>4, <2>5 DEF Files!TypeOK
<1>2. EventsTracked /\ OverflowTold
  BY DEF EventsTracked, OverflowTold, Caused, InQueue
<1>3. WatchHeld /\ FilesOutcome
  BY DEF WatchHeld, FilesOutcome
<1>. QED  BY <1>1, <1>2, <1>3 DEF FilesInvariant

(* What the program can hold. *)
LEMMA FilesHeld ==
  {Files!Order[i] : i \in DOMAIN Files!Order}
    = {"file_fd", "file", "watch", "inotify_fd", "directory"}
<1>1. DOMAIN Files!Order = {1, 2, 3, 4, 5}
  BY DEF Files!Order
<1>. QED  BY <1>1 DEF Files!Order

(* The calls that cause no event (lines 94-118). *)
LEMMA AcquirePreserves ==
  ASSUME FilesInvariant,
         \/ Files!Acquire("mkdtemp", "inotify_init", "directory")
         \/ Files!Acquire("inotify_init", "add_watch", "inotify_fd")
         \/ Files!Acquire("add_watch", "open", "watch")
  PROVE  FilesInvariant'
<1>. USE DEF FilesInvariant, Files!Acquire, Files!Goes
<1>1. Files!TypeOK'
  <2>1. /\ main' \in {"inotify_init", "add_watch", "open"}
        /\ \E r \in {"directory", "inotify_fd", "watch"} :
             held' = held \cup {r}
        /\ UNCHANGED <<result, written, queue, observed, dropped, foreign,
                       faults>>
    OBVIOUS
  <2>. QED  BY <2>1, FilesHeld DEF Files!TypeOK, Files!Fallible
<1>2. EventsTracked' /\ OverflowTold'
  BY DEF EventsTracked, OverflowTold, Caused, InQueue
<1>3. WatchHeld' /\ FilesOutcome'
  BY DEF WatchHeld, FilesOutcome
<1>. QED  BY <1>1, <1>2, <1>3

(* A call fails (lines 94-171). *)
LEMMA FilesFailsPreserves ==
  ASSUME FilesInvariant, NEW from \in Files!Fallible, Files!Fails(from)
  PROVE  FilesInvariant'
<1>. USE DEF FilesInvariant, Files!Fails, Files!Goes, Files!Fault
<1>1. Files!TypeOK'
  <2>1. /\ main' = "cleanup" /\ held' \in {held, held \ {"file_fd"}}
        /\ UNCHANGED <<result, written, queue, observed, dropped, foreign>>
    OBVIOUS
  <2>2. faults' \in Nat
    BY DEF Files!TypeOK
  <2>. QED  BY <2>1, <2>2 DEF Files!TypeOK
<1>2. EventsTracked' /\ OverflowTold'
  BY DEF EventsTracked, OverflowTold, Caused, InQueue
<1>3. WatchHeld' /\ FilesOutcome'
  BY DEF WatchHeld, FilesOutcome, Files!Fallible, Files!TypeOK
<1>. QED  BY <1>1, <1>2, <1>3

(* A step of the program that causes the event e: the file is created,     *)
(* written, closed or removed (lines 119-137).                             *)
LEMMA CausesPreserves ==
  ASSUME FilesInvariant, Files!CreateFile \/ Files!Write \/ Files!CloseFile
                           \/ Files!RemoveFile
  PROVE  FilesInvariant'
<1>. DEFINE Emits(e) == Files!Emit(e) /\ Caused' \subseteq Caused \cup {e}
            Causes   == {"IN_CREATE", "IN_MODIFY", "IN_CLOSE_WRITE",
                         "IN_DELETE"}
<1>1. /\ main \in {"open", "write", "close", "unlink"}
      /\ main' \in {"write", "close", "unlink", "loop"}
      /\ held' \in {held, held \cup {"file_fd", "file"}, held \ {"file_fd"},
                    held \ {"file"}}
      /\ written' \in BOOLEAN
      /\ UNCHANGED <<result, observed, foreign, faults>>
  BY DEF FilesInvariant, Files!TypeOK, Files!CreateFile, Files!Write,
         Files!CloseFile, Files!RemoveFile, Files!Goes
<1>2. PICK e \in Causes : Emits(e)
  <2>1. Files!CreateFile => Emits("IN_CREATE")
    BY DEF Files!CreateFile, Files!Goes, Caused
  <2>2. Files!Write => Emits("IN_MODIFY")
    BY DEF Files!Write, Caused
  <2>3. Files!CloseFile => Emits("IN_CLOSE_WRITE")
    BY DEF Files!CloseFile, Files!Goes, Caused
  <2>4. Files!RemoveFile => Emits("IN_DELETE")
    BY DEF Files!RemoveFile, Files!Goes, Caused
  <2>. HIDE DEF Emits
  <2>. QED  BY <2>1, <2>2, <2>3, <2>4
<1>3. "watch" \in held
  BY <1>1 DEF FilesInvariant, WatchHeld
<1>4. /\ queue' \in Seq(Files!Events) /\ Len(queue') <= LIMIT + 1
      /\ dropped' \in BOOLEAN /\ OverflowTold'
      /\ dropped => dropped'
      /\ \A x : InQueue(x) => InQueue(x)'
      /\ InQueue(e)' \/ dropped'
  BY <1>2, <1>3, EmitQueues
<1>5. Files!TypeOK'
  <2>1. Files!TypeOK
    BY DEF FilesInvariant
  <2>2. held' \in SUBSET {Files!Order[i] : i \in DOMAIN Files!Order}
    BY <1>1, <2>1, FilesHeld DEF Files!TypeOK
  <2>. QED  BY <1>1, <1>4, <2>1, <2>2 DEF Files!TypeOK, Files!Fallible
<1>6. EventsTracked'
  <2>1. ASSUME NEW x \in Caused'
        PROVE  x \in observed' \/ InQueue(x)' \/ dropped'
    <3>1. x \in Caused \/ x = e
      BY <1>2
    <3>2. x \in Caused => x \in observed \/ InQueue(x) \/ dropped
      BY DEF FilesInvariant, EventsTracked
    <3>. QED  BY <1>1, <1>4, <3>1, <3>2
  <2>. QED  BY <2>1 DEF EventsTracked
<1>7. WatchHeld' /\ FilesOutcome'
  BY <1>1, <1>3 DEF FilesInvariant, WatchHeld, FilesOutcome
<1>. QED  BY <1>4, <1>5, <1>6, <1>7 DEF FilesInvariant

(* Another program does something in the directory. *)
LEMMA ForeignPreserves ==
  ASSUME FilesInvariant, Files!Foreign
  PROVE  FilesInvariant'
<1>1. /\ Files!Emit("other")
      /\ UNCHANGED <<main, result, held, written, observed, faults>>
      /\ foreign' = foreign + 1 /\ foreign < MaxForeign /\ main # "exited"
  BY DEF Files!Foreign
<1>2. /\ queue' \in Seq(Files!Events) /\ Len(queue') <= LIMIT + 1
      /\ dropped' \in BOOLEAN /\ OverflowTold'
      /\ dropped => dropped'
      /\ \A x : InQueue(x) => InQueue(x)'
  BY <1>1, EmitQueues
<1>3. Files!TypeOK'
  <2>1. foreign' \in 0 .. MaxForeign
    BY <1>1 DEF FilesInvariant, Files!TypeOK
  <2>. QED  BY <1>1, <1>2, <2>1 DEF FilesInvariant, Files!TypeOK
<1>4. EventsTracked'
  BY <1>1, <1>2 DEF FilesInvariant, EventsTracked, Caused
<1>5. WatchHeld' /\ FilesOutcome'
  BY <1>1, <1>2 DEF FilesInvariant, WatchHeld, FilesOutcome, Files!TypeOK
<1>. QED  BY <1>2, <1>3, <1>4, <1>5 DEF FilesInvariant

(* The test of the loop (lines 138-140, 172-174). *)
LEMMA FilesLoopPreserves ==
  ASSUME FilesInvariant, Files!Loop
  PROVE  FilesInvariant'
<1>. USE DEF FilesInvariant, Files!Loop
<1>1. Files!TypeOK'
  BY DEF Files!TypeOK, Files!Fallible
<1>2. EventsTracked' /\ OverflowTold'
  BY DEF EventsTracked, OverflowTold, Caused, InQueue
<1>3. WatchHeld' /\ FilesOutcome'
  BY DEF WatchHeld, FilesOutcome
<1>. QED  BY <1>1, <1>2, <1>3

(* poll finds an event, unless one was dropped (lines 141-150). *)
LEMMA PollPreserves ==
  ASSUME FilesInvariant, Files!Poll
  PROVE  FilesInvariant'
<1>. USE DEF FilesInvariant, Files!Poll, Files!Goes
<1>1. Files!TypeOK'
  BY DEF Files!TypeOK, Files!Fallible
<1>2. EventsTracked' /\ OverflowTold'
  BY DEF EventsTracked, OverflowTold, Caused, InQueue
<1>3. queue = <<>> => dropped
  <2>. SUFFICES ASSUME queue = <<>>, ~dropped PROVE FALSE
    OBVIOUS
  <2>1. PICK e \in Files!required_events : e \notin observed
    BY DEF WatchHeld, Files!TypeOK
  <2>2. e \in Caused
    BY DEF Caused
  <2>3. InQueue(e)
    BY <2>1, <2>2 DEF EventsTracked
  <2>. QED  BY <2>3 DEF InQueue
<1>4. WatchHeld' /\ FilesOutcome'
  BY <1>3 DEF WatchHeld, FilesOutcome
<1>. QED  BY <1>1, <1>2, <1>4

(* A read, and the parsing of what was read (lines 151-171). *)
LEMMA ReadPreserves ==
  ASSUME FilesInvariant, Files!Read
  PROVE  FilesInvariant'
<1>. DEFINE n     == IF Len(queue) < READ THEN Len(queue) ELSE READ
            batch == SubSeq(queue, 1, n)
            rest  == SubSeq(queue, n + 1, Len(queue))
<1>1. /\ queue \in Seq(Files!Events) /\ Len(queue) \in Nat
      /\ Len(queue) <= LIMIT + 1 /\ n \in 0 .. Len(queue)
      /\ n = 0 => Len(queue) = 0
  BY DEF FilesInvariant, Files!TypeOK
<1>2. /\ main = "read"
      /\ main' = IF Files!Contains(batch, "IN_Q_OVERFLOW") THEN "cleanup"
                                                          ELSE "loop"
      /\ queue' = rest /\ observed' = Files!Observed(batch)
      /\ UNCHANGED <<result, held, written, dropped, foreign, faults>>
  BY DEF Files!Read, Files!Goes
<1>. HIDE DEF n
<1>3. /\ Len(batch) = n /\ DOMAIN batch = 1 .. n
      /\ \A i \in 1 .. n : batch[i] = queue[i]
      /\ rest \in Seq(Files!Events) /\ Len(rest) = Len(queue) - n
      /\ \A i \in 1 .. Len(queue) - n : rest[i] = queue[n + i]
  BY <1>1, ReadSplits
<1>. HIDE DEF batch, rest
<1>4. ASSUME NEW x, InQueue(x)
      PROVE  (\E i \in 1 .. n : batch[i] = x) \/ InQueue(x)'
  <2>1. PICK i \in 1 .. Len(queue) : queue[i] = x
    BY <1>4 DEF InQueue
  <2>2. CASE i <= n
    BY <1>1, <1>3, <2>1, <2>2
  <2>3. CASE i > n
    <3>1. i - n \in 1 .. Len(queue) - n /\ n + (i - n) = i
      BY <1>1, <2>3
    <3>. QED  BY <1>2, <1>3, <2>1, <3>1 DEF InQueue
  <2>. QED  BY <1>1, <2>2, <2>3
<1>5. ASSUME NEW x
      PROVE  /\ InQueue(x)' => InQueue(x)
             /\ (\E i \in 1 .. n : batch[i] = x) => InQueue(x)
  <2>1. ASSUME NEW i \in 1 .. Len(queue) - n
        PROVE  n + i \in 1 .. Len(queue)
    BY <1>1
  <2>2. ASSUME NEW i \in 1 .. n PROVE i \in 1 .. Len(queue)
    BY <1>1
  <2>3. ASSUME InQueue(x)' PROVE InQueue(x)
    <3>1. PICK i \in 1 .. Len(queue) - n : queue'[i] = x
      BY <1>2, <1>3, <2>3 DEF InQueue
    <3>2. queue[n + i] = x
      BY <1>2, <1>3, <3>1
    <3>. QED  BY <2>1, <3>2 DEF InQueue
  <2>4. ASSUME NEW i \in 1 .. n, batch[i] = x PROVE InQueue(x)
    <3>1. queue[i] = x
      BY <1>3, <2>4
    <3>. QED  BY <2>2, <3>1 DEF InQueue
  <2>. QED  BY <2>3, <2>4
<1>6. observed' = observed
        \cup ({batch[i] : i \in 1 .. n} \cap Files!required_events)
  BY <1>2, <1>3 DEF Files!Observed
<1>7. Files!TypeOK'
  <2>1. observed' \in SUBSET Files!required_events
    BY <1>6 DEF FilesInvariant, Files!TypeOK
  <2>2. Len(queue') <= LIMIT + 1
    BY <1>1, <1>2, <1>3
  <2>. QED  BY <1>2, <1>3, <2>1, <2>2
            DEF FilesInvariant, Files!TypeOK, Files!Fallible
<1>8. EventsTracked'
  <2>1. ASSUME NEW x \in Caused'
        PROVE  x \in observed' \/ InQueue(x)' \/ dropped'
    <3>1. x \in Caused /\ x \in Files!required_events
      BY <1>2 DEF Caused
    <3>2. x \in observed \/ InQueue(x) \/ dropped
      BY <3>1 DEF FilesInvariant, EventsTracked
    <3>3. InQueue(x) => x \in observed' \/ InQueue(x)'
      BY <1>4, <1>6, <3>1
    <3>. QED  BY <1>2, <1>6, <3>2, <3>3
  <2>. QED  BY <2>1 DEF EventsTracked
<1>9. OverflowTold'
  <2>1. Len(queue') <= LIMIT
    BY <1>1, <1>2, <1>3
  <2>. QED  BY <1>1, <1>2, <1>3, <1>5, <2>1 DEF FilesInvariant, OverflowTold
<1>10. main' = "cleanup" => dropped
  <2>1. Files!Contains(batch, "IN_Q_OVERFLOW") => InQueue("IN_Q_OVERFLOW")
    BY <1>3, <1>5 DEF Files!Contains
  <2>. QED  BY <1>2, <2>1 DEF FilesInvariant, OverflowTold
<1>11. WatchHeld' /\ FilesOutcome'
  BY <1>2, <1>10 DEF FilesInvariant, WatchHeld, FilesOutcome
<1>. QED  BY <1>7, <1>8, <1>9, <1>11 DEF FilesInvariant

(* The cleanup releases one thing after the other, whether or not one      *)
(* fails (lines 176-182).                                                  *)
LEMMA FilesCleanupPreserves ==
  ASSUME FilesInvariant, Files!Cleanup
  PROVE  FilesInvariant'
<1>1. /\ main = "cleanup" /\ main' \in {"cleanup", "exited"}
      /\ held' \subseteq held /\ (main' = "exited" => held' = {})
      /\ \/ UNCHANGED <<result, faults>>
         \/ result' = "EXIT_FAILURE" /\ faults' = faults + 1
      /\ UNCHANGED <<written, queue, observed, dropped, foreign>>
  BY DEF Files!Cleanup, Files!Fault
<1>2. Files!TypeOK'
  <2>1. faults' \in Nat /\ result' \in {"EXIT_SUCCESS", "EXIT_FAILURE"}
    BY <1>1 DEF FilesInvariant, Files!TypeOK
  <2>2. held' \in SUBSET {Files!Order[i] : i \in DOMAIN Files!Order}
    BY <1>1 DEF FilesInvariant, Files!TypeOK
  <2>. QED  BY <1>1, <2>1, <2>2 DEF FilesInvariant, Files!TypeOK
<1>3. EventsTracked' /\ OverflowTold'
  BY <1>1
     DEF FilesInvariant, EventsTracked, OverflowTold, Caused, InQueue
<1>4. WatchHeld' /\ FilesOutcome'
  BY <1>1 DEF FilesInvariant, WatchHeld, FilesOutcome, Files!TypeOK
<1>. QED  BY <1>2, <1>3, <1>4 DEF FilesInvariant

(* Nothing happens. *)
LEMMA FilesStutter ==
  ASSUME FilesInvariant, UNCHANGED Files!vars
  PROVE  FilesInvariant'
BY DEF FilesInvariant, Files!vars, Files!TypeOK, EventsTracked, OverflowTold,
       WatchHeld, FilesOutcome, Caused, InQueue

(* Every step of the program. *)
LEMMA FilesStep ==
  ASSUME FilesInvariant, Files!Next
  PROVE  FilesInvariant'
BY AcquirePreserves, FilesFailsPreserves, CausesPreserves, ForeignPreserves,
   FilesLoopPreserves, PollPreserves, ReadPreserves, FilesCleanupPreserves,
   FilesStutter
   DEF Files!Next, Files!MainStep, Files!Prepare, Files!Exited

-----------------------------------------------------------------------------

-----------------------------------------------------------------------------
(* 21_stdio_buffering: one lemma for each action. *)

USE StdioConstants DEF Stdio!SizeAssumption

(* The invariant holds before the first call (lines 43-51). *)
LEMMA StdioInit ==
  ASSUME Stdio!Init
  PROVE  StdioInvariant
<1>. USE DEF Stdio!Init
<1>1. Stdio!TypeOK
  <2>1. received \in [1 .. SIZE -> 0 .. SIZE]
    OBVIOUS
  <2>2. held \in SUBSET {"read_end", "write_end", "stream"}
    OBVIOUS
  <2>. QED  BY <2>1, <2>2 DEF Stdio!TypeOK, Stdio!Fallible
<1>2. MessageTracked /\ StreamHasReader /\ StdioOutcome
  BY DEF MessageTracked, StreamHasReader, StdioOutcome
<1>. QED  BY <1>1, <1>2 DEF StdioInvariant

(* The calls before the message (lines 52-83). *)
LEMMA StdioPreparePreserves ==
  ASSUME StdioInvariant, Stdio!Prepare
  PROVE  StdioInvariant'
<1>. USE DEF StdioInvariant, Stdio!Prepare, Stdio!Goes
<1>1. Stdio!TypeOK'
  BY DEF Stdio!TypeOK, Stdio!Fallible
<1>2. MessageTracked'
  BY DEF MessageTracked
<1>3. StreamHasReader' /\ StdioOutcome'
  BY DEF StreamHasReader, StdioOutcome
<1>. QED  BY <1>1, <1>2, <1>3

(* A call that fails before the cleanup (lines 52-107). *)
LEMMA StdioFailsPreserves ==
  ASSUME StdioInvariant, NEW from \in Stdio!Fallible, Stdio!Fails(from)
  PROVE  StdioInvariant'
<1>. USE DEF StdioInvariant, Stdio!Fails, Stdio!Goes, Stdio!Fault
<1>1. main \in Stdio!Fallible /\ main' = "cleanup" /\ faults \in Nat
      /\ result = "EXIT_FAILURE" /\ faults = 0
  BY DEF Stdio!TypeOK, Stdio!Fallible, StdioOutcome
<1>2. Stdio!TypeOK'
  BY <1>1 DEF Stdio!TypeOK
<1>3. MessageTracked'
  BY <1>1 DEF MessageTracked
<1>4. StreamHasReader' /\ StdioOutcome'
  BY <1>1 DEF StreamHasReader, StdioOutcome
<1>. QED  BY <1>2, <1>3, <1>4

(* fwrite, which gives the stream the message or a part (lines 84-89). *)
LEMMA FwritePreserves ==
  ASSUME StdioInvariant, Stdio!Fwrite
  PROVE  StdioInvariant'
<1>. USE DEF StdioInvariant, Stdio!Fwrite, Stdio!Fault
<1>1. /\ taken = 0 /\ result = "EXIT_FAILURE" /\ faults = 0
      /\ buffered' \in 0 .. SIZE /\ committed' \in 0 .. buffered'
      /\ main' \in {"probe", "cleanup"}
  BY DEF MessageTracked, StdioOutcome
<1>2. Stdio!TypeOK'
  BY <1>1 DEF Stdio!TypeOK, Stdio!Fallible
<1>3. MessageTracked'
  BY <1>1 DEF MessageTracked
<1>4. StreamHasReader' /\ StdioOutcome'
  BY <1>1 DEF StreamHasReader, StdioOutcome
<1>. QED  BY <1>2, <1>3, <1>4

(* A read puts the next bytes of the message at their places, and takes no *)
(* more than there are (lines 22-38, 91-95).                               *)
LEMMA TakeFills ==
  ASSUME Stdio!TypeOK, MessageTracked, NEW n \in Nat, n <= SIZE - taken,
         Stdio!Take(n, taken)
  PROVE  /\ taken' \in 0 .. committed /\ taken' > taken
         /\ received' \in [1 .. SIZE -> 0 .. SIZE]
         /\ \A i \in 1 .. SIZE : i <= taken' => received'[i] = i
<1>1. PICK k \in 1 .. n :
        /\ k <= committed - taken /\ taken' = taken + k
        /\ received' = [i \in 1 .. SIZE |->
                          IF i - taken \in 1 .. k THEN taken + i - taken
                                                  ELSE received[i]]
  BY DEF Stdio!Take
<1>2. /\ taken \in Nat /\ committed \in Nat /\ k \in Nat \ {0}
      /\ taken + k <= committed /\ SIZE \in Nat
      /\ received \in [1 .. SIZE -> 0 .. SIZE]
      /\ \A i \in 1 .. SIZE : i <= taken => received[i] = i
  BY <1>1 DEF Stdio!TypeOK, MessageTracked
<1>3. ASSUME NEW i \in 1 .. SIZE
      PROVE  /\ i - taken \in 1 .. k => taken + i - taken = i
             /\ received'[i] \in 0 .. SIZE
             /\ i <= taken + k => received'[i] = i
  BY <1>1, <1>2
<1>. QED  BY <1>1, <1>2, <1>3

(* The read before fflush, which may find nothing (lines 91-100). *)
LEMMA ProbePreserves ==
  ASSUME StdioInvariant, Stdio!Probe
  PROVE  StdioInvariant'
<1>. USE DEF StdioInvariant, Stdio!Probe, Stdio!Goes
<1>1. taken = 0 /\ buffered = SIZE /\ SIZE \in Nat /\ committed \in Nat
  BY DEF MessageTracked, Stdio!TypeOK
<1>2. /\ taken' \in 0 .. committed
      /\ received' \in [1 .. SIZE -> 0 .. SIZE]
      /\ \A i \in 1 .. SIZE : i <= taken' => received'[i] = i
  <2>1. CASE UNCHANGED <<taken, received>>
    BY <2>1 DEF MessageTracked, Stdio!TypeOK
  <2>2. CASE Stdio!Take(SIZE, 0)
    BY <1>1, <2>2, TakeFills
  <2>. QED  BY <2>1, <2>2
<1>3. Stdio!TypeOK'
  BY <1>2 DEF Stdio!TypeOK, Stdio!Fallible
<1>4. MessageTracked'
  BY <1>1, <1>2 DEF MessageTracked
<1>5. StreamHasReader' /\ StdioOutcome'
  BY DEF StreamHasReader, StdioOutcome
<1>. QED  BY <1>3, <1>4, <1>5

(* fflush puts the rest into the pipe (lines 102-107). *)
LEMMA FflushPreserves ==
  ASSUME StdioInvariant, Stdio!Fflush
  PROVE  StdioInvariant'
<1>. USE DEF StdioInvariant, Stdio!Fflush, Stdio!Goes
<1>1. Stdio!TypeOK'
  BY DEF Stdio!TypeOK, Stdio!Fallible
<1>2. MessageTracked' /\ StreamHasReader' /\ StdioOutcome'
  BY DEF MessageTracked, StreamHasReader, StdioOutcome
<1>. QED  BY <1>1, <1>2

(* A read of read_exact, or its end: there is always something to read     *)
(* until the message is whole (lines 22-38, 108).                          *)
LEMMA ReadExactPreserves ==
  ASSUME StdioInvariant, Stdio!ReadExact
  PROVE  StdioInvariant'
<1>. USE DEF StdioInvariant, Stdio!ReadExact
<1>1. /\ committed = SIZE /\ buffered = SIZE /\ main = "read_exact"
      /\ SIZE \in Nat /\ taken \in 0 .. SIZE
  BY DEF MessageTracked, Stdio!TypeOK
<1>2. CASE taken = SIZE
  <2>1. main' = "verify" /\ UNCHANGED <<taken, received>>
    BY <1>2
  <2>2. Stdio!TypeOK'
    BY <2>1 DEF Stdio!TypeOK, Stdio!Fallible
  <2>3. MessageTracked' /\ StreamHasReader' /\ StdioOutcome'
    BY <1>1, <1>2, <2>1 DEF MessageTracked, StreamHasReader, StdioOutcome
  <2>. QED  BY <2>2, <2>3
<1>3. CASE taken # SIZE
  <2>1. Stdio!Take(SIZE - taken, taken) /\ main' = main
    BY <1>1, <1>3
  <2>2. SIZE - taken \in Nat
    BY <1>1
  <2>3. /\ taken' \in 0 .. committed
        /\ received' \in [1 .. SIZE -> 0 .. SIZE]
        /\ \A i \in 1 .. SIZE : i <= taken' => received'[i] = i
    BY <1>1, <2>1, <2>2, TakeFills
  <2>4. Stdio!TypeOK'
    BY <2>1, <2>3 DEF Stdio!TypeOK
  <2>5. MessageTracked' /\ StreamHasReader' /\ StdioOutcome'
    BY <1>1, <2>1, <2>3 DEF MessageTracked, StreamHasReader, StdioOutcome
  <2>. QED  BY <2>4, <2>5
<1>. QED  BY <1>2, <1>3

(* The comparison of what was read (lines 108-113). *)
LEMMA StdioVerifyPreserves ==
  ASSUME StdioInvariant, Stdio!Verify
  PROVE  StdioInvariant'
<1>. USE DEF StdioInvariant, Stdio!Verify, Stdio!Goes
<1>1. result' = "EXIT_SUCCESS" /\ faults = 0 /\ main' = "cleanup"
  BY DEF MessageTracked, StdioOutcome
<1>2. Stdio!TypeOK'
  BY <1>1 DEF Stdio!TypeOK
<1>3. MessageTracked' /\ StreamHasReader' /\ StdioOutcome'
  BY <1>1 DEF MessageTracked, StreamHasReader, StdioOutcome
<1>. QED  BY <1>2, <1>3

(* What is released next: something that is held, and the stream before    *)
(* the descriptors (lines 115-126).                                        *)
LEMMA StreamFirst ==
  ASSUME held \in SUBSET {"read_end", "write_end", "stream"}, held # {}
  PROVE  LET r == Stdio!Order[Stdio!Min({i \in DOMAIN Stdio!Order :
                                           Stdio!Order[i] \in held})]
         IN  r \in held /\ ("stream" \in held => r = "stream")
<1>. DEFINE S == {i \in DOMAIN Stdio!Order : Stdio!Order[i] \in held}
            m == Stdio!Min(S)
<1>1. /\ DOMAIN Stdio!Order = {1, 2, 3}
      /\ Stdio!Order[1] = "stream" /\ Stdio!Order[2] = "read_end"
      /\ Stdio!Order[3] = "write_end"
  BY DEF Stdio!Order
<1>2. \E x \in S : \A y \in S : x <= y
  <2>1. CASE 1 \in S
    BY <1>1, <2>1
  <2>2. CASE 1 \notin S /\ 2 \in S
    BY <1>1, <2>2
  <2>3. CASE 1 \notin S /\ 2 \notin S
    <3>1. 3 \in S
      BY <1>1, <2>3
    <3>. QED  BY <1>1, <2>3, <3>1
  <2>. QED  BY <2>1, <2>2, <2>3
<1>3. m \in S /\ \A y \in S : m <= y
  BY <1>2 DEF Stdio!Min
<1>4. "stream" \in held => m = 1
  <2>1. SUFFICES ASSUME "stream" \in held PROVE m = 1
    OBVIOUS
  <2>2. 1 \in S
    BY <1>1, <2>1
  <2>. QED  BY <1>1, <1>3, <2>2
<1>. QED  BY <1>1, <1>3, <1>4

(* A release, which is never the one that kills the program (lines         *)
(* 115-126).                                                               *)
LEMMA StdioCleanupPreserves ==
  ASSUME StdioInvariant, Stdio!Cleanup
  PROVE  StdioInvariant'
<1>. USE DEF StdioInvariant
<1>1. /\ main = "cleanup" /\ UNCHANGED <<buffered, taken, received>>
      /\ faults \in Nat /\ (result = "EXIT_SUCCESS" <=> faults = 0)
      /\ held \in SUBSET {"read_end", "write_end", "stream"}
      /\ StreamHasReader
  BY DEF Stdio!Cleanup, Stdio!TypeOK, StdioOutcome
<1>2. CASE held = {}
  <2>1. main' = "exited" /\ UNCHANGED <<held, committed, result, faults>>
    BY <1>2 DEF Stdio!Cleanup
  <2>2. Stdio!TypeOK'
    BY <1>1, <2>1 DEF Stdio!TypeOK
  <2>3. MessageTracked' /\ StreamHasReader' /\ StdioOutcome'
    BY <1>1, <1>2, <2>1 DEF MessageTracked, StreamHasReader, StdioOutcome
  <2>. QED  BY <2>2, <2>3
<1>3. CASE held # {}
  <2>. DEFINE r == Stdio!Order[Stdio!Min({i \in DOMAIN Stdio!Order :
                                            Stdio!Order[i] \in held})]
  <2>1. r \in held /\ ("stream" \in held => r = "stream")
    BY <1>1, <1>3, StreamFirst
  <2>2. /\ held' = held \ {r}
        /\ main' = IF /\ r = "stream" /\ committed < buffered
                      /\ "read_end" \notin held
                   THEN "killed" ELSE "cleanup"
        /\ \/ /\ committed' = IF r = "stream" THEN buffered ELSE committed
              /\ UNCHANGED <<result, faults>>
           \/ /\ IF r = "stream" THEN committed' \in committed .. buffered
                                 ELSE UNCHANGED committed
              /\ result' = "EXIT_FAILURE" /\ faults' = faults + 1
    BY <1>3 DEF Stdio!Cleanup, Stdio!Fault
  <2>. HIDE DEF r
  <2>3. main' = "cleanup"
    BY <1>1, <2>1, <2>2 DEF StreamHasReader
  <2>4. /\ StreamHasReader'
        /\ held' \in SUBSET {"read_end", "write_end", "stream"}
    BY <1>1, <2>1, <2>2 DEF StreamHasReader
  <2>5. committed' \in taken .. buffered
    BY <2>2 DEF Stdio!TypeOK
  <2>6. result' \in {"EXIT_SUCCESS", "EXIT_FAILURE"} /\ faults' \in Nat
        /\ (result' = "EXIT_SUCCESS" <=> faults' = 0)
    BY <1>1, <2>2 DEF Stdio!TypeOK
  <2>7. Stdio!TypeOK'
    BY <1>1, <2>3, <2>4, <2>5, <2>6 DEF Stdio!TypeOK
  <2>8. MessageTracked'
    BY <1>1, <2>3 DEF MessageTracked
  <2>9. StdioOutcome'
    BY <2>3, <2>6 DEF StdioOutcome
  <2>. QED  BY <2>4, <2>7, <2>8, <2>9
<1>. QED  BY <1>2, <1>3

(* Nothing happens. *)
LEMMA StdioStutter ==
  ASSUME StdioInvariant, UNCHANGED Stdio!vars
  PROVE  StdioInvariant'
BY DEF StdioInvariant, Stdio!vars, Stdio!TypeOK, MessageTracked,
       StreamHasReader, StdioOutcome

(* Every step of the program. *)
LEMMA StdioStep ==
  ASSUME StdioInvariant, Stdio!Next
  PROVE  StdioInvariant'
BY StdioPreparePreserves, StdioFailsPreserves, FwritePreserves,
   ProbePreserves, FflushPreserves, ReadExactPreserves,
   StdioVerifyPreserves, StdioCleanupPreserves, StdioStutter
   DEF Stdio!Next, Stdio!MainStep, Stdio!Ended


-----------------------------------------------------------------------------
(* 20_sparse_files: the queries, and one lemma for each action. *)

USE SparseConstants DEF Sparse!TailAssumption, Sparse!expected_size

(* A set of numbers that is not empty has a least one, and Min is it. *)
LEMMA MinLeast ==
  ASSUME NEW T \in SUBSET Nat, T # {}
  PROVE  Sparse!Min(T) \in T /\ \A y \in T : Sparse!Min(T) <= y
<1>. DEFINE R == OpToRel(<, Nat)
<1>1. IsWellFoundedOn(R, Nat)
  BY NatLessThanWellFounded, ZenonT(60)
<1>2. PICK x \in T : \A y \in T : <<y, x>> \notin R
  <2>. HIDE DEF R
  <2>. QED  BY <1>1, WFMin
<1>3. \A y \in T : ~(y < x)
  BY <1>2 DEF OpToRel
<1>4. \A y \in T : x <= y
  BY <1>3
<1>. QED  BY <1>4 DEF Sparse!Min

(* SEEK_DATA finds the first data: the last block always is some (lines    *)
(* 22-47).                                                                 *)
LEMMA SeekData ==
  ASSUME layout \in Sparse!Layouts, NEW a \in Sparse!Blocks
  PROVE  DataFrom(a, Sparse!SEEK_DATA(a))
<1>. DEFINE T == {b \in layout : b >= a}
<1>1. T \in SUBSET Nat /\ T # {}
  <2>1. tail_offset \in layout /\ layout \subseteq Nat
    BY DEF Sparse!Layouts, Sparse!Blocks
  <2>2. tail_offset \in T
    BY <2>1 DEF Sparse!Blocks
  <2>. QED  BY <2>1, <2>2
<1>2. Sparse!Min(T) \in T /\ \A y \in T : Sparse!Min(T) <= y
  <2>. HIDE DEF T
  <2>. QED  BY <1>1, MinLeast
<1>3. \A b \in Sparse!Blocks : a <= b /\ b < Sparse!Min(T) => b \notin layout
  <2>. SUFFICES ASSUME NEW b \in Sparse!Blocks, a <= b,
                       b < Sparse!Min(T), b \in layout
                PROVE  FALSE
    OBVIOUS
  <2>1. b \in T /\ Sparse!Min(T) \in Nat
    BY <1>1, <1>2 DEF Sparse!Blocks
  <2>2. Sparse!Min(T) <= b
    BY <1>2, <2>1
  <2>. QED  BY <2>1, <2>2 DEF Sparse!Blocks
<1>. QED  BY <1>2, <1>3 DEF DataFrom, Sparse!SEEK_DATA

(* SEEK_HOLE finds the first hole, at the latest at the end of the file. *)
LEMMA SeekHole ==
  ASSUME layout \in Sparse!Layouts, NEW a \in 0 .. Sparse!expected_size
  PROVE  HoleFrom(a, Sparse!SEEK_HOLE(a))
<1>. USE DEF Sparse!Layouts, Sparse!Blocks
<1>. DEFINE T == {b \in Sparse!Blocks \ layout : b >= a}
                   \cup {Sparse!expected_size}
<1>1. T \in SUBSET Nat /\ T # {} /\ T \subseteq a .. Sparse!expected_size
  OBVIOUS
<1>2. Sparse!Min(T) \in T /\ \A y \in T : Sparse!Min(T) <= y
  <2>. HIDE DEF T
  <2>. QED  BY <1>1, MinLeast
<1>3. \A b \in Sparse!Blocks : a <= b /\ b < Sparse!Min(T) => b \in layout
  <2>. SUFFICES ASSUME NEW b \in Sparse!Blocks, a <= b,
                       b < Sparse!Min(T), b \notin layout
                PROVE  FALSE
    OBVIOUS
  <2>1. b \in T
    OBVIOUS
  <2>2. Sparse!Min(T) <= b
    BY <1>2, <2>1
  <2>3. Sparse!Min(T) \in Nat
    BY <1>1, <1>2
  <2>. QED  BY <2>2, <2>3
<1>4. Sparse!Min(T) \notin layout
  BY <1>2
<1>. QED  BY <1>1, <1>2, <1>3, <1>4 DEF HoleFrom, Sparse!SEEK_HOLE

(* The four answers of the calls. *)
Extents == {"first_data", "first_hole", "second_data", "end_hole"}

(* The fields in the order in which the calls fill them (lines 48-69).     *)
LEMMA FieldNames ==
  /\ Sparse!Fields[1] = "first_data" /\ Sparse!Fields[2] = "first_hole"
  /\ Sparse!Fields[3] = "second_data" /\ Sparse!Fields[4] = "end_hole"
  /\ {Sparse!Fields[i] : i \in 1 .. 4} = Extents
<1>1. /\ Sparse!Fields[1] = "first_data" /\ Sparse!Fields[2] = "first_hole"
      /\ Sparse!Fields[3] = "second_data" /\ Sparse!Fields[4] = "end_hole"
  BY DEF Sparse!Fields
<1>2. 1 .. 4 = {1, 2, 3, 4}
  OBVIOUS
<1>. QED  BY <1>1, <1>2 DEF Extents

(* Nothing but the program counter, the verdict, what is held and the      *)
(* count of the failures changes.                                          *)
LEMMA ExtentsCallsPreserve ==
  ASSUME ExtentsInvariant,
         \/ Sparse!Create \/ Sparse!Write
         \/ \E from \in Sparse!Fallible : Sparse!Fails(from)
  PROVE  ExtentsInvariant'
<1>. USE DEF ExtentsInvariant
<1>1. Sparse!TypeOK'
  <2>1. /\ main' \in Sparse!Fallible \cup {"cleanup"}
        /\ held' \in SUBSET {"fd", "path"}
        /\ UNCHANGED <<result, layout, found, detail>>
    BY FieldNames
       DEF Sparse!TypeOK, Sparse!Create, Sparse!Write, Sparse!Fails,
           Sparse!Goes, Sparse!Fallible, Extents
  <2>2. faults' \in Nat
    BY DEF Sparse!TypeOK, Sparse!Create, Sparse!Write, Sparse!Fails,
           Sparse!Fault
  <2>. QED  BY <2>1, <2>2 DEF Sparse!TypeOK
<1>2. Answered'
  BY DEF Sparse!TypeOK, Answered, Sparse!Create, Sparse!Write, Sparse!Fails,
         Sparse!Goes, Sparse!Fault, FirstData, Hole, Data, End, DataFrom,
         HoleFrom
<1>3. SparseOutcome'
  <2>1. CASE Sparse!Create \/ Sparse!Write
    BY <2>1 DEF SparseOutcome, Sparse!Create, Sparse!Write, Sparse!Goes
  <2>2. CASE \E from \in Sparse!Fallible : Sparse!Fails(from)
    <3>1. /\ main \notin {"cleanup", "exited"} /\ main' = "cleanup"
          /\ result' = result /\ faults' = faults + 1
      BY <2>2, FieldNames
         DEF Sparse!Fails, Sparse!Goes, Sparse!Fault, Sparse!Fallible, Extents
    <3>. QED  BY <3>1 DEF Sparse!TypeOK, SparseOutcome
  <2>. QED  BY <2>1, <2>2
<1>. QED  BY <1>1, <1>2, <1>3

(* A query is answered, or is not made (lines 41-78). *)
LEMMA ExtentsQueryPreserves ==
  ASSUME ExtentsInvariant, NEW i \in 1 .. 4, Sparse!Query(i)
  PROVE  ExtentsInvariant'
<1>. USE DEF ExtentsInvariant
<1>1. /\ layout \in Sparse!Layouts /\ DOMAIN found = Extents
      /\ detail \in {0, 1}
      /\ \A f \in Extents : found[f] \in 0 .. Sparse!expected_size
  BY FieldNames DEF Sparse!TypeOK
<1>2. /\ main \in Extents /\ main' \in Extents \cup {"verify"}
      /\ UNCHANGED <<result, held, layout, faults>> /\ faults \in Nat
      /\ result \in {"EXIT_SUCCESS", "EXIT_FAILURE"}
      /\ held \in SUBSET {"fd", "path"}
  BY FieldNames DEF Sparse!TypeOK, Sparse!Query, Extents
<1>3. detail = 1
  BY <1>1, <1>2 DEF Answered, Extents
<1>4. CASE i = 1
  <2>1. /\ main = "first_data" /\ main' = "first_hole" /\ detail' = detail
        /\ found' = [found EXCEPT !["first_data"] = Sparse!SEEK_DATA(0)]
    BY <1>4, FieldNames DEF Sparse!Query, Sparse!Coarse, Sparse!Answer
  <2>2. Sparse!SEEK_DATA(0) = 0
    <3>1. 0 \in layout /\ 0 \in Sparse!Blocks /\ layout \subseteq Sparse!Blocks
      BY <1>1 DEF Sparse!Layouts, Sparse!Blocks
    <3>2. DataFrom(0, Sparse!SEEK_DATA(0))
      BY <1>1, <3>1, SeekData
    <3>3. Sparse!SEEK_DATA(0) \in Sparse!Blocks /\ ~(0 < Sparse!SEEK_DATA(0))
      <4>. DEFINE d == Sparse!SEEK_DATA(0)
      <4>1. DataFrom(0, d)
        BY <3>2
      <4>. HIDE DEF d
      <4>2. d \in Sparse!Blocks /\ ~(0 < d)
        BY <3>1, <4>1 DEF DataFrom
      <4>. QED  BY <4>2 DEF d
    <3>. QED  BY <3>3 DEF Sparse!Blocks
  <2>3. found'.first_data = 0 /\ DOMAIN found' = Extents
        /\ \A f \in Extents : found'[f] \in 0 .. Sparse!expected_size
    BY <1>1, <2>1, <2>2 DEF Extents
  <2>4. Sparse!TypeOK'
    BY <1>1, <1>2, <2>1, <2>3, FieldNames
       DEF Sparse!TypeOK, Sparse!Fallible, Extents
  <2>5. Answered'
    BY <1>3, <2>1, <2>3 DEF Answered, FirstData
  <2>6. SparseOutcome'
    BY <1>2, <2>1 DEF SparseOutcome
  <2>. QED  BY <2>4, <2>5, <2>6
<1>5. CASE i = 2
  <2>1. /\ main = "first_hole" /\ main' = "second_data" /\ detail' = detail
        /\ found' = [found EXCEPT !["first_hole"] =
                                    Sparse!SEEK_HOLE(found.first_data)]
    BY <1>5, FieldNames DEF Sparse!Query, Sparse!Coarse, Sparse!Answer
  <2>2. HoleFrom(0, Sparse!SEEK_HOLE(found.first_data)) /\ found.first_data = 0
    BY <1>1, <2>1, SeekHole DEF Answered, FirstData
  <2>3. /\ found'.first_hole = Sparse!SEEK_HOLE(found.first_data)
        /\ found'.first_data = 0 /\ DOMAIN found' = Extents
        /\ \A f \in Extents : found'[f] \in 0 .. Sparse!expected_size
    BY <1>1, <2>1, <2>2 DEF Extents, HoleFrom
  <2>4. Sparse!TypeOK'
    BY <1>1, <1>2, <2>1, <2>3, FieldNames
       DEF Sparse!TypeOK, Sparse!Fallible, Extents
  <2>5. Answered'
    BY <1>2, <1>3, <2>1, <2>2, <2>3 DEF Answered, FirstData, Hole, HoleFrom
  <2>6. SparseOutcome'
    BY <1>2, <2>1 DEF SparseOutcome
  <2>. QED  BY <2>4, <2>5, <2>6
<1>6. CASE i = 3 /\ Sparse!Coarse("second_data")
  <2>1. /\ main = "second_data" /\ main' = "verify" /\ detail' = 0
        /\ found' = found
    BY <1>6, FieldNames DEF Sparse!Query
  <2>2. Sparse!TypeOK'
    BY <1>1, <1>2, <2>1, FieldNames DEF Sparse!TypeOK
  <2>3. Answered' /\ SparseOutcome'
    BY <1>2, <2>1 DEF Answered, SparseOutcome
  <2>. QED  BY <2>2, <2>3
<1>7. CASE i = 3 /\ ~Sparse!Coarse("second_data")
  <2>1. /\ main = "second_data" /\ main' = "end_hole" /\ detail' = detail
        /\ found' = [found EXCEPT !["second_data"] =
                                    Sparse!SEEK_DATA(found.first_hole)]
        /\ found.first_hole < Sparse!expected_size
    BY <1>1, <1>7, FieldNames
       DEF Sparse!Query, Sparse!Answer, Sparse!Coarse, Extents
  <2>2. found.first_hole \in Sparse!Blocks /\ Hole /\ FirstData
    BY <1>1, <2>1 DEF Answered, Hole, Extents, Sparse!Blocks
  <2>3. DataFrom(found.first_hole, Sparse!SEEK_DATA(found.first_hole))
    BY <1>1, <2>2, SeekData
  <2>4. Sparse!SEEK_DATA(found.first_hole) \in 0 .. Sparse!expected_size
    <3>1. Sparse!SEEK_DATA(found.first_hole) \in Sparse!Blocks
      BY <1>1, <2>3 DEF DataFrom, Sparse!Layouts
    <3>. QED  BY <3>1 DEF Sparse!Blocks
  <2>5. /\ found'.second_data = Sparse!SEEK_DATA(found.first_hole)
        /\ found'.first_data = found.first_data
        /\ found'.first_hole = found.first_hole /\ DOMAIN found' = Extents
        /\ \A f \in Extents : found'[f] \in 0 .. Sparse!expected_size
    BY <1>1, <2>1, <2>4 DEF Extents
  <2>6. Sparse!TypeOK'
    BY <1>1, <1>2, <2>1, <2>5, FieldNames
       DEF Sparse!TypeOK, Sparse!Fallible, Extents
  <2>7. Answered'
    BY <1>2, <1>3, <2>1, <2>2, <2>3, <2>5
       DEF Answered, FirstData, Hole, Data, HoleFrom, DataFrom
  <2>8. SparseOutcome'
    BY <1>2, <2>1 DEF SparseOutcome
  <2>. QED  BY <2>6, <2>7, <2>8
<1>8. CASE i = 4
  <2>1. /\ main = "end_hole" /\ main' = "verify" /\ detail' = detail
        /\ found' = [found EXCEPT !["end_hole"] =
                                    Sparse!SEEK_HOLE(found.second_data)]
    BY <1>8, FieldNames DEF Sparse!Query, Sparse!Coarse, Sparse!Answer
  <2>2. HoleFrom(found.second_data, Sparse!SEEK_HOLE(found.second_data))
    BY <1>1, SeekHole DEF Extents
  <2>3. /\ found'.end_hole = Sparse!SEEK_HOLE(found.second_data)
        /\ found'.first_data = found.first_data
        /\ found'.first_hole = found.first_hole
        /\ found'.second_data = found.second_data /\ DOMAIN found' = Extents
        /\ \A f \in Extents : found'[f] \in 0 .. Sparse!expected_size
    <3>1. Sparse!SEEK_HOLE(found.second_data) \in 0 .. Sparse!expected_size
      BY <1>1, <2>2 DEF HoleFrom, Extents
    <3>. QED  BY <1>1, <2>1, <3>1 DEF Extents
  <2>4. Sparse!TypeOK'
    BY <1>1, <1>2, <2>1, <2>3, FieldNames DEF Sparse!TypeOK
  <2>5. Answered'
    BY <1>2, <1>3, <2>1, <2>2, <2>3
       DEF Answered, FirstData, Hole, Data, End, HoleFrom, DataFrom
  <2>6. SparseOutcome'
    BY <1>2, <2>1 DEF SparseOutcome
  <2>. QED  BY <2>4, <2>5, <2>6
<1>. QED  BY <1>4, <1>5, <1>6, <1>7, <1>8

(* The file system does not know the question (lines 36-39). *)
LEMMA ExtentsUnsupportedPreserves ==
  ASSUME ExtentsInvariant, NEW i \in 1 .. 4, Sparse!Unsupported(i)
  PROVE  ExtentsInvariant'
<1>. USE DEF ExtentsInvariant
<1>1. Sparse!TypeOK'
  BY FieldNames
     DEF Sparse!TypeOK, Sparse!Unsupported, Sparse!Goes, Sparse!Fallible,
         Extents
<1>2. Answered'
  BY DEF Answered, Sparse!Unsupported, Sparse!Goes
<1>3. SparseOutcome'
  BY FieldNames
     DEF Sparse!TypeOK, SparseOutcome, Answered, Sparse!Unsupported,
         Sparse!Goes, Extents
<1>. QED  BY <1>1, <1>2, <1>3

(* The verdict (lines 119-149). *)
LEMMA ExtentsVerifyPreserves ==
  ASSUME ExtentsInvariant, Sparse!Verify
  PROVE  ExtentsInvariant'
<1>. USE DEF ExtentsInvariant
<1>1. Sparse!TypeOK'
  BY DEF Sparse!TypeOK, Sparse!Verify, Sparse!Goes
<1>2. Answered'
  BY DEF Answered, Sparse!Verify, Sparse!Goes
<1>3. SparseOutcome'
  <2>. USE DEF FirstData, Hole, Data, End, Accepted, DataFrom, HoleFrom
  <2>1. /\ main = "verify" /\ main' = "cleanup" /\ detail' = detail
        /\ result' = IF detail = 0 \/ Accepted
                     THEN "EXIT_SUCCESS" ELSE "EXIT_FAILURE"
        /\ found' = found /\ layout' = layout /\ faults' = 0
        /\ detail \in {0, 1}
    BY DEF Sparse!Verify, Sparse!Goes, SparseOutcome, Sparse!TypeOK
  <2>2. detail = 1 => FirstData /\ Hole /\ Data /\ End
    BY <2>1 DEF Answered
  <2>3. /\ FirstData' <=> FirstData
        /\ Hole' <=> Hole
        /\ Data' <=> Data
        /\ End' <=> End
        /\ Accepted' <=> Accepted
    BY <2>1
  <2>. HIDE DEF FirstData, Hole, Data, End, Accepted
  <2>. QED  BY <2>1, <2>2, <2>3 DEF SparseOutcome
<1>. QED  BY <1>1, <1>2, <1>3

(* The cleanup (lines 151-161). *)
LEMMA ExtentsCleanupPreserves ==
  ASSUME ExtentsInvariant, Sparse!Cleanup
  PROVE  ExtentsInvariant'
<1>. USE DEF ExtentsInvariant
<1>1. Sparse!TypeOK'
  <2>1. /\ main' \in {"cleanup", "exited"} /\ held' \in SUBSET {"fd", "path"}
        /\ result' \in {"EXIT_SUCCESS", "EXIT_FAILURE"}
    BY DEF Sparse!TypeOK, Sparse!Cleanup
  <2>2. faults' \in Nat
    BY DEF Sparse!TypeOK, Sparse!Cleanup, Sparse!Fault
  <2>3. UNCHANGED <<layout, found, detail>>
    BY DEF Sparse!Cleanup
  <2>. QED  BY <2>1, <2>2, <2>3 DEF Sparse!TypeOK
<1>2. Answered'
  BY DEF Answered, Sparse!Cleanup
<1>3. SparseOutcome'
  BY DEF Sparse!TypeOK, SparseOutcome, Accepted, Sparse!Cleanup, Sparse!Fault,
         FirstData, Hole, Data, End, DataFrom, HoleFrom
<1>. QED  BY <1>1, <1>2, <1>3
(* The invariant holds before the first call (lines 81-98). *)
LEMMA ExtentsInit ==
  ASSUME Sparse!Init
  PROVE  ExtentsInvariant
<1>1. Sparse!TypeOK
  BY FieldNames DEF Sparse!Init, Sparse!TypeOK, Sparse!Fallible, Extents
<1>2. Answered /\ SparseOutcome
  BY DEF Sparse!Init, Answered, SparseOutcome
<1>. QED  BY <1>1, <1>2 DEF ExtentsInvariant

(* Nothing happens. *)
LEMMA ExtentsStutter ==
  ASSUME ExtentsInvariant, UNCHANGED Sparse!vars
  PROVE  ExtentsInvariant'
BY DEF Sparse!vars, ExtentsInvariant, Sparse!TypeOK, Answered, SparseOutcome,
       Accepted, FirstData, Hole, Data, End, DataFrom, HoleFrom

(* Every step of the program. *)
LEMMA ExtentsStep ==
  ASSUME ExtentsInvariant, Sparse!Next
  PROVE  ExtentsInvariant'
BY ExtentsCallsPreserve, ExtentsQueryPreserves, ExtentsUnsupportedPreserves,
   ExtentsVerifyPreserves, ExtentsCleanupPreserves, ExtentsStutter
   DEF Sparse!Next, Sparse!MainStep, Sparse!Exited

-----------------------------------------------------------------------------
(* The theorems. *)

(* Each program keeps its own invariant. *)
SoloInvariant ==
  /\ program \in {"event_loop", "filesystem_events", "stdio_buffering",
                  "sparse_files", "sequence"}
  /\ program = "event_loop" => LoopInvariant
  /\ program = "filesystem_events" => FilesInvariant
  /\ program = "stdio_buffering" => StdioInvariant
  /\ program = "sparse_files" => ExtentsInvariant
  /\ program = "sequence" => PathsInvariant

(* The invariant is inductive, whichever of the programs runs: main of     *)
(* 11, 12, 20, 21 and of the thirteen sequences.                           *)
THEOREM Invariance == Spec => []SoloInvariant
<1>1. Init => SoloInvariant
  BY LoopInit, FilesInit, StdioInit, ExtentsInit, PathsInit
     DEF Init, SoloInvariant
<1>2. SoloInvariant /\ [Next]_vars => SoloInvariant'
  <2>. SUFFICES ASSUME SoloInvariant, [Next]_vars
                PROVE  SoloInvariant'
    OBVIOUS
  <2>1. CASE Of("event_loop", Loop!Next)
    BY <2>1, LoopStep DEF Of, SoloInvariant
  <2>2. CASE Of("filesystem_events", Files!Next)
    BY <2>2, FilesStep DEF Of, SoloInvariant
  <2>3. CASE Of("stdio_buffering", Stdio!Next)
    BY <2>3, StdioStep DEF Of, SoloInvariant
  <2>4. CASE Of("sparse_files", Sparse!Next)
    BY <2>4, ExtentsStep DEF Of, SoloInvariant
  <2>5. CASE Of("sequence", Paths!Next)
    BY <2>5, PathsStep DEF Of, SoloInvariant
  <2>6. CASE UNCHANGED vars
    <3>1. /\ UNCHANGED <<program, result, faults, main, held>>
          /\ UNCHANGED loop /\ UNCHANGED files /\ UNCHANGED stream
          /\ UNCHANGED sparse /\ UNCHANGED paths
      BY <2>6 DEF vars
    <3>2. LoopInvariant => LoopInvariant'
      BY <3>1, LoopStutter DEF loop, Loop!vars, Loop!clock, Loop!loop
    <3>3. FilesInvariant => FilesInvariant'
      BY <3>1, FilesStutter DEF files, Files!vars
    <3>4. StdioInvariant => StdioInvariant'
      BY <3>1, StdioStutter DEF stream, Stdio!vars
    <3>5. ExtentsInvariant => ExtentsInvariant'
      BY <3>1, ExtentsStutter DEF sparse, Sparse!vars
    <3>6. PathsInvariant => PathsInvariant'
      BY <3>1, PathsStutter DEF paths
    <3>. QED  BY <3>1, <3>2, <3>3, <3>4, <3>5, <3>6 DEF SoloInvariant
  <2>. QED  BY <2>1, <2>2, <2>3, <2>4, <2>5, <2>6 DEF Next
<1>. QED  BY <1>1, <1>2, PTL DEF Spec

(* 11: the program waits for both sources and reads what was written to    *)
(* them, however the wait is interrupted and whatever epoll_wait reports,  *)
(* unless a call fails; and then it says so (lines 97-148).                *)
THEOREM LoopCorrect == Spec => []LoopVerdict
<1>1. LoopInvariant => Loop!LoopVerdict
  BY DEF LoopInvariant, LoopOutcome, Loop!LoopVerdict
<1>2. SoloInvariant => LoopVerdict
  BY <1>1 DEF SoloInvariant, LoopVerdict
<1>. QED  BY <1>2, Invariance, PTL

(* 12: unless a call fails or the queue is full, all three events are      *)
(* observed, for every length of the queue and of a read and whatever      *)
(* other programs do in the directory (lines 94-182).                      *)
THEOREM EventsCorrect == Spec => []EventsVerdict
<1>1. FilesInvariant => Files!EventsVerdict
  BY DEF FilesInvariant, FilesOutcome, Files!EventsVerdict
<1>2. SoloInvariant => EventsVerdict
  BY <1>1 DEF SoloInvariant, EventsVerdict
<1>. QED  BY <1>2, Invariance, PTL

(* 21: a message of any length is read whole, whatever part of it the      *)
(* library committed early, and the program is not killed (lines 84-126).  *)
THEOREM StreamCorrect == Spec => []StreamVerdict
<1>1. StdioInvariant => Stdio!StreamVerdict
  BY DEF StdioInvariant, StdioOutcome, Stdio!StreamVerdict
<1>2. SoloInvariant => StreamVerdict
  BY <1>1 DEF SoloInvariant, StreamVerdict
<1>. QED  BY <1>2, Invariance, PTL

(* 20: success after all four queries means that what is printed is the    *)
(* whole layout; and if no call failed, the program succeeds for one       *)
(* extent and for two, wherever their boundaries are (lines 116-147).      *)
THEOREM VerdictCorrect == Spec => []VerdictMatchesLayout
<1>1. ExtentsInvariant => Sparse!VerdictMatchesLayout
  <2>. SUFFICES ASSUME ExtentsInvariant, main = "exited"
                PROVE  /\ result = "EXIT_SUCCESS" /\ detail = 1
                            => Sparse!Reported = layout
                       /\ result = "EXIT_SUCCESS" => faults = 0
                       /\ faults = 0 /\ Sparse!AtMostTwoExtents
                            => result = "EXIT_SUCCESS"
    BY DEF Sparse!VerdictMatchesLayout
  <2>1. /\ layout \subseteq Sparse!Blocks /\ detail \in {0, 1}
        /\ 0 \in layout /\ tail_offset \in layout
    BY DEF ExtentsInvariant, Sparse!TypeOK, Sparse!Layouts
  <2>2. ASSUME result = "EXIT_SUCCESS", detail = 1
        PROVE  Sparse!Reported = layout
    <3>1. FirstData /\ Hole /\ Data /\ End /\ Accepted
      BY <2>2 DEF ExtentsInvariant, SparseOutcome
    <3>2. ASSUME NEW b \in layout PROVE b \in Sparse!Reported
      BY <2>1, <3>1, <3>2
         DEF FirstData, Hole, Data, Accepted, HoleFrom, DataFrom,
             Sparse!Reported, Sparse!Blocks
    <3>3. ASSUME NEW b \in Sparse!Reported PROVE b \in layout
      <4>. USE DEF Sparse!Blocks
      <4>1. CASE b \in 0 .. found.first_hole - 1
        BY <3>1, <4>1 DEF Hole, HoleFrom, Accepted
      <4>2. CASE b \in found.second_data .. found.end_hole - 1
        BY <3>1, <4>2 DEF End, HoleFrom, Accepted
      <4>. QED  BY <3>1, <3>3, <4>1, <4>2 DEF FirstData, Sparse!Reported
    <3>. QED  BY <3>2, <3>3
  <2>3. ASSUME faults = 0, Sparse!AtMostTwoExtents, detail = 1
        PROVE  Accepted
    <3>1. FirstData /\ Hole /\ Data /\ End
      BY <2>3 DEF ExtentsInvariant, SparseOutcome
    <3>. DEFINE h == found.first_hole
                d == found.second_data
                e == found.end_hole
    <3>2. /\ h \in 1 .. tail_offset - 1 /\ h \in Sparse!Blocks \ layout
          /\ d \in h .. tail_offset /\ d \in layout
          /\ e \in d .. Sparse!expected_size /\ e \notin layout
      <4>1. /\ h \in 0 .. Sparse!expected_size /\ h \notin layout
            /\ h < Sparse!expected_size
        BY <3>1 DEF Hole, Data, HoleFrom
      <4>2. h \in 1 .. tail_offset - 1 /\ h \in Sparse!Blocks \ layout
        <5>1. h # 0 /\ h # tail_offset
          BY <2>1, <4>1
        <5>. HIDE DEF h
        <5>. QED  BY <4>1, <5>1 DEF Sparse!Blocks
      <4>3. d \in layout /\ d >= h
        BY <3>1 DEF Data, DataFrom
      <4>4. d \in h .. tail_offset
        <5>1. d \in 0 .. tail_offset
          BY <2>1, <4>3 DEF Sparse!Blocks
        <5>. QED  BY <4>1, <4>3, <5>1
      <4>. QED  BY <3>1, <4>2, <4>3, <4>4 DEF End, HoleFrom
    <3>3. ASSUME e # Sparse!expected_size PROVE FALSE
      <4>1. e \in Sparse!Blocks \ layout
        BY <3>2, <3>3 DEF Sparse!Blocks
      <4>2. h .. e \subseteq Sparse!Blocks \ layout
        BY <2>3, <3>2, <4>1 DEF Sparse!AtMostTwoExtents
      <4>. QED  BY <3>2, <4>2 DEF Sparse!Blocks
    <3>. QED  BY <3>2, <3>3 DEF Accepted
  <2>. QED  BY <2>1, <2>2, <2>3 DEF ExtentsInvariant, SparseOutcome
<1>2. SoloInvariant => VerdictMatchesLayout
  BY <1>1 DEF SoloInvariant, VerdictMatchesLayout
<1>. QED  BY <1>2, Invariance, PTL

(* The sequences: wherever the body stops and whatever cannot be released, *)
(* no call and no release is made on what is not there, or not any more    *)
(* (for 02, lines 34-132).                                                 *)
THEOREM UsesCorrect == Spec => []UsesWhatItHas
<1>1. SoloInvariant => UsesWhatItHas
  BY PathsProperties DEF SoloInvariant, UsesWhatItHas
<1>. QED  BY <1>1, Invariance, PTL

(* The sequences: nothing is left but what could not be released, and      *)
(* success is reported exactly when no call failed (for 02, lines 34-132). *)
THEOREM NothingLeft == Spec => []LeavesNothing
<1>1. SoloInvariant => LeavesNothing
  BY PathsProperties DEF SoloInvariant, LeavesNothing
<1>. QED  BY <1>1, Invariance, PTL
=============================================================================
