--------------------------- MODULE SparseExtents ---------------------------
(***************************************************************************)
(* experiments/20_sparse_files/main.c: a file with four bytes at its start *)
(* and four at 8 MiB is asked for its data and its holes.  The file system *)
(* answers for whole blocks.  What was written is data; what was not is a  *)
(* hole in the file, but the file system may call any of it data, or not   *)
(* know the question.  Offsets are counted in blocks here.                 *)
(***************************************************************************)
EXTENDS Integers, Sequences, FiniteSetsExt

CONSTANT tail_offset   \* the block of the second write

TailAssumption == tail_offset \in Nat \ {0}

expected_size == tail_offset + 1
Blocks == 0 .. tail_offset

VARIABLES main, result,
          held,     \* the file open, and its name
          layout,   \* the blocks the file system calls data
          found,    \* struct extents
          detail,   \* what the queries return: 1 detailed, 0 skip
          faults    \* history: calls that failed

vars == <<main, result, held, layout, found, detail, faults>>

Fields == <<"first_data", "first_hole", "second_data", "end_hole">>

Layouts == {d \in SUBSET Blocks : {0, tail_offset} \subseteq d}

Init ==
  /\ main = "mkstemp" /\ result = "EXIT_FAILURE" /\ held = {}
  /\ layout \in Layouts /\ found = [f \in {Fields[i] : i \in 1 .. 4} |-> 0]
  /\ detail = 1 /\ faults = 0

Goes(from, to) == main = from /\ main' = to
Fault == faults' = faults + 1

Create ==
  /\ Goes("mkstemp", "pwrite") /\ held' = {"fd", "path"}
  /\ UNCHANGED <<result, layout, found, detail, faults>>

Write ==
  /\ \/ Goes("pwrite", "fstat") \/ Goes("fstat", "first_data")
  /\ UNCHANGED <<result, held, layout, found, detail, faults>>

-----------------------------------------------------------------------------
(* The queries. *)

SEEK_DATA(offset) == Min({b \in layout : b >= offset})

SEEK_HOLE(offset) ==
  Min({b \in Blocks \ layout : b >= offset} \cup {expected_size})

(* A faulty variant of Answer: the end is asked for from the first hole. *)
AnswerFromHole(f) ==
  CASE f = "first_data" -> SEEK_DATA(0)
    [] f = "first_hole" -> SEEK_HOLE(found.first_data)
    [] f = "second_data" -> SEEK_DATA(found.first_hole)
    [] f = "end_hole" -> SEEK_HOLE(found.first_hole)

Answer(f) ==
  CASE f = "first_data" -> SEEK_DATA(0)
    [] f = "first_hole" -> SEEK_HOLE(found.first_data)
    [] f = "second_data" -> SEEK_DATA(found.first_hole)
    [] f = "end_hole" -> SEEK_HOLE(found.second_data)

(* query_second_extent asks no more when the first data goes on to the end. *)
Coarse(f) ==
  f = "second_data"
  /\ (found.first_data # 0 \/ found.first_hole >= expected_size)

Query(i) ==
  LET f == Fields[i] IN
  /\ main = f
  /\ IF Coarse(f)
     THEN main' = "verify" /\ detail' = 0 /\ UNCHANGED found
     ELSE /\ found' = [found EXCEPT ![f] = Answer(f)]
          /\ main' = IF i = 4 THEN "verify" ELSE Fields[i + 1]
          /\ UNCHANGED detail
  /\ UNCHANGED <<result, held, layout, faults>>

(* A call fails, or fstat shows that the file takes the whole space. *)
Fails(from) ==
  /\ Goes(from, "cleanup") /\ Fault /\ ~Coarse(from)
  /\ UNCHANGED <<result, held, layout, found, detail>>

(* EINVAL, ENOTSUP or EOPNOTSUPP; an error of another kind is in Fails. *)
Unsupported(i) ==
  /\ Goes(Fields[i], "verify") /\ detail' = 0 /\ ~Coarse(Fields[i])
  /\ UNCHANGED <<result, held, layout, found, faults>>

Verify ==
  /\ Goes("verify", "cleanup")
  /\ result' = IF \/ detail = 0
                  \/ /\ found.first_hole \in 1 .. tail_offset - 1
                     /\ found.second_data \in found.first_hole .. tail_offset
                     /\ found.end_hole = expected_size
               THEN "EXIT_SUCCESS" ELSE "EXIT_FAILURE"
  /\ UNCHANGED <<held, layout, found, detail, faults>>

-----------------------------------------------------------------------------
(* The cleanup: a descriptor is closed even if close fails. *)

Cleanup ==
  /\ main = "cleanup"
  /\ IF held = {} THEN main' = "exited" /\ UNCHANGED <<held, result, faults>>
     ELSE /\ held' = IF "fd" \in held THEN held \ {"fd"} ELSE {}
          /\ \/ UNCHANGED <<result, faults>>
             \/ result' = "EXIT_FAILURE" /\ Fault
          /\ UNCHANGED main
  /\ UNCHANGED <<layout, found, detail>>

Exited == main = "exited" /\ UNCHANGED vars

Fallible == {"mkstemp", "pwrite", "fstat"} \cup {Fields[i] : i \in 1 .. 4}

MainStep ==
  Create \/ Write \/ (\E i \in 1 .. 4 : Query(i)) \/ Verify \/ Cleanup

Next ==
  \/ MainStep \/ Exited
  \/ (\E i \in 1 .. 4 : Unsupported(i)) \/ \E from \in Fallible : Fails(from)

Spec == Init /\ [][Next]_vars

-----------------------------------------------------------------------------
(* Properties. *)

TypeOK ==
  /\ main \in Fallible \cup {"verify", "cleanup", "exited"}
  /\ result \in {"EXIT_SUCCESS", "EXIT_FAILURE"}
  /\ held \in SUBSET {"fd", "path"} /\ layout \in Layouts
  /\ DOMAIN found = {Fields[i] : i \in 1 .. 4}
  /\ \A f \in DOMAIN found : found[f] \in 0 .. expected_size
  /\ detail \in {0, 1} /\ faults \in Nat

(* The two extents of the struct. *)
Reported ==
  (found.first_data .. found.first_hole - 1)
    \cup (found.second_data .. found.end_hole - 1)

(* The holes of the layout are one, or none: the coarsest answer. *)
AtMostTwoExtents ==
  \A a, b \in Blocks \ layout : a .. b \subseteq Blocks \ layout

(* If the program ends with success after all four queries, what it prints *)
(* is the whole layout; and if no call failed, it ends with success for    *)
(* one extent and for two, wherever their boundaries are (116-147).        *)
VerdictMatchesLayout ==
  main = "exited" =>
    /\ result = "EXIT_SUCCESS" /\ detail = 1 => Reported = layout
    /\ result = "EXIT_SUCCESS" => faults = 0
    /\ faults = 0 /\ AtMostTwoExtents => result = "EXIT_SUCCESS"

(* What docs/assets/principles/PROMPTS.md:113 says, and README.md:46 of    *)
(* the experiment allows for: no legal coarse answer of the file system    *)
(* makes the program fail.  The code accepts two extents and one, and      *)
(* fails for three, when the file system calls a part of the hole data     *)
(* (59-74, 135-142).                                                       *)
CoarseAnswersAccepted ==
  main = "exited" /\ faults = 0 => result = "EXIT_SUCCESS"
=============================================================================
