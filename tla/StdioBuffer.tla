---------------------------- MODULE StdioBuffer ----------------------------
(***************************************************************************)
(* experiments/21_stdio_buffering/main.c: a message goes through a fully   *)
(* buffered stream into a pipe.  One read, which does not wait, looks at   *)
(* what is in the pipe before fflush, and read_exact fetches the rest      *)
(* after it.  The library may commit any part of the message early, as the *)
(* README of the experiment allows.  A call that is interrupted is         *)
(* repeated by the code and is no step of its own.                         *)
(***************************************************************************)
EXTENDS Integers, Sequences, FiniteSetsExt

CONSTANT SIZE   \* bytes of the message; the stream and the pipe hold more

SizeAssumption == SIZE \in Nat \ {0}

VARIABLES main, result,
          held,        \* descriptors and stream of the program
          buffered,    \* bytes given to the stream
          committed,   \* those of them the library has put into the pipe
          taken,       \* those of them read from the pipe
          received,    \* the array: the byte of the message at each place
          faults       \* history: calls that failed

vars == <<main, result, held, buffered, committed, taken, received, faults>>

Init ==
  /\ main = "pipe" /\ result = "EXIT_FAILURE" /\ held = {}
  /\ buffered = 0 /\ committed = 0 /\ taken = 0
  /\ received = [i \in 1 .. SIZE |-> 0] /\ faults = 0

Goes(from, to) == main = from /\ main' = to
Fault == faults' = faults + 1

-----------------------------------------------------------------------------
(* The preparation. *)

Prepare ==
  /\ \/ Goes("pipe", "set_nonblocking") /\ held' = {"read_end", "write_end"}
     \/ Goes("set_nonblocking", "fdopen") /\ UNCHANGED held
     \/ Goes("fdopen", "setvbuf") /\ held' = {"read_end", "stream"}
     \/ Goes("setvbuf", "fileno") /\ UNCHANGED held
     \/ Goes("fileno", "fwrite") /\ UNCHANGED held
  /\ UNCHANGED <<result, buffered, committed, taken, received, faults>>

Fails(from) ==
  /\ Goes(from, "cleanup") /\ Fault
  /\ UNCHANGED <<result, held, buffered, committed, taken, received>>

-----------------------------------------------------------------------------
(* The stream and the pipe. *)

(* fwrite gives the message to the stream, or when the library fails to    *)
(* commit, a part of it.                                                   *)
Fwrite ==
  /\ main = "fwrite"
  /\ buffered' \in 0 .. SIZE /\ committed' \in 0 .. buffered'
  /\ IF buffered' = SIZE THEN main' = "probe" /\ UNCHANGED faults
     ELSE main' = "cleanup" /\ Fault
  /\ UNCHANGED <<result, held, taken, received>>

(* A read of n bytes at most into received + at. *)
Take(n, at) ==
  \E k \in 1 .. n :
    /\ k <= committed - taken
    /\ taken' = taken + k
    /\ received' = [i \in 1 .. SIZE |-> IF i - at \in 1 .. k
                                        THEN taken + i - at ELSE received[i]]

(* Nothing there is EAGAIN, which the program accepts here. *)
Probe ==
  /\ Goes("probe", "fflush")
  /\ IF committed = taken THEN UNCHANGED <<taken, received>> ELSE Take(SIZE, 0)
  /\ UNCHANGED <<result, held, buffered, committed, faults>>

Fflush ==
  /\ Goes("fflush", "read_exact") /\ committed' = buffered
  /\ UNCHANGED <<result, held, buffered, taken, received, faults>>

(* read_exact gives up on EAGAIN, and asks for what is not yet there.      *)
(* A faulty variant of ReadExact: the early bytes are not taken off what   *)
(* is asked for.                                                           *)
ReadExactAll ==
  /\ main = "read_exact"
  /\ IF committed = taken
     THEN main' = "cleanup" /\ UNCHANGED <<taken, received>>
     ELSE Take(SIZE, taken) /\ UNCHANGED main
  /\ UNCHANGED <<result, held, buffered, committed, faults>>

ReadExact ==
  /\ main = "read_exact"
  /\ IF taken = SIZE THEN main' = "verify" /\ UNCHANGED <<taken, received>>
     ELSE IF committed = taken
     THEN main' = "cleanup" /\ UNCHANGED <<taken, received>>
     ELSE Take(SIZE - taken, taken) /\ UNCHANGED main
  /\ UNCHANGED <<result, held, buffered, committed, faults>>

Verify ==
  /\ Goes("verify", "cleanup")
  /\ result' = IF \A i \in 1 .. SIZE : received[i] = i THEN "EXIT_SUCCESS"
                                                       ELSE "EXIT_FAILURE"
  /\ UNCHANGED <<held, buffered, committed, taken, received, faults>>

-----------------------------------------------------------------------------
(* The cleanup. *)

(* A faulty variant of Order: the descriptor before the stream. *)
OrderReversed == <<"read_end", "stream", "write_end">>

Order == <<"stream", "read_end", "write_end">>

(* fclose commits what the stream still holds, and if it fails, a part of  *)
(* it; a write to the pipe without a reader kills the program.             *)
Cleanup ==
  /\ main = "cleanup"
  /\ IF held = {}
     THEN main' = "exited" /\ UNCHANGED <<held, committed, result, faults>>
     ELSE LET r == Order[Min({i \in DOMAIN Order : Order[i] \in held})] IN
       /\ held' = held \ {r}
       /\ main' = IF /\ r = "stream" /\ committed < buffered
                     /\ "read_end" \notin held
                  THEN "killed" ELSE "cleanup"
       /\ \/ /\ committed' = IF r = "stream" THEN buffered ELSE committed
             /\ UNCHANGED <<result, faults>>
          \/ /\ IF r = "stream" THEN committed' \in committed .. buffered
                                ELSE UNCHANGED committed
             /\ result' = "EXIT_FAILURE" /\ Fault
  /\ UNCHANGED <<buffered, taken, received>>

Ended == main \in {"exited", "killed"} /\ UNCHANGED vars

MainStep ==
  Prepare \/ Fwrite \/ Probe \/ Fflush \/ ReadExact \/ Verify \/ Cleanup

Fallible == {"pipe", "set_nonblocking", "fdopen", "setvbuf", "fileno", "probe",
             "fflush", "read_exact"}

Next == MainStep \/ Ended \/ \E from \in Fallible : Fails(from)

Spec == Init /\ [][Next]_vars
FairSpec == Spec /\ WF_vars(MainStep)    \* the program runs

-----------------------------------------------------------------------------
(* Properties. *)

TypeOK ==
  /\ main \in Fallible \cup {"fwrite", "verify", "cleanup", "exited", "killed"}
  /\ result \in {"EXIT_SUCCESS", "EXIT_FAILURE"}
  /\ held \in SUBSET {"read_end", "write_end", "stream"}
  /\ buffered \in 0 .. SIZE /\ committed \in 0 .. buffered
  /\ taken \in 0 .. committed /\ received \in [1 .. SIZE -> 0 .. SIZE]
  /\ faults \in Nat

(* The program is not killed by writing out the rest of the stream in its  *)
(* cleanup.  At the end nothing is left open, and success is reported      *)
(* exactly when no call failed: whatever part the library committed early, *)
(* the reads that do not wait find the whole message in its place          *)
(* (84-126).                                                               *)
StreamVerdict ==
  /\ main # "killed"
  /\ main = "exited" => held = {} /\ (result = "EXIT_SUCCESS" <=> faults = 0)
=============================================================================
