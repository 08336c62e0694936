---------------------------- MODULE TransferLoop ----------------------------
(***************************************************************************)
(* The loops that turn read, write, recv, send, pread and pwrite, which    *)
(* may move fewer bytes than asked for and may be interrupted, into calls  *)
(* that move exactly `length' bytes or say why not.  The experiments carry *)
(* some twenty copies of this loop; they differ in the call they make, in  *)
(* who keeps the offset and in what a count of zero means, and each copy   *)
(* is named below with its own choice.                                     *)
(*                                                                         *)
(* A byte is a number.  The caller's buffer and the medium (file, pipe or  *)
(* socket) are functions from places to bytes; 0 is a place not written.   *)
(***************************************************************************)
EXTENDS Integers, FiniteSets

CONSTANTS Length,    \* bytes the caller asks to move
          MaxStart   \* the largest place in the medium where they start

LengthAssumption == Length \in Nat
StartAssumption == MaxStart \in Nat

Reads(zero)  == [reads |-> TRUE,  positioned |-> FALSE, zero |-> zero]
Writes(zero) == [reads |-> FALSE, positioned |-> FALSE, zero |-> zero]
At(helper)   == [helper EXCEPT !.positioned = TRUE]

(* A count of zero gives an errno, or "short": return what was moved. *)
file_io_pread_full          == At(Reads("short"))
file_io_pwrite_all          == At(Writes("EIO"))
filesystem_write_all        == Writes("EIO")
mapping_pread_full          == At(Reads("short"))
process_capture             == Reads("short")
fd_passing_write_all        == Writes("EIO")
fd_passing_read_all         == Reads("EPIPE")
tcp_send_all                == Writes("EIO")
tcp_receive_all             == Reads("ECONNRESET")
inotify_write_all           == Writes("EIO")
zero_copy_write_all         == Writes("EIO")
zero_copy_splice            == Reads("short")   \* the buffer is the pipe
zero_copy_read_all          == Reads("EIO")
terminal_transfer_all(write) == IF write THEN Writes("EIO") ELSE Reads("EIO")
sparse_pwrite_all           == At(Writes("EIO"))
stdio_read_exact            == Reads("EPIPE")
process_groups_write_all    == Writes("EIO")
process_groups_read_all     == Reads("EPIPE")
aio_write_all               == Writes("EIO")
memfd_write_all             == Writes("EIO")
memfd_pread_all             == At(Reads("EIO"))

Helpers ==
  {file_io_pread_full, file_io_pwrite_all, filesystem_write_all,
   mapping_pread_full, process_capture, fd_passing_write_all,
   fd_passing_read_all, tcp_send_all, tcp_receive_all, inotify_write_all,
   zero_copy_write_all, zero_copy_splice, zero_copy_read_all,
   terminal_transfer_all(TRUE), terminal_transfer_all(FALSE),
   sparse_pwrite_all, stdio_read_exact,
   process_groups_write_all, process_groups_read_all, aio_write_all,
   memfd_write_all, memfd_pread_all}

VARIABLES helper,    \* the loop that runs
          start,     \* where in the medium the transfer starts
          end,       \* readers: how far the medium holds bytes
          position,  \* the offset the kernel keeps for the descriptor
          buffer, medium,
          done,      \* the loop's counter
          errno,
          result     \* "running", the value returned, or "-1"

vars == <<helper, start, end, position, buffer, medium, done, errno, result>>
fixed == <<helper, start, end>>

Places == 0 .. MaxStart + Length + 1
Bytes  == 0 .. MaxStart + Length + 2
Errors == {"EIO", "EPIPE", "ECONNRESET", "other"}

Init ==
  /\ helper \in Helpers
  /\ start \in 0 .. MaxStart
  /\ end \in start .. start + Length + 1
  /\ position = IF helper.positioned THEN 0 ELSE start
  /\ buffer = [i \in 0 .. Length - 1 |-> IF helper.reads THEN 0 ELSE i + 1]
  /\ medium = [p \in Places |-> IF helper.reads /\ p < end THEN p + 1 ELSE 0]
  /\ done = 0
  /\ errno = "none"
  /\ result = "running"

-----------------------------------------------------------------------------
(* A faulty variant of Place: every call works at the same offset. *)
PlaceFixed == IF helper.positioned THEN start ELSE position

(* The place the next call works at, and the bytes there are to move. *)
Place == IF helper.positioned THEN start + done ELSE position

Available == IF helper.reads THEN end - Place ELSE Length - done

(* How much the next call asks for. *)
Requested == Length - done

InLoop == result = "running" /\ done < Length

(* count > 0: n bytes, fewer than asked for or all of them. *)
Moves(n) ==
  /\ InLoop
  /\ n \in 1 .. Requested
  /\ n <= Available
  /\ IF helper.reads
     THEN /\ buffer' = [i \in DOMAIN buffer |->
                         IF i \in done .. done + n - 1
                         THEN medium[Place + i - done] ELSE buffer[i]]
          /\ UNCHANGED medium
     ELSE /\ medium' = [p \in DOMAIN medium |->
                         IF p \in Place .. Place + n - 1
                         THEN buffer[done + p - Place] ELSE medium[p]]
          /\ UNCHANGED buffer
  /\ position' = IF helper.positioned THEN position ELSE position + n
  /\ done' = done + n
  /\ UNCHANGED <<fixed, errno, result>>

(* count < 0 and errno is EINTR: the call is made again. *)
Interrupted ==
  /\ InLoop
  /\ errno' = "EINTR"
  /\ UNCHANGED <<fixed, position, buffer, medium, done, result>>

(* A faulty variant of Nothing: the call is made again. *)
NothingRetries ==
  /\ InLoop
  /\ helper.reads => Available = 0
  /\ UNCHANGED vars

(* count == 0: the end of what can be read, or a write that moves nothing. *)
Nothing ==
  /\ InLoop
  /\ helper.reads => Available = 0
  /\ IF helper.zero = "short"
     THEN /\ result' = "done"
          /\ UNCHANGED errno
     ELSE /\ result' = "-1"
          /\ errno' = helper.zero
  /\ UNCHANGED <<fixed, position, buffer, medium, done>>

(* count < 0 with any other errno. *)
Fails ==
  /\ InLoop
  /\ errno' = "other"
  /\ result' = "-1"
  /\ UNCHANGED <<fixed, position, buffer, medium, done>>

(* The loop ends: 0, or the count where the helper returns one. *)
Completes ==
  /\ result = "running"
  /\ done = Length
  /\ result' = IF helper.zero = "short" THEN "done" ELSE "0"
  /\ UNCHANGED <<fixed, position, buffer, medium, done, errno>>

Returned ==
  /\ result # "running"
  /\ UNCHANGED vars

Progress == (\E n \in 1 .. Length : Moves(n)) \/ Nothing \/ Completes

Next == Progress \/ Interrupted \/ Fails \/ Returned
Spec == Init /\ [][Next]_vars

(* Signals do not interrupt every call for ever. *)
FairSpec == Spec /\ SF_vars(Progress)

-----------------------------------------------------------------------------
(* Properties. *)

TypeOK ==
  /\ helper \in Helpers
  /\ start \in 0 .. MaxStart
  /\ end \in start .. start + Length + 1
  /\ position \in Places
  /\ buffer \in [0 .. Length - 1 -> Bytes]
  /\ medium \in [Places -> Bytes]
  /\ done \in 0 .. Length
  /\ errno \in Errors \cup {"none", "EINTR"}
  /\ result \in {"running", "0", "done", "-1"}

(* However the bytes were split into calls, the first `done' of them are   *)
(* at their destination, in order, without gap or repetition, and nothing  *)
(* beyond them was touched (buffer + done, length - done, offset + done).  *)
PrefixMoved ==
  IF helper.reads
  THEN buffer = [i \in 0 .. Length - 1 |->
                  IF i < done THEN start + i + 1 ELSE 0]
  ELSE medium = [p \in Places |->
                  IF p \in start .. start + done - 1 THEN p - start + 1 ELSE 0]

(* 0 is returned for a whole transfer only; a count is the whole transfer  *)
(* or stops at the end of the data; and -1 leaves an errno of its own,     *)
(* never that of an interruption dealt with before (errno = EIO, EPIPE).   *)
ResultHonest ==
  /\ result = "0" => done = Length
  /\ result = "done" => done = Length \/ start + done = end
  /\ result = "-1" => errno \in Errors

(* Every state of a loop, its last one included, can be trusted. *)
HonestPrefix == PrefixMoved /\ ResultHonest

(* Every loop returns (it does not spin at the end of the data). *)
Termination == <>(result # "running")
=============================================================================
