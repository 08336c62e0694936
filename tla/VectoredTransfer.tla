-------------------------- MODULE VectoredTransfer --------------------------
(***************************************************************************)
(* transfer_iovecs of experiments/01_file_io/main.c: readv or writev is    *)
(* called until every vector is used up, and after a short count the array *)
(* is moved on: whole vectors are passed over, a vector used in part gets  *)
(* a later base and a smaller length.                                      *)
(*                                                                         *)
(* A place <<v, i>> is byte i of the memory vector v had at first; readv   *)
(* and writev do the same to the places.  Each call starts with the first  *)
(* place that the array describes, so the places moved are the right ones  *)
(* in the right order, each once, if before each call the array describes  *)
(* exactly those that were not moved.                                      *)
(***************************************************************************)
EXTENDS Integers, FiniteSets

CONSTANTS VectorCount,   \* length of the array (3 in the code)
          MaxLength      \* the longest vector

VectorAssumption == VectorCount \in Nat /\ MaxLength \in Nat

VARIABLES given,         \* vector -> its length when the function is called
          base, len,     \* the array: vector -> iov_base (offset), iov_len
          current,       \* the first vector not used up
          transferred,   \* what is left of the last count to account for
          moved,         \* history: the places the kernel moved
          errno,
          pc             \* "skip", "call", "advance", or what was returned

vectors == <<base, len>>
vars    == <<given, vectors, current, transferred, moved, errno, pc>>

Vectors == 1 .. VectorCount

Init ==
  /\ given \in [Vectors -> 0 .. MaxLength]
  /\ base = [v \in Vectors |-> 0] /\ len = given
  /\ current = 1 /\ transferred = 0
  /\ moved = {} /\ errno = "none" /\ pc = "skip"

Places == Vectors \X (0 .. MaxLength - 1)
AllPlaces == {p \in Places : p[2] < given[p[1]]}

(* The places that the array still describes. *)
Remaining ==
  {p \in Places : /\ p[1] >= current
                  /\ p[2] \in base[p[1]] .. base[p[1]] + len[p[1]] - 1}

(* The kernel uses the vectors one after the other, each from its base on. *)
UpTo(q) ==
  {p \in Remaining : p[1] < q[1] \/ (p[1] = q[1] /\ p[2] <= q[2])}

(* The inner loop passes over empty vectors; the outer one ends or calls.  *)
SkipEmpty ==
  /\ pc = "skip"
  /\ \/ /\ current <= VectorCount /\ len[current] = 0
        /\ current' = current + 1 /\ UNCHANGED pc
     \/ /\ current <= VectorCount /\ len[current] # 0
        /\ pc' = "call" /\ UNCHANGED current
     \/ current > VectorCount /\ pc' = "0" /\ UNCHANGED current
  /\ UNCHANGED <<given, vectors, transferred, moved, errno>>

(* count > 0: the call stops after the place q, the last one or another.   *)
Moves(q) ==
  /\ pc = "call"
  /\ moved' = moved \cup UpTo(q) /\ transferred' = Cardinality(UpTo(q))
  /\ pc' = "advance"
  /\ UNCHANGED <<given, vectors, current, errno>>

(* count < 0 and EINTR: the do loop calls again. *)
Interrupted ==
  /\ pc = "call" /\ errno' = "EINTR"
  /\ UNCHANGED <<given, vectors, current, transferred, moved, pc>>

(* count == 0 is EIO; any other error is the kernel's. *)
Fails ==
  /\ pc = "call" /\ errno' \in {"EIO", "other"} /\ pc' = "-1"
  /\ UNCHANGED <<given, vectors, current, transferred, moved>>

(* A faulty variant of Advance: the base of a vector used in part stays. *)
AdvanceKeepsBase ==
  /\ pc = "advance"
  /\ IF transferred > 0 /\ current <= VectorCount
     THEN /\ IF transferred >= len[current]
             THEN /\ transferred' = transferred - len[current]
                  /\ current' = current + 1
                  /\ UNCHANGED len
             ELSE /\ len' = [len EXCEPT ![current] = @ - transferred]
                  /\ transferred' = 0
                  /\ UNCHANGED current
          /\ UNCHANGED pc
     ELSE pc' = "skip" /\ UNCHANGED <<len, current, transferred>>
  /\ UNCHANGED <<given, base, moved, errno>>

(* One round of the loop that accounts for the count, or its end. *)
Advance ==
  /\ pc = "advance"
  /\ \/ /\ transferred > 0 /\ current <= VectorCount
        /\ IF transferred >= len[current]
           THEN /\ transferred' = transferred - len[current]
                /\ current' = current + 1
                /\ UNCHANGED vectors
           ELSE /\ base' = [base EXCEPT ![current] = @ + transferred]
                /\ len' = [len EXCEPT ![current] = @ - transferred]
                /\ transferred' = 0
                /\ UNCHANGED current
        /\ UNCHANGED <<errno, pc>>
     \/ /\ ~(transferred > 0 /\ current <= VectorCount)
        /\ IF transferred # 0
           THEN pc' = "-1" /\ errno' = "EIO"
           ELSE pc' = "skip" /\ UNCHANGED errno
        /\ UNCHANGED <<vectors, current, transferred>>
  /\ UNCHANGED <<given, moved>>

Returned == pc \in {"0", "-1"} /\ UNCHANGED vars

Progress ==
  \/ SkipEmpty \/ Advance
  \/ \E q \in Remaining : Moves(q)

Next == Progress \/ Interrupted \/ Fails \/ Returned
Spec == Init /\ [][Next]_vars

-----------------------------------------------------------------------------
(* Properties. *)

TypeOK ==
  /\ given \in [Vectors -> 0 .. MaxLength]
  /\ base \in [Vectors -> 0 .. MaxLength] /\ len \in [Vectors -> 0 .. MaxLength]
  /\ current \in 1 .. VectorCount + 1
  /\ transferred \in 0 .. Cardinality(Places)
  /\ moved \in SUBSET Places
  /\ errno \in {"none", "EINTR", "EIO", "other"}
  /\ pc \in {"skip", "call", "advance", "0", "-1"}

(* Between two calls the array describes exactly the places not moved yet: *)
(* a short count neither repeats nor skips a byte (lines 75-86).           *)
NoByteSkipped ==
  pc \in {"skip", "call", "0"} => Remaining = AllPlaces \ moved

(* 0 is returned when every byte was moved, and then only.  An error comes *)
(* from a call: the check of lines 87-90 never finds bytes left over, and  *)
(* the errno is not that of an interruption dealt with before.             *)
ResultHonest ==
  /\ pc = "0" => moved = AllPlaces
  /\ pc = "-1" => moved # AllPlaces /\ errno \in {"EIO", "other"}
                  /\ transferred = 0

(* Neither the array nor what is returned ever misstates what was moved.   *)
HonestTransfer == NoByteSkipped /\ ResultHonest
=============================================================================
