---------------------------- MODULE TransferLoops ---------------------------
(***************************************************************************)
(* The loops that move bytes in as many calls as the kernel makes of it,   *)
(* over one buffer (TransferLoop) or an array of them (VectoredTransfer).  *)
(* A run is a call of one of the functions, and the variables it does not  *)
(* have keep one value.                                                    *)
(***************************************************************************)

CONSTANTS Length, MaxStart,          \* TransferLoop
          VectorCount, MaxLength     \* VectoredTransfer

VARIABLES vectored,   \* is it a loop over an array of buffers?
          errno,                                           \* of both
          helper, start, end, position, buffer, medium, done, result,
                                                           \* TransferLoop
          given, base, len, current, transferred, moved, pc
                                                        \* VectoredTransfer

single == <<helper, start, end, position, buffer, medium, done, result>>
vector == <<given, base, len, current, transferred, moved, pc>>
vars   == <<vectored, errno, single, vector>>

Single == INSTANCE TransferLoop
Vector == INSTANCE VectoredTransfer

ASSUME SingleConstants == Single!LengthAssumption /\ Single!StartAssumption
ASSUME VectorConstants == Vector!VectorAssumption

Init ==
  \/ /\ vectored = FALSE /\ Single!Init
     /\ given = "absent" /\ base = "absent" /\ len = "absent"
     /\ current = "absent" /\ transferred = "absent" /\ moved = "absent"
     /\ pc = "absent"
  \/ /\ vectored = TRUE /\ Vector!Init
     /\ helper = "absent" /\ start = "absent" /\ end = "absent"
     /\ position = "absent" /\ buffer = "absent" /\ medium = "absent"
     /\ done = "absent" /\ result = "absent"

(* A step of one of the loops, and of nothing else. *)
OfSingle(Step) == ~vectored /\ Step /\ UNCHANGED <<vectored, vector>>
OfVector(Step) == vectored /\ Step /\ UNCHANGED <<vectored, single>>

Next == OfSingle(Single!Next) \/ OfVector(Vector!Next)

Spec == Init /\ [][Next]_vars

(* Signals do not interrupt every call for ever. *)
FairSpec ==
  /\ Spec
  /\ SF_vars(OfSingle(Single!Progress) \/ OfVector(Vector!Progress))

-----------------------------------------------------------------------------
(* Properties: those of the loop that runs, each explained in its module.  *)

TypeOK ==
  /\ ~vectored => Single!TypeOK
  /\ vectored => Vector!TypeOK

(* However the bytes were split into calls, what was moved is a prefix of  *)
(* what is to be moved, and the loop says so (buffer + done, errno = EIO). *)
HonestPrefix == ~vectored => Single!HonestPrefix

(* 01: neither the array of vectors nor what is returned ever misstates    *)
(* what was moved (lines 50-93).                                           *)
HonestTransfer == vectored => Vector!HonestTransfer

(* Every loop returns: none spins at the end of the data or on vectors     *)
(* that are empty.                                                         *)
Termination ==
  <>(IF vectored THEN pc \in {"0", "-1"} ELSE result # "running")
=============================================================================
