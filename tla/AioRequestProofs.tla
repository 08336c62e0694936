-------------------------- MODULE AioRequestProofs --------------------------
(***************************************************************************)
(* Proofs about AioRequest, for every size of the payload.                 *)
(***************************************************************************)
EXTENDS AioRequest, TLAPS

Early   == {"mkstemp", "unlink", "write", "aio_read"}
Waiting == {"aio_error", "aio_suspend", "aio_return"}

(* Before aio_read nothing has happened to the request, and any failure    *)
(* has left for the cleanup (lines 94-118).                                *)
NothingBefore ==
  main \in Early =>
    /\ request = "none" /\ ~pending /\ ~cleaning /\ ~first_error /\ ~faulty
    /\ fd <=> main # "mkstemp"
    /\ path <=> main = "unlink"

(* Where the request can be while main waits for it and while it decides   *)
(* in its cleanup, and what pending says of it.                            *)
RequestTracked ==
  /\ request = "none" => buffer = 0
  /\ request = "reclaimed" <=> returns = 1
  /\ main \in Waiting => pending /\ request \in InProgress \cup Complete
  /\ main = "aio_return" => request \in Complete
  /\ main = "cleanup" =>
       /\ ~cleaning
       /\ IF pending THEN request \in InProgress \cup Complete
                     ELSE request \in {"none", "reclaimed"}
  /\ cleaning => main \in Waiting \cup {"close", "exited"}
  /\ main \in {"close", "exited"} /\ ~CleanupWaitFails
       => request \in {"none", "reclaimed"}

(* The descriptor is open until the last step. *)
OpenUntilClose ==
  request \in InProgress \cup Complete \cup {"reclaimed"} /\ main # "exited"
    => fd

(* What a run without a failed call looks like: a request that ends short  *)
(* or badly, a cleanup of a pending one, a name left behind are all traces *)
(* of a failure.                                                           *)
FaultsShow ==
  /\ first_error \/ cleaning \/ request \in {"error", "canceled"} => faulty
  /\ request = "read" /\ buffer # PAYLOAD => faulty
  /\ path /\ main # "unlink" => faulty
  /\ main = "cleanup" /\ pending => faulty
  /\ main \in {"cleanup", "close", "exited"} /\ ~faulty
       => result = "EXIT_SUCCESS"

(* Main has taken a full result before it reports success (lines 133-142). *)
SuccessTaken == result = "EXIT_SUCCESS" => buffer = PAYLOAD /\ returns = 1

RequestInvariant ==
  /\ TypeOK /\ NothingBefore /\ RequestTracked /\ OpenUntilClose
  /\ FaultsShow /\ SuccessTaken

-----------------------------------------------------------------------------
(* The invariant holds before main has done anything. *)
LEMMA InitEstablishes ==
  ASSUME Init
  PROVE  RequestInvariant
<1>. USE PayloadAssumption
     DEF Init, InProgress, Complete, Early, Waiting
<1>1. TypeOK
  <2>1. buffer \in 0 .. PAYLOAD /\ returns \in 0 .. 1
    OBVIOUS
  <2>. QED  BY <2>1, Zenon DEF TypeOK
<1>2. NothingBefore
  BY DEF NothingBefore
<1>3. RequestTracked
  BY DEF RequestTracked
<1>4. OpenUntilClose
  BY DEF OpenUntilClose
<1>5. FaultsShow
  BY DEF FaultsShow
<1>6. SuccessTaken
  BY DEF SuccessTaken
<1>. QED  BY <1>1, <1>2, <1>3, <1>4, <1>5, <1>6 DEF RequestInvariant

(* mkstemp (lines 94-99). *)
LEMMA MakeFilePreserves ==
  ASSUME RequestInvariant, MakeFile
  PROVE  RequestInvariant'
<1>. USE PayloadAssumption
     DEF RequestInvariant, MakeFile, Goes, Fault, files, TypeOK, InProgress,
         Complete, Early, Waiting
<1>1. TypeOK'
  BY DEF TypeOK
<1>2. NothingBefore'
  BY DEF NothingBefore
<1>3. RequestTracked'
  BY DEF RequestTracked, NothingBefore
<1>4. OpenUntilClose'
  BY DEF OpenUntilClose
<1>5. FaultsShow'
  BY DEF FaultsShow
<1>6. SuccessTaken'
  BY DEF SuccessTaken
<1>. QED  BY <1>1, <1>2, <1>3, <1>4, <1>5, <1>6 DEF RequestInvariant

(* unlink and write_all (lines 100-109). *)
LEMMA UnlinkAndWritePreserves ==
  ASSUME RequestInvariant, UnlinkAndWrite
  PROVE  RequestInvariant'
<1>. USE PayloadAssumption
     DEF RequestInvariant, UnlinkAndWrite, Goes, Fault, files, TypeOK,
         InProgress, Complete, Early, Waiting
<1>1. TypeOK'
  <2>1. /\ main' \in {"write", "aio_read", "cleanup"}
        /\ path' \in BOOLEAN /\ faulty' \in BOOLEAN
    OBVIOUS
  <2>2. UNCHANGED <<result, cleaning, fd, request, pending, buffer,
                    first_error, returns>>
    OBVIOUS
  <2>. QED  BY <2>1, <2>2 DEF TypeOK
<1>2. NothingBefore'
  BY DEF NothingBefore
<1>3. RequestTracked'
  BY DEF RequestTracked, NothingBefore
<1>4. OpenUntilClose'
  BY DEF OpenUntilClose
<1>5. FaultsShow'
  BY DEF FaultsShow
<1>6. SuccessTaken'
  BY DEF SuccessTaken
<1>. QED  BY <1>1, <1>2, <1>3, <1>4, <1>5, <1>6 DEF RequestInvariant

(* aio_read (lines 116-120). *)
LEMMA SubmitPreserves ==
  ASSUME RequestInvariant, Submit
  PROVE  RequestInvariant'
<1>. USE PayloadAssumption
     DEF RequestInvariant, Submit, Goes, Fault, files, TypeOK, InProgress,
         Complete, Early, Waiting
<1>1. TypeOK'
  BY DEF TypeOK
<1>2. NothingBefore'
  BY DEF NothingBefore
<1>3. RequestTracked'
  BY DEF RequestTracked, NothingBefore
<1>4. OpenUntilClose'
  BY DEF OpenUntilClose, NothingBefore
<1>5. FaultsShow'
  BY DEF FaultsShow
<1>6. SuccessTaken'
  BY DEF SuccessTaken
<1>. QED  BY <1>1, <1>2, <1>3, <1>4, <1>5, <1>6 DEF RequestInvariant

(* aio_error (lines 34-41). *)
LEMMA CheckStatusPreserves ==
  ASSUME RequestInvariant, CheckStatus
  PROVE  RequestInvariant'
<1>. USE PayloadAssumption
     DEF RequestInvariant, CheckStatus, files, TypeOK, InProgress,
         Complete, Early, Waiting
<1>1. TypeOK'
  BY DEF TypeOK
<1>2. NothingBefore'
  BY DEF NothingBefore
<1>3. RequestTracked'
  BY DEF RequestTracked
<1>4. OpenUntilClose'
  BY DEF OpenUntilClose
<1>5. FaultsShow'
  BY DEF FaultsShow
<1>6. SuccessTaken'
  BY DEF SuccessTaken
<1>. QED  BY <1>1, <1>2, <1>3, <1>4, <1>5, <1>6 DEF RequestInvariant

(* aio_suspend (lines 43-50). *)
LEMMA SuspendPreserves ==
  ASSUME RequestInvariant, Suspend
  PROVE  RequestInvariant'
<1>. USE PayloadAssumption
     DEF RequestInvariant, Suspend, Goes, files, TypeOK, InProgress,
         Complete, Early, Waiting
<1>1. TypeOK'
  BY DEF TypeOK
<1>2. NothingBefore'
  BY DEF NothingBefore
<1>3. RequestTracked'
  BY DEF RequestTracked
<1>4. OpenUntilClose'
  BY DEF OpenUntilClose
<1>5. FaultsShow'
  BY DEF FaultsShow
<1>6. SuccessTaken'
  BY DEF SuccessTaken
<1>. QED  BY <1>1, <1>2, <1>3, <1>4, <1>5, <1>6 DEF RequestInvariant

(* aio_return on the main path (lines 127-142). *)
LEMMA TakeResultPreserves ==
  ASSUME RequestInvariant, TakeResult
  PROVE  RequestInvariant'
<1>. USE PayloadAssumption
     DEF RequestInvariant, TakeResult, files, TypeOK, InProgress,
         Complete, Early, Waiting
<1>1. TypeOK'
  <2>1. returns' \in 0 .. 1
    <3>1. request = "read" => returns = 0
      BY DEF RequestTracked
    <3>2. returns' = IF request = "read" THEN returns + 1 ELSE returns
      OBVIOUS
    <3>. QED  BY <3>1, <3>2
  <2>2. /\ request' \in {request, "reclaimed"} /\ pending' \in {pending, FALSE}
        /\ result' \in {result, "EXIT_SUCCESS"}
    OBVIOUS
  <2>. QED  BY <2>1, <2>2
<1>2. NothingBefore'
  BY DEF NothingBefore
<1>3. RequestTracked'
  <2>1. CASE request = "read"
    <3>1. returns = 0
      BY <2>1 DEF RequestTracked
    <3>2. returns' = 1
      BY <2>1, <3>1
    <3>. QED  BY <2>1, <3>2 DEF RequestTracked
  <2>2. CASE request # "read"
    BY <2>2 DEF RequestTracked
  <2>. QED  BY <2>1, <2>2
<1>4. OpenUntilClose'
  BY DEF OpenUntilClose
<1>5. FaultsShow'
  BY DEF FaultsShow, RequestTracked
<1>6. SuccessTaken'
  <2>1. returns = 0
    BY DEF RequestTracked
  <2>2. CASE request = "read"
    <3>1. returns' = 1
      BY <2>1, <2>2
    <3>. QED  BY <2>1, <2>2, <3>1 DEF SuccessTaken
  <2>3. CASE request # "read"
    BY <2>3 DEF SuccessTaken
  <2>. QED  BY <2>2, <2>3
<1>. QED  BY <1>1, <1>2, <1>3, <1>4, <1>5, <1>6 DEF RequestInvariant

(* aio_cancel in the cleanup (lines 145, 55-62). *)
LEMMA CancelPreserves ==
  ASSUME RequestInvariant, Cancel
  PROVE  RequestInvariant'
<1>. USE PayloadAssumption
     DEF RequestInvariant, Cancel, Fault, files, TypeOK, InProgress,
         Complete, Early, Waiting
<1>1. TypeOK'
  BY DEF TypeOK
<1>2. NothingBefore'
  BY DEF NothingBefore
<1>3. RequestTracked'
  BY DEF RequestTracked
<1>4. OpenUntilClose'
  BY DEF OpenUntilClose
<1>5. FaultsShow'
  BY DEF FaultsShow
<1>6. SuccessTaken'
  BY DEF SuccessTaken
<1>. QED  BY <1>1, <1>2, <1>3, <1>4, <1>5, <1>6 DEF RequestInvariant

(* aio_return in the cleanup (lines 70-73). *)
LEMMA ReclaimPreserves ==
  ASSUME RequestInvariant, Reclaim
  PROVE  RequestInvariant'
<1>. USE PayloadAssumption
     DEF RequestInvariant, Reclaim, Goes, files, TypeOK, InProgress,
         Complete, Early, Waiting
<1>1. TypeOK'
  BY DEF TypeOK, RequestTracked
<1>2. NothingBefore'
  BY DEF NothingBefore
<1>3. RequestTracked'
  BY DEF RequestTracked
<1>4. OpenUntilClose'
  BY DEF OpenUntilClose, RequestTracked
<1>5. FaultsShow'
  BY DEF FaultsShow
<1>6. SuccessTaken'
  BY DEF SuccessTaken, RequestTracked
<1>. QED  BY <1>1, <1>2, <1>3, <1>4, <1>5, <1>6 DEF RequestInvariant

(* close and unlink in the cleanup (lines 149-156). *)
LEMMA CloseFilePreserves ==
  ASSUME RequestInvariant, CloseFile
  PROVE  RequestInvariant'
<1>. USE PayloadAssumption
     DEF RequestInvariant, CloseFile, Goes, Fault, TypeOK, InProgress,
         Complete, Early, Waiting
<1>1. TypeOK'
  BY DEF TypeOK
<1>2. NothingBefore'
  BY DEF NothingBefore
<1>3. RequestTracked'
  BY DEF RequestTracked
<1>4. OpenUntilClose'
  BY DEF OpenUntilClose
<1>5. FaultsShow'
  BY DEF FaultsShow
<1>6. SuccessTaken'
  BY DEF SuccessTaken
<1>. QED  BY <1>1, <1>2, <1>3, <1>4, <1>5, <1>6 DEF RequestInvariant

(* A wait that fails (lines 35-36, 47-48). *)
LEMMA WaitFailsPreserves ==
  ASSUME RequestInvariant, WaitFails
  PROVE  RequestInvariant'
<1>. USE PayloadAssumption
     DEF RequestInvariant, WaitFails, Fault, files, TypeOK, InProgress,
         Complete, Early, Waiting
<1>1. TypeOK'
  BY DEF TypeOK
<1>2. NothingBefore'
  BY DEF NothingBefore
<1>3. RequestTracked'
  BY DEF RequestTracked
<1>4. OpenUntilClose'
  BY DEF OpenUntilClose
<1>5. FaultsShow'
  BY DEF FaultsShow
<1>6. SuccessTaken'
  BY DEF SuccessTaken
<1>. QED  BY <1>1, <1>2, <1>3, <1>4, <1>5, <1>6 DEF RequestInvariant

(* The read itself. *)
LEMMA BackgroundPreserves ==
  ASSUME RequestInvariant, Background
  PROVE  RequestInvariant'
<1>. USE PayloadAssumption
     DEF RequestInvariant, Background, Fault, files, TypeOK, InProgress,
         Complete, Early, Waiting
<1>1. TypeOK'
  <2>1. buffer' \in 0 .. PAYLOAD
    OBVIOUS
  <2>2. request' \in {"running", "read", "error"}
    OBVIOUS
  <2>3. faulty' \in BOOLEAN
    OBVIOUS
  <2>. QED  BY <2>1, <2>2, <2>3
<1>2. NothingBefore'
  BY DEF NothingBefore
<1>3. RequestTracked'
  BY DEF RequestTracked
<1>4. OpenUntilClose'
  BY DEF OpenUntilClose
<1>5. FaultsShow'
  BY DEF FaultsShow
<1>6. SuccessTaken'
  BY DEF SuccessTaken
<1>. QED  BY <1>1, <1>2, <1>3, <1>4, <1>5, <1>6 DEF RequestInvariant

(* The invariant is kept by every step. *)
LEMMA StepPreserves ==
  ASSUME RequestInvariant, [Next]_vars
  PROVE  RequestInvariant'
<1>1. CASE MainStep
  BY <1>1, MakeFilePreserves, UnlinkAndWritePreserves, SubmitPreserves,
     CheckStatusPreserves, SuspendPreserves, TakeResultPreserves,
     CancelPreserves, ReclaimPreserves, CloseFilePreserves
     DEF MainStep
<1>2. CASE WaitFails
  BY <1>2, WaitFailsPreserves
<1>3. CASE Background
  BY <1>3, BackgroundPreserves
<1>4. CASE UNCHANGED vars
  BY <1>4
     DEF vars, files, RequestInvariant, TypeOK, NothingBefore,
         RequestTracked, OpenUntilClose, FaultsShow, SuccessTaken
<1>. QED  BY <1>1, <1>2, <1>3, <1>4 DEF Next, Exited

-----------------------------------------------------------------------------
(* For every payload, and whether or not the wait of the cleanup may fail, *)
(* the invariant holds.                                                    *)
THEOREM Invariance == Spec => []RequestInvariant
<1>1. Init => RequestInvariant
  BY InitEstablishes
<1>2. RequestInvariant /\ [Next]_vars => RequestInvariant'
  BY StepPreserves
<1>. QED  BY <1>1, <1>2, PTL DEF Spec

(* Success means that the read filled the buffer and its result was taken  *)
(* once; a run without a failed call succeeds and leaves no name behind    *)
(* (lines 133-157).  Nothing is assumed of the wait of the cleanup.        *)
THEOREM SuccessCorrect == Spec => []SuccessMeansRead
<1>1. RequestInvariant => SuccessMeansRead
  BY DEF RequestInvariant, FaultsShow, SuccessTaken, SuccessMeansRead
<1>. QED  BY <1>1, Invariance, PTL

(* aio_return is called at most once, after completion, and while a        *)
(* request is not reclaimed its file stays open, unless the wait of        *)
(* cancel_and_reap fails (lines 64-81, 144-157).                           *)
THEOREM FileOutlives ==
  ASSUME ~CleanupWaitFails
  PROVE  Spec => []FileOutlivesRequest
<1>1. RequestInvariant => FileOutlivesRequest
  BY DEF RequestInvariant, TypeOK, RequestTracked, OpenUntilClose,
         FileOutlivesRequest, InProgress, Complete, Waiting
<1>. QED  BY <1>1, Invariance, PTL

(* With the same hypothesis the promise of the README, that aio_return     *)
(* reclaims the request on every path, is kept: the second failure is the  *)
(* only way to break it.                                                   *)
THEOREM ReclaimedUnlessWaitFails ==
  ASSUME ~CleanupWaitFails
  PROVE  Spec => []ReclaimedOnEveryPath
<1>1. RequestInvariant => ReclaimedOnEveryPath
  BY DEF RequestInvariant, RequestTracked, ReclaimedOnEveryPath
<1>. QED  BY <1>1, Invariance, PTL
=============================================================================
