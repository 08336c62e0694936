------------------------ MODULE TransferLoopsProofs ------------------------
(***************************************************************************)
(* Proofs about TransferLoops, for every length, every place of the        *)
(* transfer and every array of vectors.                                    *)
(***************************************************************************)
EXTENDS TransferLoops, Integers, FiniteSetTheorems, TLAPS

-----------------------------------------------------------------------------
(* One buffer. *)

(* What each of the loops has chosen. *)
Choices ==
  [reads : BOOLEAN, positioned : BOOLEAN,
   zero : {"short", "EIO", "EPIPE", "ECONNRESET"}]

(* Where the next byte is read or written, and what a writer gives or a    *)
(* reader takes, follow from the counter (buffer + done, offset + done).   *)
Positions ==
  /\ position = IF helper.positioned THEN 0 ELSE start + done
  /\ helper.reads => start + done <= end
  /\ helper.reads
       => medium = [p \in Single!Places |-> IF p < end THEN p + 1 ELSE 0]
  /\ ~helper.reads => buffer = [i \in 0 .. Length - 1 |-> i + 1]

SingleInvariant == Single!TypeOK /\ Positions /\ Single!HonestPrefix

-----------------------------------------------------------------------------
(* One buffer: one lemma for each action. *)

USE SingleConstants
    DEF Single!LengthAssumption, Single!StartAssumption, Single!fixed

(* A loop that returns a short count is one that reads. *)
LEMMA HelperChoices ==
  \A h \in Single!Helpers : /\ h \in Choices
                            /\ h.zero = "short" => h.reads
<1>. DEFINE Sensible == {c \in Choices : c.zero = "short" => c.reads}
<1>1. \A z \in {"short", "EIO", "EPIPE", "ECONNRESET"} :
        Single!Reads(z) \in Sensible /\ Single!At(Single!Reads(z)) \in Sensible
  BY DEF Choices, Single!Reads, Single!At
<1>2. Single!Writes("EIO") \in Sensible
      /\ Single!At(Single!Writes("EIO")) \in Sensible
  BY DEF Choices, Single!Writes, Single!At
<1>. HIDE DEF Sensible
<1>3. Single!Helpers \subseteq Sensible
  BY <1>1, <1>2
     DEF Single!Helpers, Single!file_io_pread_full, Single!file_io_pwrite_all,
         Single!filesystem_write_all, Single!mapping_pread_full,
         Single!process_capture, Single!fd_passing_write_all,
         Single!fd_passing_read_all, Single!tcp_send_all,
         Single!tcp_receive_all, Single!inotify_write_all,
         Single!zero_copy_write_all, Single!zero_copy_splice,
         Single!zero_copy_read_all, Single!sparse_pwrite_all,
         Single!stdio_read_exact, Single!process_groups_write_all,
         Single!process_groups_read_all, Single!aio_write_all,
         Single!memfd_write_all, Single!memfd_pread_all,
         Single!terminal_transfer_all
<1>. QED  BY <1>3 DEF Sensible

(* When a loop is entered it has moved nothing (01, lines 10-11 and 29-30). *)
LEMMA SingleInit ==
  ASSUME Single!Init
  PROVE  SingleInvariant
<1>. USE DEF Single!Init
<1>0. helper \in Choices
  BY HelperChoices
<1>1. Single!TypeOK
  <2>1. /\ buffer \in [0 .. Length - 1 -> Single!Bytes]
        /\ medium \in [Single!Places -> Single!Bytes]
    BY DEF Single!Bytes, Single!Places
  <2>2. position \in Single!Places
    BY DEF Single!Places
  <2>. QED  BY <2>1, <2>2 DEF Single!TypeOK
<1>2. Positions
  BY <1>0 DEF Positions, Choices
<1>3. Single!HonestPrefix
  BY <1>0 DEF Single!HonestPrefix, Single!PrefixMoved, Single!ResultHonest,
              Single!Places
<1>. QED  BY <1>1, <1>2, <1>3 DEF SingleInvariant

(* A call moves some bytes (count > 0). *)
LEMMA MovesPreserves ==
  ASSUME SingleInvariant, NEW n \in 1 .. Length, Single!Moves(n)
  PROVE  SingleInvariant'
<1>. USE DEF SingleInvariant
<1>1. /\ helper \in Choices /\ start \in 0 .. MaxStart /\ done \in 0 .. Length
      /\ end \in start .. start + Length + 1
  BY HelperChoices DEF Single!TypeOK
<1>2. /\ n \in 1 .. Length - done /\ result = "running" /\ done < Length
      /\ UNCHANGED <<helper, start, end, errno, result>>
      /\ done' = done + n /\ done' \in 0 .. Length
      /\ position' = IF helper.positioned THEN position ELSE position + n
  BY <1>1 DEF Single!Moves, Single!InLoop, Single!Requested
<1>3. Single!Place = start + done
  BY <1>1 DEF Positions, Single!Place, Choices
<1>4. position' \in Single!Places
  BY <1>1, <1>2 DEF Positions, Single!Places, Single!TypeOK, Choices
<1>5. CASE helper.reads
  <2>1. /\ medium' = medium /\ start + done + n <= end
        /\ buffer' = [i \in DOMAIN buffer |->
                        IF i \in done .. done + n - 1
                        THEN medium[start + done + i - done] ELSE buffer[i]]
    BY <1>1, <1>2, <1>3, <1>5 DEF Single!Moves, Single!Available
  <2>2. buffer' = [i \in 0 .. Length - 1 |->
                     IF i < done' THEN start + i + 1 ELSE 0]
    <3>1. DOMAIN buffer = 0 .. Length - 1
      BY DEF Single!TypeOK
    <3>2. ASSUME NEW i \in 0 .. Length - 1
          PROVE  buffer'[i] = IF i < done' THEN start + i + 1 ELSE 0
      <4>1. CASE i \in done .. done + n - 1
        <5>1. buffer'[i] = medium[start + i]
          <6>1. i \in DOMAIN buffer /\ start + done + i - done = start + i
            BY <1>1, <3>1
          <6>. QED  BY <2>1, <4>1, <6>1
        <5>2. medium[start + i] = start + i + 1
          BY <1>1, <1>2, <1>5, <2>1, <4>1 DEF Positions, Single!Places
        <5>. QED  BY <1>1, <1>2, <4>1, <5>1, <5>2
      <4>2. CASE i \notin done .. done + n - 1
        <5>1. buffer'[i] = buffer[i]
          BY <2>1, <3>1, <4>2
        <5>2. buffer[i] = IF i < done THEN start + i + 1 ELSE 0
          BY <1>5 DEF Single!HonestPrefix, Single!PrefixMoved
        <5>. QED  BY <1>1, <1>2, <4>2, <5>1, <5>2
      <4>. QED  BY <4>1, <4>2
    <3>. QED  BY <2>1, <3>1, <3>2
  <2>3. buffer' \in [0 .. Length - 1 -> Single!Bytes]
    BY <1>1, <1>2, <2>2 DEF Single!Bytes
  <2>4. Positions'
    BY <1>1, <1>2, <1>5, <2>1 DEF Positions, Choices
  <2>5. Single!TypeOK'
    BY <1>1, <1>2, <1>4, <2>1, <2>3 DEF Single!TypeOK
  <2>6. Single!HonestPrefix'
    BY <1>2, <1>5, <2>2
       DEF Single!HonestPrefix, Single!PrefixMoved, Single!ResultHonest
  <2>. QED  BY <2>4, <2>5, <2>6
<1>6. CASE ~helper.reads
  <2>1. /\ buffer' = buffer
        /\ medium' = [p \in DOMAIN medium |->
                        IF p \in start + done .. start + done + n - 1
                        THEN buffer[done + p - (start + done)] ELSE medium[p]]
    BY <1>3, <1>6 DEF Single!Moves
  <2>2. medium' = [p \in Single!Places |->
                     IF p \in start .. start + done' - 1
                     THEN p - start + 1 ELSE 0]
    <3>1. DOMAIN medium = Single!Places
      BY DEF Single!TypeOK
    <3>2. ASSUME NEW p \in Single!Places
          PROVE  medium'[p] = IF p \in start .. start + done' - 1
                              THEN p - start + 1 ELSE 0
      <4>1. CASE p \in start + done .. start + done + n - 1
        <5>1. medium'[p] = buffer[p - start]
          BY <1>1, <1>2, <2>1, <3>1, <4>1
        <5>2. buffer[p - start] = p - start + 1
          BY <1>1, <1>2, <1>6, <4>1 DEF Positions
        <5>. QED  BY <1>1, <1>2, <4>1, <5>1, <5>2
      <4>2. CASE p \notin start + done .. start + done + n - 1
        <5>1. medium'[p] = medium[p]
          BY <2>1, <3>1, <4>2
        <5>2. medium[p] = IF p \in start .. start + done - 1
                          THEN p - start + 1 ELSE 0
          BY <1>6 DEF Single!HonestPrefix, Single!PrefixMoved
        <5>. QED  BY <1>1, <1>2, <4>2, <5>1, <5>2 DEF Single!Places
      <4>. QED  BY <4>1, <4>2
    <3>. QED  BY <2>1, <3>1, <3>2
  <2>3. medium' \in [Single!Places -> Single!Bytes]
    BY <1>1, <1>2, <2>2 DEF Single!Places, Single!Bytes
  <2>4. Positions'
    BY <1>1, <1>2, <1>6, <2>1 DEF Positions, Choices
  <2>5. Single!TypeOK'
    BY <1>1, <1>2, <1>4, <2>1, <2>3 DEF Single!TypeOK
  <2>6. Single!HonestPrefix'
    BY <1>2, <1>6, <2>2
       DEF Single!HonestPrefix, Single!PrefixMoved, Single!ResultHonest
  <2>. QED  BY <2>4, <2>5, <2>6
<1>. QED  BY <1>5, <1>6

(* The other steps move nothing (count <= 0, or the loop has ended). *)
LEMMA OthersPreserve ==
  ASSUME SingleInvariant,
         \/ Single!Interrupted \/ Single!Nothing \/ Single!Fails
         \/ Single!Completes
  PROVE  SingleInvariant'
<1>. USE DEF SingleInvariant
<1>1. /\ UNCHANGED <<helper, start, end, position, buffer, medium, done>>
      /\ helper \in Choices /\ result = "running"
      /\ helper.zero = "short" => helper.reads
  BY HelperChoices
     DEF Single!TypeOK, Single!Interrupted, Single!Nothing, Single!Fails,
         Single!Completes, Single!InLoop
<1>2. Single!TypeOK'
  <2>1. /\ errno' \in Single!Errors \cup {"none", "EINTR"}
        /\ result' \in {"running", "0", "done", "-1"}
    <3>1. CASE Single!Nothing
      BY <1>1, <3>1 DEF Single!Nothing, Single!TypeOK, Choices, Single!Errors
    <3>2. CASE Single!Interrupted \/ Single!Fails \/ Single!Completes
      BY <1>1, <3>2
         DEF Single!Interrupted, Single!Fails, Single!Completes,
             Single!TypeOK, Single!Errors
    <3>. QED  BY <3>1, <3>2
  <2>. QED  BY <1>1, <2>1 DEF Single!TypeOK, Single!Places, Single!Bytes
<1>3. Positions'
  BY <1>1 DEF Positions, Single!Places
<1>4. Single!PrefixMoved'
  BY <1>1 DEF Single!HonestPrefix, Single!PrefixMoved, Single!Places
<1>5. Single!ResultHonest'
  <2>1. CASE Single!Nothing
    <3>1. helper.reads => start + done = end
      BY <1>1, <2>1
         DEF Single!Nothing, Single!Available, Positions, Single!Place,
             Single!TypeOK, Choices
    <3>2. \/ /\ helper.zero = "short" /\ result' = "done"
          \/ /\ helper.zero \in Single!Errors /\ result' = "-1"
             /\ errno' = helper.zero
      BY <1>1, <2>1 DEF Single!Nothing, Choices, Single!Errors
    <3>. QED  BY <1>1, <3>1, <3>2 DEF Single!ResultHonest
  <2>2. CASE Single!Interrupted \/ Single!Fails \/ Single!Completes
    BY <1>1, <2>2
       DEF Single!Interrupted, Single!Fails, Single!Completes,
           Single!ResultHonest, Single!Errors
  <2>. QED  BY <2>1, <2>2
<1>. QED  BY <1>2, <1>3, <1>4, <1>5 DEF Single!HonestPrefix

(* Every step of a loop over one buffer keeps it. *)
LEMMA SingleStep ==
  ASSUME SingleInvariant, Single!Next
  PROVE  SingleInvariant'
<1>1. CASE Single!Returned
  BY <1>1 DEF Single!Returned, Single!vars, SingleInvariant, Single!TypeOK,
              Positions, Single!HonestPrefix, Single!PrefixMoved,
              Single!ResultHonest, Single!Places, Single!Bytes
<1>. QED  BY <1>1, MovesPreserves, OthersPreserve
          DEF Single!Next, Single!Progress

-----------------------------------------------------------------------------
(* An array of vectors. *)

(* A base only ever moves as far as its length shrinks (lines 80-83). *)
Arrays == \A v \in Vector!Vectors : base[v] + len[v] = given[v]

Before(p, q) == p[1] < q[1] \/ (p[1] = q[1] /\ p[2] < q[2])

(* What the last call moved and the loop has not accounted for yet.        *)
Unaccounted == moved \cap Vector!Remaining

(* The array describes what was not moved, and the places that are left to *)
(* account for: they come first, and `transferred' is their number, so the *)
(* loop passes over exactly those (lines 75-90).                           *)
Accounts ==
  /\ moved \cup Vector!Remaining = Vector!AllPlaces
  /\ \A p \in Unaccounted, q \in Vector!Remaining \ moved : Before(p, q)
  /\ Cardinality(Unaccounted) = transferred
  /\ pc # "advance" => transferred = 0

(* Where the loop calls and where it ends. *)
Stage ==
  /\ pc = "call" => current <= VectorCount /\ len[current] # 0
  /\ pc = "0" => current > VectorCount
  /\ pc = "-1" => moved # Vector!AllPlaces /\ errno \in {"EIO", "other"}

VectorInvariant == Vector!TypeOK /\ Arrays /\ Accounts /\ Stage

-----------------------------------------------------------------------------
(* An array of vectors: counting places. *)

USE VectorConstants DEF Vector!VectorAssumption, Vector!Vectors

(* The two names of one operator, here and in VectoredTransfer.            *)
LEMMA SameCardinality ==
  ASSUME NEW T
  PROVE  Vector!Cardinality(T) = Cardinality(T)
BY Zenon DEF Cardinality, Vector!Cardinality

(* There are finitely many places. *)
LEMMA PlacesFinite ==
  ASSUME NEW T \in SUBSET Vector!Places
  PROVE  /\ IsFiniteSet(T) /\ Cardinality(T) \in Nat
         /\ Cardinality(T) <= Cardinality(Vector!Places)
<1>. DEFINE f == [p \in Vector!Places |-> p[1] * MaxLength + p[2]]
            I == 0 .. VectorCount * MaxLength + MaxLength
<1>1. ASSUME NEW p \in Vector!Places
      PROVE  f[p] \in I
  <2>1. p[1] \in 1 .. VectorCount /\ p[2] \in 0 .. MaxLength - 1
    BY DEF Vector!Places
  <2>2. p[1] * MaxLength \in Nat /\ VectorCount * MaxLength \in Nat
        /\ p[1] * MaxLength <= VectorCount * MaxLength
    BY <2>1
  <2>. QED  BY <2>1, <2>2
<1>2. ASSUME NEW p \in Vector!Places, NEW q \in Vector!Places, f[p] = f[q]
      PROVE  p = q
  <2>1. /\ p[1] \in 1 .. VectorCount /\ p[2] \in 0 .. MaxLength - 1
        /\ q[1] \in 1 .. VectorCount /\ q[2] \in 0 .. MaxLength - 1
        /\ p = <<p[1], p[2]>> /\ q = <<q[1], q[2]>>
    BY DEF Vector!Places
  <2>2. p[1] * MaxLength + p[2] = q[1] * MaxLength + q[2]
    BY <1>2
  <2>3. p[1] = q[1]
    <3>1. \A a, b \in Nat : a < b => a * MaxLength + MaxLength <= b * MaxLength
      OBVIOUS
    <3>. QED  BY <2>1, <2>2, <3>1
  <2>4. p[2] = q[2]
    BY <2>1, <2>2, <2>3
  <2>. QED  BY <2>1, <2>3, <2>4
<1>3. IsFiniteSet(I)
  BY FS_Interval
<1>4. f \in Injection(Vector!Places, I)
  <2>. HIDE DEF I
  <2>1. f \in [Vector!Places -> I]
    BY <1>1
  <2>. HIDE DEF f
  <2>. QED  BY <1>2, <2>1 DEF Injection, IsInjective
<1>5. IsFiniteSet(Vector!Places)
  <2>. HIDE DEF f, I
  <2>. QED  BY <1>3, <1>4, FS_Injection
<1>. QED  BY <1>5, FS_Subset, FS_CardinalityType

(* n places of the vector v, from its byte a on. *)
Row(v, a, n) == {v} \X (a .. a + n - 1)

(* A row of n places has n members: what a vector counts for (line 78).    *)
LEMMA RowCardinality ==
  ASSUME NEW v, NEW a \in Nat, NEW n \in Nat
  PROVE  IsFiniteSet(Row(v, a, n)) /\ Cardinality(Row(v, a, n)) = n
<1>. DEFINE f == [i \in a .. a + n - 1 |-> <<v, i>>]
<1>1. f \in Bijection(a .. a + n - 1, Row(v, a, n))
  <2>1. f \in [a .. a + n - 1 -> Row(v, a, n)]
    BY DEF Row
  <2>2. \A i, j \in DOMAIN f : f[i] = f[j] => i = j
    OBVIOUS
  <2>3. ASSUME NEW p \in Row(v, a, n)
        PROVE  \E i \in DOMAIN f : f[i] = p
    <3>1. p[2] \in DOMAIN f /\ f[p[2]] = p
      BY DEF Row
    <3>. QED  BY <3>1
  <2>. QED  BY <2>1, <2>2, <2>3
            DEF Bijection, Injection, IsInjective, Surjection
<1>2. IsFiniteSet(a .. a + n - 1) /\ Cardinality(a .. a + n - 1) = n
  BY FS_Interval
<1>. HIDE DEF f
<1>. QED  BY <1>1, <1>2, FS_Bijection DEF ExistsBijection

-----------------------------------------------------------------------------
(* An array of vectors: one lemma for each action. *)

(* When the function is entered the array describes everything (lines      *)
(* 50-52).                                                                 *)
LEMMA VectorInit ==
  ASSUME Vector!Init
  PROVE  VectorInvariant
<1>. USE DEF Vector!Init
<1>1. Vector!Remaining = Vector!AllPlaces
  BY DEF Vector!Remaining, Vector!AllPlaces, Vector!Places
<1>2. Unaccounted = {}
  BY DEF Unaccounted
<1>3. Vector!TypeOK
  <2>1. {} \in SUBSET Vector!Places /\ Cardinality(Vector!Places) \in Nat
    BY PlacesFinite
  <2>2. transferred \in 0 .. Cardinality(Vector!Places)
    BY <2>1
  <2>3. /\ given \in [Vector!Vectors -> 0 .. MaxLength]
        /\ base \in [Vector!Vectors -> 0 .. MaxLength]
        /\ len \in [Vector!Vectors -> 0 .. MaxLength]
    OBVIOUS
  <2>4. current \in 1 .. VectorCount + 1
    OBVIOUS
  <2>5. /\ errno \in {"none", "EINTR", "EIO", "other"}
        /\ pc \in {"skip", "call", "advance", "0", "-1"}
    OBVIOUS
  <2>. QED  BY <2>1, <2>2, <2>3, <2>4, <2>5, SameCardinality DEF Vector!TypeOK
<1>4. Arrays
  BY DEF Arrays
<1>5. Accounts
  BY <1>1, <1>2, FS_EmptySet DEF Accounts
<1>. QED  BY <1>3, <1>4, <1>5 DEF VectorInvariant, Stage

(* What all of them need. *)
LEMMA VectorFacts ==
  ASSUME VectorInvariant
  PROVE  /\ Vector!Remaining \in SUBSET Vector!Places
         /\ moved \in SUBSET Vector!Places
         /\ Unaccounted \in SUBSET Vector!Places
         /\ pc # "advance" => moved \cap Vector!Remaining = {}
<1>1. /\ Vector!Remaining \in SUBSET Vector!Places
      /\ moved \in SUBSET Vector!Places
  BY DEF Vector!Remaining, VectorInvariant, Vector!TypeOK
<1>2. Unaccounted \in SUBSET Vector!Places
  BY <1>1 DEF Unaccounted
<1>3. ASSUME pc # "advance"
      PROVE  moved \cap Vector!Remaining = {}
  <2>1. Cardinality(Unaccounted) = 0 /\ IsFiniteSet(Unaccounted)
    BY <1>2, <1>3, PlacesFinite DEF VectorInvariant, Accounts
  <2>. QED  BY <2>1, FS_EmptySet DEF Unaccounted
<1>. QED  BY <1>1, <1>2, <1>3

(* An empty vector describes no place (lines 54-60). *)
LEMMA SkipPreserves ==
  ASSUME VectorInvariant, Vector!SkipEmpty
  PROVE  VectorInvariant'
<1>. USE DEF VectorInvariant, Vector!SkipEmpty
<1>1. Vector!Remaining' = Vector!Remaining
  <2>1. CASE current <= VectorCount /\ len[current] = 0
    <3>1. /\ current \in 1 .. VectorCount /\ current' = current + 1
          /\ base' = base /\ len' = len /\ base[current] \in 0 .. MaxLength
      BY <2>1 DEF Vector!TypeOK, Vector!vectors
    <3>2. ASSUME NEW p \in Vector!Places
          PROVE  (/\ p[1] >= current
                  /\ p[2] \in base[p[1]] .. base[p[1]] + len[p[1]] - 1)
                 <=> (/\ p[1] >= current + 1
                      /\ p[2] \in base[p[1]] .. base[p[1]] + len[p[1]] - 1)
      <4>1. p[1] \in 1 .. VectorCount /\ p[2] \in 0 .. MaxLength - 1
        BY DEF Vector!Places
      <4>2. CASE p[1] = current
        BY <2>1, <3>1, <4>1, <4>2
      <4>3. CASE p[1] # current
        BY <3>1, <4>1, <4>3
      <4>. QED  BY <4>2, <4>3
    <3>. QED  BY <3>1, <3>2 DEF Vector!Remaining, Vector!Places
  <2>. QED  BY <2>1 DEF Vector!Remaining, Vector!vectors, Vector!Places
<1>2. Vector!TypeOK' /\ Arrays'
  <2>1. /\ UNCHANGED <<given, base, len, transferred, moved, errno>>
        /\ pc' \in {"skip", "call", "0"}
    BY DEF Vector!vectors
  <2>2. current' \in 1 .. VectorCount + 1
    BY DEF Vector!TypeOK
  <2>3. /\ given' \in [Vector!Vectors -> 0 .. MaxLength]
        /\ base' \in [Vector!Vectors -> 0 .. MaxLength]
        /\ len' \in [Vector!Vectors -> 0 .. MaxLength]
        /\ transferred' \in 0 .. Cardinality(Vector!Places)
        /\ moved' \in SUBSET Vector!Places
        /\ errno' \in {"none", "EINTR", "EIO", "other"}
    BY <2>1, SameCardinality DEF Vector!TypeOK
  <2>. QED  BY <2>1, <2>2, <2>3, SameCardinality
            DEF Vector!TypeOK, Arrays
<1>3. Accounts'
  <2>1. Unaccounted' = Unaccounted /\ Vector!AllPlaces' = Vector!AllPlaces
    BY <1>1 DEF Unaccounted, Vector!AllPlaces, Vector!Places
  <2>. QED  BY <1>1, <2>1 DEF Accounts, Before
<1>4. Stage'
  BY DEF Stage, Vector!vectors, Vector!TypeOK
<1>. QED  BY <1>2, <1>3, <1>4

(* A call moves the first of the places (lines 62-67). *)
LEMMA VectorMovesPreserves ==
  ASSUME VectorInvariant, NEW q \in Vector!Remaining, Vector!Moves(q)
  PROVE  VectorInvariant'
<1>. USE DEF VectorInvariant, Vector!Moves
<1>1. /\ Vector!Remaining' = Vector!Remaining
      /\ Vector!AllPlaces' = Vector!AllPlaces
  BY DEF Vector!Remaining, Vector!AllPlaces, Vector!vectors, Vector!Places
<1>2. Vector!UpTo(q) \subseteq Vector!Remaining
  BY DEF Vector!UpTo
<1>3. Unaccounted' = Vector!UpTo(q)
  BY <1>1, <1>2, VectorFacts DEF Unaccounted
<1>4. Vector!TypeOK'
  <2>1. Vector!UpTo(q) \in SUBSET Vector!Places
    BY <1>2, VectorFacts
  <2>2. /\ Cardinality(Vector!UpTo(q)) \in Nat
        /\ Cardinality(Vector!UpTo(q)) <= Cardinality(Vector!Places)
        /\ Cardinality(Vector!Places) \in Nat
    BY <2>1, PlacesFinite
  <2>3. transferred' \in 0 .. Cardinality(Vector!Places)
    BY <2>2, SameCardinality
  <2>4. moved' \in SUBSET Vector!Places /\ pc' = "advance"
    BY <2>1, VectorFacts
  <2>5. UNCHANGED <<given, base, len, current, errno>>
    BY DEF Vector!vectors
  <2>. HIDE DEF Vector!Moves
  <2>. QED  BY <2>3, <2>4, <2>5, SameCardinality DEF Vector!TypeOK
<1>5. Arrays' /\ Stage'
  BY DEF Arrays, Stage, Vector!vectors
<1>6. Accounts'
  <2>1. ASSUME NEW p \in Vector!UpTo(q),
               NEW r \in Vector!Remaining \ Vector!UpTo(q)
        PROVE  Before(p, r)
    BY VectorFacts, <1>2 DEF Vector!UpTo, Before, Vector!Places
  <2>2. moved' \cup Vector!Remaining = Vector!AllPlaces
    BY <1>2 DEF Accounts
  <2>3. moved' = moved \cup Vector!UpTo(q)
    OBVIOUS
  <2>4. \A p \in Unaccounted', r \in Vector!Remaining \ moved' : Before(p, r)
    BY <1>3, <2>1, <2>3
  <2>5. /\ Cardinality(Unaccounted') = transferred' /\ pc' = "advance"
    BY <1>3, SameCardinality
  <2>. HIDE DEF Vector!Moves
  <2>. QED  BY <1>1, <2>2, <2>4, <2>5 DEF Accounts, Before
<1>. QED  BY <1>4, <1>5, <1>6

(* What the array still describes begins with the row of the current       *)
(* vector.                                                                 *)
LEMMA CurrentRow ==
  ASSUME VectorInvariant, current <= VectorCount
  PROVE  /\ current \in 1 .. VectorCount
         /\ base[current] \in 0 .. MaxLength /\ len[current] \in 0 .. MaxLength
         /\ base[current] + len[current] \in 0 .. MaxLength
         /\ Row(current, base[current], len[current]) \subseteq Vector!Remaining
         /\ \A p \in Vector!Remaining :
              /\ p[1] \in 1 .. VectorCount /\ p[2] \in 0 .. MaxLength - 1
              /\ p = <<p[1], p[2]>>
              /\ \/ p[1] > current
                 \/ p \in Row(current, base[current], len[current])
<1>1. /\ current \in 1 .. VectorCount
      /\ base[current] \in 0 .. MaxLength /\ len[current] \in 0 .. MaxLength
      /\ given[current] \in 0 .. MaxLength
      /\ base[current] + len[current] = given[current]
  BY DEF VectorInvariant, Vector!TypeOK, Arrays
<1>2. Row(current, base[current], len[current]) \subseteq Vector!Remaining
  BY <1>1 DEF Row, Vector!Remaining, Vector!Places
<1>3. ASSUME NEW p \in Vector!Remaining
      PROVE  /\ p[1] \in 1 .. VectorCount /\ p[2] \in 0 .. MaxLength - 1
             /\ p = <<p[1], p[2]>>
             /\ \/ p[1] > current
                \/ p \in Row(current, base[current], len[current])
  <2>1. /\ p[1] \in 1 .. VectorCount /\ p[2] \in 0 .. MaxLength - 1
        /\ p = <<p[1], p[2]>> /\ p[1] >= current
        /\ p[2] \in base[p[1]] .. base[p[1]] + len[p[1]] - 1
    BY DEF Vector!Remaining, Vector!Places
  <2>2. CASE p[1] = current
    <3>1. p = <<current, p[2]>>
          /\ p[2] \in base[current] .. base[current] + len[current] - 1
      BY <2>1, <2>2
    <3>. QED  BY <2>1, <3>1 DEF Row
  <2>3. CASE p[1] # current
    BY <1>1, <2>1, <2>3
  <2>. QED  BY <2>1, <2>2, <2>3
<1>. QED  BY <1>1, <1>2, <1>3

(* A call is interrupted, or fails (lines 62-73). *)
LEMMA VectorFailsPreserves ==
  ASSUME VectorInvariant, Vector!Interrupted \/ Vector!Fails
  PROVE  VectorInvariant'
<1>. USE DEF VectorInvariant, Vector!Interrupted, Vector!Fails
<1>1. UNCHANGED <<given, base, len, current, transferred, moved>>
      /\ pc = "call"
  BY DEF Vector!vectors
<1>2. /\ Vector!Remaining' = Vector!Remaining
      /\ Vector!AllPlaces' = Vector!AllPlaces
  BY <1>1 DEF Vector!Remaining, Vector!AllPlaces, Vector!Places
<1>3. Vector!TypeOK' /\ Arrays'
  BY <1>1 DEF Vector!TypeOK, Arrays, Vector!Places
<1>4. Accounts'
  BY <1>1, <1>2 DEF Accounts, Unaccounted, Before
<1>5. moved # Vector!AllPlaces
  <2>1. <<current, base[current]>> \in Vector!Remaining
    <3>1. current <= VectorCount /\ len[current] # 0
      BY <1>1 DEF Stage
    <3>2. base[current] \in base[current] .. base[current] + len[current] - 1
      BY <3>1, CurrentRow
    <3>. QED  BY <3>1, <3>2, CurrentRow DEF Row
  <2>. QED  BY <1>1, <2>1, VectorFacts DEF Accounts
<1>6. Stage'
  BY <1>1, <1>2, <1>5 DEF Stage
<1>. QED  BY <1>3, <1>4, <1>6

(* The count covers the current vector: it was moved as a whole, and the   *)
(* loop passes on to the next (lines 75-79).                               *)
LEMMA WholePreserves ==
  ASSUME VectorInvariant, Vector!Advance,
         transferred > 0, current <= VectorCount, transferred >= len[current]
  PROVE  VectorInvariant'
<1>. DEFINE R == Vector!Remaining
            S == Unaccounted
            W == Row(current, base[current], len[current])
<1>1. /\ UNCHANGED <<given, base, len, moved, errno, pc>> /\ pc = "advance"
      /\ transferred' = transferred - len[current] /\ current' = current + 1
  BY DEF Vector!Advance, Vector!vectors
<1>2. /\ current \in 1 .. VectorCount
      /\ base[current] \in 0 .. MaxLength /\ len[current] \in 0 .. MaxLength
      /\ W \subseteq R
      /\ \A p \in R : p[1] \in 1 .. VectorCount /\ (p[1] > current \/ p \in W)
  BY CurrentRow
<1>3. transferred \in 0 .. Cardinality(Vector!Places)
      /\ Cardinality(Vector!Places) \in Nat
  BY PlacesFinite, SameCardinality DEF VectorInvariant, Vector!TypeOK
<1>4. IsFiniteSet(W) /\ Cardinality(W) = len[current]
  BY <1>2, RowCardinality
<1>5. /\ S = moved \cap R /\ S \in SUBSET Vector!Places /\ IsFiniteSet(S)
      /\ Cardinality(S) = transferred /\ moved \cup R = Vector!AllPlaces
      /\ \A p \in S, q \in R \ moved : Before(p, q)
  BY VectorFacts, PlacesFinite DEF Unaccounted, VectorInvariant, Accounts
<1>6. R' = R \ W
  <2>1. ASSUME NEW p \in Vector!Places
        PROVE  p \in W <=> /\ p[1] = current
                           /\ p[2] \in base[p[1]] .. base[p[1]] + len[p[1]] - 1
    BY DEF Row, Vector!Places
  <2>2. ASSUME NEW p \in Vector!Places
        PROVE  p[1] >= current + 1 <=> (p[1] >= current /\ p[1] # current)
    BY <1>2 DEF Vector!Places
  <2>. HIDE DEF W
  <2>. QED  BY <1>1, <2>1, <2>2 DEF Vector!Remaining, Vector!Places
<1>7. W \subseteq moved
  <2>1. SUFFICES ASSUME NEW p \in W, p \notin moved
                 PROVE  FALSE
    OBVIOUS
  <2>2. p[1] = current /\ p \in R
    BY <1>2 DEF Row
  <2>. HIDE DEF W, R, S
  <2>3. S \subseteq W
    <3>1. ASSUME NEW q \in S
          PROVE  q \in W
      <4>1. q \in R /\ Before(q, p)
        BY <1>5, <2>1, <2>2
      <4>2. ~(q[1] > current)
        BY <1>2, <2>2, <4>1 DEF Before
      <4>. QED  BY <1>2, <4>1, <4>2
    <3>. QED  BY <3>1
  <2>4. Cardinality(S) = Cardinality(W)
    <3>1. Cardinality(S) <= Cardinality(W)
      BY <1>4, <2>3, FS_Subset
    <3>. QED  BY <1>2, <1>3, <1>4, <1>5, <3>1
  <2>5. S = W
    BY <1>4, <2>3, <2>4, FS_Subset
  <2>. QED  BY <1>5, <2>1, <2>5
<1>8. S' = S \ W
  BY <1>1, <1>6 DEF Unaccounted
<1>9. Cardinality(S') = transferred'
  <2>1. S \cap W = W
    BY <1>2, <1>5, <1>7
  <2>. HIDE DEF S, W
  <2>2. Cardinality(S \ W) = Cardinality(S) - Cardinality(S \cap W)
    BY <1>5, FS_Difference
  <2>. QED  BY <1>1, <1>4, <1>5, <1>8, <2>1, <2>2
<1>10. Vector!TypeOK'
  <2>1. transferred' \in 0 .. Cardinality(Vector!Places)
        /\ current' \in 1 .. VectorCount + 1
    BY <1>1, <1>2, <1>3
  <2>2. /\ given' \in [Vector!Vectors -> 0 .. MaxLength]
        /\ base' \in [Vector!Vectors -> 0 .. MaxLength]
        /\ len' \in [Vector!Vectors -> 0 .. MaxLength]
        /\ moved' \in SUBSET Vector!Places
        /\ errno' \in {"none", "EINTR", "EIO", "other"}
        /\ pc' \in {"skip", "call", "advance", "0", "-1"}
    BY <1>1 DEF VectorInvariant, Vector!TypeOK
  <2>. QED  BY <2>1, <2>2, SameCardinality DEF Vector!TypeOK
<1>11. Arrays' /\ Stage'
  BY <1>1 DEF VectorInvariant, Arrays, Stage
<1>12. Accounts'
  <2>1. Vector!AllPlaces' = Vector!AllPlaces
    BY <1>1 DEF Vector!AllPlaces, Vector!Places
  <2>. HIDE DEF W
  <2>2. moved' \cup R' = Vector!AllPlaces
    BY <1>1, <1>5, <1>6, <1>7
  <2>3. \A p \in S', q \in R' \ moved' : Before(p, q)
    BY <1>1, <1>5, <1>6, <1>8
  <2>. QED  BY <1>1, <1>9, <2>1, <2>2, <2>3 DEF Accounts, Before
<1>. QED  BY <1>10, <1>11, <1>12 DEF VectorInvariant

(* The count ends within the current vector: exactly the first part of it  *)
(* was moved, and the array keeps the rest (lines 80-85).                  *)
LEMMA PartPreserves ==
  ASSUME VectorInvariant, Vector!Advance,
         transferred > 0, current <= VectorCount, transferred < len[current]
  PROVE  VectorInvariant'
<1>. DEFINE R == Vector!Remaining
            S == Unaccounted
            W == Row(current, base[current], len[current])
            P == Row(current, base[current], transferred)
<1>2. /\ current \in 1 .. VectorCount
      /\ base[current] \in 0 .. MaxLength /\ len[current] \in 0 .. MaxLength
      /\ base[current] + len[current] \in 0 .. MaxLength
      /\ W \subseteq R
      /\ \A p \in R : /\ p[1] \in 1 .. VectorCount /\ p = <<p[1], p[2]>>
                      /\ p[2] \in 0 .. MaxLength - 1
                      /\ p[1] > current \/ p \in W
  BY CurrentRow
<1>3. transferred \in 0 .. Cardinality(Vector!Places)
      /\ Cardinality(Vector!Places) \in Nat
  BY PlacesFinite, SameCardinality DEF VectorInvariant, Vector!TypeOK
<1>1. /\ UNCHANGED <<given, moved, current, errno, pc>> /\ pc = "advance"
      /\ transferred' = 0
      /\ base' = [base EXCEPT ![current] = @ + transferred]
      /\ len' = [len EXCEPT ![current] = @ - transferred]
  BY <1>2, <1>3 DEF Vector!Advance
<1>4. /\ IsFiniteSet(W) /\ Cardinality(W) = len[current]
      /\ IsFiniteSet(P) /\ Cardinality(P) = transferred
  BY <1>2, <1>3, RowCardinality
<1>5. /\ S = moved \cap R /\ S \in SUBSET Vector!Places /\ IsFiniteSet(S)
      /\ Cardinality(S) = transferred /\ moved \cup R = Vector!AllPlaces
      /\ \A p \in S, q \in R \ moved : Before(p, q)
  BY VectorFacts, PlacesFinite DEF Unaccounted, VectorInvariant, Accounts
<1>6. P \subseteq W
  BY <1>2, <1>3 DEF Row
<1>7. base \in [Vector!Vectors -> 0 .. MaxLength]
      /\ len \in [Vector!Vectors -> 0 .. MaxLength]
  BY DEF VectorInvariant, Vector!TypeOK
<1>8. R' = R \ P
  <2>1. ASSUME NEW p \in Vector!Places
        PROVE  (/\ p[1] >= current
                /\ p[2] \in base'[p[1]] .. base'[p[1]] + len'[p[1]] - 1)
               <=> (/\ p[1] >= current
                    /\ p[2] \in base[p[1]] .. base[p[1]] + len[p[1]] - 1
                    /\ p \notin P)
    <3>1. /\ p[1] \in 1 .. VectorCount /\ p[2] \in 0 .. MaxLength - 1
          /\ p = <<p[1], p[2]>>
      BY DEF Vector!Places
    <3>2. CASE p[1] # current
      <4>1. base'[p[1]] = base[p[1]] /\ len'[p[1]] = len[p[1]] /\ p \notin P
        BY <1>1, <1>7, <3>1, <3>2 DEF Row
      <4>. QED  BY <4>1
    <3>3. CASE p[1] = current
      <4>1. /\ base'[p[1]] = base[current] + transferred
            /\ len'[p[1]] = len[current] - transferred
        BY <1>1, <1>2, <1>7, <3>3
      <4>2. p \in P
            <=> p[2] \in base[current] .. base[current] + transferred - 1
        BY <3>1, <3>3 DEF Row
      <4>. HIDE DEF P
      <4>. QED  BY <1>2, <1>3, <3>1, <3>3, <4>1, <4>2
    <3>. QED  BY <3>2, <3>3
  <2>. HIDE DEF P
  <2>. QED  BY <1>1, <2>1 DEF Vector!Remaining, Vector!Places
<1>9. S \subseteq W
  <2>1. SUFFICES ASSUME NEW q \in S, q \notin W
                 PROVE  FALSE
    OBVIOUS
  <2>2. \A p \in W : p[1] = current
    BY DEF Row
  <2>. HIDE DEF W, R, S
  <2>3. q \in R /\ q[1] > current
    BY <1>2, <1>5, <2>1
  <2>4. W \subseteq S
    <3>1. ASSUME NEW p \in W, p \notin moved
          PROVE  FALSE
      BY <1>2, <1>5, <2>1, <2>2, <2>3, <3>1 DEF Before
    <3>. QED  BY <1>2, <1>5, <3>1
  <2>5. Cardinality(W) <= Cardinality(S)
    BY <1>5, <2>4, FS_Subset
  <2>. QED  BY <1>2, <1>3, <1>4, <1>5, <2>5
<1>10. S = P
  <2>1. S \subseteq P
    <3>1. SUFFICES ASSUME NEW q \in S, q \notin P
                   PROVE  FALSE
      OBVIOUS
    <3>2. /\ q[1] = current /\ q[2] \in Int
          /\ q[2] >= base[current] + transferred
      BY <1>2, <1>3, <1>9, <3>1 DEF Row
    <3>3. \A p \in P : /\ p[1] = current /\ p[2] \in Int
                       /\ p[2] < base[current] + transferred
      BY <1>2, <1>3 DEF Row
    <3>. HIDE DEF W, R, S, P
    <3>4. P \subseteq S
      <4>1. ASSUME NEW p \in P, p \notin moved
            PROVE  FALSE
        <5>1. Before(q, p)
          BY <1>2, <1>5, <1>6, <3>1, <4>1
        <5>. QED  BY <1>2, <1>3, <3>2, <3>3, <5>1 DEF Before
      <4>. QED  BY <1>2, <1>5, <1>6, <4>1
    <3>5. S = P
      BY <1>4, <1>5, <3>4, FS_Subset
    <3>. QED  BY <3>1, <3>5
  <2>. HIDE DEF P, S
  <2>. QED  BY <1>4, <1>5, <2>1, FS_Subset
<1>11. S' = {}
  <2>. HIDE DEF P
  <2>. QED  BY <1>1, <1>5, <1>8, <1>10 DEF Unaccounted
<1>12. Vector!TypeOK'
  <2>1. transferred' \in 0 .. Cardinality(Vector!Places)
    BY <1>1, <1>3
  <2>2. base' \in [Vector!Vectors -> 0 .. MaxLength]
        /\ len' \in [Vector!Vectors -> 0 .. MaxLength]
    BY <1>1, <1>2, <1>3, <1>7
  <2>3. /\ given' \in [Vector!Vectors -> 0 .. MaxLength]
        /\ current' \in 1 .. VectorCount + 1
        /\ moved' \in SUBSET Vector!Places
        /\ errno' \in {"none", "EINTR", "EIO", "other"}
        /\ pc' \in {"skip", "call", "advance", "0", "-1"}
    BY <1>1 DEF VectorInvariant, Vector!TypeOK
  <2>. QED  BY <2>1, <2>2, <2>3, SameCardinality DEF Vector!TypeOK
<1>13. Arrays'
  <2>1. ASSUME NEW v \in Vector!Vectors
        PROVE  base'[v] + len'[v] = base[v] + len[v]
    BY <1>1, <1>2, <1>3, <1>7
  <2>. QED  BY <1>1, <2>1 DEF VectorInvariant, Arrays
<1>14. Stage'
  BY <1>1 DEF Stage
<1>15. Accounts'
  <2>1. Vector!AllPlaces' = Vector!AllPlaces
    BY <1>1 DEF Vector!AllPlaces, Vector!Places
  <2>. HIDE DEF P
  <2>2. moved' \cup R' = Vector!AllPlaces
    BY <1>1, <1>5, <1>8, <1>10
  <2>3. Cardinality(S') = transferred'
    BY <1>1, <1>11, FS_EmptySet
  <2>. QED  BY <1>1, <1>11, <2>1, <2>2, <2>3 DEF Accounts, Before
<1>. QED  BY <1>12, <1>13, <1>14, <1>15 DEF VectorInvariant

(* The end of the count: nothing is ever left over, so the loop goes on    *)
(* and the error of lines 87-90 is never returned.                         *)
LEMMA EndPreserves ==
  ASSUME VectorInvariant, Vector!Advance,
         ~(transferred > 0 /\ current <= VectorCount)
  PROVE  VectorInvariant'
<1>1. /\ UNCHANGED <<given, base, len, current, transferred, moved>>
      /\ pc = "advance"
      /\ transferred = 0 => pc' = "skip" /\ errno' = errno
  BY DEF Vector!Advance, Vector!vectors
<1>2. /\ current \in 1 .. VectorCount + 1
      /\ transferred \in 0 .. Cardinality(Vector!Places)
      /\ Cardinality(Vector!Places) \in Nat
  BY PlacesFinite, SameCardinality DEF VectorInvariant, Vector!TypeOK
<1>3. transferred = 0
  <2>1. CASE current > VectorCount
    <3>1. Vector!Remaining = {}
      BY <1>2, <2>1 DEF Vector!Remaining, Vector!Places
    <3>2. Unaccounted = {}
      BY <3>1 DEF Unaccounted
    <3>. QED  BY <3>2, FS_EmptySet DEF VectorInvariant, Accounts
  <2>. QED  BY <1>2, <2>1
<1>4. /\ Vector!Remaining' = Vector!Remaining
      /\ Vector!AllPlaces' = Vector!AllPlaces
  BY <1>1 DEF Vector!Remaining, Vector!AllPlaces, Vector!Places
<1>5. Vector!TypeOK' /\ Arrays' /\ Stage'
  BY <1>1, <1>3, SameCardinality
     DEF VectorInvariant, Vector!TypeOK, Arrays, Stage
<1>6. Accounts'
  BY <1>1, <1>3, <1>4 DEF VectorInvariant, Accounts, Unaccounted, Before
<1>. QED  BY <1>5, <1>6 DEF VectorInvariant

(* So does a step that changes nothing, such as those after the return.    *)
LEMMA VectorStutter ==
  ASSUME VectorInvariant, UNCHANGED Vector!vars
  PROVE  VectorInvariant'
<1>1. UNCHANGED <<given, base, len, current, transferred, moved, errno, pc>>
  BY DEF Vector!vars, Vector!vectors
<1>2. /\ Vector!Remaining' = Vector!Remaining
      /\ Vector!AllPlaces' = Vector!AllPlaces
  BY <1>1 DEF Vector!Remaining, Vector!AllPlaces, Vector!Places
<1>3. Vector!TypeOK' /\ Arrays' /\ Stage'
  BY <1>1, <1>2, SameCardinality
     DEF VectorInvariant, Vector!TypeOK, Arrays, Stage
<1>. QED  BY <1>1, <1>2, <1>3
          DEF VectorInvariant, Accounts, Unaccounted, Before

(* Every step of the loop over an array keeps the invariant. *)
LEMMA VectorStep ==
  ASSUME VectorInvariant, Vector!Next
  PROVE  VectorInvariant'
<1>1. CASE Vector!Returned
  BY <1>1, VectorStutter DEF Vector!Returned
<1>2. CASE Vector!Advance
  <2>1. transferred \in Nat /\ (current <= VectorCount => len[current] \in Nat)
    BY CurrentRow, PlacesFinite, SameCardinality
       DEF VectorInvariant, Vector!TypeOK
  <2>. QED  BY <1>2, <2>1, WholePreserves, PartPreserves, EndPreserves
<1>. QED  BY <1>1, <1>2, SkipPreserves, VectorMovesPreserves,
             VectorFailsPreserves
          DEF Vector!Next, Vector!Progress

-----------------------------------------------------------------------------
(* Both. *)

LoopsInvariant ==
  /\ vectored \in BOOLEAN
  /\ ~vectored => SingleInvariant
  /\ vectored => VectorInvariant

(* The invariant is inductive, whichever of the loops runs: the helpers of *)
(* lines 10-93 of 01_file_io and those of the other experiments.          *)
THEOREM Invariance == Spec => []LoopsInvariant
<1>1. Init => LoopsInvariant
  BY SingleInit, VectorInit DEF Init, LoopsInvariant
<1>2. LoopsInvariant /\ [Next]_vars => LoopsInvariant'
  <2>. SUFFICES ASSUME LoopsInvariant, [Next]_vars
                PROVE  LoopsInvariant'
    OBVIOUS
  <2>1. CASE OfSingle(Single!Next)
    BY <2>1, SingleStep DEF OfSingle, LoopsInvariant
  <2>2. CASE OfVector(Vector!Next)
    BY <2>2, VectorStep DEF OfVector, LoopsInvariant
  <2>3. CASE UNCHANGED vars
    <3>1. /\ UNCHANGED <<vectored, errno, helper, start, end, position>>
          /\ UNCHANGED <<buffer, medium, done, result, given, base, len>>
          /\ UNCHANGED <<current, transferred, moved, pc>>
      BY <2>3 DEF vars, single, vector
    <3>2. SingleInvariant' = SingleInvariant
      BY <3>1
         DEF SingleInvariant, Single!TypeOK, Positions, Single!HonestPrefix,
             Single!PrefixMoved, Single!ResultHonest, Single!Places,
             Single!Bytes
    <3>3. VectorInvariant => VectorInvariant'
      BY <3>1, VectorStutter DEF Vector!vars, Vector!vectors
    <3>. QED  BY <3>1, <3>2, <3>3 DEF LoopsInvariant
  <2>. QED  BY <2>1, <2>2, <2>3 DEF Next
<1>. QED  BY <1>1, <1>2, PTL DEF Spec

(* However the bytes were split into calls, what the loop moved is a       *)
(* prefix, and its result says so (for 01, lines 10-48).                   *)
THEOREM PrefixCorrect == Spec => []HonestPrefix
<1>1. LoopsInvariant => HonestPrefix
  BY DEF LoopsInvariant, SingleInvariant, HonestPrefix
<1>. QED  BY <1>1, Invariance, PTL

(* The array of vectors and the result of transfer_iovecs never misstate   *)
(* what was moved (01, lines 50-93).                                       *)
THEOREM TransferCorrect == Spec => []HonestTransfer
<1>1. ASSUME VectorInvariant
      PROVE  Vector!HonestTransfer
  <2>. USE <1>1 DEF VectorInvariant
  <2>1. Vector!NoByteSkipped
    BY VectorFacts DEF Vector!NoByteSkipped, Accounts
  <2>2. pc = "0" => moved = Vector!AllPlaces
    <3>1. pc = "0" => Vector!Remaining = {}
      BY DEF Stage, Vector!TypeOK, Vector!Remaining, Vector!Places
    <3>. QED  BY <3>1 DEF Accounts
  <2>3. pc = "-1" => transferred = 0
    BY DEF Accounts
  <2>. QED  BY <2>1, <2>2, <2>3
            DEF Vector!HonestTransfer, Vector!ResultHonest, Stage
<1>2. LoopsInvariant => HonestTransfer
  BY <1>1 DEF LoopsInvariant, HonestTransfer
<1>. QED  BY <1>2, Invariance, PTL
=============================================================================
