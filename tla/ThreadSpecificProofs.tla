------------------------ MODULE ThreadSpecificProofs ------------------------
(***************************************************************************)
(* Proofs about ThreadSpecific, for every number of threads.               *)
(***************************************************************************)
EXTENDS ThreadSpecific, WellFoundedInduction, TLAPS

Creating   == {"initialize_key", "key_created"}
Before     == {"absent", "once", "check_key", "malloc"} \cup Creating
Destroying == {"count", "sum", "free"}
Ending     == {"exit", "gone"} \cup Destroying

(* initialize_key runs in one worker, and no worker is past pthread_once,  *)
(* or has a block, before it has returned; a worker whose call failed has  *)
(* none (lines 42-45).                                                     *)
OnceRuns ==
  /\ \A w \in Workers :
       /\ pc[w] \in Creating => once = "running"
       /\ pc[w] \notin {"absent", "once", "exit", "gone"} \cup Creating
            => once = "done"
       /\ block[w] # "none" => once = "done"
  /\ \A v, w \in Workers : pc[v] \in Creating /\ pc[w] \in Creating => v = w

(* What key_error and key_initialized say of the key, and who may use it   *)
(* (lines 36-45): a worker that is past the check has found it created.    *)
KeyTracked ==
  /\ once = "ready" => key = "none" /\ ~key_error
  /\ key_initialized => once = "done"
  /\ once = "done" => (key_error <=> key = "none")
                      /\ (key_initialized <=> ~key_error)
  /\ \A w \in Workers :
       /\ pc[w] = "initialize_key" => key = "none" /\ ~key_error
       /\ pc[w] = "key_created" => (key_error <=> key = "none")
       /\ pc[w] \in {"malloc", "setspecific", "getspecific"} \cup Destroying
            => ~key_error
       /\ slot[w] => ~key_error
  /\ key = "deleted" => ~Running /\ main = "verify"

(* Who holds the block, from malloc to free, and what has been verified of *)
(* it (lines 25-33, 47-61).                                                *)
BlocksTracked ==
  \A w \in Workers :
    /\ pc[w] \in Before => block[w] = "none"
    /\ pc[w] = "setspecific" => block[w] = "held"
    /\ pc[w] = "getspecific" => slot[w]
    /\ slot[w] => block[w] = "held" /\ pc[w] \in {"getspecific", "exit"}
    /\ pc[w] = "exit" => (block[w] = "held" <=> slot[w])
    /\ pc[w] = "exit" /\ slot[w] => contextVerified[w]
    /\ pc[w] \in Destroying => block[w] = "held" /\ contextVerified[w]
    /\ pc[w] = "gone" => block[w] # "held"
    /\ contextVerified[w] => block[w] # "none" /\ pc[w] \in Ending

(* How far main has come: whom it has created and whom it has seen return  *)
(* (lines 70-99).                                                          *)
MainTracked ==
  /\ \A w \in Workers : pc[w] = "absent" <=> w > created
  /\ ~join_failed => \A w \in Workers : w <= joined => pc[w] = "gone"
  /\ main = "create" => joined = 0 /\ ~join_failed
  /\ main = "verify" => joined = created /\ ~join_failed
  /\ main = "retain" => join_failed
  /\ ~Running => main \in {"retain", "verify"}

(* A failed call leaves a trace that main finds, and only a failed call    *)
(* does (lines 74, 84, 101-125).                                           *)
FaultsTracked ==
  IF faults = 0
  THEN /\ ~key_error /\ ~join_failed
       /\ main # "create" => created = THREAD_COUNT
       /\ \A w \in Workers : pc[w] \in Ending => contextVerified[w]
  ELSE \/ key_error \/ join_failed \/ result = "EXIT_FAILURE"
       \/ main # "create" /\ created < THREAD_COUNT
       \/ \E w \in Workers : pc[w] \in {"exit", "gone"} /\ ~contextVerified[w]

-----------------------------------------------------------------------------
(* f[i] is the sum of the weights of the workers 1 .. i. *)
Tallies(f, weight) ==
  /\ f \in [0 .. THREAD_COUNT -> Nat]
  /\ f[0] = 0
  /\ \A w \in Workers : f[w] = f[w - 1] + weight[w]

Destroyed(w) == contextVerified[w] /\ block[w] = "freed"
Counted == [w \in Workers |->
             IF pc[w] \in {"sum", "free"} \/ Destroyed(w) THEN 1 ELSE 0]
Summed  == [w \in Workers |->
             IF pc[w] = "free" \/ Destroyed(w) THEN w ELSE 0]

(* The two atomic counters add up what the destructors have done (lines    *)
(* 28-30), in whatever order.                                              *)
CountTracked ==
  \E f \in [0 .. THREAD_COUNT -> Nat] :
    Tallies(f, Counted) /\ destructor_count = f[THREAD_COUNT]
SumTracked ==
  \E f \in [0 .. THREAD_COUNT -> Nat] :
    Tallies(f, Summed) /\ destructor_id_sum = f[THREAD_COUNT]

WorkersInvariant ==
  /\ TypeOK /\ OnceRuns /\ KeyTracked /\ BlocksTracked /\ MainTracked
  /\ FaultsTracked /\ CountTracked /\ SumTracked /\ SuccessIffNoFault
-----------------------------------------------------------------------------
(* A set of naturals that is not empty has a least element: induction over *)
(* a set, without an operator as parameter.                                *)
LEMMA NatLeast ==
  ASSUME NEW T \in SUBSET Nat, T # {}
  PROVE  \E x \in T : \A y \in T : x <= y
<1>. DEFINE R == OpToRel(<, Nat)
<1>1. IsWellFoundedOn(R, Nat)
  BY NatLessThanWellFounded, ZenonT(60)
<1>2. PICK x \in T : \A y \in T : <<y, x>> \notin R
  <2>. HIDE DEF R
  <2>. QED  BY <1>1, WFMin
<1>3. \A y \in T : ~(y < x)
  BY <1>2 DEF OpToRel
<1>. QED  BY <1>3

(* The tally f after the weight of worker w has grown by k. *)
Raised(f, w, k) ==
  [i \in 0 .. THREAD_COUNT |-> IF i >= w THEN f[i] + k ELSE f[i]]

GrowsAt(u, v, w, k) ==
  v[w] = u[w] + k /\ \A x \in Workers \ {w} : v[x] = u[x]

(* A weight that grows by k raises the tally by k. *)
LEMMA TallyGrows ==
  ASSUME NEW u \in [Workers -> Nat], NEW f, Tallies(f, u),
         NEW w \in Workers, NEW k \in Nat, NEW v,
         GrowsAt(u, v, w, k)
  PROVE  /\ Tallies(Raised(f, w, k), v)
         /\ Raised(f, w, k)[THREAD_COUNT] = f[THREAD_COUNT] + k
<1>. DEFINE g == Raised(f, w, k)
<1>1. /\ THREAD_COUNT \in Nat \ {0} /\ w \in 1 .. THREAD_COUNT
      /\ 0 \in 0 .. THREAD_COUNT /\ THREAD_COUNT \in 0 .. THREAD_COUNT
  BY ThreadCountAssumption DEF Workers
<1>2. f \in [0 .. THREAD_COUNT -> Nat] /\ f[0] = 0
  BY DEF Tallies
<1>3. ASSUME NEW i \in 0 .. THREAD_COUNT
      PROVE  /\ i < w => g[i] = f[i]
             /\ i >= w => g[i] = f[i] + k
             /\ f[i] \in Nat /\ f[i] + k \in Nat /\ i \in Int /\ w \in Int
  <2>1. g[i] = IF i >= w THEN f[i] + k ELSE f[i]
    BY DEF Raised
  <2>2. f[i] \in Nat
    BY <1>2
  <2>3. f[i] + k \in Nat /\ i \in Int /\ w \in Int
    BY <1>1, <2>2
  <2>. QED  BY <2>1, <2>2, <2>3
<1>4. g \in [0 .. THREAD_COUNT -> Nat]
  <2>1. \A i \in 0 .. THREAD_COUNT :
          (IF i >= w THEN f[i] + k ELSE f[i]) \in Nat
    BY <1>3
  <2>. QED  BY <2>1 DEF Raised
<1>5. g[0] = 0 /\ g[THREAD_COUNT] = f[THREAD_COUNT] + k
  <2>1. 0 < w /\ THREAD_COUNT >= w
    BY <1>1
  <2>. HIDE DEF g
  <2>. QED  BY <1>1, <1>2, <1>3, <2>1
<1>6. ASSUME NEW x \in Workers
      PROVE  g[x] = g[x - 1] + v[x]
  <2>1. x \in 0 .. THREAD_COUNT /\ x - 1 \in 0 .. THREAD_COUNT /\ x \in Int
    BY <1>1 DEF Workers
  <2>2. f[x] = f[x - 1] + u[x] /\ u[x] \in Nat
    BY DEF Tallies
  <2>3. /\ f[x - 1] \in Nat
        /\ x < w => g[x] = f[x] /\ g[x - 1] = f[x - 1]
        /\ x = w => g[x] = f[x] + k /\ g[x - 1] = f[x - 1]
        /\ x > w => g[x] = f[x] + k /\ g[x - 1] = f[x - 1] + k
    <3>. HIDE DEF g
    <3>. QED  BY <1>1, <1>3, <2>1
  <2>4. (x = w => v[x] = u[x] + k) /\ (x # w => v[x] = u[x])
    BY DEF GrowsAt
  <2>. HIDE DEF g
  <2>. QED  BY <1>1, <2>1, <2>2, <2>3, <2>4
<1>. QED  BY <1>4, <1>5, <1>6 DEF Tallies

(* Where nobody is missing, the tallies are those main expects: as many as *)
(* there are workers, and the sum of their numbers.                        *)
LEMMA TallyOfAll ==
  ASSUME NEW f, NEW u
  PROVE  /\ Tallies(f, u) /\ (\A w \in Workers : u[w] = 1)
              => f[THREAD_COUNT] = THREAD_COUNT
         /\ Tallies(f, u) /\ (\A w \in Workers : u[w] = w)
              => 2 * f[THREAD_COUNT] = THREAD_COUNT * (THREAD_COUNT + 1)
<1>. USE ThreadCountAssumption DEF Workers
<1>1. ASSUME Tallies(f, u), \A w \in Workers : u[w] = 1
      PROVE  f[THREAD_COUNT] = THREAD_COUNT
  <2>. DEFINE T == {i \in 0 .. THREAD_COUNT : f[i] # i}
  <2>1. ASSUME T # {} PROVE FALSE
    <3>1. PICK x \in T : \A y \in T : x <= y
      <4>1. T \in SUBSET Nat
        OBVIOUS
      <4>. HIDE DEF T
      <4>. QED  BY <2>1, <4>1, NatLeast
    <3>2. x # 0
      BY <1>1 DEF Tallies
    <3>3. x \in Workers /\ x - 1 \in 0 .. THREAD_COUNT /\ x - 1 \notin T
      BY <3>1, <3>2
    <3>4. f[x] = f[x - 1] + 1 /\ f[x - 1] = x - 1
      BY <1>1, <3>3 DEF Tallies
    <3>. QED  BY <3>3, <3>4
  <2>. QED  BY <2>1
<1>2. ASSUME Tallies(f, u), \A w \in Workers : u[w] = w
      PROVE  2 * f[THREAD_COUNT] = THREAD_COUNT * (THREAD_COUNT + 1)
  <2>. DEFINE T == {i \in 0 .. THREAD_COUNT : 2 * f[i] # i * (i + 1)}
  <2>1. ASSUME T # {} PROVE FALSE
    <3>1. PICK x \in T : \A y \in T : x <= y
      <4>1. T \in SUBSET Nat
        OBVIOUS
      <4>. HIDE DEF T
      <4>. QED  BY <2>1, <4>1, NatLeast
    <3>2. x # 0
      BY <1>1, <1>2 DEF Tallies
    <3>3. x \in Workers /\ x - 1 \in 0 .. THREAD_COUNT /\ x - 1 \notin T
      BY <3>1, <3>2
    <3>4. f[x] = f[x - 1] + x /\ f[x] \in Nat /\ f[x - 1] \in Nat
      BY <1>2, <3>3 DEF Tallies
    <3>5. 2 * f[x - 1] = (x - 1) * ((x - 1) + 1)
      BY <3>3
    <3>6. (x - 1) * ((x - 1) + 1) + 2 * x = x * (x + 1)
      BY <3>3
    <3>7. 2 * f[x] = x * (x + 1)
      BY <3>3, <3>4, <3>5, <3>6
    <3>. QED  BY <3>7
  <2>. QED  BY <2>1
<1>. QED  BY <1>1, <1>2

(* Halving the double: the sum main expects (line 110). *)
LEMMA HalfOfDouble ==
  ASSUME NEW s \in Nat, NEW n \in Nat, 2 * s = n
  PROVE  n \div 2 = s
  OBVIOUS

(* After a join of all workers without a failed call, what main verifies   *)
(* is true (lines 101-112).                                                *)
LEMMA NoFaultVerifies ==
  ASSUME WorkersInvariant, Running, main = "verify", faults = 0
  PROVE  Verified /\ key_initialized /\ ~key_error
<1>. USE ThreadCountAssumption DEF WorkersInvariant, Workers
<1>1. created = THREAD_COUNT /\ ~key_error
  BY DEF FaultsTracked
<1>2. \A w \in Workers : pc[w] = "gone"
  BY <1>1 DEF MainTracked, TypeOK
<1>3. \A w \in Workers : Destroyed(w)
  <2>1. \A w \in Workers : contextVerified[w]
    BY <1>2 DEF FaultsTracked, Ending
  <2>2. \A w \in Workers : block[w] # "none" /\ block[w] # "held"
    BY <1>2, <2>1 DEF BlocksTracked
  <2>. QED  BY <2>1, <2>2 DEF Destroyed, TypeOK
<1>4. key_initialized
  <2>1. 1 \in Workers /\ block[1] = "freed"
    BY <1>3 DEF Destroyed
  <2>2. once = "done"
    BY <2>1 DEF OnceRuns
  <2>. QED  BY <1>1, <2>2 DEF KeyTracked
<1>5. destructor_count = THREAD_COUNT
  BY <1>3, TallyOfAll DEF CountTracked, Counted
<1>6. destructor_id_sum = (THREAD_COUNT * (THREAD_COUNT + 1)) \div 2
  <2>1. PICK f \in [0 .. THREAD_COUNT -> Nat] :
          Tallies(f, Summed) /\ destructor_id_sum = f[THREAD_COUNT]
    BY DEF SumTracked
  <2>2. 2 * f[THREAD_COUNT] = THREAD_COUNT * (THREAD_COUNT + 1)
    BY <1>3, <2>1, TallyOfAll DEF Summed
  <2>3. THREAD_COUNT * (THREAD_COUNT + 1) \in Nat
    OBVIOUS
  <2>. QED  BY <2>1, <2>2, <2>3, HalfOfDouble
<1>. QED  BY <1>1, <1>3, <1>4, <1>5, <1>6 DEF Verified, Destroyed

(* A failed call is found by what main verifies. *)
LEMMA FaultNotVerified ==
  ASSUME WorkersInvariant, Running, main = "verify", faults # 0
  PROVE  ~Verified
BY DEF WorkersInvariant, TypeOK, FaultsTracked, MainTracked, Verified, Running,
       Workers

-----------------------------------------------------------------------------
(* One lemma for each action, with one step for each part of the invariant. *)
USE ThreadCountAssumption
    DEF TypeOK, At, Goto, Running, Fault, library, heap, totals, mains,
        Workers, Before, Creating, Destroying, Ending

(* pthread_once: entered, returned from, or failed (lines 42-45). *)
LEMMA EnterOncePreserves ==
  ASSUME WorkersInvariant, NEW w \in Workers, EnterOnce(w)
  PROVE  WorkersInvariant'
<1>. USE DEF WorkersInvariant, EnterOnce
<1>1. TypeOK'
  <2>1. CASE /\ once' = "running" /\ Goto(w, "initialize_key")
             /\ UNCHANGED faults
    BY <2>1
  <2>2. CASE Goto(w, "check_key") /\ UNCHANGED <<once, faults>>
    BY <2>2
  <2>3. CASE Goto(w, "exit") /\ Fault /\ UNCHANGED once
    BY <2>3
  <2>. QED  BY <2>1, <2>2, <2>3
<1>2. OnceRuns'
  BY DEF OnceRuns
<1>3. KeyTracked'
  BY DEF KeyTracked
<1>4. BlocksTracked'
  BY DEF BlocksTracked
<1>5. MainTracked'
  BY DEF MainTracked
<1>6. FaultsTracked'
  <2>1. CASE pc'[w] = "exit" /\ Fault
    <3>1. ~contextVerified'[w]
      BY DEF BlocksTracked
    <3>. QED  BY <2>1, <3>1 DEF FaultsTracked
  <2>2. CASE UNCHANGED faults /\ pc'[w] \in {"initialize_key", "check_key"}
    BY <2>2 DEF FaultsTracked
  <2>. QED  BY <2>1, <2>2
<1>7. CountTracked'
  <2>1. Counted' = Counted /\ UNCHANGED destructor_count
    BY DEF Counted, Destroyed, BlocksTracked
  <2>. QED  BY <2>1 DEF CountTracked, Tallies
<1>8. SumTracked'
  <2>1. Summed' = Summed /\ UNCHANGED destructor_id_sum
    BY DEF Summed, Destroyed, BlocksTracked
  <2>. QED  BY <2>1 DEF SumTracked, Tallies
<1>9. SuccessIffNoFault'
  BY DEF SuccessIffNoFault
<1>. QED  BY <1>1, <1>2, <1>3, <1>4, <1>5, <1>6, <1>7, <1>8, <1>9
          DEF WorkersInvariant

(* initialize_key creates the key or fails (line 36). *)
LEMMA KeyCreatePreserves ==
  ASSUME WorkersInvariant, NEW w \in Workers, KeyCreate(w)
  PROVE  WorkersInvariant'
<1>. USE DEF WorkersInvariant, KeyCreate
<1>1. TypeOK'
  <2>1. CASE key' = "live" /\ key_error' = FALSE /\ UNCHANGED faults
    BY <2>1
  <2>2. CASE key' = key /\ key_error' = TRUE /\ Fault
    BY <2>2
  <2>. QED  BY <2>1, <2>2
<1>2. OnceRuns'
  BY DEF OnceRuns
<1>3. KeyTracked'
  <2>1. key = "none" /\ ~key_error /\ once = "running"
    BY DEF KeyTracked, OnceRuns
  <2>2. \A v \in Workers : v # w => pc'[v] = pc[v] /\ pc[v] \notin Creating
    BY DEF OnceRuns
  <2>3. /\ pc'[w] = "key_created" /\ key' # "deleted"
        /\ key_error' <=> key' = "none"
    BY <2>1
  <2>4. \A v \in Workers : /\ block[v] = "none"
                          /\ pc[v] \in Creating
                               \cup {"absent", "once", "exit", "gone"}
    BY <2>1 DEF OnceRuns
  <2>5. \A v \in Workers : ~slot[v]
    BY <2>4 DEF BlocksTracked
  <2>. QED  BY <2>1, <2>2, <2>3, <2>4, <2>5 DEF KeyTracked
<1>4. BlocksTracked'
  BY DEF BlocksTracked
<1>5. MainTracked'
  BY DEF MainTracked
<1>6. FaultsTracked'
  BY DEF FaultsTracked, KeyTracked
<1>7. CountTracked'
  <2>1. Counted' = Counted /\ UNCHANGED destructor_count
    BY DEF Counted, Destroyed, BlocksTracked
  <2>. QED  BY <2>1 DEF CountTracked, Tallies
<1>8. SumTracked'
  <2>1. Summed' = Summed /\ UNCHANGED destructor_id_sum
    BY DEF Summed, Destroyed, BlocksTracked
  <2>. QED  BY <2>1 DEF SumTracked, Tallies
<1>9. SuccessIffNoFault'
  BY DEF SuccessIffNoFault
<1>. QED  BY <1>1, <1>2, <1>3, <1>4, <1>5, <1>6, <1>7, <1>8, <1>9
          DEF WorkersInvariant

(* The end of initialize_key (line 37). *)
LEMMA KeyInitializedPreserves ==
  ASSUME WorkersInvariant, NEW w \in Workers, KeyInitialized(w)
  PROVE  WorkersInvariant'
<1>. USE DEF WorkersInvariant, KeyInitialized
<1>1. TypeOK'
  BY DEF TypeOK
<1>2. OnceRuns'
  BY DEF OnceRuns
<1>3. KeyTracked'
  BY DEF KeyTracked
<1>4. BlocksTracked'
  BY DEF BlocksTracked
<1>5. MainTracked'
  BY DEF MainTracked
<1>6. FaultsTracked'
  BY DEF FaultsTracked
<1>7. CountTracked'
  <2>1. Counted' = Counted /\ UNCHANGED destructor_count
    BY DEF Counted, Destroyed, BlocksTracked
  <2>. QED  BY <2>1 DEF CountTracked, Tallies
<1>8. SumTracked'
  <2>1. Summed' = Summed /\ UNCHANGED destructor_id_sum
    BY DEF Summed, Destroyed, BlocksTracked
  <2>. QED  BY <2>1 DEF SumTracked, Tallies
<1>9. SuccessIffNoFault'
  BY DEF SuccessIffNoFault
<1>. QED  BY <1>1, <1>2, <1>3, <1>4, <1>5, <1>6, <1>7, <1>8, <1>9
          DEF WorkersInvariant

(* The test of key_error (lines 43-45). *)
LEMMA CheckKeyPreserves ==
  ASSUME WorkersInvariant, NEW w \in Workers, CheckKey(w)
  PROVE  WorkersInvariant'
<1>. USE DEF WorkersInvariant, CheckKey
<1>1. TypeOK'
  BY DEF TypeOK
<1>2. OnceRuns'
  BY DEF OnceRuns
<1>3. KeyTracked'
  BY DEF KeyTracked
<1>4. BlocksTracked'
  BY DEF BlocksTracked
<1>5. MainTracked'
  BY DEF MainTracked
<1>6. FaultsTracked'
  BY DEF FaultsTracked
<1>7. CountTracked'
  <2>1. Counted' = Counted /\ UNCHANGED destructor_count
    BY DEF Counted, Destroyed, BlocksTracked
  <2>. QED  BY <2>1 DEF CountTracked, Tallies
<1>8. SumTracked'
  <2>1. Summed' = Summed /\ UNCHANGED destructor_id_sum
    BY DEF Summed, Destroyed, BlocksTracked
  <2>. QED  BY <2>1 DEF SumTracked, Tallies
<1>9. SuccessIffNoFault'
  BY DEF SuccessIffNoFault
<1>. QED  BY <1>1, <1>2, <1>3, <1>4, <1>5, <1>6, <1>7, <1>8, <1>9
          DEF WorkersInvariant

(* malloc (lines 47-50). *)
LEMMA MallocPreserves ==
  ASSUME WorkersInvariant, NEW w \in Workers, Malloc(w)
  PROVE  WorkersInvariant'
<1>. USE DEF WorkersInvariant, Malloc
<1>1. TypeOK'
  BY DEF TypeOK
<1>2. OnceRuns'
  BY DEF OnceRuns
<1>3. KeyTracked'
  BY DEF KeyTracked
<1>4. BlocksTracked'
  BY DEF BlocksTracked
<1>5. MainTracked'
  BY DEF MainTracked
<1>6. FaultsTracked'
  BY DEF FaultsTracked, BlocksTracked
<1>7. CountTracked'
  <2>1. Counted' = Counted /\ UNCHANGED destructor_count
    BY DEF Counted, Destroyed, BlocksTracked
  <2>. QED  BY <2>1 DEF CountTracked, Tallies
<1>8. SumTracked'
  <2>1. Summed' = Summed /\ UNCHANGED destructor_id_sum
    BY DEF Summed, Destroyed, BlocksTracked
  <2>. QED  BY <2>1 DEF SumTracked, Tallies
<1>9. SuccessIffNoFault'
  BY DEF SuccessIffNoFault
<1>. QED  BY <1>1, <1>2, <1>3, <1>4, <1>5, <1>6, <1>7, <1>8, <1>9
          DEF WorkersInvariant

(* pthread_setspecific, or free on its failure (lines 53-57). *)
LEMMA SetSpecificPreserves ==
  ASSUME WorkersInvariant, NEW w \in Workers, SetSpecific(w)
  PROVE  WorkersInvariant'
<1>. USE DEF WorkersInvariant, SetSpecific
<1>1. TypeOK'
  <2>1. block' \in [Workers -> {"none", "held", "freed"}] /\ faults' \in Nat
    OBVIOUS
  <2>2. slot' \in [Workers -> BOOLEAN]
    OBVIOUS
  <2>. QED  BY <2>1, <2>2
<1>2. OnceRuns'
  BY DEF OnceRuns
<1>3. KeyTracked'
  BY DEF KeyTracked
<1>4. BlocksTracked'
  BY DEF BlocksTracked
<1>5. MainTracked'
  BY DEF MainTracked
<1>6. FaultsTracked'
  BY DEF FaultsTracked, BlocksTracked
<1>7. CountTracked'
  <2>1. Counted' = Counted /\ UNCHANGED destructor_count
    BY DEF Counted, Destroyed, BlocksTracked
  <2>. QED  BY <2>1 DEF CountTracked, Tallies
<1>8. SumTracked'
  <2>1. Summed' = Summed /\ UNCHANGED destructor_id_sum
    BY DEF Summed, Destroyed, BlocksTracked
  <2>. QED  BY <2>1 DEF SumTracked, Tallies
<1>9. SuccessIffNoFault'
  BY DEF SuccessIffNoFault
<1>. QED  BY <1>1, <1>2, <1>3, <1>4, <1>5, <1>6, <1>7, <1>8, <1>9
          DEF WorkersInvariant

(* pthread_getspecific and the comparison (lines 59-60). *)
LEMMA GetSpecificPreserves ==
  ASSUME WorkersInvariant, NEW w \in Workers, GetSpecific(w)
  PROVE  WorkersInvariant'
<1>. USE DEF WorkersInvariant, GetSpecific
<1>1. TypeOK'
  BY DEF TypeOK
<1>2. OnceRuns'
  BY DEF OnceRuns
<1>3. KeyTracked'
  BY DEF KeyTracked
<1>4. BlocksTracked'
  BY DEF BlocksTracked
<1>5. MainTracked'
  BY DEF MainTracked
<1>6. FaultsTracked'
  BY DEF FaultsTracked, BlocksTracked
<1>7. CountTracked'
  <2>1. Counted' = Counted /\ UNCHANGED destructor_count
    BY DEF Counted, Destroyed, BlocksTracked
  <2>. QED  BY <2>1 DEF CountTracked, Tallies
<1>8. SumTracked'
  <2>1. Summed' = Summed /\ UNCHANGED destructor_id_sum
    BY DEF Summed, Destroyed, BlocksTracked
  <2>. QED  BY <2>1 DEF SumTracked, Tallies
<1>9. SuccessIffNoFault'
  BY DEF SuccessIffNoFault
<1>. QED  BY <1>1, <1>2, <1>3, <1>4, <1>5, <1>6, <1>7, <1>8, <1>9
          DEF WorkersInvariant

(* A worker returns: its destructor is called, or it is gone (line 61). *)
LEMMA ThreadExitPreserves ==
  ASSUME WorkersInvariant, NEW w \in Workers, ThreadExit(w)
  PROVE  WorkersInvariant'
<1>. USE DEF WorkersInvariant, ThreadExit
<1>1. TypeOK'
  BY DEF TypeOK
<1>2. OnceRuns'
  BY DEF OnceRuns, BlocksTracked
<1>3. KeyTracked'
  BY DEF KeyTracked
<1>4. BlocksTracked'
  <2>1. slot[w] => key = "live"
    <3>1. slot[w] => once = "done" /\ ~key_error
      BY DEF BlocksTracked, KeyTracked, OnceRuns
    <3>2. key # "deleted"
      BY DEF KeyTracked
    <3>. QED  BY <3>1, <3>2 DEF KeyTracked
  <2>. QED  BY <2>1 DEF BlocksTracked
<1>5. MainTracked'
  BY DEF MainTracked
<1>6. FaultsTracked'
  BY DEF FaultsTracked, BlocksTracked
<1>7. CountTracked'
  <2>1. Counted' = Counted /\ UNCHANGED destructor_count
    BY DEF Counted, Destroyed, BlocksTracked
  <2>. QED  BY <2>1 DEF CountTracked, Tallies
<1>8. SumTracked'
  <2>1. Summed' = Summed /\ UNCHANGED destructor_id_sum
    BY DEF Summed, Destroyed, BlocksTracked
  <2>. QED  BY <2>1 DEF SumTracked, Tallies
<1>9. SuccessIffNoFault'
  BY DEF SuccessIffNoFault
<1>. QED  BY <1>1, <1>2, <1>3, <1>4, <1>5, <1>6, <1>7, <1>8, <1>9
          DEF WorkersInvariant

(* destroy_thread_value adds one (line 28). *)
LEMMA DestructorCountsPreserves ==
  ASSUME WorkersInvariant, NEW w \in Workers, DestructorCounts(w)
  PROVE  WorkersInvariant'
<1>. USE DEF WorkersInvariant, DestructorCounts
<1>1. TypeOK'
  BY DEF TypeOK
<1>2. OnceRuns'
  BY DEF OnceRuns
<1>3. KeyTracked'
  BY DEF KeyTracked
<1>4. BlocksTracked'
  BY DEF BlocksTracked
<1>5. MainTracked'
  BY DEF MainTracked
<1>6. FaultsTracked'
  BY DEF FaultsTracked
<1>7. CountTracked'
  <2>1. PICK f : Tallies(f, Counted) /\ destructor_count = f[THREAD_COUNT]
    BY DEF CountTracked
  <2>2. Counted'[w] = Counted[w] + 1
    <3>1. block[w] = "held"
      BY DEF BlocksTracked
    <3>. QED  BY <3>1 DEF Counted, Destroyed
  <2>3. \A x \in Workers \ {w} : Counted'[x] = Counted[x]
    BY DEF Counted, Destroyed
  <2>4. Counted \in [Workers -> Nat]
    BY DEF Counted
  <2>5. /\ Tallies(Raised(f, w, 1), Counted')
        /\ Raised(f, w, 1)[THREAD_COUNT] = f[THREAD_COUNT] + 1
    <3>1. 1 \in Nat /\ w \in Workers /\ Tallies(f, Counted)
      BY <2>1
    <3>2. GrowsAt(Counted, Counted', w, 1)
      BY <2>2, <2>3 DEF GrowsAt
    <3>. HIDE DEF WorkersInvariant, DestructorCounts, Workers
    <3>. QED  BY <2>4, <3>1, <3>2, TallyGrows
  <2>. QED  BY <2>1, <2>5 DEF CountTracked, Tallies
<1>8. SumTracked'
  <2>1. Summed' = Summed /\ UNCHANGED destructor_id_sum
    BY DEF Summed, Destroyed, BlocksTracked
  <2>. QED  BY <2>1 DEF SumTracked, Tallies
<1>9. SuccessIffNoFault'
  BY DEF SuccessIffNoFault
<1>. QED  BY <1>1, <1>2, <1>3, <1>4, <1>5, <1>6, <1>7, <1>8, <1>9
          DEF WorkersInvariant

(* destroy_thread_value adds the number (lines 29-30). *)
LEMMA DestructorSumsPreserves ==
  ASSUME WorkersInvariant, NEW w \in Workers, DestructorSums(w)
  PROVE  WorkersInvariant'
<1>. USE DEF WorkersInvariant, DestructorSums
<1>1. TypeOK'
  BY DEF TypeOK
<1>2. OnceRuns'
  BY DEF OnceRuns
<1>3. KeyTracked'
  BY DEF KeyTracked
<1>4. BlocksTracked'
  BY DEF BlocksTracked
<1>5. MainTracked'
  BY DEF MainTracked
<1>6. FaultsTracked'
  BY DEF FaultsTracked
<1>7. CountTracked'
  <2>1. Counted' = Counted /\ UNCHANGED destructor_count
    BY DEF Counted, Destroyed, BlocksTracked
  <2>. QED  BY <2>1 DEF CountTracked, Tallies
<1>8. SumTracked'
  <2>1. PICK f : Tallies(f, Summed) /\ destructor_id_sum = f[THREAD_COUNT]
    BY DEF SumTracked
  <2>2. Summed'[w] = Summed[w] + w
    <3>1. block[w] = "held"
      BY DEF BlocksTracked
    <3>. QED  BY <3>1 DEF Summed, Destroyed
  <2>3. \A x \in Workers \ {w} : Summed'[x] = Summed[x]
    BY DEF Summed, Destroyed
  <2>4. Summed \in [Workers -> Nat]
    BY DEF Summed
  <2>5. /\ Tallies(Raised(f, w, w), Summed')
        /\ Raised(f, w, w)[THREAD_COUNT] = f[THREAD_COUNT] + w
    <3>1. w \in Nat /\ w \in Workers /\ Tallies(f, Summed)
      BY <2>1
    <3>2. GrowsAt(Summed, Summed', w, w)
      BY <2>2, <2>3 DEF GrowsAt
    <3>. HIDE DEF WorkersInvariant, DestructorSums, Workers
    <3>. QED  BY <2>4, <3>1, <3>2, TallyGrows
  <2>. QED  BY <2>1, <2>5 DEF SumTracked, Tallies
<1>9. SuccessIffNoFault'
  BY DEF SuccessIffNoFault
<1>. QED  BY <1>1, <1>2, <1>3, <1>4, <1>5, <1>6, <1>7, <1>8, <1>9
          DEF WorkersInvariant

(* destroy_thread_value frees the block (line 31). *)
LEMMA DestructorFreesPreserves ==
  ASSUME WorkersInvariant, NEW w \in Workers, DestructorFrees(w)
  PROVE  WorkersInvariant'
<1>. USE DEF WorkersInvariant, DestructorFrees
<1>1. TypeOK'
  BY DEF TypeOK
<1>2. OnceRuns'
  BY DEF OnceRuns
<1>3. KeyTracked'
  BY DEF KeyTracked
<1>4. BlocksTracked'
  BY DEF BlocksTracked
<1>5. MainTracked'
  BY DEF MainTracked
<1>6. FaultsTracked'
  BY DEF FaultsTracked
<1>7. CountTracked'
  <2>1. Counted' = Counted /\ UNCHANGED destructor_count
    BY DEF Counted, Destroyed, BlocksTracked
  <2>. QED  BY <2>1 DEF CountTracked, Tallies
<1>8. SumTracked'
  <2>1. Summed' = Summed /\ UNCHANGED destructor_id_sum
    BY DEF Summed, Destroyed, BlocksTracked
  <2>. QED  BY <2>1 DEF SumTracked, Tallies
<1>9. SuccessIffNoFault'
  BY DEF SuccessIffNoFault
<1>. QED  BY <1>1, <1>2, <1>3, <1>4, <1>5, <1>6, <1>7, <1>8, <1>9
          DEF WorkersInvariant

(* pthread_create (lines 70-79). *)
LEMMA CreatePreserves ==
  ASSUME WorkersInvariant, Create
  PROVE  WorkersInvariant'
<1>. USE DEF WorkersInvariant, Create
<1>1. TypeOK'
  BY DEF TypeOK
<1>2. OnceRuns'
  BY DEF OnceRuns
<1>3. KeyTracked'
  BY DEF KeyTracked
<1>4. BlocksTracked'
  BY DEF BlocksTracked, MainTracked
<1>5. MainTracked'
  BY DEF MainTracked
<1>6. FaultsTracked'
  BY DEF FaultsTracked, BlocksTracked, MainTracked
<1>7. CountTracked'
  <2>1. Counted' = Counted /\ UNCHANGED destructor_count
    BY DEF Counted, Destroyed, BlocksTracked, MainTracked
  <2>. QED  BY <2>1 DEF CountTracked, Tallies
<1>8. SumTracked'
  <2>1. Summed' = Summed /\ UNCHANGED destructor_id_sum
    BY DEF Summed, Destroyed, BlocksTracked, MainTracked
  <2>. QED  BY <2>1 DEF SumTracked, Tallies
<1>9. SuccessIffNoFault'
  BY DEF SuccessIffNoFault
<1>. QED  BY <1>1, <1>2, <1>3, <1>4, <1>5, <1>6, <1>7, <1>8, <1>9
          DEF WorkersInvariant

(* pthread_join, and the end of its loop (lines 82-90). *)
LEMMA JoinPreserves ==
  ASSUME WorkersInvariant, Join
  PROVE  WorkersInvariant'
<1>. USE DEF WorkersInvariant, Join
<1>1. TypeOK'
  BY DEF TypeOK
<1>2. OnceRuns'
  BY DEF OnceRuns
<1>3. KeyTracked'
  BY DEF KeyTracked
<1>4. BlocksTracked'
  BY DEF BlocksTracked
<1>5. MainTracked'
  BY DEF MainTracked
<1>6. FaultsTracked'
  BY DEF FaultsTracked
<1>7. CountTracked'
  <2>1. Counted' = Counted /\ UNCHANGED destructor_count
    BY DEF Counted, Destroyed, BlocksTracked
  <2>. QED  BY <2>1 DEF CountTracked, Tallies
<1>8. SumTracked'
  <2>1. Summed' = Summed /\ UNCHANGED destructor_id_sum
    BY DEF Summed, Destroyed, BlocksTracked
  <2>. QED  BY <2>1 DEF SumTracked, Tallies
<1>9. SuccessIffNoFault'
  BY DEF SuccessIffNoFault
<1>. QED  BY <1>1, <1>2, <1>3, <1>4, <1>5, <1>6, <1>7, <1>8, <1>9
          DEF WorkersInvariant

(* A failed pthread_join (lines 84-87). *)
LEMMA JoinFailsPreserves ==
  ASSUME WorkersInvariant, JoinFails
  PROVE  WorkersInvariant'
<1>. USE DEF WorkersInvariant, JoinFails
<1>1. TypeOK'
  BY DEF TypeOK
<1>2. OnceRuns'
  BY DEF OnceRuns
<1>3. KeyTracked'
  BY DEF KeyTracked
<1>4. BlocksTracked'
  BY DEF BlocksTracked
<1>5. MainTracked'
  BY DEF MainTracked
<1>6. FaultsTracked'
  BY DEF FaultsTracked
<1>7. CountTracked'
  <2>1. Counted' = Counted /\ UNCHANGED destructor_count
    BY DEF Counted, Destroyed, BlocksTracked
  <2>. QED  BY <2>1 DEF CountTracked, Tallies
<1>8. SumTracked'
  <2>1. Summed' = Summed /\ UNCHANGED destructor_id_sum
    BY DEF Summed, Destroyed, BlocksTracked
  <2>. QED  BY <2>1 DEF SumTracked, Tallies
<1>9. SuccessIffNoFault'
  BY DEF SuccessIffNoFault
<1>. QED  BY <1>1, <1>2, <1>3, <1>4, <1>5, <1>6, <1>7, <1>8, <1>9
          DEF WorkersInvariant

(* The key is retained (lines 90-99). *)
LEMMA RetainPreserves ==
  ASSUME WorkersInvariant, Retain
  PROVE  WorkersInvariant'
<1>. USE DEF WorkersInvariant, Retain
<1>1. TypeOK'
  BY DEF TypeOK
<1>2. OnceRuns'
  BY DEF OnceRuns
<1>3. KeyTracked'
  BY DEF KeyTracked
<1>4. BlocksTracked'
  BY DEF BlocksTracked
<1>5. MainTracked'
  BY DEF MainTracked
<1>6. FaultsTracked'
  BY DEF FaultsTracked
<1>7. CountTracked'
  <2>1. Counted' = Counted /\ UNCHANGED destructor_count
    BY DEF Counted, Destroyed, BlocksTracked
  <2>. QED  BY <2>1 DEF CountTracked, Tallies
<1>8. SumTracked'
  <2>1. Summed' = Summed /\ UNCHANGED destructor_id_sum
    BY DEF Summed, Destroyed, BlocksTracked
  <2>. QED  BY <2>1 DEF SumTracked, Tallies
<1>9. SuccessIffNoFault'
  BY DEF SuccessIffNoFault, FaultsTracked, MainTracked
<1>. QED  BY <1>1, <1>2, <1>3, <1>4, <1>5, <1>6, <1>7, <1>8, <1>9
          DEF WorkersInvariant

(* The checks and pthread_key_delete (lines 101-129). *)
LEMMA VerifyAndDeletePreserves ==
  ASSUME WorkersInvariant, VerifyAndDelete
  PROVE  WorkersInvariant'
<1>. USE DEF WorkersInvariant, VerifyAndDelete
<1>1. TypeOK'
  BY DEF TypeOK
<1>2. OnceRuns'
  BY DEF OnceRuns
<1>3. KeyTracked'
  <2>1. ~Running' /\ main' = "verify"
    OBVIOUS
  <2>2. CASE key' = key
    BY <2>1, <2>2 DEF KeyTracked
  <2>3. CASE key' # key
    <3>1. ~key_error /\ key_initialized /\ key' = "deleted"
      BY <2>3
    <3>2. \A w \in Workers : pc[w] \notin Creating
      BY DEF MainTracked
    <3>3. key # "none" /\ once # "ready"
      BY <3>1 DEF KeyTracked
    <3>. QED  BY <2>1, <3>1, <3>2, <3>3 DEF KeyTracked
  <2>. QED  BY <2>2, <2>3
<1>4. BlocksTracked'
  BY DEF BlocksTracked
<1>5. MainTracked'
  BY DEF MainTracked
<1>6. FaultsTracked'
  BY DEF FaultsTracked
<1>7. CountTracked'
  <2>1. Counted' = Counted /\ UNCHANGED destructor_count
    BY DEF Counted, Destroyed, BlocksTracked
  <2>. QED  BY <2>1 DEF CountTracked, Tallies
<1>8. SumTracked'
  <2>1. Summed' = Summed /\ UNCHANGED destructor_id_sum
    BY DEF Summed, Destroyed, BlocksTracked
  <2>. QED  BY <2>1 DEF SumTracked, Tallies
<1>9. SuccessIffNoFault'
  <2>1. CASE faults = 0
    <3>1. Verified /\ key_initialized /\ ~key_error
      BY <2>1, NoFaultVerifies
    <3>. QED  BY <2>1, <3>1 DEF SuccessIffNoFault
  <2>2. CASE faults # 0
    <3>1. ~Verified
      BY <2>2, FaultNotVerified
    <3>. QED  BY <2>2, <3>1 DEF SuccessIffNoFault
  <2>. QED  BY <2>1, <2>2
<1>. QED  BY <1>1, <1>2, <1>3, <1>4, <1>5, <1>6, <1>7, <1>8, <1>9
          DEF WorkersInvariant

-----------------------------------------------------------------------------
(* The invariant holds before the first pthread_create. *)
LEMMA InitEstablishes ==
  ASSUME Init
  PROVE  WorkersInvariant
<1>. USE ThreadCountAssumption
     DEF Init, Running, Workers, Before, Creating, Destroying, Ending
<1>1. TypeOK
  <2>1. /\ destructor_count \in Nat /\ destructor_id_sum \in Nat
        /\ created \in 0 .. THREAD_COUNT /\ joined \in 0 .. created
        /\ faults \in Nat
    OBVIOUS
  <2>2. key_error \in BOOLEAN /\ key_initialized \in BOOLEAN
        /\ join_failed \in BOOLEAN /\ slot \in [Workers -> BOOLEAN]
        /\ contextVerified \in [Workers -> BOOLEAN]
    OBVIOUS
  <2>. QED  BY <2>1, <2>2 DEF TypeOK
<1>2. OnceRuns
  BY DEF OnceRuns
<1>3. KeyTracked
  BY DEF KeyTracked
<1>4. BlocksTracked
  BY DEF BlocksTracked
<1>5. MainTracked
  BY DEF MainTracked
<1>6. FaultsTracked
  BY DEF FaultsTracked
<1>. DEFINE f == [i \in 0 .. THREAD_COUNT |-> 0]
<1>7. /\ f \in [0 .. THREAD_COUNT -> Nat] /\ f[THREAD_COUNT] = 0
      /\ \A u : (\A w \in Workers : u[w] = 0) => Tallies(f, u)
  BY DEF Tallies
<1>8. CountTracked /\ SumTracked
  <2>1. \A w \in Workers : Counted[w] = 0 /\ Summed[w] = 0
    BY DEF Counted, Summed, Destroyed
  <2>. QED  BY <1>7, <2>1 DEF CountTracked, SumTracked
<1>9. SuccessIffNoFault
  BY DEF SuccessIffNoFault
<1>. QED  BY <1>1, <1>2, <1>3, <1>4, <1>5, <1>6, <1>8, <1>9
          DEF WorkersInvariant

(* The invariant is kept by every step. *)
LEMMA StepPreserves ==
  ASSUME WorkersInvariant, [Next]_vars
  PROVE  WorkersInvariant'
<1>1. ASSUME NEW w \in Workers, WorkerStep(w)
      PROVE  WorkersInvariant'
  BY <1>1, EnterOncePreserves, KeyCreatePreserves, KeyInitializedPreserves,
     CheckKeyPreserves, MallocPreserves, SetSpecificPreserves,
     GetSpecificPreserves, ThreadExitPreserves, DestructorCountsPreserves,
     DestructorSumsPreserves, DestructorFreesPreserves
     DEF WorkerStep
<1>2. CASE MainStep
  BY <1>2, CreatePreserves, JoinPreserves, RetainPreserves,
     VerifyAndDeletePreserves
     DEF MainStep
<1>3. CASE JoinFails
  BY <1>3, JoinFailsPreserves
<1>4. CASE UNCHANGED vars
  <2>. USE <1>4
       DEF vars, library, heap, totals, mains, WorkersInvariant, Running
  <2>1. (TypeOK /\ OnceRuns /\ KeyTracked /\ BlocksTracked)'
    BY DEF TypeOK, OnceRuns, KeyTracked, BlocksTracked
  <2>2. (MainTracked /\ FaultsTracked /\ SuccessIffNoFault)'
    BY DEF MainTracked, FaultsTracked, SuccessIffNoFault
  <2>3. Counted' = Counted /\ Summed' = Summed
    BY DEF Counted, Summed, Destroyed
  <2>4. (CountTracked /\ SumTracked)'
    BY <2>3 DEF CountTracked, SumTracked, Tallies
  <2>. QED  BY <2>1, <2>2, <2>4
<1>. QED  BY <1>1, <1>2, <1>3, <1>4 DEF Next, Exited

-----------------------------------------------------------------------------
(* The invariant holds for every number of threads, whatever call fails. *)
THEOREM Invariance == Spec => []WorkersInvariant
<1>1. Init => WorkersInvariant
  BY InitEstablishes
<1>2. WorkersInvariant /\ [Next]_vars => WorkersInvariant'
  BY StepPreserves
<1>. QED  BY <1>1, <1>2, PTL DEF Spec

(* Each block is freed exactly once, by its destructor or, where it could  *)
(* not be stored, by its worker (lines 25-33, 53-57).                      *)
THEOREM BlocksCorrect == Spec => []BlocksFreedOnce
<1>1. WorkersInvariant => BlocksFreedOnce
  BY DEF WorkersInvariant, BlocksTracked, BlocksFreedOnce, Destroying
<1>. QED  BY <1>1, Invariance, PTL

(* The key is deleted after every worker has gone (lines 81-99, 114-125).  *)
THEOREM KeyCorrect == Spec => []KeyOutlivesWorkers
<1>1. WorkersInvariant => KeyOutlivesWorkers
  BY DEF WorkersInvariant, TypeOK, KeyTracked, MainTracked, Workers,
         KeyOutlivesWorkers
<1>. QED  BY <1>1, Invariance, PTL

(* The program succeeds if and only if no call has failed: the two         *)
(* counters are then THREAD_COUNT and the sum 1 + ... + THREAD_COUNT in    *)
(* whatever order the destructors ran (lines 101-128).                     *)
THEOREM SuccessCorrect == Spec => []SuccessIffNoFault
<1>1. WorkersInvariant => SuccessIffNoFault
  BY DEF WorkersInvariant
<1>. QED  BY <1>1, Invariance, PTL
=============================================================================
