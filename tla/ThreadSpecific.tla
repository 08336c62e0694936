--------------------------- MODULE ThreadSpecific ---------------------------
(***************************************************************************)
(* experiments/24_thread_specific_data/main.c: workers race through        *)
(* pthread_once to create one key, each stores a heap block under it, and  *)
(* the key's destructor counts and frees the blocks as the workers exit.   *)
(* Main joins the workers, checks the counts and deletes the key.          *)
(*                                                                         *)
(* pthread_once, the heap and the slots of a key belong to the C library;  *)
(* they are modelled by what this program may expect of them, and every    *)
(* call that may fail may fail here.                                       *)
(***************************************************************************)
EXTENDS Integers

CONSTANT THREAD_COUNT   \* workers (3 in the code)

ASSUME ThreadCountAssumption == THREAD_COUNT \in Nat \ {0}

VARIABLES once,        \* state of key_once: "ready", "running", "done"
          key,         \* value_key: "none", "live", "deleted"
          key_error, key_initialized,
          pc,          \* worker -> what it does next
          slot,        \* worker -> does its slot of the key hold its block?
          block,       \* worker -> its heap block: "none", "held", "freed"
          contextVerified,                    \* worker -> context->verified
          destructor_count, destructor_id_sum,
          main,        \* what main does next
          created, joined, join_failed,
          result,      \* "running", or what the process exited with
          faults       \* history: how many library calls failed

library == <<once, key, key_error, key_initialized>>
heap    == <<slot, block>>
totals  == <<destructor_count, destructor_id_sum>>
mains   == <<main, created, joined, join_failed, result>>
vars    == <<library, pc, heap, contextVerified, totals, mains, faults>>

Workers == 1 .. THREAD_COUNT

Init ==
  /\ once = "ready" /\ key = "none"
  /\ key_error = FALSE /\ key_initialized = FALSE
  /\ pc = [w \in Workers |-> "absent"]
  /\ slot = [w \in Workers |-> FALSE]
  /\ block = [w \in Workers |-> "none"]
  /\ contextVerified = [w \in Workers |-> FALSE]
  /\ destructor_count = 0 /\ destructor_id_sum = 0
  /\ main = "create" /\ created = 0 /\ joined = 0 /\ join_failed = FALSE
  /\ result = "running"
  /\ faults = 0

Running == result = "running"
At(w, l) == Running /\ pc[w] = l
Goto(w, l) == pc' = [pc EXCEPT ![w] = l]
Fault == faults' = faults + 1

-----------------------------------------------------------------------------
(* The workers. *)

(* pthread_once: the first worker runs initialize_key, the others wait for *)
(* it to have returned.  A worker whose call fails ends.                   *)
EnterOnce(w) ==
  /\ At(w, "once")
  /\ \/ /\ once = "ready" /\ once' = "running"
        /\ Goto(w, "initialize_key") /\ UNCHANGED faults
     \/ once = "done" /\ Goto(w, "check_key") /\ UNCHANGED <<once, faults>>
     \/ Goto(w, "exit") /\ Fault /\ UNCHANGED once
  /\ UNCHANGED <<key, key_error, key_initialized, heap, contextVerified,
                 totals, mains>>

(* initialize_key: pthread_key_create may fail. *)
KeyCreate(w) ==
  /\ At(w, "initialize_key")
  /\ \/ key' = "live" /\ key_error' = FALSE /\ UNCHANGED faults
     \/ key' = key /\ key_error' = TRUE /\ Fault
  /\ Goto(w, "key_created")
  /\ UNCHANGED <<once, key_initialized, heap, contextVerified, totals, mains>>

KeyInitialized(w) ==
  /\ At(w, "key_created")
  /\ key_initialized' = ~key_error
  /\ once' = "done"
  /\ Goto(w, "check_key")
  /\ UNCHANGED <<key, key_error, heap, contextVerified, totals, mains, faults>>

CheckKey(w) ==
  /\ At(w, "check_key")
  /\ Goto(w, IF key_error THEN "exit" ELSE "malloc")
  /\ UNCHANGED <<library, heap, contextVerified, totals, mains, faults>>

Malloc(w) ==
  /\ At(w, "malloc")
  /\ \/ /\ block' = [block EXCEPT ![w] = "held"]
        /\ Goto(w, "setspecific")
        /\ UNCHANGED faults
     \/ Goto(w, "exit") /\ Fault /\ UNCHANGED block
  /\ UNCHANGED <<library, slot, contextVerified, totals, mains>>

(* A faulty variant of SetSpecific: a value not stored is forgotten. *)
SetSpecificForgets(w) ==
  /\ At(w, "setspecific")
  /\ \/ /\ slot' = [slot EXCEPT ![w] = TRUE]
        /\ Goto(w, "getspecific") /\ UNCHANGED faults
     \/ Goto(w, "exit") /\ Fault /\ UNCHANGED slot
  /\ UNCHANGED <<library, block, contextVerified, totals, mains>>

(* A value that cannot be stored is freed by the worker itself. *)
SetSpecific(w) ==
  /\ At(w, "setspecific")
  /\ \/ /\ slot' = [slot EXCEPT ![w] = TRUE]
        /\ Goto(w, "getspecific")
        /\ UNCHANGED <<block, faults>>
     \/ /\ block' = [block EXCEPT ![w] = "freed"]
        /\ Goto(w, "exit")
        /\ Fault
        /\ UNCHANGED slot
  /\ UNCHANGED <<library, contextVerified, totals, mains>>

GetSpecific(w) ==
  /\ At(w, "getspecific")
  /\ contextVerified' = [contextVerified EXCEPT
                          ![w] = slot[w] /\ block[w] = "held"]
  /\ Goto(w, "exit")
  /\ UNCHANGED <<library, heap, totals, mains, faults>>

(* Thread exit: the library empties a slot that holds a value of a live    *)
(* key and calls destroy_thread_value on the value.                        *)
ThreadExit(w) ==
  /\ At(w, "exit")
  /\ IF slot[w] /\ key = "live"
     THEN slot' = [slot EXCEPT ![w] = FALSE] /\ Goto(w, "count")
     ELSE Goto(w, "gone") /\ UNCHANGED slot
  /\ UNCHANGED <<library, block, contextVerified, totals, mains, faults>>

(* destroy_thread_value: two separate atomic additions, then free. *)
DestructorCounts(w) ==
  /\ At(w, "count")
  /\ destructor_count' = destructor_count + 1
  /\ Goto(w, "sum")
  /\ UNCHANGED <<library, heap, contextVerified, destructor_id_sum, mains,
                 faults>>

DestructorSums(w) ==
  /\ At(w, "sum")
  /\ destructor_id_sum' = destructor_id_sum + w
  /\ Goto(w, "free")
  /\ UNCHANGED <<library, heap, contextVerified, destructor_count, mains,
                 faults>>

DestructorFrees(w) ==
  /\ At(w, "free")
  /\ block' = [block EXCEPT ![w] = "freed"]
  /\ Goto(w, "exit")
  /\ UNCHANGED <<library, slot, contextVerified, totals, mains, faults>>

-----------------------------------------------------------------------------
(* Main. *)

(* Each worker is created, or the loop breaks off at the first failure. *)
Create ==
  /\ Running /\ main = "create"
  /\ IF created = THREAD_COUNT
     THEN main' = "join" /\ UNCHANGED <<created, pc, faults>>
     ELSE \/ /\ created' = created + 1
             /\ Goto(created + 1, "once")
             /\ UNCHANGED <<main, faults>>
          \/ main' = "join" /\ Fault /\ UNCHANGED <<created, pc>>
  /\ UNCHANGED <<library, heap, contextVerified, totals, joined, join_failed,
                 result>>

(* pthread_join returns once the worker is gone; or with an error at once. *)
Join ==
  /\ Running /\ main = "join"
  /\ IF joined = created
     THEN /\ main' = IF join_failed THEN "retain" ELSE "verify"
          /\ UNCHANGED joined
     ELSE /\ pc[joined + 1] = "gone"
          /\ joined' = joined + 1
          /\ UNCHANGED main
  /\ UNCHANGED <<library, pc, heap, contextVerified, totals, created,
                 join_failed, result, faults>>

(* A faulty variant of JoinFails: the error is ignored. *)
JoinFailsIgnored ==
  /\ Running /\ main = "join" /\ joined < created
  /\ joined' = joined + 1 /\ Fault
  /\ UNCHANGED <<library, pc, heap, contextVerified, totals, main, created,
                 join_failed, result>>

JoinFails ==
  /\ Running /\ main = "join" /\ joined < created
  /\ joined' = joined + 1 /\ join_failed' = TRUE /\ Fault
  /\ UNCHANGED <<library, pc, heap, contextVerified, totals, main, created,
                 result>>

(* A thread may still run: the key is retained and the process fails. *)
Retain ==
  /\ Running /\ main = "retain"
  /\ result' = "EXIT_FAILURE"
  /\ UNCHANGED <<library, pc, heap, contextVerified, totals, main, created,
                 joined, join_failed, faults>>

(* A faulty variant of Verified: the threads created are all it expects. *)
VerifiedOfCreated ==
  /\ \A w \in 1 .. created : contextVerified[w]
  /\ key_initialized /\ ~key_error
  /\ destructor_count = created
  /\ destructor_id_sum = (created * (created + 1)) \div 2

Verified ==
  /\ created = THREAD_COUNT
  /\ \A w \in 1 .. created : contextVerified[w]
  /\ key_initialized /\ ~key_error
  /\ destructor_count = THREAD_COUNT
  /\ destructor_id_sum = (THREAD_COUNT * (THREAD_COUNT + 1)) \div 2

(* The counts are checked and the key, if there is one, is deleted. *)
VerifyAndDelete ==
  /\ Running /\ main = "verify"
  /\ \/ /\ key_error \/ ~key_initialized
        /\ result' = "EXIT_FAILURE"
        /\ UNCHANGED <<key, faults>>
     \/ /\ ~key_error /\ key_initialized
        /\ \/ /\ key' = "deleted"
              /\ result' = IF Verified THEN "EXIT_SUCCESS" ELSE "EXIT_FAILURE"
              /\ UNCHANGED faults
           \/ result' = "EXIT_FAILURE" /\ Fault /\ UNCHANGED key
  /\ UNCHANGED <<once, key_error, key_initialized, pc, heap, contextVerified,
                 totals, main, created, joined, join_failed>>

Exited == ~Running /\ UNCHANGED vars

WorkerStep(w) ==
  \/ EnterOnce(w) \/ KeyCreate(w) \/ KeyInitialized(w) \/ CheckKey(w)
  \/ Malloc(w) \/ SetSpecific(w) \/ GetSpecific(w)
  \/ ThreadExit(w)
  \/ DestructorCounts(w) \/ DestructorSums(w) \/ DestructorFrees(w)

MainStep == Create \/ Join \/ Retain \/ VerifyAndDelete

Next == (\E w \in Workers : WorkerStep(w)) \/ MainStep \/ JoinFails \/ Exited

Spec == Init /\ [][Next]_vars

-----------------------------------------------------------------------------
(* Properties. *)

TypeOK ==
  /\ once \in {"ready", "running", "done"}
  /\ key \in {"none", "live", "deleted"}
  /\ key_error \in BOOLEAN /\ key_initialized \in BOOLEAN
  /\ pc \in [Workers -> {"absent", "once", "initialize_key", "key_created",
                         "check_key", "malloc", "setspecific", "getspecific",
                         "exit", "count", "sum", "free", "gone"}]
  /\ slot \in [Workers -> BOOLEAN]
  /\ block \in [Workers -> {"none", "held", "freed"}]
  /\ contextVerified \in [Workers -> BOOLEAN]
  /\ destructor_count \in Nat /\ destructor_id_sum \in Nat
  /\ main \in {"create", "join", "retain", "verify"}
  /\ created \in 0 .. THREAD_COUNT /\ joined \in 0 .. created
  /\ join_failed \in BOOLEAN
  /\ result \in {"running", "EXIT_SUCCESS", "EXIT_FAILURE"}
  /\ faults \in Nat

(* Each block is freed exactly once: a slot or a destructor call stands    *)
(* for a block that is allocated and not yet freed, also after a failed    *)
(* pthread_setspecific, and a worker that is gone has left no block behind *)
(* (lines 25-33, 53-57).                                                   *)
BlocksFreedOnce ==
  \A w \in Workers :
    /\ slot[w] \/ pc[w] \in {"setspecific", "count", "sum", "free"}
         => block[w] = "held"
    /\ pc[w] = "gone" => block[w] # "held"

(* The key is deleted only when no worker can use it or still owes it a    *)
(* destructor call (lines 81-99, 114-125).                                 *)
KeyOutlivesWorkers ==
  key = "deleted" => \A w \in Workers : pc[w] \in {"absent", "gone"}

(* The program succeeds when no call failed, and only then (lines 101-128). *)
SuccessIffNoFault ==
  ~Running => (result = "EXIT_SUCCESS" <=> faults = 0)

=============================================================================
