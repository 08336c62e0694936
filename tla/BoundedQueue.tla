---------------------------- MODULE BoundedQueue ----------------------------
(***************************************************************************)
(* experiments/07_threads/main.c: a producer thread and a consumer thread  *)
(* share a ring buffer under one mutex and two condition variables; main   *)
(* creates both, joins both, checks the totals and destroys the            *)
(* synchronisation objects.                                                *)
(*                                                                         *)
(* A thread's pc names the call it is about to make.  The test of the      *)
(* while loop and the critical section behind it are separate steps, so    *)
(* the mutex, and not the grain of the model, keeps them together.         *)
(***************************************************************************)
EXTENDS Integers, Sequences

CONSTANTS QUEUE_CAPACITY,   \* slots of the ring buffer (4 in the code)
          ITEM_COUNT        \* items sent (20 in the code)

ASSUME CapacityAssumption == QUEUE_CAPACITY \in Nat \ {0}
ASSUME ItemCountAssumption == ITEM_COUNT \in Nat \ {0}

VARIABLES items, head, tail, count,          \* the ring buffer
          produced, consumed, consumed_sum,  \* what main verifies
          mutex,      \* the thread that holds queue.mutex, or "free"
          waiters,    \* condition variable -> threads blocked on it
          pc,         \* thread -> the call it makes next
          loop,       \* thread -> its for variable (value, index)
          main,       \* the call main makes next
          status      \* "running", or what the process exited with

ring   == <<items, head, tail, count>>
totals == <<produced, consumed, consumed_sum>>
vars   == <<items, head, tail, count, produced, consumed, consumed_sum,
            mutex, waiters, pc, loop, main, status>>

Threads    == {"producer", "consumer"}
Conditions == {"not_full", "not_empty"}
Slots      == 0 .. QUEUE_CAPACITY - 1

(* The condition a thread waits for, and the one it signals. *)
Awaits ==
  [t \in Threads |-> IF t = "producer" THEN "not_full" ELSE "not_empty"]

(* A faulty variant of Announces: each signals the condition it waits for. *)
AnnouncesOwn == Awaits

Announces ==
  [t \in Threads |-> IF t = "producer" THEN "not_empty" ELSE "not_full"]

(* A faulty variant of MustWait: the bound of the ring is off by one. *)
MustWaitTooLate(t) ==
  \/ t = "producer" /\ count = QUEUE_CAPACITY + 1
  \/ t = "consumer" /\ count = 0

(* The condition of each while loop. *)
MustWait(t) ==
  \/ t = "producer" /\ count = QUEUE_CAPACITY
  \/ t = "consumer" /\ count = 0

(* The for loop is over. *)
LoopEnds(t, i) ==
  \/ t = "producer" /\ i = ITEM_COUNT + 1
  \/ t = "consumer" /\ i = ITEM_COUNT

Init ==
  /\ items = [s \in Slots |-> 0]
  /\ head = 0 /\ tail = 0 /\ count = 0
  /\ produced = 0 /\ consumed = 0 /\ consumed_sum = 0
  /\ mutex = "free"
  /\ waiters = [c \in Conditions |-> {}]
  /\ pc = [t \in Threads |-> "none"]
  /\ loop = [t \in Threads |-> IF t = "producer" THEN 1 ELSE 0]
  /\ main = "create_producer"
  /\ status = "running"

-----------------------------------------------------------------------------
(* The steps of a thread. *)

(* The call `from' of t is over and t goes on to `to'. *)
Moves(t, from, to) ==
  status = "running" /\ pc[t] = from /\ pc' = [pc EXCEPT ![t] = to]

Acquire(t) == mutex = "free" /\ mutex' = t

Lock(t) ==
  /\ Moves(t, "lock", "test") /\ Acquire(t)
  /\ UNCHANGED <<ring, totals, waiters, loop, main, status>>

(* The loop test succeeds, and pthread_cond_wait releases the mutex and    *)
(* blocks in one step.                                                     *)
Wait(t) ==
  /\ Moves(t, "test", "relock") /\ MustWait(t)
  /\ mutex' = "free"
  /\ waiters' = [waiters EXCEPT ![Awaits[t]] = @ \cup {t}]
  /\ UNCHANGED <<ring, totals, loop, main, status>>

(* POSIX lets pthread_cond_wait return with nobody having signalled. *)
WakeSpuriously(t) ==
  /\ status = "running" /\ t \in waiters[Awaits[t]]
  /\ waiters' = [waiters EXCEPT ![Awaits[t]] = @ \ {t}]
  /\ UNCHANGED <<ring, totals, mutex, pc, loop, main, status>>

(* A faulty variant of Relock: if instead of while. *)
RelockTestsOnce(t) ==
  /\ t \notin waiters[Awaits[t]]
  /\ Moves(t, "relock", "update") /\ Acquire(t)
  /\ UNCHANGED <<ring, totals, waiters, loop, main, status>>

(* pthread_cond_wait returns with the mutex; the loop tests again. *)
Relock(t) ==
  /\ t \notin waiters[Awaits[t]]
  /\ Moves(t, "relock", "test") /\ Acquire(t)
  /\ UNCHANGED <<ring, totals, waiters, loop, main, status>>

LeaveLoop(t) ==
  /\ Moves(t, "test", "update") /\ ~MustWait(t)
  /\ UNCHANGED <<ring, totals, mutex, waiters, loop, main, status>>

Enqueue ==
  /\ Moves("producer", "update", "signal")
  /\ items' = [items EXCEPT ![tail] = loop["producer"]]
  /\ tail' = (tail + 1) % QUEUE_CAPACITY
  /\ count' = count + 1 /\ produced' = produced + 1
  /\ UNCHANGED <<head, consumed, consumed_sum, mutex, waiters, loop, main,
                 status>>

Dequeue ==
  /\ Moves("consumer", "update", "signal")
  /\ head' = (head + 1) % QUEUE_CAPACITY
  /\ count' = count - 1 /\ consumed' = consumed + 1
  /\ consumed_sum' = consumed_sum + items[head]
  /\ UNCHANGED <<items, tail, produced, mutex, waiters, loop, main, status>>

(* pthread_cond_signal unblocks a waiter; without one it does nothing. *)
Signal(t) ==
  /\ Moves(t, "signal", "unlock")
  /\ \/ waiters[Announces[t]] = {} /\ UNCHANGED waiters
     \/ \E u \in waiters[Announces[t]] :
          waiters' = [waiters EXCEPT ![Announces[t]] = @ \ {u}]
  /\ UNCHANGED <<ring, totals, mutex, loop, main, status>>

(* The mutex is released and the for loop steps, or ends. *)
Unlock(t) ==
  /\ Moves(t, "unlock", IF LoopEnds(t, loop[t] + 1) THEN "returned" ELSE "lock")
  /\ mutex' = "free"
  /\ loop' = [loop EXCEPT ![t] = @ + 1]
  /\ UNCHANGED <<ring, totals, waiters, main, status>>

-----------------------------------------------------------------------------
(* The steps of main. *)

(* pthread_create: the thread starts at its first lock call.  An error     *)
(* makes check_pthread exit, which ends the other thread with the process. *)
Create(t, here, next) ==
  /\ Moves(t, "none", "lock")
  /\ main = here /\ main' = next
  /\ UNCHANGED <<ring, totals, mutex, waiters, loop, status>>

CreateFails ==
  /\ status = "running" /\ status' = "EXIT_FAILURE"
  /\ main \in {"create_producer", "create_consumer"}
  /\ UNCHANGED <<ring, totals, mutex, waiters, pc, loop, main>>

(* A faulty variant of Join: pthread_detach. *)
JoinDetaches(t, here, next) ==
  /\ status = "running"
  /\ main = here /\ main' = next
  /\ UNCHANGED <<ring, totals, mutex, waiters, pc, loop, status>>

Join(t, here, next) ==
  /\ status = "running" /\ pc[t] = "returned"
  /\ main = here /\ main' = next
  /\ UNCHANGED <<ring, totals, mutex, waiters, pc, loop, status>>

Verified ==
  /\ produced = ITEM_COUNT /\ consumed = ITEM_COUNT /\ count = 0
  /\ consumed_sum = (ITEM_COUNT * (ITEM_COUNT + 1)) \div 2

(* The totals are read without the mutex, the objects destroyed. *)
Verify ==
  /\ status = "running" /\ main = "verify"
  /\ status' = IF Verified THEN "EXIT_SUCCESS" ELSE "EXIT_FAILURE"
  /\ UNCHANGED <<ring, totals, mutex, waiters, pc, loop, main>>

(* The process is gone: nothing happens any more. *)
Exited == status # "running" /\ UNCHANGED vars

ThreadStep(t) ==
  \/ Lock(t) \/ Wait(t) \/ Relock(t) \/ LeaveLoop(t)
  \/ t = "producer" /\ Enqueue
  \/ t = "consumer" /\ Dequeue
  \/ Signal(t) \/ Unlock(t)

MainStep ==
  \/ Create("producer", "create_producer", "create_consumer")
  \/ Create("consumer", "create_consumer", "join_producer")
  \/ Join("producer", "join_producer", "join_consumer")
  \/ Join("consumer", "join_consumer", "verify")
  \/ Verify

Next ==
  \/ \E t \in Threads : ThreadStep(t) \/ WakeSpuriously(t)
  \/ MainStep
  \/ CreateFails
  \/ Exited

Spec == Init /\ [][Next]_vars

(* The kernel runs every runnable thread, and a mutex that is released    *)
(* again and again is in the end given to each thread that asks for it.    *)
(* Nothing makes a spurious wakeup or a failing pthread_create happen.     *)
Fairness ==
  /\ WF_vars(MainStep)
  /\ \A t \in Threads :
       /\ WF_vars(ThreadStep(t))
       /\ SF_vars(Lock(t))
       /\ SF_vars(Relock(t))

FairSpec == Spec /\ Fairness

-----------------------------------------------------------------------------
(* Properties. *)

TypeOK ==
  /\ items \in [Slots -> 0 .. ITEM_COUNT]
  /\ head \in Slots
  /\ tail \in Slots
  /\ count \in 0 .. QUEUE_CAPACITY
  /\ produced \in 0 .. ITEM_COUNT
  /\ consumed \in 0 .. ITEM_COUNT
  /\ consumed_sum \in Nat
  /\ mutex \in Threads \cup {"free"}
  /\ waiters \in [Conditions -> SUBSET Threads]
  /\ pc \in [Threads -> {"none", "lock", "test", "relock", "update",
                         "signal", "unlock", "returned"}]
  /\ loop \in [Threads -> 0 .. ITEM_COUNT + 1]
  /\ main \in {"create_producer", "create_consumer", "join_producer",
               "join_consumer", "verify"}
  /\ status \in {"running", "EXIT_SUCCESS", "EXIT_FAILURE"}

Slot(i) == (head + i) % QUEUE_CAPACITY

(* The queue holds exactly the items produced and not yet consumed, oldest *)
(* first and from head on: no item is overwritten, lost, doubled or        *)
(* reordered by lines 41-44 and 64-68, whatever the interleaving.          *)
RingHoldsBacklog ==
  /\ produced = consumed + count
  /\ tail = Slot(count)
  /\ \A i \in 0 .. QUEUE_CAPACITY - 1 :
       i < count => items[Slot(i)] = consumed + i + 1

(* A thread is blocked on its condition only while that condition is       *)
(* false, or while the other thread, having made it true, still has to     *)
(* signal: no wakeup is lost between lines 36-39 and 70-71, 59-62 and      *)
(* 46-47.                                                                  *)
NoLostWakeup ==
  /\ "producer" \in waiters["not_full"] =>
       count = QUEUE_CAPACITY \/ pc["consumer"] = "signal"
  /\ "consumer" \in waiters["not_empty"] =>
       count = 0 \/ pc["producer"] = "signal"

(* When main reads the totals without a lock and destroys the objects      *)
(* (lines 94-104), nobody holds the mutex, nobody waits, and the queue is  *)
(* drained.                                                                *)
QuietAtDestroy ==
  main = "verify" =>
    /\ mutex = "free"
    /\ \A c \in Conditions : waiters[c] = {}
    /\ Verified

(* The only way to EXIT_FAILURE is a pthread_create that fails: once both  *)
(* threads run, the verification of lines 94-97 succeeds.                  *)
FailureOnlyFromCreate ==
  status = "EXIT_FAILURE" => main \in {"create_producer", "create_consumer"}

(* The threads and main come to an end (lines 91-105). *)
Termination == <>(status # "running")

(* The inductive invariant behind the properties above. *)

(* pthread_cond_wait and the lock and unlock calls bracket every access.   *)
LockDiscipline ==
  \A t \in Threads :
    /\ mutex = t <=> pc[t] \in {"test", "update", "signal", "unlock"}
    /\ \A c \in Conditions :
         t \in waiters[c] => c = Awaits[t] /\ pc[t] = "relock"
    /\ pc[t] = "update" => ~MustWait(t)

(* The for variables count what was produced and consumed. *)
LoopsCount ==
  /\ loop["producer"] = IF pc["producer"] \in {"signal", "unlock"}
                        THEN produced ELSE produced + 1
  /\ loop["consumer"] = IF pc["consumer"] \in {"signal", "unlock"}
                        THEN consumed - 1 ELSE consumed
  /\ \A t \in Threads : pc[t] = "returned" <=> LoopEnds(t, loop[t])

SumIsGauss == 2 * consumed_sum = consumed * (consumed + 1)

MainFollowsThreads ==
  /\ main = "create_producer" => pc["producer"] = "none"
  /\ main \in {"create_producer", "create_consumer"} => pc["consumer"] = "none"
  /\ main \in {"join_consumer", "verify"} => pc["producer"] = "returned"
  /\ main = "verify" => pc["consumer"] = "returned"

(* Conjunction of the parts above: every step preserves it, which the      *)
(* properties alone do not give (lines 31-106).                            *)
InductiveInvariant ==
  /\ TypeOK
  /\ LockDiscipline
  /\ LoopsCount
  /\ SumIsGauss
  /\ MainFollowsThreads
  /\ RingHoldsBacklog
  /\ NoLostWakeup
  /\ FailureOnlyFromCreate

(* The ring buffer is a bounded FIFO of 1, 2, ..., ITEM_COUNT (lines 31-76). *)
Backlog == [i \in 1 .. count |-> items[Slot(i - 1)]]

Fifo == INSTANCE BoundedFifo WITH
          Capacity  <- QUEUE_CAPACITY,
          ItemCount <- ITEM_COUNT,
          buffer    <- Backlog,
          total     <- consumed_sum

ImplementsFifo == Fifo!FifoSpec
=============================================================================
