------------------------- MODULE BoundedQueueProofs -------------------------
(***************************************************************************)
(* Proofs about BoundedQueue, for every capacity and every number of items. *)
(***************************************************************************)
EXTENDS BoundedQueue, TLAPS

(* An index inside the ring is its own remainder. *)
LEMMA ModBelow ==
  ASSUME NEW c \in Nat \ {0}, NEW a \in 0 .. c - 1
  PROVE  a % c = a
  OBVIOUS

(* Where the slot at offset i from h lies (lines 42 and 66). *)
LEMMA SlotValue ==
  ASSUME NEW c \in Nat \ {0}, NEW h \in 0 .. c - 1, NEW i \in 0 .. c
  PROVE  /\ (h + i) % c = IF h + i < c THEN h + i ELSE h + i - c
         /\ (h + i) % c \in 0 .. c - 1
  OBVIOUS

(* Two offsets below the capacity name different slots. *)
LEMMA SlotsDiffer ==
  ASSUME NEW c \in Nat \ {0}, NEW h \in 0 .. c - 1,
         NEW i \in 0 .. c - 1, NEW j \in 0 .. c - 1, i # j
  PROVE  (h + i) % c # (h + j) % c
  OBVIOUS

(* Advancing the start of the ring by one slot shifts every offset by one. *)
LEMMA SlotShift ==
  ASSUME NEW c \in Nat \ {0}, NEW h \in 0 .. c - 1, NEW i \in 0 .. c - 1
  PROVE  (((h + 1) % c) + i) % c = (h + (i + 1)) % c
<1>1. (h + 1) % c = IF h + 1 < c THEN h + 1 ELSE 0
  OBVIOUS
<1>2. CASE h + 1 < c
  BY <1>1, <1>2
<1>3. CASE ~(h + 1 < c)
  <2>1. (0 + i) % c = i
    OBVIOUS
  <2>2. (h + (i + 1)) % c = i
    BY <1>3
  <2>. QED  BY <1>1, <1>3, <2>1, <2>2
<1>. QED  BY <1>2, <1>3

(* The slot after the one at offset i is the one at offset i + 1. *)
LEMMA SlotNext ==
  ASSUME NEW c \in Nat \ {0}, NEW h \in 0 .. c - 1, NEW i \in 0 .. c - 1
  PROVE  (((h + i) % c) + 1) % c = (h + (i + 1)) % c
<1>1. CASE h + i < c
  <2>1. (h + i) % c = h + i
    BY <1>1
  <2>. QED  BY <2>1
<1>2. CASE ~(h + i < c)
  <2>1. (h + i) % c = h + i - c
    BY <1>2
  <2>2. (h + (i + 1)) % c = h + i + 1 - c
    BY <1>2
  <2>3. (h + i - c + 1) % c = h + i + 1 - c
    BY <1>2
  <2>. QED  BY <2>1, <2>2, <2>3
<1>. QED  BY <1>1, <1>2

(* The static initialiser of queue establishes the invariant (lines 79-83). *)
LEMMA InitEstablishes == Init => InductiveInvariant
<1>. SUFFICES ASSUME Init PROVE InductiveInvariant
  OBVIOUS
<1>. USE CapacityAssumption, ItemCountAssumption
     DEF Init, Slots, Threads, Conditions, MustWait, LoopEnds
<1>1. TypeOK
  BY DEF TypeOK
<1>2. LockDiscipline
  BY DEF LockDiscipline
<1>3. LoopsCount
  BY DEF LoopsCount
<1>4. SumIsGauss
  BY DEF SumIsGauss
<1>5. MainFollowsThreads
  BY DEF MainFollowsThreads
<1>6. RingHoldsBacklog
  BY DEF RingHoldsBacklog, Slot
<1>7. NoLostWakeup
  BY DEF NoLostWakeup
<1>8. FailureOnlyFromCreate
  BY DEF FailureOnlyFromCreate
<1>. QED  BY <1>1, <1>2, <1>3, <1>4, <1>5, <1>6, <1>7, <1>8
          DEF InductiveInvariant
-----------------------------------------------------------------------------
(* Every step preserves the invariant. *)

(* The steps that only move a thread: they touch the mutex, the wait sets  *)
(* and the pc, and none of the data.                                       *)
LEMMA SynchronisationPreserves ==
  ASSUME InductiveInvariant, NEW t \in Threads,
         \/ Lock(t) \/ Wait(t) \/ WakeSpuriously(t) \/ Relock(t)
         \/ LeaveLoop(t) \/ Signal(t)
  PROVE  InductiveInvariant'
<1>. USE CapacityAssumption, ItemCountAssumption
     DEF InductiveInvariant, Threads, Conditions, MustWait, LoopEnds,
         Lock, Wait, WakeSpuriously, Relock, LeaveLoop, Signal, Moves,
         Acquire, ring, totals, Awaits, Announces
<1>1. TypeOK'
  BY DEF TypeOK
<1>2. LockDiscipline'
  BY DEF TypeOK, LockDiscipline
<1>3. LoopsCount'
  BY DEF TypeOK, LoopsCount
<1>4. SumIsGauss'
  BY DEF SumIsGauss
<1>5. MainFollowsThreads'
  BY DEF TypeOK, MainFollowsThreads
<1>6. RingHoldsBacklog'
  BY DEF RingHoldsBacklog, Slot
<1>7. NoLostWakeup'
  BY DEF TypeOK, LockDiscipline, NoLostWakeup
<1>8. FailureOnlyFromCreate'
  BY DEF FailureOnlyFromCreate
<1>. HIDE CapacityAssumption, ItemCountAssumption
     DEF Threads, Conditions, MustWait, LoopEnds, Lock, Wait, WakeSpuriously,
         Relock, LeaveLoop, Signal, Moves, Acquire, ring, totals, Awaits,
         Announces
<1>. QED  BY <1>1, <1>2, <1>3, <1>4, <1>5, <1>6, <1>7, <1>8
          DEF InductiveInvariant

(* Lines 41-44: the slot written is the first free one, behind the backlog. *)
LEMMA EnqueuePreserves ==
  ASSUME InductiveInvariant, Enqueue
  PROVE  InductiveInvariant'
<1>. USE CapacityAssumption, ItemCountAssumption
     DEF InductiveInvariant, Threads, Conditions, MustWait, LoopEnds, Enqueue,
         Moves, Slots
<1>1. /\ mutex = "producer" /\ pc["producer"] = "update"
      /\ count < QUEUE_CAPACITY
      /\ loop["producer"] = produced + 1
      /\ produced < ITEM_COUNT
  BY DEF TypeOK, LockDiscipline, LoopsCount
<1>2. TypeOK'
  <2>1. tail' \in Slots
    BY DEF TypeOK
  <2>. QED  BY <1>1, <2>1 DEF TypeOK
<1>3. LockDiscipline'
  BY <1>1 DEF TypeOK, LockDiscipline
<1>4. LoopsCount'
  BY <1>1 DEF TypeOK, LoopsCount
<1>5. SumIsGauss'
  BY DEF SumIsGauss
<1>6. MainFollowsThreads'
  BY <1>1 DEF TypeOK, MainFollowsThreads
<1>7. RingHoldsBacklog'
  <2>1. count \in 0 .. QUEUE_CAPACITY - 1 /\ head \in 0 .. QUEUE_CAPACITY - 1
    BY <1>1 DEF TypeOK
  <2>2. tail = Slot(count)
    BY DEF RingHoldsBacklog
  <2>3. tail' = Slot(count)'
    BY <2>1, <2>2, SlotNext DEF Slot
  <2>4. \A i : Slot(i)' = Slot(i)
    BY DEF Slot
  <2>5. ASSUME NEW i \in 0 .. QUEUE_CAPACITY - 1, i < count'
        PROVE  items'[Slot(i)'] = consumed' + i + 1
    <3>1. CASE i = count
      <4>1. items'[tail] = produced + 1
        BY <1>1 DEF TypeOK
      <4>. QED  BY <2>2, <2>4, <3>1, <4>1 DEF RingHoldsBacklog, TypeOK
    <3>2. CASE i # count
      <4>1. i < count
        BY <2>5, <3>2 DEF TypeOK
      <4>2. Slot(i) # tail
        BY <2>1, <2>2, <3>2, SlotsDiffer DEF Slot
      <4>3. Slot(i) \in Slots
        BY <2>1, SlotValue DEF Slot
      <4>. QED  BY <2>4, <4>1, <4>2, <4>3 DEF RingHoldsBacklog, TypeOK
    <3>. QED  BY <3>1, <3>2
  <2>6. produced' = consumed' + count'
    BY DEF RingHoldsBacklog, TypeOK
  <2>. QED  BY <2>3, <2>5, <2>6 DEF RingHoldsBacklog
<1>8. NoLostWakeup'
  BY <1>1 DEF TypeOK, LockDiscipline, NoLostWakeup
<1>9. FailureOnlyFromCreate'
  BY DEF FailureOnlyFromCreate
<1>. HIDE CapacityAssumption, ItemCountAssumption
     DEF Threads, Conditions, MustWait, LoopEnds, Enqueue, Moves, Slots
<1>. QED  BY <1>2, <1>3, <1>4, <1>5, <1>6, <1>7, <1>8, <1>9
          DEF InductiveInvariant

(* Lines 64-68: the slot read holds the integer after the last consumed. *)
LEMMA DequeuePreserves ==
  ASSUME InductiveInvariant, Dequeue
  PROVE  InductiveInvariant'
<1>. USE CapacityAssumption, ItemCountAssumption
     DEF InductiveInvariant, Threads, Conditions, MustWait, LoopEnds, Dequeue,
         Moves, Slots
<1>1. /\ mutex = "consumer" /\ pc["consumer"] = "update"
      /\ count > 0
      /\ loop["consumer"] = consumed
      /\ consumed < ITEM_COUNT
  BY DEF TypeOK, LockDiscipline, LoopsCount
<1>2. items[head] = consumed + 1
  <2>1. Slot(0) = head
    <3>1. head \in 0 .. QUEUE_CAPACITY - 1
      BY DEF TypeOK
    <3>2. head + 0 = head
      BY <3>1
    <3>. QED  BY <3>1, <3>2, ModBelow DEF Slot
  <2>2. 0 \in 0 .. QUEUE_CAPACITY - 1 /\ 0 < count
    BY <1>1 DEF TypeOK
  <2>3. items[Slot(0)] = consumed + 0 + 1
    BY <2>2 DEF RingHoldsBacklog
  <2>. QED  BY <2>1, <2>3 DEF TypeOK
<1>3. TypeOK'
  <2>1. head' \in Slots
    BY DEF TypeOK
  <2>. QED  BY <1>1, <1>2, <2>1 DEF TypeOK
<1>4. LockDiscipline'
  BY <1>1 DEF TypeOK, LockDiscipline
<1>5. LoopsCount'
  BY <1>1 DEF TypeOK, LoopsCount
<1>6. SumIsGauss'
  BY <1>2 DEF SumIsGauss, TypeOK
<1>7. MainFollowsThreads'
  BY <1>1 DEF TypeOK, MainFollowsThreads
<1>8. RingHoldsBacklog'
  <2>1. head \in 0 .. QUEUE_CAPACITY - 1
    BY DEF TypeOK
  <2>2. ASSUME NEW i \in 0 .. QUEUE_CAPACITY - 1
        PROVE  Slot(i)' = Slot(i + 1)
    BY <2>1, SlotShift DEF Slot
  <2>3. count' \in 0 .. QUEUE_CAPACITY - 1
    BY <1>1 DEF TypeOK
  <2>4. tail' = Slot(count)'
    <3>1. ASSUME NEW k \in 0 .. QUEUE_CAPACITY - 1, k + 1 = count
          PROVE  tail = Slot(k)'
      BY <2>2, <3>1 DEF RingHoldsBacklog
    <3>2. PICK k \in 0 .. QUEUE_CAPACITY - 1 : k = count'
      BY <2>3
    <3>3. tail = Slot(k)'
      BY <3>1, <3>2 DEF TypeOK
    <3>. QED  BY <3>2, <3>3 DEF Slot
  <2>5. ASSUME NEW i \in 0 .. QUEUE_CAPACITY - 1, i < count'
        PROVE  items'[Slot(i)'] = consumed' + i + 1
    <3>1. i + 1 \in 0 .. QUEUE_CAPACITY - 1 /\ i + 1 < count
      BY <2>5 DEF TypeOK
    <3>2. items[Slot(i + 1)] = consumed + (i + 1) + 1
      BY <3>1 DEF RingHoldsBacklog
    <3>3. items'[Slot(i)'] = items[Slot(i + 1)]
      BY <2>2
    <3>4. consumed' + i + 1 = consumed + (i + 1) + 1
      BY DEF TypeOK
    <3>. HIDE DEF InductiveInvariant, Dequeue
    <3>. QED  BY <3>2, <3>3, <3>4
  <2>6. produced' = consumed' + count'
    BY DEF RingHoldsBacklog, TypeOK
  <2>. QED  BY <2>4, <2>5, <2>6 DEF RingHoldsBacklog
<1>9. NoLostWakeup'
  BY <1>1 DEF TypeOK, LockDiscipline, NoLostWakeup
<1>10. FailureOnlyFromCreate'
  BY DEF FailureOnlyFromCreate
<1>. HIDE CapacityAssumption, ItemCountAssumption
     DEF Threads, Conditions, MustWait, LoopEnds, Dequeue, Moves, Slots
<1>. QED  BY <1>3, <1>4, <1>5, <1>6, <1>7, <1>8, <1>9, <1>10
          DEF InductiveInvariant

(* Lines 48 and 72 with the step of the for loop. *)
LEMMA UnlockPreserves ==
  ASSUME InductiveInvariant, NEW t \in Threads, Unlock(t)
  PROVE  InductiveInvariant'
<1>. USE CapacityAssumption, ItemCountAssumption
     DEF InductiveInvariant, Threads, Conditions, MustWait, LoopEnds, Unlock,
         Moves, ring, totals
<1>1. TypeOK'
  BY DEF TypeOK, LoopsCount
<1>2. LockDiscipline'
  BY DEF TypeOK, LockDiscipline
<1>3. LoopsCount'
  BY DEF TypeOK, LoopsCount
<1>4. SumIsGauss'
  BY DEF SumIsGauss
<1>5. MainFollowsThreads'
  BY DEF TypeOK, MainFollowsThreads
<1>6. RingHoldsBacklog'
  BY DEF RingHoldsBacklog, Slot
<1>7. NoLostWakeup'
  BY DEF TypeOK, LockDiscipline, NoLostWakeup
<1>8. FailureOnlyFromCreate'
  BY DEF FailureOnlyFromCreate
<1>. HIDE CapacityAssumption, ItemCountAssumption
     DEF Threads, Conditions, MustWait, LoopEnds, Unlock, Moves, ring, totals
<1>. QED  BY <1>1, <1>2, <1>3, <1>4, <1>5, <1>6, <1>7, <1>8
          DEF InductiveInvariant

(* Lines 94-104: both threads have returned, each after its last round. *)
LEMMA InvariantGivesQuiet == InductiveInvariant => QuietAtDestroy
<1>. SUFFICES ASSUME InductiveInvariant, main = "verify"
              PROVE  /\ mutex = "free"
                     /\ \A c \in Conditions : waiters[c] = {}
                     /\ Verified
  BY DEF QuietAtDestroy
<1>. USE CapacityAssumption, ItemCountAssumption
     DEF InductiveInvariant, Threads
<1>1. \A t \in Threads : pc[t] = "returned"
  BY DEF MainFollowsThreads
<1>2. mutex = "free"
  BY <1>1 DEF TypeOK, LockDiscipline
<1>3. \A c \in Conditions : waiters[c] = {}
  BY <1>1 DEF TypeOK, LockDiscipline
<1>4. produced = ITEM_COUNT /\ consumed = ITEM_COUNT
  BY <1>1 DEF TypeOK, LoopsCount, LoopEnds
<1>5. count = 0
  BY <1>4 DEF TypeOK, RingHoldsBacklog
<1>6. consumed_sum = (ITEM_COUNT * (ITEM_COUNT + 1)) \div 2
  BY <1>4 DEF TypeOK, SumIsGauss
<1>. QED  BY <1>2, <1>3, <1>4, <1>5, <1>6 DEF Verified

(* Lines 87-105: main touches none of the data the threads share. *)
LEMMA MainPreserves ==
  ASSUME InductiveInvariant, MainStep \/ CreateFails
  PROVE  InductiveInvariant'
<1>. USE CapacityAssumption, ItemCountAssumption
     DEF InductiveInvariant, Threads, Conditions, MustWait, LoopEnds,
         MainStep, CreateFails, Create, Join, Verify, Moves, ring, totals
<1>1. TypeOK'
  BY DEF TypeOK
<1>2. LockDiscipline'
  BY DEF TypeOK, LockDiscipline, MainFollowsThreads
<1>3. LoopsCount'
  BY DEF TypeOK, LoopsCount, MainFollowsThreads
<1>4. SumIsGauss'
  BY DEF SumIsGauss
<1>5. MainFollowsThreads'
  BY DEF TypeOK, MainFollowsThreads
<1>6. RingHoldsBacklog'
  BY DEF RingHoldsBacklog, Slot
<1>7. NoLostWakeup'
  BY DEF TypeOK, LockDiscipline, NoLostWakeup, MainFollowsThreads
<1>8. FailureOnlyFromCreate'
  BY InvariantGivesQuiet DEF FailureOnlyFromCreate, QuietAtDestroy
<1>. HIDE CapacityAssumption, ItemCountAssumption
     DEF Threads, Conditions, MustWait, LoopEnds, MainStep, CreateFails,
         Create, Join, Verify, Moves, ring, totals
<1>. QED  BY <1>1, <1>2, <1>3, <1>4, <1>5, <1>6, <1>7, <1>8
          DEF InductiveInvariant

(* A step that changes no variable keeps every part of the invariant.      *)
LEMMA StutterPreserves ==
  ASSUME InductiveInvariant, UNCHANGED vars
  PROVE  InductiveInvariant'
<1>. USE DEF InductiveInvariant, vars, MustWait, LoopEnds
<1>1. TypeOK'
  BY DEF TypeOK
<1>2. LockDiscipline'
  BY DEF LockDiscipline
<1>3. LoopsCount'
  BY DEF LoopsCount
<1>4. SumIsGauss'
  BY DEF SumIsGauss
<1>5. MainFollowsThreads'
  BY DEF MainFollowsThreads
<1>6. RingHoldsBacklog'
  BY DEF RingHoldsBacklog, Slot
<1>7. NoLostWakeup'
  BY DEF NoLostWakeup
<1>8. FailureOnlyFromCreate'
  BY DEF FailureOnlyFromCreate
<1>. HIDE DEF vars, MustWait, LoopEnds
<1>. QED  BY <1>1, <1>2, <1>3, <1>4, <1>5, <1>6, <1>7, <1>8
          DEF InductiveInvariant

(* Every step of the program keeps the invariant (lines 31-106). *)
LEMMA StepPreserves ==
  ASSUME InductiveInvariant, [Next]_vars
  PROVE  InductiveInvariant'
<1>1. ASSUME NEW t \in Threads, ThreadStep(t) \/ WakeSpuriously(t)
      PROVE  InductiveInvariant'
  BY <1>1, SynchronisationPreserves, EnqueuePreserves, DequeuePreserves,
     UnlockPreserves
     DEF ThreadStep
<1>2. CASE MainStep \/ CreateFails
  BY <1>2, MainPreserves
<1>3. CASE Exited \/ UNCHANGED vars
  BY <1>3, StutterPreserves DEF Exited
<1>. QED  BY <1>1, <1>2, <1>3 DEF Next

-----------------------------------------------------------------------------
(* The theorems. *)

(* The invariant holds in every reachable state of the program, for every  *)
(* capacity and number of items (lines 31-106).                            *)
THEOREM Invariance == Spec => []InductiveInvariant
<1>. QED  BY InitEstablishes, StepPreserves, PTL DEF Spec

(* Every variable keeps to its type: head and tail stay inside the array   *)
(* and count between 0 and the capacity (lines 41-44, 64-68).              *)
THEOREM TypeCorrect == Spec => []TypeOK
<1>1. InductiveInvariant => TypeOK
  BY DEF InductiveInvariant
<1>. QED  BY <1>1, Invariance, PTL

(* No item is lost, doubled, overwritten or reordered (lines 41-44, 64-68). *)
THEOREM BacklogCorrect == Spec => []RingHoldsBacklog
<1>1. InductiveInvariant => RingHoldsBacklog
  BY DEF InductiveInvariant
<1>. QED  BY <1>1, Invariance, PTL

(* No wakeup is lost between the test of the loop and the wait (lines      *)
(* 36-39, 46-47, 59-62, 70-71).                                            *)
THEOREM WakeupsCorrect == Spec => []NoLostWakeup
<1>1. InductiveInvariant => NoLostWakeup
  BY DEF InductiveInvariant
<1>. QED  BY <1>1, Invariance, PTL

(* Main's unlocked reads and its destroy calls find the queue quiet and    *)
(* the totals right (lines 94-104).                                        *)
THEOREM DestroyCorrect == Spec => []QuietAtDestroy
<1>. QED  BY InvariantGivesQuiet, Invariance, PTL

(* Only a pthread_create that fails makes the program fail (lines 87-105). *)
THEOREM VerificationCorrect == Spec => []FailureOnlyFromCreate
<1>1. InductiveInvariant => FailureOnlyFromCreate
  BY DEF InductiveInvariant
<1>. QED  BY <1>1, Invariance, PTL

-----------------------------------------------------------------------------
(* The ring buffer implements the bounded FIFO. *)

(* The sequence of the n integers that follow a. *)
Run(a, n) == [i \in 1 .. n |-> a + i]

(* Enqueueing the next integer appends it to the run (lines 41-44). *)
LEMMA RunGrows ==
  ASSUME NEW a \in Nat, NEW n \in Nat
  PROVE  /\ Run(a, n) \in Seq(Nat)
         /\ Len(Run(a, n)) = n
         /\ Run(a, n + 1) = Append(Run(a, n), a + n + 1)
  BY DEF Run

(* Dequeueing takes the head of the run and leaves its tail (lines 64-68). *)
LEMMA RunShrinks ==
  ASSUME NEW a \in Nat, NEW n \in Nat, n > 0
  PROVE  /\ Run(a, n) # <<>>
         /\ Head(Run(a, n)) = a + 1
         /\ Tail(Run(a, n)) = Run(a + 1, n - 1)
<1>1. Run(a, n) \in Seq(Nat) /\ Len(Run(a, n)) = n
  BY RunGrows
<1>2. Run(a, n) # <<>>
  BY <1>1
<1>3. Head(Run(a, n)) = a + 1
  BY <1>1, <1>2 DEF Run
<1>4. /\ Tail(Run(a, n)) \in [1 .. n - 1 -> Nat]
      /\ Run(a + 1, n - 1) \in [1 .. n - 1 -> Nat]
  <2>1. Tail(Run(a, n)) \in Seq(Nat) /\ Len(Tail(Run(a, n))) = n - 1
    BY <1>1, <1>2
  <2>2. Run(a + 1, n - 1) \in Seq(Nat) /\ Len(Run(a + 1, n - 1)) = n - 1
    <3>1. a + 1 \in Nat /\ n - 1 \in Nat
      OBVIOUS
    <3>. QED  BY <3>1, RunGrows
  <2>3. \A s \in Seq(Nat) : s \in [1 .. Len(s) -> Nat]
    OBVIOUS
  <2>. QED  BY <2>1, <2>2, <2>3
<1>5. ASSUME NEW i \in 1 .. n - 1
      PROVE  Tail(Run(a, n))[i] = Run(a + 1, n - 1)[i]
  <2>1. Tail(Run(a, n))[i] = Run(a, n)[i + 1]
    BY <1>1, <1>2
  <2>. QED  BY <2>1 DEF Run
<1>6. Tail(Run(a, n)) = Run(a + 1, n - 1)
  <2>. DEFINE s == Tail(Run(a, n))
              t == Run(a + 1, n - 1)
              D == 1 .. n - 1
  <2>1. s \in [D -> Nat] /\ t \in [D -> Nat] /\ \A i \in D : s[i] = t[i]
    BY <1>4, <1>5
  <2>. HIDE DEF s, t, D
  <2>2. s = t
    BY <2>1
  <2>. QED  BY <2>2 DEF s, t
<1>. QED  BY <1>2, <1>3, <1>6

(* The occupied slots, oldest first, hold the integers after the last      *)
(* consumed one (lines 41-44, 64-68).                                      *)
LEMMA BacklogIsRun == InductiveInvariant => Backlog = Run(consumed, count)
<1>. SUFFICES ASSUME InductiveInvariant
              PROVE  Backlog = Run(consumed, count)
  OBVIOUS
<1>1. ASSUME NEW i \in 1 .. count
      PROVE  items[Slot(i - 1)] = consumed + i
  <2>1. i - 1 \in 0 .. QUEUE_CAPACITY - 1 /\ i - 1 < count
    BY CapacityAssumption DEF InductiveInvariant, TypeOK
  <2>2. items[Slot(i - 1)] = consumed + (i - 1) + 1
    BY <2>1 DEF InductiveInvariant, RingHoldsBacklog
  <2>. QED  BY <2>2 DEF InductiveInvariant, TypeOK
<1>. QED  BY <1>1 DEF Backlog, Run

(* What the threads do to the ring is, seen through Backlog, what          *)
(* BoundedFifo allows (lines 31-76): the items leave in the order they     *)
(* came, and never more of them are inside than the capacity.              *)
THEOREM Refinement == Spec => ImplementsFifo
<1>1. Init => Fifo!FifoInit
  BY DEF Init, Fifo!FifoInit, Backlog
<1>2. (InductiveInvariant => Backlog = Run(consumed, count))'
  BY BacklogIsRun, PTL
<1>3. ASSUME InductiveInvariant, InductiveInvariant', [Next]_vars
      PROVE  [Fifo!Put \/ Fifo!Get]_Fifo!fifoVars
  <2>. DEFINE Quiet == UNCHANGED <<ring, totals>>
  <2>1. /\ Backlog = Run(consumed, count)
        /\ Backlog' = Run(consumed, count)'
    BY <1>2, <1>3, BacklogIsRun
  <2>2. consumed \in Nat /\ count \in Nat /\ produced = consumed + count
    BY <1>3 DEF InductiveInvariant, TypeOK, RingHoldsBacklog
  <2>3. CASE Enqueue
    <3>1. produced' = produced + 1 /\ count' = count + 1
          /\ consumed' = consumed
      BY <2>3 DEF Enqueue
    <3>2. produced < ITEM_COUNT /\ count < QUEUE_CAPACITY
      BY <1>3, <3>1, CapacityAssumption, ItemCountAssumption
         DEF InductiveInvariant, TypeOK
    <3>3. Len(Backlog) < QUEUE_CAPACITY
      BY <2>1, <2>2, <3>2, RunGrows
    <3>4. Backlog' = Append(Backlog, produced + 1)
      BY <2>1, <2>2, <3>1, RunGrows
    <3>5. UNCHANGED <<consumed, consumed_sum>>
      BY <2>3 DEF Enqueue
    <3>. QED  BY <3>1, <3>2, <3>3, <3>4, <3>5 DEF Fifo!Put
  <2>4. CASE Dequeue
    <3>1. /\ count' = count - 1 /\ consumed' = consumed + 1
          /\ consumed_sum' = consumed_sum + items[head]
          /\ UNCHANGED produced
      BY <2>4 DEF Dequeue
    <3>2. count > 0
      BY <1>3, <3>1 DEF InductiveInvariant, TypeOK
    <3>3. Backlog # <<>> /\ Head(Backlog) = consumed + 1
      BY <2>1, <2>2, <3>2, RunShrinks
    <3>4. Backlog' = Tail(Backlog)
      BY <2>1, <2>2, <3>1, <3>2, RunShrinks
    <3>5. Head(Backlog) = items[head]
      <4>1. head \in 0 .. QUEUE_CAPACITY - 1
        BY <1>3 DEF InductiveInvariant, TypeOK, Slots
      <4>2. head + 0 = head
        BY <4>1
      <4>3. Slot(0) = head
        BY <4>1, <4>2, ModBelow, CapacityAssumption DEF Slot
      <4>4. 0 \in 0 .. QUEUE_CAPACITY - 1
        BY CapacityAssumption
      <4>5. items[Slot(0)] = consumed + 0 + 1
        BY <1>3, <3>2, <4>4 DEF InductiveInvariant, RingHoldsBacklog
      <4>. QED  BY <2>2, <3>3, <4>3, <4>5
    <3>. QED  BY <3>1, <3>3, <3>4, <3>5 DEF Fifo!Get
  <2>5. CASE Quiet
    <3>1. Backlog' = Backlog
      BY <2>1, <2>5 DEF Quiet, ring, totals, Run
    <3>. QED  BY <2>5, <3>1 DEF Quiet, Fifo!fifoVars, ring, totals
  <2>6. Enqueue \/ Dequeue \/ Quiet
    BY <1>3
       DEF Next, ThreadStep, MainStep, Lock, Wait, WakeSpuriously, Relock,
           LeaveLoop, Signal, Unlock, Create, CreateFails, Join, Verify,
           Exited, Quiet, vars, ring, totals
  <2>. QED  BY <2>3, <2>4, <2>5, <2>6
<1>. QED  BY <1>1, <1>3, Invariance, PTL
          DEF Spec, ImplementsFifo, Fifo!FifoSpec
=============================================================================
