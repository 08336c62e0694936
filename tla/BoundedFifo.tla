---------------------------- MODULE BoundedFifo ----------------------------
(***************************************************************************)
(* What the queue of experiments/07_threads promises: a bounded FIFO that  *)
(* carries the integers 1, 2, ..., ItemCount, in this order, from one side *)
(* to the other.  How threads wait, wake and exclude each other is left to *)
(* BoundedQueue, which implements this specification.                      *)
(***************************************************************************)
EXTENDS Integers, Sequences

CONSTANTS Capacity,   \* how many items the queue can hold
          ItemCount   \* how many items are sent

VARIABLES buffer,     \* the items sent and not yet received, oldest first
          produced,   \* how many items were sent
          consumed,   \* how many items were received
          total       \* the sum of the items received

fifoVars == <<buffer, produced, consumed, total>>

FifoInit ==
  /\ buffer = <<>>
  /\ produced = 0
  /\ consumed = 0
  /\ total = 0

(* The next integer is sent, if there is room for it. *)
Put ==
  /\ produced < ItemCount
  /\ Len(buffer) < Capacity
  /\ buffer' = Append(buffer, produced + 1)
  /\ produced' = produced + 1
  /\ UNCHANGED <<consumed, total>>

(* The oldest item is received: it is the one after the last received. *)
Get ==
  /\ buffer # <<>>
  /\ Head(buffer) = consumed + 1
  /\ buffer' = Tail(buffer)
  /\ consumed' = consumed + 1
  /\ total' = total + Head(buffer)
  /\ UNCHANGED produced

FifoSpec == FifoInit /\ [][Put \/ Get]_fifoVars
=============================================================================
