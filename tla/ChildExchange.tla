--------------------------- MODULE ChildExchange ---------------------------
(***************************************************************************)
(* What each program with a child promises, whatever goes between the two, *)
(* be it a pipe, a descriptor, shared memory or a queue: the program       *)
(* returns, and then nothing is held any more and the child is reaped,     *)
(* unless the last wait for it failed; success means that the exchange     *)
(* took place with a child that ended well and was reaped; failure means   *)
(* that a call failed.  FdPassing, SpawnCapture, SessionReport,            *)
(* FifoChannel, SharedMemory, PidFd and SysvQueue implement this           *)
(* specification; what the child is made to do, and when the program       *)
(* reads, waits, kills and cleans up, is left to them.                     *)
(***************************************************************************)

VARIABLES child,      \* "none", "alive", "zombie", or "gone" once reaped
          status,     \* how the child ended: "none" yet, "well" or "ill"
          exchanged,  \* has the program received what it set out to?
          held,       \* is anything open, mapped or named that must go?
          givenUp,    \* has the last wait for the child failed?
          faulty,     \* did a call fail, or is SIGCHLD ignored?
          verdict     \* "running", "EXIT_SUCCESS" or "EXIT_FAILURE"

exchangeVars == <<child, status, exchanged, held, givenUp, faulty, verdict>>

ExchangeInit ==
  /\ child = "none" /\ status = "none"
  /\ ~exchanged /\ ~held /\ ~givenUp /\ faulty \in BOOLEAN
  /\ verdict = "running"

Start ==
  /\ child = "none" /\ child' = "alive"
  /\ UNCHANGED <<status, exchanged, givenUp, verdict>>

(* The child ends, ill only when something failed.  Where SIGCHLD is       *)
(* ignored the kernel reaps it at once.                                    *)
End ==
  /\ child = "alive"
  /\ child' = "zombie" \/ (child' = "gone" /\ faulty)
  /\ status' = "well" \/ (status' = "ill" /\ faulty')
  /\ UNCHANGED <<exchanged, givenUp, verdict>>

Exchange ==
  /\ child # "none" /\ ~exchanged /\ exchanged'
  /\ UNCHANGED <<child, status, givenUp, verdict>>

Reap ==
  /\ child = "zombie" /\ child' = "gone"
  /\ UNCHANGED <<status, exchanged, givenUp, verdict>>

(* The last wait fails.  Nothing is tried after that. *)
GiveUp ==
  /\ child # "none" /\ ~givenUp /\ givenUp' /\ faulty'
  /\ UNCHANGED <<child, status, exchanged, verdict>>

(* A call that tells of no more than it failed, or that acquires or        *)
(* releases something.                                                     *)
Manage == UNCHANGED <<child, status, exchanged, givenUp, verdict>>

(* The last wait may be the last step, too, and so may be its failure.     *)
Return ==
  /\ \/ /\ child' = IF child = "zombie" THEN "gone" ELSE child
        /\ child' \in {"none", "gone"} /\ UNCHANGED givenUp
     \/ child # "none" /\ givenUp' /\ UNCHANGED child
  /\ ~held'
  /\ \/ verdict' = "EXIT_SUCCESS" /\ exchanged /\ status = "well" /\ ~givenUp'
     \/ verdict' = "EXIT_FAILURE" /\ faulty'
  /\ UNCHANGED <<status, exchanged>>

(* A child that was given up goes on without the program. *)
GoesOn == givenUp /\ ~held' /\ (End \/ Exchange \/ Manage)

(* What has failed stays failed, and who has returned does nothing more. *)
ExchangeNext ==
  /\ faulty => faulty'
  /\ IF verdict = "running"
     THEN \/ Start \/ End \/ Exchange \/ Manage \/ Return
          \/ (~givenUp /\ Reap) \/ GiveUp
     ELSE GoesOn

ExchangeSpec == ExchangeInit /\ [][ExchangeNext]_exchangeVars

Returns == <>(verdict # "running")
=============================================================================
