----------------------------- MODULE FdPassing -----------------------------
(***************************************************************************)
(* experiments/09_fd_passing/main.c: the parent forks, then makes a pipe,  *)
(* fills it with the payload and sends its read end over a UNIX datagram   *)
(* socket; the child receives the descriptor, reads the payload from it    *)
(* and reports by its exit status.  Every call that may fail may fail, and *)
(* the parent then closes what it holds, kills the child and reaps it.     *)
(*                                                                         *)
(* A descriptor is the name of what it refers to: "ch0", "ch1" the socket  *)
(* pair, "pr", "pw" the pipe.  A datagram socket has no end of file: a     *)
(* child in recvmsg waits until a message comes or it is killed.           *)
(***************************************************************************)
EXTENDS Integers

CONSTANTS PAYLOAD,         \* bytes of the payload (21 in the code)
          PIPE_CAPACITY    \* bytes a pipe holds (65536 on Linux)

(* The parent writes everything before the child has a descriptor to read. *)
CapacityAssumption ==
  PAYLOAD \in Nat \ {0} /\ PIPE_CAPACITY \in Nat /\ PAYLOAD <= PIPE_CAPACITY

VARIABLES ignored,   \* was the program started with SIGCHLD ignored?
          parent,    \* what the parent does next
          child,     \* what the child does next, or how it ended
          status,    \* the exit status of the child, or "signal"
          fds,       \* process -> the descriptors it has open
          message,   \* the datagram: "none", "queued", "taken"
          written,   \* bytes the parent has written
          pipe,      \* bytes in the pipe
          got,       \* bytes the child has read
          result,    \* "running", or what the parent exited with
          givenUp,   \* history: did the last wait for the child fail?
          faults     \* history: how many calls failed

kid     == <<child, status>>
channel == <<message, pipe>>
outcome == <<result, faults>>
vars    == <<ignored, givenUp, parent, kid, fds, channel, written, got,
             outcome>>

Descriptors == {"ch0", "ch1", "pr", "pw"}

Init ==
  /\ ignored \in BOOLEAN /\ givenUp = FALSE
  /\ parent = "socketpair" /\ child = "unborn" /\ status = "none"
  /\ fds = [p \in {"parent", "child"} |-> {}]
  /\ message = "none" /\ pipe = 0 /\ written = 0 /\ got = 0
  /\ result = "running" /\ faults = 0

Parent(from, to) == parent = from /\ parent' = to
Child(from, to)  == child = from /\ child' = to

Gain(p, S) == fds' = [fds EXCEPT ![p] = @ \cup S]
Lose(p, S) == fds' = [fds EXCEPT ![p] = @ \ S]

(* The pipe's contents live while someone can read it: the parent, the     *)
(* child or a message under way.                                           *)
PipeFollows ==
  pipe' = IF \/ \E p \in DOMAIN fds : "pr" \in fds'[p]
             \/ message' = "queued"
          THEN pipe ELSE 0

Fault == faults' = faults + 1

Alive == {"close_ch0", "recvmsg", "fcntl", "read", "close"}

(* The child is gone: its descriptors and the messages to it go with it.   *)
(* Where SIGCHLD is ignored the kernel reaps it, and waitpid says ECHILD.  *)
ChildEnds(code) ==
  /\ child' = IF ignored THEN "vanished" ELSE "zombie"
  /\ status' = code
  /\ fds' = [fds EXCEPT !["child"] = {}]
  /\ message' = IF message = "queued" THEN "none" ELSE message
  /\ PipeFollows

-----------------------------------------------------------------------------
(* The parent. *)

Exit(code) == parent' = "exited" /\ result' = code

(* A call of the parent fails: it closes S and turns to terminate_and_reap. *)
Abandon(S) ==
  /\ Lose("parent", S) /\ parent' = "kill"
  /\ UNCHANGED message /\ PipeFollows /\ Fault

SocketPair ==
  /\ parent = "socketpair"
  /\ \/ Gain("parent", {"ch0", "ch1"}) /\ parent' = "fork" /\ UNCHANGED outcome
     \/ Exit("EXIT_FAILURE") /\ Fault /\ UNCHANGED fds
  /\ UNCHANGED <<ignored, givenUp, kid, channel, written, got>>

Fork ==
  /\ parent = "fork"
  /\ \/ /\ fds' = [fds EXCEPT !["child"] = fds["parent"]]
        /\ child' = "close_ch0" /\ parent' = "close_ch1"
        /\ UNCHANGED outcome
     \/ /\ Lose("parent", {"ch0", "ch1"}) /\ Exit("EXIT_FAILURE")
        /\ Fault /\ UNCHANGED child
  /\ UNCHANGED <<ignored, givenUp, status, channel, written, got>>

CloseCh1 ==
  /\ Parent("close_ch1", "pipe") /\ Lose("parent", {"ch1"})
  /\ UNCHANGED <<ignored, givenUp, kid, channel, written, got, outcome>>

MakePipe ==
  /\ parent = "pipe"
  /\ \/ /\ Gain("parent", {"pr", "pw"}) /\ parent' = "write"
        /\ UNCHANGED <<channel, faults>>
     \/ Abandon({"ch0"})
  /\ UNCHANGED <<ignored, givenUp, kid, written, got, result>>

(* A faulty variant of Write: one call, whatever its count. *)
WriteOnce ==
  /\ Parent("write", "close_pw")
  /\ \E n \in 1 .. PAYLOAD : written' = n /\ pipe' = n
  /\ UNCHANGED <<ignored, givenUp, kid, fds, message, got, outcome>>

(* write_all: blocks while the pipe is full. *)
Write ==
  /\ parent = "write"
  /\ \E n \in 1 .. PAYLOAD - written :
       /\ pipe + n <= PIPE_CAPACITY
       /\ written' = written + n /\ pipe' = pipe + n
       /\ parent' = IF written' = PAYLOAD THEN "close_pw" ELSE "write"
  /\ UNCHANGED <<ignored, givenUp, kid, fds, message, got, outcome>>

WriteFails ==
  /\ parent = "write" /\ Abandon({"pr", "pw", "ch0"})
  /\ UNCHANGED <<ignored, givenUp, kid, written, got, result>>

ClosePw ==
  /\ Parent("close_pw", "sendmsg") /\ Lose("parent", {"pw"})
  /\ UNCHANGED <<ignored, givenUp, kid, channel, written, got, outcome>>

(* send_descriptor: the message holds a reference of its own to the pipe.  *)
(* It is refused when nobody has the other socket open any more.           *)
Send ==
  /\ parent = "sendmsg"
  /\ \/ /\ "ch1" \in fds["child"]
        /\ message' = "queued" /\ parent' = "close_all"
        /\ UNCHANGED <<fds, pipe, faults>>
     \/ Abandon({"pr", "ch0"})
  /\ UNCHANGED <<ignored, givenUp, kid, written, got, result>>

CloseAll ==
  /\ Parent("close_all", "waitpid") /\ Lose("parent", {"pr", "ch0"})
  /\ UNCHANGED message /\ PipeFollows
  /\ UNCHANGED <<ignored, givenUp, kid, written, got, outcome>>

(* A faulty variant of Kill: waitpid alone. *)
KillNothing ==
  /\ Parent("kill", "reap")
  /\ UNCHANGED <<ignored, givenUp, kid, fds, channel, written, got, outcome>>

(* terminate_and_reap: SIGKILL, then waitpid; the parent then fails. *)
Kill ==
  /\ Parent("kill", "reap")
  /\ IF child \in Alive THEN ChildEnds("signal")
                        ELSE UNCHANGED <<kid, fds, channel>>
  /\ UNCHANGED <<ignored, givenUp, written, got, outcome>>

(* waitpid, at the end of terminate_and_reap or of main. *)
Reap ==
  /\ parent \in {"reap", "waitpid"}
  /\ child \in {"zombie", "vanished"}
  /\ child' = IF child = "zombie" THEN "reaped" ELSE child
  /\ Exit(IF parent = "waitpid" /\ child = "zombie" /\ status = "0"
          THEN "EXIT_SUCCESS" ELSE "EXIT_FAILURE")
  /\ UNCHANGED <<ignored, givenUp, status, fds, channel, written, got,
                 faults>>

(* It fails, which terminate_and_reap ignores and main reports: the child, *)
(* alive or not, is given up.                                              *)
ReapFails ==
  /\ parent \in {"reap", "waitpid"} /\ givenUp' = TRUE
  /\ Exit("EXIT_FAILURE") /\ Fault
  /\ UNCHANGED <<ignored, kid, fds, channel, written, got>>

-----------------------------------------------------------------------------
(* The child; one that was given up goes on when the parent has returned.  *)

CloseCh0 ==
  /\ Child("close_ch0", "recvmsg") /\ Lose("child", {"ch0"})
  /\ UNCHANGED <<ignored, givenUp, parent, status, channel, written, got,
                 outcome>>

(* receive_descriptor, up to its checks.  recvmsg may fail, or drop the    *)
(* right and set MSG_CTRUNC when the child has no descriptor free.         *)
Receive ==
  /\ child = "recvmsg"
  /\ \/ /\ message = "queued" /\ message' = "taken"
        /\ Gain("child", {"pr"}) /\ child' = "fcntl"
        /\ UNCHANGED <<status, pipe, faults>>
     \/ ChildEnds("2") /\ Fault
  /\ UNCHANGED <<ignored, givenUp, parent, written, got, result>>

(* FD_CLOEXEC is set, or the descriptor is closed again. *)
SetCloexec ==
  /\ child = "fcntl"
  /\ \/ child' = "read" /\ UNCHANGED <<status, fds, channel, faults>>
     \/ ChildEnds("2") /\ Fault
  /\ UNCHANGED <<ignored, givenUp, parent, written, got, result>>

(* read_all: n bytes, or the end of the file, which is EPIPE; or an error. *)
Read ==
  /\ child = "read"
  /\ \/ \E n \in 1 .. PAYLOAD - got :
          /\ n <= pipe
          /\ got' = got + n /\ pipe' = pipe - n
          /\ child' = IF got' = PAYLOAD THEN "close" ELSE "read"
          /\ UNCHANGED faults
     \/ /\ pipe = 0 /\ \A p \in DOMAIN fds : "pw" \notin fds[p]
        /\ child' = "close" /\ UNCHANGED <<got, pipe, faults>>
  /\ UNCHANGED <<ignored, givenUp, parent, status, fds, message, written,
                 result>>

ReadFails ==
  /\ Child("read", "close") /\ Fault
  /\ UNCHANGED <<ignored, givenUp, parent, status, fds, channel, written,
                 got, result>>

ChildExits ==
  /\ child = "close"
  /\ ChildEnds(IF got = PAYLOAD THEN "0" ELSE "3")
  /\ UNCHANGED <<ignored, givenUp, parent, written, got, outcome>>

Exited == result # "running" /\ UNCHANGED vars

ParentStep ==
  \/ SocketPair \/ Fork \/ CloseCh1 \/ MakePipe \/ Write \/ ClosePw \/ Send
  \/ CloseAll \/ Kill \/ Reap
ChildStep == CloseCh0 \/ Receive \/ SetCloexec \/ Read \/ ChildExits

Next ==
  \/ ParentStep \/ WriteFails \/ ReapFails \/ ChildStep \/ ReadFails
  \/ Exited

Spec == Init /\ [][Next]_vars

(* Both processes run; a call that can return does.  A wait in recvmsg,    *)
(* read or write ends by what it waits for, not by an error nobody causes. *)
ChildProgress ==
  \/ CloseCh0 \/ (message = "queued" /\ Receive) \/ SetCloexec \/ Read
  \/ ChildExits

FairSpec == Spec /\ WF_vars(ParentStep) /\ WF_vars(ChildProgress)

-----------------------------------------------------------------------------
(* Properties. *)

TypeOK ==
  /\ ignored \in BOOLEAN /\ givenUp \in BOOLEAN
  /\ parent \in {"socketpair", "fork", "close_ch1", "pipe", "write", "close_pw",
                 "sendmsg", "close_all", "waitpid", "kill", "reap", "exited"}
  /\ child \in {"unborn", "close_ch0", "recvmsg", "fcntl", "read", "close",
                "zombie", "vanished", "reaped"}
  /\ status \in {"none", "0", "2", "3", "signal"}
  /\ fds \in [{"parent", "child"} -> SUBSET Descriptors]
  /\ message \in {"none", "queued", "taken"}
  /\ written \in 0 .. PAYLOAD
  /\ pipe \in 0 .. PIPE_CAPACITY
  /\ got \in 0 .. PAYLOAD
  /\ result \in {"running", "EXIT_SUCCESS", "EXIT_FAILURE"}
  /\ faults \in Nat

(* From the moment the descriptor is sent until the child reads, the whole *)
(* payload stays in the pipe although the parent has closed both ends; the *)
(* child's read never has to wait for a writer (lines 229-250, 210-213).   *)
PayloadSurvivesHandover ==
  message = "queued" \/ child \in {"fcntl", "read"} => pipe + got = PAYLOAD

(* How this program fulfils ChildExchange. *)
(* The parent returns, also when the child would wait in recvmsg for ever; *)
(* on every path its descriptors are closed and the child is reaped,       *)
(* unless the last wait for it failed, and success means that the child    *)
(* was reaped and had read the whole payload (lines 58-76, 196-258).       *)
ExchangeState == [
  child |-> CASE child = "unborn" -> "none" [] child \in Alive -> "alive"
              [] child = "zombie" -> "zombie" [] OTHER -> "gone",
  status |-> CASE status = "none" -> "none" [] status = "0" -> "well"
               [] OTHER -> "ill",
  exchanged |-> got = PAYLOAD,
  held |-> fds["parent"] # {},
  givenUp |-> givenUp,
  faulty |-> ignored \/ faults > 0,
  verdict |-> result]
=============================================================================
