# A verification of advance-unix

`advance-unix` is a collection of thirty small C programs ("experiments"), each
of which exercises one family of Unix interfaces, checks its own result, cleans
up and returns `EXIT_SUCCESS` or `EXIT_FAILURE`. There is no library: each
program is one `src/experiments/NN_name/main.c`, and the programs share no
code and no state, only idioms, which they copy. What is hard in them is what
happens *between* calls: other threads and processes, short counts, signals,
end of file that never comes, calls that fail after others have succeeded.

This directory holds TLA+ models of these programs, TLC runs that check them,
and TLAPS proofs of what the runs check, for every size. Paths below are
relative to `src/experiments/`; `09:229` is line 229 of experiment 09.

## 1. Inventory

Each program is one component. "State" is what outlives a call; "partner" is
who else acts.

| experiment | state | operations | partner | hard behaviour |
|---|---|---|---|---|
| 01 file_io | file, offsets, iovec array | pread_full, pwrite_all, transfer_iovecs | kernel | short counts, EINTR, a count inside a vector |
| 02 filesystem | directory, link, file | write_all, openat, renameat, unlinkat | kernel | short counts; removal under any of its names |
| 03 memory_mapping | file and mapping | pread_full, mmap, msync | kernel | short counts |
| 04 file_locking | lock of an open file description | set and test lock, dup, close | contender descriptor | lock shared by duplicates |
| 05 process_control | pipe, descriptor table, child | spawn with file actions, capture, wait | spawned child | pipe on descriptor 1, end of file, leftovers on failure |
| 06 signals | mask, signalfd, pending signal | block, kill, read, restore | kernel | pending signal at cleanup |
| 07 threads | ring buffer, mutex, two conditions | producer, consumer, main | two threads | lost and spurious wakeups, unlocked reads, destruction |
| 08 shared_memory | shared page, semaphore, child | post, wait, compute | forked child | child waiting for ever, kill of a reaped pid |
| 09 fd_passing | socket pair, pipe, message, child | send/receive descriptor, terminate_and_reap | forked child | descriptor in flight, deadlock on failure |
| 10 tcp_sockets | listener, queue, two sockets | connect, poll, accept, exchange | kernel, other programs | one thread on both sides, strangers, timeout |
| 11 event_loop | epoll set, eventfd, timerfd | wait, dispatch | timer | order of events, timeout |
| 12 filesystem_events | inotify queue, file | watch, change, poll, parse | kernel, other programs | merged or grouped events, overflow |
| 13 zero_copy | file, pipe | splice, read_all | kernel | short counts, pipe capacity |
| 14 resource_limits | soft limit | set, check, restore | none | restoration |
| 15 cpu_affinity | CPU mask | set, check, restore | none | restoration |
| 16 terminal | pty pair | set mode, transfer_all | line discipline | short counts |
| 17 pidfd | pidfd, child | poll with timeout, waitid | forked child | timeout, cleanup of a live child, a pid given away |
| 18 message_queue | priority queue | send, receive | none | order, removal |
| 19 file_metadata | one file | chmod, utimens, stat | none | removal |
| 20 sparse_files | file with holes | pwrite_all, seek data/hole | file system | short counts, coarse answers |
| 21 stdio_buffering | FILE buffer, pipe | fwrite, probe, fflush, read_exact | libc | early commits, SIGPIPE in fclose |
| 22 process_groups | pipe, session, child | setsid, report, read, wait | forked child | end of file, SIGPIPE, partial report |
| 23 portable_signals | mask, action, pending signal, child | block, sigsuspend, restore | child, other processes | early delivery, lost wait, order of restoring |
| 24 thread_specific_data | key, once, blocks, totals | create, store, destroy, verify | three threads | leaks, key deleted too early, split totals |
| 25 fifo | FIFO, directory, child | open, write, poll, remove | forked child | open order, timeout, ECHILD |
| 26 sysv_message_queue | queue, child | send, receive, remove | forked child | removal before the child is gone |
| 27 posix_aio | aiocb, buffer, file | submit, wait, cancel, reclaim | asynchronous read | reclaiming on every path |
| 28 extended_attributes | attribute of a file | set, get, remove | none | removal |
| 29 memfd_seals | memory file, seals | write_all, seal, attempt | kernel | short counts |
| 30 dynamic_loading | library handle | open, look up, close | linker | none |

Interaction happens inside a program: threads through a shared struct (07, 24),
processes through pipes, sockets, FIFOs, queues and wait status (05, 08, 09,
17, 22, 23, 25, 26), a program and the kernel through short counts, timers and
pending signals (01-03, 06, 10-13, 20, 23, 27). Correctness means, nearly
everywhere: the data arrives whole and in order; success is reported exactly
when it did; nothing waits for ever; nothing (child, descriptor, block, file)
is left behind on any path; what was changed is restored.

The hazards are listed one by one, with their lines, in `PROJECT.json`.

## 2. What is modelled, and where

| module | code | what its actions are |
|---|---|---|
| `BoundedQueue` | all of 07 | each lock, wait, wakeup, update, signal and unlock of the two threads; create, join and verify of main |
| `BoundedFifo` | what 07 promises | `Put` and `Get` of a bounded FIFO of 1, 2, ... |
| `ChildExchange` | what every program with a child promises | start, end, exchange, reap or give up, return |
| `TransferLoop` | the loops of 01, 02, 03, 05, 09, 10, 12, 13, 16, 20, 21, 22, 27, 29 | one call: it moves n bytes, is interrupted, moves nothing, fails |
| `VectoredTransfer` | transfer_iovecs of 01 | skip empty vectors, call, advance |
| `ThreadSpecific` | all of 24 | steps of the workers, of the destructor and of main |
| `FdPassing` | all of 09 | calls of parent and child |
| `SpawnCapture` | all of 05 | calls of main, the child's output |
| `SessionReport` | all of 22 | calls of parent and child |
| `AioRequest` | all of 27 | calls of main, progress of the request |
| `FifoChannel` | all of 25 | calls of main and child |
| `SignalDelivery` | all of 23 | calls of main and child, delivery, signals of others |
| `TcpExchange` | all of 10 | calls of main, handshake, strangers |
| `SharedMemory` | all of 08 | calls of parent and child, `terminate_and_reap` |
| `SignalFd` | all of 06 | calls of main, generation and delivery, signals of others |
| `PidFd` | all of 17 | calls of main, time passing in poll, the child's end |
| `SysvQueue` | all of 26 | calls of main and child |
| `EventLoop` | all of 11 | calls of main, the clock |
| `FilesystemEvents` | main of 12 | calls of main, events of others; the queue of inotify |
| `StdioBuffer` | main of 21 | calls of main, with what the library commits |
| `SparseExtents` | main of 20 and its queries | calls of main, any layout |
| `CleanupPaths` | main of 01-04, 13-16, 18, 19, 28-30 | the next call succeeds or fails; cleanup |
| `ChildPrograms` | 05, 08, 09, 17, 22, 25, 26 | a run of one of the seven |
| `SignalPrograms` | 06, 23 | a run of one of the two |
| `SoloPrograms` | 11, 12, 20, 21 and those of `CleanupPaths` | a run of one of them |
| `TransferLoops` | the loops | a call of one of the loops, over one buffer or several |

`MCM` gives the constants of the module `M` their values for TLC, and `MProofs`
holds the TLAPS proofs about `M` (section 4).

`FdPassing`, `SpawnCapture`, `SessionReport`, `FifoChannel`, `SharedMemory`,
`PidFd` and `SysvQueue` each say, in a record `ExchangeState`, how they
implement `ChildExchange`. What counts as the exchange differs: the bytes read
by the child (09) or by the parent (05, 22, 25), the doubled number (08), the
message (26), the announcement of the end (17). The promise has a step part,
`ImplementsExchange` (a child is started once, reaped once, ends ill only after
a failure; the program returns with nothing held, with the child reaped unless
the last wait for it failed, and reports what happened), and a liveness part,
`Returns`. It replaces seven similar sets of invariants, one per program. Where
a program has a hazard that the promise does not name, its module states a
property of its own.

The exception in the promise is what the code does. Every `waitpid` may fail,
also the one of a cleanup or of `terminate_and_reap`, for another reason than
`EINTR` or a child that is gone. 17, 22, 25 and 26 then report it (17:119,
22:176, 25:159, 26:118), 05, 08 and 09 ignore it (05:153, 08:33, 09:74), and all
of them go on and return without having reaped the child. The models have an
action for this failure in each program (`ReapFails`, `CleanupWaitFails`,
`CleanupReapFails`, `CleanupReapsFails`), and `givenUp` remembers it. A child
that was given up goes on after the program has returned, as the abstract child
does (`GoesOn`). What the promise still says of such a run: nothing is held,
success is not reported, and the program returned. 23 has the same failing wait
(23:107); its properties say below what is left of them then.

`kill` fails in the models only where the pid is no longer the child's
(`"vanished"`). A process may always signal its own child that has the same
user, and SIGTERM and SIGKILL are valid signals, so that for a child that is
alive or a zombie there is no errno `kill` could give. With a pid of another
process it may be `EPERM` or `ESRCH`; 25 and 26 report the former, 08 and 09
ignore both.

Programs of a kind are checked together. `ctest` runs each program as a test of
its own (`cmake/AddUnixExperiment.cmake:65`), and `ChildPrograms` is such a run
of one of the seven: `program` says which, the variables with the same meaning
(`main`, `child`, `status`, `pipe`, ...) are instantiated by common ones, and
the variables the program does not have keep the value `"absent"`.
`SignalPrograms` (06, 23), `SoloPrograms` (11, 12, 20, 21 and the thirteen
sequences of `CleanupPaths`, whose `program` is `table` there) and
`TransferLoops` (`TransferLoop`, `VectoredTransfer`) are made the same way. The
programs do not interact there, so the states of such a run are the states of its
programs, added; each property that is stated of one program holds of the others
vacuously, and the shared ones (`ImplementsExchange`, `Returns`, `Terminates`,
`HonestExit`, `KillHitsChild`, `Termination`) have a conjunct or a case for
each program. A fairness condition of such a module is the disjunction of the
conditions of the programs, of which only one can take steps.

`CleanupPaths` is one machine that runs a table. A row is a program: its calls
in order, what each uses, gives and takes, and the order of its cleanup. The
machine keeps what the process has (`held`) apart from what the variables of
the program say it has (`known`), because the cleanup goes by the latter.

Conventions. `main`, `parent`, `child` or `pc[t]` is the next call of the
process or thread; every other variable has the name it has in the code, or
stands for a kernel object and is introduced by a comment where it is declared.
A call that can fail does so in a disjunct or an action of its own that takes
the error path of the source. `goto cleanup` is a step to the control point
`"cleanup"`. `result` is the exit status of the program; it is
`EXIT_FAILURE` until the code sets it otherwise, as there. Payloads are
abstracted to the number of bytes moved, or, where order matters
(`TransferLoop`, `BoundedQueue`), to numbers. In `VectoredTransfer` byte i of
vector v is the place `<<v, i>>`, and a call moves all places that the array
describes up to one of them: which bytes were moved is then a set, and the
order is that of the places.

History variables are marked as such: `faults` (calls that failed), `givenUp`
(the last wait for the child failed), `foreign` (interference by other
programs), `returns` (calls of `aio_return`), `restoreFailed`, `waitError` (how the first `waitpid` failed), `dropped` (an
event lost by the kernel) and `stuck` (what could not be released). They are
read by properties, and `foreign` by the bound on interference, never by the
code's steps.

`ignored` is a real input: a program may be started with SIGCHLD ignored, and
then the kernel reaps children itself and `waitpid` says ECHILD. Children that
are gone in this way are `"vanished"`.

What each model leaves out of its program:
* 07: errors of the mutex and condition calls (`check_pthread` would end the
  process; with objects initialised and used as here POSIX defines none).
* 09: the parsing of the control message (09:137-175) is one step, since the
  only sender sends one descriptor.
* 05, 09, 22, 25, 27: the transfers inside are calls of `n` bytes with the
  control of the loop; what the loops do with `EINTR` is `TransferLoop`.
* 05: the numbers 0 to 4 of the descriptor table; higher ones behave like 4.
  The object of the file actions is `actions_ready`, which counts as held.
* 08: the releases after a failing call are one loop, `Release`, in the order
  the code keeps: semaphore before mapping. The name and the descriptor of
  `shm_open` are released there, too, on the paths that have them (08:50-64).
* 11: the number of ticks; only that the timer expires before `epoll_wait`
  times out, 20 ms against one second.
* 12: events cut short and an end of file, which inotify does not produce.
* 04, 14-16, 18, 19, 28-30: the data (`CleanupPaths`): which lock conflicts,
  which limit or mode is read back, in which order priorities come. A check of
  the data that fails is a failing call.
* 10: name resolution and the options of the listener are one step, `Listen`.
* everywhere: messages to the terminal.

The faulty variants that stand before some definitions ("A faulty variant of
...") are not part of any specification. Each is a plausible error in that
place; substituted for the definition, it makes the property named with it in
`PROJECT.json` fail. They show that the property depends on the code.

## 3. Runs

The bounds of a run are in its cfg. The assumptions the modules make about
their constants are checked in each run. Deadlock is checked in all of
them, and the terminating programs stutter in an action `Exited`, `Ended` or
`Returned` of their own.

| run | bounds | states | what it shows |
|---|---|---|---|
| `bounded_queue` | capacity 4 and 20 items, as in the code | 1766 | `InductiveInvariant` (types, lock discipline, ring contents, totals, wakeups, exit status), `QuietAtDestroy`; the ring implements `BoundedFifo`; both threads and main end |
| `transfer_loops` | the two parts below | 3677 | every loop ends (`Termination`) |
| - `TransferLoop` | 4 bytes, start at 0 to 2, any end up to one byte more than asked | 1932 | for each of the 22 loops: what was moved is a prefix and the result is honest |
| - `VectoredTransfer` | 3 vectors of 0 to 2 bytes | 1745 | no byte is skipped or repeated; the result is honest, in particular no call is made with nothing left |
| `thread_specific` | 3 workers, as in the code | 36165 | blocks are freed exactly once, the key outlives its users, success is reported exactly when no call failed |
| `child_programs` | the seven parts below | 5163 | each implements `ChildExchange`, and returns |
| - `FdPassing` | 5 bytes, pipe of 6 | 316 | the payload survives until the child reads it |
| - `SpawnCapture` | 2 bytes of output, room for 3, pipe of 6, any of descriptors 0 to 2 closed | 2640 | the child's output is the pipe |
| - `SessionReport` | 3 bytes | 1207 | the exchange is a whole report from a session leader |
| - `FifoChannel` | 4 bytes | 265 | poll never waits; no pid is signalled after its process is gone |
| - `SharedMemory` | none | 306 | semaphore and page outlive the child |
| - `PidFd` | a timeout of 2 ticks | 288 | the promise holds after a timeout too |
| - `SysvQueue` | none | 141 | no pid is signalled after its process is gone |
| `aio_request` | 4 bytes | 150 | the file outlives the request, which is reclaimed at most once and after completion; success means a full read |
| `aio_request_twice` | 1 byte, the wait of the cleanup may fail | | a finding of section 6 |
| `signal_programs` | the two parts below, 2 signals of others, any inherited mask and action | 4622 | mask and action are restored and the result is honest; the program returns |
| - `SignalDelivery` | | 3660 | SIGUSR1 is held until asked for, and does not kill unless another process sent one or the cleanup failed to wait for the child |
| - `SignalFd` | | 962 | the program is not killed by its own signal |
| `tcp_exchange` | 3 bytes each way, buffer 4, queue 2, 2 strangers | 509 | the thread never waits for itself; success is only reported for its own connection; it returns unless it accepted a stranger |
| `solo_programs` | the five parts below | 4870 | every program ends (`Terminates`) |
| - `EventLoop` | timer after 2 ticks, timeout of 3 | 240 | success exactly when no call failed |
| - `FilesystemEvents` | 2 events of others, a queue of 4, reads of 2 | 2849 | success unless a call failed or the queue overflowed, and then all three events were observed |
| - `StdioBuffer` | 4 bytes | 212 | the whole message is read, whatever was committed early; no SIGPIPE; success exactly when no call failed |
| - `SparseExtents` | 6 blocks, all 16 layouts | 1145 | one extent or two are accepted, and what is printed is the layout |
| - `CleanupPaths` | 13 programs | 424 | only what is held is used and released; nothing is left; success exactly when no call failed |
| `sparse_extents_coarse` | 6 blocks, all 16 layouts | | a finding of section 6 |

Why the bounds are enough. The control of every program is the same for every
length above three or so: what matters is whether a transfer ends in the first
call, in a middle one or in the last, and whether a count ends inside, at the
end of or across a vector; 2 to 5 bytes and 3 vectors have all these cases.
`BoundedQueue` and `ThreadSpecific` run at the sizes of the code, and the ring
goes round five times. A second foreign signal while the first is pending
merges with it, and a third could do no more. Two strangers fill the
queue of two in `TcpExchange`, one leaves room for the program; the code's
queue is of four, and no step depends on the number. The queue of inotify
holds 16384 events in Linux; in the run it holds four, so that the five to
six events of the program, unmerged, and two of others may or may not fit, and
the overflow comes before, between and after the awaited ones. Six blocks give
up to three extents, the least number the code does not expect. All variables
that count are bounded by the models themselves; only `foreign` needs a
constant, `MaxForeign`.

The states given are those of this version; each run takes seconds.

### Fairness

Liveness is checked under these assumptions, stated in `FairSpec`:
* a process or thread that can take a step eventually does (`WF` of the steps
  of each process): the kernel's scheduler;
* a mutex released again and again is eventually given to each thread that
  asks for it (`SF` of `Lock` and `Relock` in `BoundedQueue`). With POSIX's
  default mutexes this is the one assumption that needs more than weak
  fairness; there it is needed only in theory, since each thread waits on a
  condition after at most `QUEUE_CAPACITY` rounds alone;
* calls are not interrupted for ever (`SF` of `Progress` in
  `TransferLoop` and `VectoredTransfer`);
* a connection the listener has room for completes (`TcpExchange`), and a
  signal that is pending and not blocked is delivered (`SignalDelivery`,
  `SignalFd`);
* the clock goes on until the timer has expired (`EventLoop`). In `PidFd` no
  fairness is given to `PollTimesOut`: the child ends, and poll sees it.

Nothing is assumed to fail: errors of `read`, `write`, `recvmsg`, `waitpid`
and so on are actions outside the fairness conditions. So an error can never
rescue a program from a wait that would last for ever, which is what
`Termination` is about. Spurious wakeups, foreign signals and strangers are
not assumed either. `ThreadSpecific` and `AioRequest` have no run for liveness:
they wait only for threads and requests that end by themselves, so that such a
run would check the fairness it assumes.

## 4. Proofs

TLC decides a question for the constants of a cfg; the theorems answer it for
every value that the named assumptions allow. Eight modules hold proofs. In each
`Invariance` says that an inductive invariant always holds, and the theorems
after it draw the properties of the runs from it: every safety property of a
passing run is the statement of a theorem. Each inductive invariant was checked
by TLC, at the bounds of the runs, before it was proved. Where one says that
some history exists, TLC was given a way to look for it: in
`ThreadSpecificProofs` tallies up to six, in `SoloProgramsProofs` what the table
says that a sequence has before each of its calls.

| module | theorem | what it states |
|---|---|---|
| `BoundedQueueProofs` (07) | `Invariance` | `[]InductiveInvariant` |
| | `TypeCorrect`, `BacklogCorrect`, `WakeupsCorrect`, `VerificationCorrect` | parts of it: `TypeOK`, `RingHoldsBacklog`, `NoLostWakeup`, `FailureOnlyFromCreate` |
| | `DestroyCorrect` | `[]QuietAtDestroy` |
| | `Refinement` | `ImplementsFifo` |
| `ChildProgramsProofs` (05, 08, 09, 17, 22, 25, 26) | `Invariance` | `[]ChildInvariant` |
| | `HandoverCorrect` | `[]PayloadSurvivesHandover` |
| | `RedirectionCorrect` | `[]StdoutIsPipe` |
| | `PollCorrect` | `[]PollNeverWaits` |
| | `KillCorrect` | `[]KillHitsChild` |
| | `SharingCorrect` | `[]SharedStateOutlivesChild` |
| | `Refinement` | `ImplementsExchange` |
| `SignalProgramsProofs` (06, 23) | `Invariance` | `[]SignalInvariant` |
| | `Held` | `[]HeldUntilAsked` |
| | `SurvivesChild` | `[]NotKilledByChild` |
| | `SurvivesItself` | `[]NotKilledByItself` |
| | `ExitCorrect` | `[]HonestExit` |
| `TransferLoopsProofs` (the loops) | `Invariance` | `[]LoopsInvariant` |
| | `PrefixCorrect` | `[]HonestPrefix` |
| | `TransferCorrect` | `[]HonestTransfer` |
| `ThreadSpecificProofs` (24) | `Invariance` | `[]WorkersInvariant` |
| | `BlocksCorrect` | `[]BlocksFreedOnce` |
| | `KeyCorrect` | `[]KeyOutlivesWorkers` |
| | `SuccessCorrect` | `[]SuccessIffNoFault` |
| `AioRequestProofs` (27) | `Invariance` | `[]RequestInvariant` |
| | `SuccessCorrect` | `[]SuccessMeansRead` |
| | `FileOutlives`, `ReclaimedUnlessWaitFails` | `[]FileOutlivesRequest` and `[]ReclaimedOnEveryPath`, if not `CleanupWaitFails` |
| `TcpExchangeProofs` (10) | `Invariance` | `[]ExchangeInvariant` |
| | `NeverWaits` | `[]NeverWaitsForItself` |
| | `SuccessCorrect` | `[]SuccessMeansOwn` |
| | `SendsNeverWait` | `[]SendsFit` |
| `SoloProgramsProofs` (11, 12, 20, 21, the sequences) | `Invariance` | `[]SoloInvariant` |
| | `LoopCorrect` | `[]LoopVerdict` |
| | `EventsCorrect` | `[]EventsVerdict` |
| | `StreamCorrect` | `[]StreamVerdict` |
| | `VerdictCorrect` | `[]VerdictMatchesLayout` |
| | `UsesCorrect` | `[]UsesWhatItHas` |
| | `NothingLeft` | `[]LeavesNothing` |

### Assumptions

Sizes, counts and timeouts are naturals, positive where the code's constant is.
Beyond that:
* 05, 09: what is sent fits the pipe, and in 05 the buffer of the capture is
  longer than the output. POSIX guarantees a pipe of 512 bytes; the payloads
  are of 20 bytes or so. Without this the writer would wait for a reader that
  comes later, or never.
* 10: request and response each fit the buffer of a socket.
  `SendsNeverWait` is what this assumption buys: one thread plays both sides.
* 11: the timer's delay is shorter than the timeout of `epoll_wait`, 20 ms
  against one second. An equal one would leave open which of the two comes
  first.
* 27: `FileOutlives` and `ReclaimedUnlessWaitFails` assume that the wait of the
  cleanup does not fail. This is no assumption on a size but the case that
  section 6 finds missing in the code; the theorems say that it is the only
  one. `SuccessCorrect` does not assume it.
Assumptions of a module that is instantiated are definitions there, and the
module that joins several asserts them.

### The arguments

`BoundedQueueProofs`. `RingHoldsBacklog` needs to know that an update happens
under the mutex and after a test that still holds, `QuietAtDestroy` needs to
know how far the loops have come. So `InductiveInvariant` adds:
* `LockDiscipline`: the mutex is held exactly between lock and unlock (or the
  wait), a thread in a wait set is in the wait it belongs to, and a thread about
  to update has a condition that is false;
* `LoopsCount`: the `for` variables are the totals, shifted by one between the
  update and the unlock;
* `SumIsGauss`: twice the sum is n(n+1), which avoids the division of 07:94;
* `MainFollowsThreads`: who has been created and who has returned.

`Enqueue` and `Dequeue` keep it by the arithmetic of the ring (`SlotValue`,
`SlotsDiffer`, `SlotShift`, `SlotNext`: different offsets below the capacity
name different slots, and advancing the head shifts all offsets by one).
`InvariantGivesQuiet` derives `QuietAtDestroy`: both loops have ended, so both
totals are `ITEM_COUNT` and the count, their difference, is 0. For the
refinement `BacklogIsRun` shows that the mapped buffer is always the run
`consumed + 1, ..., produced`, so that `Enqueue` is `Append` and `Dequeue` is
`Tail`, and every other step stutters.

`ChildProgramsProofs`. Each program has an invariant of the same build: who has
which end open (`FdDescriptors`, `SpawnDescriptors`, `SessionEnds`, ...), how
far parent and child have come together (`...Stage`), where the bytes are
(`...Bytes`: what was written is in the pipe or was read), and what the outcome
says (`...Outcome`: a bad status, a failure or a cleanup is the trace of a failed
call). The first two are what the properties alone lack: that the payload
survives in 09 follows from who can still read the pipe, and that the poll of 25
does not wait from the child having exited well before. For 05
`LeastDescriptor`, `PipeGetsFreeNumbers` and `ChildGetsWriteEnd` show what
`pipe` and `dup2` do with a descriptor table of which any of 0 to 2 is closed.
`Refinement` then takes every action of every program (`FdRefines` to
`SysvRefines`) to one action of `ChildExchange`, or to a stutter, under the
mapping `ExchangeState`; the invariant says what the guards of the abstract
action ask for, above all that nothing is held at the return and that a child is
left only where it was given up (`givenUp` in the `...Stage` parts, which also
say that a child killed before it was given up is dead). Steps of a child that
was given up come after the return in some programs (05, 09, 17, 22);
`ChildGoesOn` takes them to `GoesOn`.

`SignalProgramsProofs`. Mask and action are determined by where main is and by
the flags `mask_changed` and `action_changed` (`MaskTracked`,
`SelfMaskTracked`), and an own or a child's signal can only be pending in some
places (`PendingTracked`, `OwnSignalTracked`). The two together exclude the
default action for an own signal on every path through the cleanups.
`ChildTracked` says that a child runs from the restored mask on only if it was
given up; then, and only then, `SurvivesChild` leaves the child's signal open.

`TransferLoopsProofs`. For one buffer, `Positions` adds to `HonestPrefix` that
the source is intact and that the kernel's offset is `start + done`. For an
array of them, `Accounts` says what holds also between two rounds of the loop
that accounts for a count: what the array describes and what was moved are
together everything; what was moved and is still described comes before the
rest; and `transferred` is the number of its places. If the count covers the
current vector, the vector's places were all moved (`WholePreserves`); if not,
exactly the first `transferred` of them were (`PartPreserves`): both by
counting places (`PlacesFinite`, `RowCardinality` and the theorems on finite
sets). `EndPreserves` shows that nothing is ever left over, so the check of
01:87-90 is never true.

`ThreadSpecificProofs`. `KeyTracked` and `BlocksTracked` relate the control of
every worker to the key and to its block. `SuccessCorrect` needs the two totals:
`CountTracked` and `SumTracked` say that each is the last value of a tally, a
function on 0..`THREAD_COUNT` that grows by each worker's share. A step of
one worker raises its tally (`TallyGrows`), and when all have run, the tallies
are n and n(n+1)/2 (`TallyOfAll`).

`AioRequestProofs`. `RequestTracked` says where the request is for each place of
main and what `pending` tells of it, in the cleanup as well.

`TcpExchangeProofs`. `QueueTracked`: until `accept4` the own connection is in the
queue; `BytesTracked`: over it, what was sent is under way or received.

`SoloProgramsProofs`. Five kinds of program, with an invariant each:
* 11: `TimerTracked` and `EventTracked` say where the expiration and the written
  value are, from the call that causes them to the read that takes them;
  `Reported` says that a batch of `epoll_wait` names only what can still be
  read, each once, so that no read of a batch finds nothing; `WaitBounded` says
  that wait and timer together never exceed the delay, which excludes the
  timeout.
* 12: `EventsTracked`: each awaited event that the program has caused was seen,
  is in the queue, or was dropped. `EmitQueues` shows what one event does to a
  queue with merging and overflow, `ReadSplits` that a read loses and adds
  nothing. With `WatchHeld` (the watch stands while events are caused and
  awaited, and the program waits only while one is missing) a poll that finds
  nothing is the trace of a dropped event.
* 21: `MessageTracked`: the message is in the stream, in the pipe or read, each
  byte in its place, wherever the library cut it (`TakeFills`); and
  `StreamHasReader`: the cleanup releases the stream before the last reader
  (`StreamFirst`), so that its flush does not raise SIGPIPE.
* 20: `SeekData` and `SeekHole` characterise the answers of the file system, as
  least elements, for a file of any number of blocks; `Answered` says which of
  them are there at each query, `SparseOutcome` what the verdict says of them.
* the sequences: the machine of `CleanupPaths` is correct for every table that
  `Follows` some history `has`, which says for each call what the process has
  before it: enough for the call, and so that a cleanup begun there releases
  in a good order (`Orderly`). `BodyTracked` ties `held` and `known` to
  that history, and `CleanupTracked` to what the cleanup has been through
  (`Released`). Neither looks at a table. That each of the thirteen tables has
  such a history is a lemma for each (`FilesystemFollows` and so on); a change
  to a program is a change to its lemma only.

Induction over numbers takes the form of least elements: `NatLeast` and
`MinLeast` obtain them from the library's theorem on well-founded relations, and
a property of all n is proved by taking the least n without it.

### Only model-checked

All liveness: `Termination`, `Returns` and `Terminates`. The prover has no rules
for fairness and `ENABLED`. The two runs of section 6 show behaviours, which is
not a matter for a proof.

Each module states the types of its variables as `TypeOK`; it is a part of each
of the inductive invariants. No recursive operator is used in any module.

## 5. Not modelled, and why

* What the kernel does with data that no step of the code depends on but in a
  final check: the lock of an open file description (04), the line discipline
  and the modes of a terminal (16), priorities of a message queue (18), modes
  and times (19), the list of attribute names (28), seals (29). The calls are in
  `CleanupPaths`, each with its failure; a model of their effect would repeat
  the manual page and then check it against itself.
* The parsing of control messages in 09:137-175, of which one case can occur:
  the program receives only what it sent itself.
* Address resolution (10), the dynamic linker (30), the clock and the name of
  the queue (18): one call each.
* Build files, scripts, container and documents have no state.

## 6. Findings

`aio_request_twice`: the README of experiment 27 says that the request is
reclaimed by `aio_return` on the paths of success, failure and cancellation
(line 5), and that the cleanup always waits for it (line 22). When
`wait_until_complete` fails, main goes to its cleanup, which calls
`cancel_and_reap`, which calls `wait_until_complete` again; if that fails too
(27:64), `aio_return` is skipped, and main closes the descriptor and returns
while the read may still be in progress. The run `aio_request` is the
same model without this second failure (`CleanupWaitFails = FALSE`), and finds
nothing.

`sparse_extents_coarse`: the README of experiment 20 says that a file system may
give conservative, coarse answers (line 46), the comment at 20:59 promises 0
for them, and `docs/assets/principles/PROMPTS.md:113` calls them nonfatal and
asks not to present one as a failure. The code treats one coarse answer so,
that all is data, and any that is still of two extents. When a part of the hole
is reported as data between the two, `query_second_extent` returns 1, the second
extent ends before the end of the file, and 20:137 makes the program fail. The
run `solo_programs` is about the layouts of one and two extents, and finds
nothing.

Five observations that are not contradictions of any statement of the
repository:
* 10: `accept4` takes whoever connected first. A stranger's connection makes
  the program fail, or wait for an answer it would have to send itself
  (`Termination` excludes this case); the container has no other program.
* 08:113 kills a pid after `waitpid` has failed, also with ECHILD; 25:130 and
  26:58 avoid exactly this. `Kill` of `SharedMemory` has the step (a child that
  has vanished), `KillHitsChild` is stated of 25 and 26 only.
* 09 and 23 (unlike 25 and 22 they do not tell ECHILD apart on the main path)
  report failure when started with SIGCHLD ignored; so do 05 and 22.
* A wait that fails twice, on the main path and in the cleanup, leaves a child
  that nobody has reaped (05, 08, 09, 17, 22, 23, 25, 26; in 05, 17, 22, 23 and,
  after the wait at its end, in 09 it may still run). The exit status is failure
  in all of them.
* 23: a child left in this way may send its SIGUSR1 when mask and action have
  been restored (23:112-119) and before the program has returned (`"return"`):
  if the inherited action is the default one, the signal kills the program.
  `NotKilledByChild` excludes this case by `givenUp`.

## 7. Plan

Done in this order: `BoundedQueue` with its refinement and proofs, the transfer
loops, the programs with several threads or processes, the signal and the
socket programs, the event loops, the buffers and extents, the programs of one
sequence of calls; then the proofs of section 4. The models are complete but
for section 5.

The safety properties of all runs are proved for every value of the constants.
What would come next, if the code grows: a program that is a sequence of calls is
a row of `CleanupPaths` and a lemma of `SoloProgramsProofs`; one with a child
is a module that states how it implements `ChildExchange`; and a model of
something in section 5 is worth its while once a step of the code depends on it.
