# Verification of goro-rs

goro-rs is an implementation of PHP 8.5 in Rust. This directory holds TLA+
models of the parts of it whose correctness depends on an order of events: what
runs beside what, what a callback may do in the middle of an operation, what
happens when a step fails half-way. TLC checks the models on small instances;
TLAPS proves every safety property the passing runs check for instances of any
size. Liveness is checked only.

Every definition is translated from the Rust source; `PROJECT.json` says which
lines each one stands for. The paths below are relative to the repository,
`engine` stands for `crates/goro-engine/src` and `runtime` for
`crates/goro-runtime/src`.

1. [The system](#1-the-system)
2. [The modules](#2-the-modules)
3. [The runs](#3-the-runs)
4. [Fairness](#4-fairness-and-time)
5. [What is proved](#5-what-is-proved)
6. [Where the code and its documentation differ](#6-where-the-code-and-its-documentation-differ)
7. [What is not modelled](#7-what-is-not-modelled)
8. [Further work](#8-further-work)

## 1. The system

A PHP request is one thread: the compiler turns a script into bytecode, the
interpreter (`Vm`) runs it, values live in reference-counted containers, and
builtins, which may call back into the script, do the rest. Concurrency is
around it: processes (FPM, the web server, the test runner's children), the
threads of the test runner, and inside the request the callbacks that run in
the middle of something else (destructors, output handlers, error handlers,
generators, fibers).

| Component | State | Operations | Hard behaviour | What makes it correct |
|---|---|---|---|---|
| Memory (`runtime/object.rs`, `reference.rs`, `array.rs`) | strong counts, contents, `F_DTOR_CALLED`, `A_MAY_CYCLE`, the queue of destructors | create, assign, store, release; copy on write | a release frees a cascade; destructors run later, at safe points, and may keep their object | nothing reachable is freed; a destructor runs once, before the free |
| Cycle collector (`runtime/gc.rs`, `Vm::collect_cycles`) | buffer of possible roots | record, remove, trial counting, clear, collect again after destructors | destructors run in the middle of a collection and may do anything, throw too | frees garbage only; no garbage escapes for ever |
| Output (`engine/vm/output.rs`, `builtins/output.rs`) | stack of levels, `redirect`, `final_flush`, `deactivated` | echo, `ob_*`, end of request | user handlers and the user's error handler run in the middle of an operation on the stack | bytes come out once and in order; the request ends |
| FPM master (`engine/fpm/master.rs`) | children, pending signals, `stopping` | start, reload, stop, reap, scale | signals read in batches, escalation QUIT/TERM/KILL with time limits, `exec` of itself | a stop ends, leaves nobody behind, cuts nobody short without need |
| FPM pool (`master.rs`, `worker.rs`, `scoreboard.rs`) | scoreboard in shared memory, listening socket | accept, serve, count, spawn, trim | one side reads the board while the other writes it; crashes, failed forks | waiting connections are taken; the pool has the size it is told |
| Test scheduler (`goro-phpt/src/schedule.rs`) | three job lists, held keys | take, sleep, release | threads on one mutex and condition variable | conflicting tests never overlap; the run ends |
| Test processes and watchdog (`goro-phpt/src/proc.rs`) | a run's first process, its pipe, the groups the watchdog knows | spawn, tell, wait, time out, kill, reap, untell | the runner may be killed at any time; background processes; numbers are used again | no group outlives the runner; a signal meets the group it is meant for |
| Interpreter (`engine/vm/exec.rs`, `calls.rs`, ...) | frames, pending calls, `finally` states | calls, exceptions | unwinding through half-built calls | every frame is left once |
| Generators and fibers (`vm/iter.rs`, `builtins/fiber.rs`) | suspended frames, delegates, the engine state of each fiber | resume, yield, delegate, throw into, suspend, destroy | re-entrance, shared delegates, destruction while suspended | a frame is in one place; every `finally` block runs |
| Lazy objects (`vm/lazy.rs`) | the initializer, a copy of the object | initialize, reset | initializers that throw | a failure restores the object |
| End of request (`Vm::shutdown`) | shutdown functions, globals, live objects | run each in order | each may throw or exit | every destructor once, output flushed last |
| Sessions (`engine/builtins/session/`) | status, ID, `$_SESSION`, what was read; the open file and its lock; the directory | start, reset, set the ID, write, abort, regenerate, destroy, collect | requests that share a session; calls that fail or die half-way; killed processes | one owner at a time, who overwrites only what it has read |
| Web server (`engine/cli_server/`) | connections | accept, fork per request | keep-alive, workers sharing a socket | every request answered once |
| Compiler, regex, XML, charsets, extensions | none that lasts | functions of values | none of order | pure; left to the repository's tests |

How they meet: every release of a handle in the interpreter goes through the
drop hooks of the memory component, which queue destructors for the interpreter's
safe points and record possible roots for the collector; the collector is
called by `new` when the buffer is full, and calls destructors, which are
interpreter code. `echo` anywhere enters the output component, which calls
handlers, which are interpreter code again, and raises diagnostics, which call
the error handler. The end of the request runs destructors first and flushes
the output after. The FPM master and its workers share the scoreboard, the
listening socket and signals only. The test runner's scheduler calls `proc.rs`
for each test. Requests of one user share session files, whoever serves them.
Generators and fibers share the interpreter's frames: a fiber switch takes the
stack of frames away, with the generators that run on it.

`PROJECT.json` lists the hazards found while reading, each at its line, with
the properties that would catch it.

## 2. The modules

| Module | Models | Composes |
|---|---|---|
| `Heap` | memory, collector, destructor calls | what script, drop hooks, collector and engine do to one heap |
| `HeapProofs` | theorems about `Heap` | |
| `Output` | output buffering | script, output handler and error handler over one stack |
| `OutputProofs` | theorems about `Output` | |
| `FpmControl` | the master's stops and reloads | master, workers, kernel |
| `FpmControlProofs` | theorems about `FpmControl` | |
| `FpmPool` | process manager, scoreboard and worker loops | master, workers, clients, time |
| `FpmPoolProofs` | theorems about `FpmPool` | |
| `TestSchedule` | `run_all` | worker threads and the main thread |
| `TestProcess` | `proc.rs`: one run of a process each, and the watchdog | runs, test processes, watchdog, kernel |
| `TestRunner` | extends both | the thread that has taken a job runs its process; the job ends when the run returns |
| `TestScheduleProofs` | theorems about `TestSchedule` | |
| `TestRunnerProofs` | theorems about `TestProcess`, and about the whole | |
| `SessionStore` | what the files save handler promises, abstractly | |
| `Session` | session calls, the files save handler, open(2), flock(2), unlink(2) | requests over one directory; implements `SessionStore` |
| `SessionProofs` | theorems about `Session` | |
| `Coroutine` | generators and fibers | the script, fibers and generators over one interpreter |
| `CoroutineProofs` | theorems about `Coroutine` | |
| `MC*` | the instances TLC checks | |

Definitions that begin with "Mutant" in their comment are plausible mistakes:
each is what a mapped definition would be after one slip. Nothing uses them
but the mutation tests that show that every checked property notices one.

**Heap.** A node is the address of a container: an object with or without
destructor, a reference cell, or the data of an array. The heap is one record
`h` (kinds, variables, slots, flags, buffer, queue), because most operations
change it by the same function: `Settle(g, fs, T)` is the heap after handles to
the nodes of `T` were dropped. It takes the least set of containers that the
last releases free (`Freed`, the cascade of `Drop` for `Object`, `ArrayData` and
`RefInner`), queues the objects whose destructor is due, records the survivors
as possible roots (`Suspect`) and takes the freed ones out of the buffer
(`TakeOut`). Strong counts are not stored: `Strong` counts the handles there
are, which is what `Rc` does. `frames` is the stack of destructors and
collections in progress; the script runs when it is empty or a destructor is on
top. `Collect` is `Vm::collect_cycles` up to its first destructor call,
`GcDestructor` and `GcAgain` the rest. The buffer is a set: its index and free
list are left for a refinement. Copy on write is modelled as the code decides
it: in place when the strong count is one (`Unique`), else a copy that
dereferences references nobody else holds (`CopyOf`).

**Output.** Bytes the script echoes are numbered, so that order, loss and
duplication show. `calls` is the stack of callbacks in progress; an operation
on a level that has a handler is cut in two, `Begin` up to the handler's call
and `HandlerReturns`, `HandlerThrows`, `HandlerExits` or `HandlerBuffers` (it
calls an `ob_` function, which is fatal) from its return. The deprecation of
handlers that print calls the user's error handler, which makes a third part,
`ErrorHandlerEnds`. `onError` says which error handler the script has: none,
one that leaves output alone, or one that uses output buffering itself.
After `exit` or a fatal error the phase stays "script", which then stands for
shutdown functions and destructors, until `EndAll`.

**FpmControl.** `sigs` are signals pending on the master's signalfd, `batch` those
read and not handled. `steps` is the plan of `stop_children`: what is left of the
(signal, time limit) pairs; `terminate` and `reload` never return, so what is left of
the batch is dropped by `Stop`. Workers have the state the master's view needs.
`timed` is the configuration: `process_control_timeout` set or not.

**FpmPool.** One action per read of the scoreboard, because workers change it
between the reads: a round of `run_loop` and `maintenance` is up to eight steps
of the master. `pool` is the configuration record, chosen in `Init` from the
constant `Pools`. A worker's program counter (`at`) is separate from what the
board shows (`board`). `age` counts seconds since `idle_since` as the code
stores it; `calm` is what it should say. `order` orders the slots by `idle_since`, on
which the choice of a victim depends (`Place`); workers forked in one go follow
those there were, in any order among themselves (`InTurn`).

**TestSchedule, TestProcess, TestRunner.** One action per critical section of
`run_all` (`WorkerStep`). `keyed`, `free` and `exclusive` are sets: the code's
lists are filled in index order and only taken from. `TestProcess` has a step
for each system call of `run` whose order matters (spawn, tell the watchdog,
wait, kill the group, reap, take the group back), the steps of the test's own
processes (end, fork into the background, leave the group), and the watchdog,
which reads what it was told and, when its pipe ends, kills what it knows.
Numbers of processes are used again. `TestRunner` joins them at the closure of
the runner: a job that has been taken starts a run, and the thread goes on when
the run returns. A run's `at` is where its thread is in `run`.

**SessionStore, Session.** `Session` is a process per request. A step ends where
another process may come between: after open(2), flock(2), the read, ftruncate,
the write and unlink. `op` is the session call under way and decides what
follows a close (`Closed`), as the code's callers do. Files have an identity of
their own (`Inode`), because a file can be deleted and made again under its name
while somebody waits for its lock. In `SessionStore` there are no files: a
session has contents, an owner, and what the owner knows of the contents
(`view`). The refinement says that a session is the file its ID names now, and
that its owner is the request past flock() on that file. `lapsed` is the one
exception the code has, a regeneration that could not delete the old file (6).

**Coroutine.** A body is the code of a generator, a fiber or the script; it has
one `try` with a `finally` block, and catch blocks anywhere. A context (the
script or a fiber) has the stack `ex` of its calls of `gen_resume`; such a call
is the chain of generators that delegate to each other, the last one running, as
`gen_resume_chain` walks it. `fibers` is `Vm::fiber_stack`. An exception that is
being thrown is `flying`, and until it is caught, kept by a `finally` block or
reported, nothing else happens; `gexit` and `fexit` are the markers that end a
generator and a fiber that are destroyed, and no catch block sees them. `next`,
`send` and `throw` on a generator not yet started are two resumes, the second of
which is `SecondHalf`.

## 3. The runs

| Run | Instance | Distinct states | Shows |
|---|---|---|---|
| `runner` | 2 threads and the main one, 4 jobs: two that share a key, one without, one exclusive; 2 process numbers; the runner may be killed | 108,668 | `NoOverlap`, `ExclusiveAlone`, `RunOnce`, `SleepersAreWoken` of the scheduler; `SignalsReachTheirOwn`, `NobodyOutlives` of the processes; `ProcessesNeverConflict`, `EveryJobEnds` of both |
| `heap` | 3 containers of 4 kinds, 2 variables, 1 field; all kinds with destructors that may keep their object, or objects and arrays with destructors that run script code, keep, throw; 4 nested calls | 198,462 | collector sound and complete, no lost garbage, arrays acyclic, destructor before free (`OwnDestructorFirst`), `OneOwner`, `DestructedOnce` |
| `heap_dtor_throws` | violation | | `DestructedBeforeFreed` fails when a destructor throws |
| `output` | 2 levels, 3 bytes, chunk 0 or 2, all or no permissions, every error handler | 587,024 | `InOrder`, `NothingLost`, `HandlersKeepLevels`, `FinalIsLast`, `RequestEnds` |
| `output_lost` | violation | | a flush loses its contents |
| `fpm_control` | 2 workers, the five signals, timeout or not | 250,583 | `NobodyIsLeft`, `NoRefillWhileStopping`, `GracefulFinishesRequests`, `EndIsHonoured`, `StopEnds` |
| `fpm_term_while_quitting` | violation | | `TermIsHonoured` fails |
| `fpm_pool` | 2 slots; static, dynamic, ondemand; 1 fault | 185,838 | `ConnectionsAreTaken`, `StaticKeepsItsWorkers`, `SpareSettles`, `QuittingEnds`, `OndemandEmpties` |
| `fpm_idle_since` | violation | | `QuitsOnlyTheLongIdle` fails |
| `session` | 2 requests, 2 IDs, 3 files | 767,055 | `KeepsItsLock`, and the directory implements the abstract store (`ImplementsStore`) |
| `coroutine` | 3 generators, 2 fibers; a `try` in one generator, or in one fiber | 1,388,422 | `OneFrame`, `DelegateIsStarted`, `FinallyRuns` |
| `coroutine_exit` | violation | | `ExitUnwindsItsFiber` fails |

Why the bounds are enough to be of use:

- *Heap.* Three containers hold a cycle of two, a third outside it that enters
  or leaves it, a self-loop, a shared array, and a reference between an array and
  itself. Two variables let one release while the other still reaches. A depth
  of four lets a destructor called by a collection create garbage and start a
  collection of its own.
- *Output.* Two levels make "the level below" both a level and standard output. Three
  bytes let one be in each of three places, a chunk of two be filled by two
  echoes, and order be wrong. Callbacks nest two deep and cannot go deeper: an
  error handler may run an output handler, whose own deprecation finds no
  error handler, because it is off while it runs. `MaxLevel` bounds `ObStart`
  only.
- *FpmControl.* Two workers differ (one busy, one dead, ...) while a step waits. Each
  signal is sent at most once, which gives every subset in every order and batch.
- *FpmPool.* Two slots are a worker that is needed and one that may be picked
  wrongly. One waiting connection is enough for two workers to race for it.
- *TestRunner.* Two threads over two jobs with a shared key: one thread sleeps on
  the key the other holds. A third job needs no key, so that the sleeper may be
  passed; the exclusive one names the key as well. Two numbers are a test's and the one of
  whoever runs beside it, and a number is used again by whoever comes next.
- *Session.* Two requests contend for a session; the second ID is what a
  regeneration moves to or another session; three files are one deleted under
  its owner, the one made in its place, and one of the other ID. Two contents
  tell a write from what was there.
- *Coroutine.* Three generators are a chain of two and an outer one that shares
  its end, or a circle; two fibers nest. `Programs` says which bodies have a `try`:
  a generator, whose `finally` block can run for its own destruction and its
  fiber's, or a fiber.

Deadlock is checked in every passing run; states where the code may stop
(`Rest`, `Over`, `Terminated`) stutter explicitly.

## 4. Fairness and time

- `TestRunner`: threads are run by the operating system (weak fairness of each
  worker's step and of each step of a run), strong fairness where a step
  waits for a lock or a pipe that others use in between (the return of a run,
  telling the watchdog and taking it back), and weak fairness of the watchdog,
  which only reads. Nothing is assumed of the test's processes: that a run ends
  comes from its time limit (`proc.rs`).
- `Session` and `Coroutine` state safety only: requests may wait for a lock for
  as long as its owner likes, and the script decides when anything happens.
- `FpmControl`: weak fairness of each of the master's steps (its loop never
  blocks longer than its poll's time limit) and of the kernel's SIGKILL. Nothing is assumed of requests
  or workers for `EndIsHonoured`; `StopEnds` assumes `Polite`, that workers read signals and
  requests end, and `TermIsHonoured` that workers read signals (`HearingSpec`), which
  they do while a request runs, in `run_child`.
- `FpmPool`: weak fairness of the master, of each worker, of time (`Second`,
  `RecentOver`), and strong fairness of `Closed`: clients do not keep a connection
  open for ever. Clients need not connect. `Prompt` says that nobody takes a whole
  second for steps that wait for nothing: without it, one-second rounds of
  `maintenance` could overtake a worker that only has to store its state, which no
  timing of the code excludes but which makes statements about settling
  meaningless.
- `Output`: callbacks return (PHP's own time limits are outside the model) and
  the end of the request goes on. The script need not end.
- `Heap` states safety only: the script decides when anything happens.

## 5. What is proved

All theorems hold for every value of the constants that satisfies the `ASSUME`s
of the module: finite sets of nodes, variables, fields, workers; any number of
them, and of requests, session IDs, files and contents. No theorem assumes anything else.

**TestScheduleProofs.** `TypeCorrect`, `ConflictsHonoured` (`[]NoOverlap`) and
`ExclusiveRunsAlone` (`[]ExclusiveAlone`). `NoOverlap` speaks of threads inside a test only,
and is not inductive: a thread that has returned still has its keys in `held`
until it takes the mutex again, and its release must not take away a key of
another thread. The inductive invariant adds that the keys of a thread that runs or is about to release
are held (`KeysHeld`), that such threads' keys are disjoint (`KeysDisjoint`), and
that exclusive jobs stay apart until every thread has ended (`ExclusiveApart`).
`JobsRunOnce` (`[]RunOnce`) and `NoLostWakeUp` (`[]SleepersAreWoken`): the
invariant `Debts` says that every key held is owed by a thread that will
release it, and that a job is in one place.

**TestRunnerProofs.** Of `TestProcess` alone: `ProcTypeCorrect`, `OwnSignals`
(`SignalsReachTheirOwn`) and
`NoGroupOutlives` (`NothingIsLeft`: a run leaves no process behind), from `ProcInv`:
a number belongs to one run, from the start of its process until it is reaped
(`Owned`), every process is the business of some run (`Kept`), and the watchdog
knows of a group only while its run is between its two messages (`Sent`). That
the watchdog empties the groups of a dead runner (`NobodyOutlives`) is liveness
and stays with TLC. Of the whole: a step of the runner is a step of one of the parts or of both
(`StepsOfBoth`), so each part keeps its invariant inside the whole
(`PartsKeepTheirs`, `RunnerKeepsBoth`), and tests whose processes live never
share a key (`ProcessesApart`: `[]ProcessesNeverConflict`): a run's processes are gone
before its thread gives up the keys.

**HeapProofs.** The inductive invariant `HeapInv` has three parts. `TypeOK`: the heap
is well formed, no handle leads to a freed container, and none is left in the
buffer, the queue or a call. `Shaped`: what an array holds through arrays alone
lies in a set without that array, and an array that holds something is marked as
one that may be in a cycle. `Seen`: every live container can be reached from the
script, the engine or a possible root. Each of the three theorems says what one part says:
`TypeCorrect`, `NoArrayCycle` (`[]ArraysAcyclic`), `GarbageIsFound` (`[]NoLostGarbage`);
but they only hold together. An array is recorded as a possible root only if it
is marked, so `Seen` needs `Shaped`; a collection clears objects and
references only, so it leaves nothing unseen because arrays make no cycle of their
own; and arrays stay acyclic because a write in place needs a strong count of
one, which is a statement about every handle of a well-formed heap.

The argument about releases is one about fixed points: what a release frees is
the least set closed under "held only by freed ones" and is itself such a fixed
point (`FreedIsOrphan`), so no survivor holds a freed node (`SettleIsWellFormed`)
and what a survivor was reached by survives or was recorded (`SettleIsSeen`); this
covers the releases of the script, copies, and what a collection clears.
`CollectorSound` (`CollectorIsSound`): a collection leaves whatever a
variable, the queue or a call reaches as it was. A node of the scanned graph
with a handle from outside it has a strong count above the number of handles
inside (`CountedOutside`, a counting argument over finite sets), hence is kept
with all it reaches; so the garbage is unreachable (`GarbageIsUnreachable`), and
clearing what is unreachable releases only unreachable containers
(`ClearKeepsReachable`). `CollectorComplete` (`CollectorIsComplete`): because all garbage
is seen from possible roots the scan meets all of it, and because arrays make no
cycle of their own, clearing objects and references frees the arrays too.

Two more invariants are inductive relative to `HeapInv`. `OwnInv` follows each
destructor through the queue, the lists of collections and the calls: an object is in one
of them, and is marked as called there; hence `EachOwnedOnce` (`[]OneOwner`) and
`CalledOnce` (`DestructedOnce`). `KeepInv`, for programs whose destructors do no more
than keep their object, adds that whatever is marked as called was called or will
be, and that while a collection waits for destructors nothing is queued and every
object whose destructor is still due can be reached from a variable; hence `DestructorFirst` (`OwnDestructorFirst`).

**OutputProofs.** Three invariants, proved in turn, for any numbers of levels and bytes,
chunk sizes and flags. `FlagsInv` says which callbacks can be in progress and that
the level of a handler is the top one: `TypeCorrect` (callbacks nest two deep at
most) and `LevelsKept` (`[]HandlersKeepLevels`). `OrderInv` adds to `InOrder` what an
operation holds while it waits for the error handler: it was echoed after all
that is below the level it is for, and nothing is above. Without that, an error
handler that ends levels in between would leave nothing to be said of
what the operation passes on afterwards. Every step either thins the levels (`Thins`) or passes one
sequence on to a level above which there is nothing (`Passes`), and both keep the order: `BytesInOrder` (`[]InOrder`).
These two invariants hold with any error handler. `AloneInv` is about error handlers that do
not use output buffering: then one callback is in progress at most, so that a byte
is either in a level, out, with the waiting operation, or gone, and a level
that was told it is over is the one being ended: `NothingIsLost`
(`[]NothingLost`) and `FinalOnce` (`FinalIsLast`).

**FpmPoolProofs.** `TypeCorrect` (`[]TypeOK`) and `StaticPoolKept`
(`[]StaticKeepsItsWorkers`). The bound on missing workers is not inductive: `spawn` takes
slots that are cleared (`Board::alloc`), so it has to be known that every slot not in
use is (`BoardInv`); and that what the master counted in one step still bounds what it
adds in the next needs to be known of where it is in its round (`MasterInv`). Two
lemmas about the board carry all steps: `SpawnKeepsBoard` for forks, with what the
faults explain before as its premise, and `KeepsBoard` for every step that takes no slot and gives none
back, which is every step of a worker.

**CoroutineProofs.** For any number of generators and fibers, any depth of delegation
and of nested resumes, and any set of programs. `Inv` says where generators are and
what they can be: the activations on all the stacks share no generator and hold every
generator that runs (`Stacks`); a generator that does not run has its frame until
it ends, has something to run in a `try` only if it is paused or running, and
delegates only while it is paused, to one that has begun (`Gens`); the list of
running fibers is exact (`FiberInv`); an exception is kept only inside a
`finally` block (`CodeInv`); and the second half of `next`, `send` and `throw` is
for a generator that has just paused (`AgainInv`). Every step changes the last activation of one
stack at most, and those generators (`TopChanges`), so that `Stacks` follows from
what happens to one activation; `Resume` walks a path of delegates
(`Follow`), whose generators are paused and hence on no stack. From `Inv`:
`TypeCorrect`, `FrameInOnePlace` (`[]OneFrame`), `DelegatesHaveBegun`
(`[]DelegateIsStarted`), and `FinallyIsRun` (`FinallyRuns`): a body that is inside its `try`
is neither ended nor freed, so that the only steps that take it out are those that
go through its `finally` block.

**FpmControlProofs.** `TypeCorrect` (proved, and therefore not among the properties the run
checks); `NoneLeftBehind`: `Exit` and `Exec` are the
only ways out of a stop and both wait for the last child; `StoppingPoolShrinks`: no step of a
stopping master brings a worker to life; `RequestsFinish`
(`[]GracefulFinishesRequests`): the invariant `Patient` says that, without a timeout
and as long as nobody asked for SIGTERM or SIGINT, a master with a worker left
is at the first step of its plan, SIGQUIT without end, so that no worker is ever
told anything harsher.

**SessionProofs.** `TypeCorrect`, `LockKept` (`KeepsItsLock`) and `Refines`
(`Spec => ImplementsStore`): the directory, the locks and the requests that use
them implement `SessionStore`. The invariant `Inv` adds to the types what each call leaves
open (`Control`), that one process is past `flock` for each file (`Alone`), that a file has
one name and is open under that name (`OneName`), and that a request between two calls
knows what its file holds (`Knows`), which makes a write that follows a read a
`Wipe` of the store with a true view. A step of a request changes nothing of
another one (`Frame`); so every session it neither holds nor comes to hold is as it was
(`Elsewhere`), and a step is mapped by what it does to the one session it
holds: `MapsQuietly` (a stutter, `Forget`, `Release` or `Lapse`) for the steps that leave
the disk alone, one lemma each for opening, reading, writing and removing. A
file that was unlinked while it was open is nobody's session: what is done to it
is a stutter.

Model-checked only, because the prover does not do liveness under fairness:
`NobodyOutlives` and `EveryJobEnds` of the runner, `RequestEnds` of the output,
`EndIsHonoured` and `StopEnds` of the FPM master, and `ConnectionsAreTaken`,
`SpareSettles`, `QuittingEnds` and `OndemandEmpties` of the pool. Every invariant
and every action property of a passing run is a theorem. The bounds that the
models put on counters (`MaxLevel`, `Backlog`, `MaxFaults`, ...) are constants of the
theorems too: they hold for every value of them.

## 6. Where the code and its documentation differ

Each of these came up while a part was being modelled. The first five are
runs that end in a violation, and findings of `PROJECT.json`.

- `vm/setup.rs:482`: a destructor that throws ends `collect_cycles`; objects marked
  as called lose their destructor (`heap_dtor_throws`; `gc.rs:21`).
- `vm/output.rs:375`: a flush drops what it holds when the error handler changes the
  number of levels (`output_lost`; `output.rs:371`).
- `fpm/master.rs:1040`: SIGTERM during a graceful stop without timeout is read and
  dropped (`fpm_term_while_quitting`; `master.rs:4`). The same happens to a SIGTERM
  read in one batch with SIGUSR2, which `reload` never gives back, and to a SIGQUIT
  that arrives during a reload (`master.rs:1086`).
- `fpm/scoreboard.rs:167`: `idle_since` is the time of the start, so an ondemand worker is
  told to quit right after a request (`fpm_idle_since`; `scoreboard.rs:64`).
- `vm/iter.rs:1318`: a generator whose `finally` block runs because its fiber is
  destroyed may yield; the exit stays in it, the fiber's function goes on, and
  whoever resumes the generator later gets the exit thrown at it
  (`coroutine_exit`; `builtins/fiber.rs:6`).
- `vm/setup.rs:484`: garbage made by a destructor of a collection is freed by the
  second collection without its destructor. `OwnDestructorFirst` speaks of
  programs whose destructors do no more than keep their object.
- `fpm/master.rs:905`: a static pool's worker whose replacement could not be
  forked is never replaced. `StaticKeepsItsWorkers` counts faults for that reason.
- `fpm/fcgi.rs:106`: an idle worker told to quit just after it accepted closes the
  connection without reading it. `FpmPool` has the step (`Interrupted`).
- `vm/output.rs:475`: with an error handler that starts a level whose handler
  prints, `ob_end_all` need not end; `RequestEnds` excludes such handlers, and so
  do `NothingLost` and `FinalIsLast` for the reason of `output.rs:375`.

- `proc.rs:294`: the thread that reads a test's output kills the group by number
  when there is too much of it, also in the seconds after the run has reaped
  the process, when the number may be another test's; the care taken for the
  other two senders of signals (`proc.rs:305`) does not extend to it. `ReaderKills` is a step of
  `TestProcess`; `SignalsReachTheirOwn` is about the run and the watchdog.
- `proc.rs:268`: a runner killed between the start of a process and the message to
  the watchdog leaves the test behind (`proc.rs:12` promises otherwise);
  `NobodyOutlives` is about groups the watchdog was told of. It keeps at most 1024.
- `proc.rs:323`: output that a stray process keeps the pipe open for is given up
  after five seconds, all of it.
- `session/mod.rs:1356`: `session_regenerate_id(true)` whose unlink fails returns with
  the session active and its lock gone, so that the next write may overwrite
  what another request has stored (`files.rs:4`: "locked with flock() while the session is
  open"). `KeepsItsLock` says that this is the only way, and `SessionStore` lets only
  such requests (`lapsed`) overwrite what they have not read.
- `vm/iter.rs:1446`: two generators that yield from each other pass the test for a
  running generator when each is resumed on its own while the other is paused.
  Resuming them ends in an Error; `current()` (`iter.rs:1547`) follows the
  circle for ever. `Coroutine` reaches the circle (`Follow` stops at a repetition, as the
  states of the generators on the way do).
- `vm/iter.rs:1002`: a generator whose delegate, shared with another one, was aborted by an exception
  there goes on with null as the result of `yield from`.
- `vm/errors.rs:502`: a destructor that throws while a fiber's exit unwinds frames
  replaces the exit by an exception that can be caught.

## 7. What is not modelled

- *Inside the modelled parts.* Heap: weak maps, lazy objects, opaque nodes (a
  container borrowed while a collection runs; collections run at safe points),
  `F_DTOR_CALLED` set without a call by failed constructors and `unserialize`,
  array iteration positions, the order of several queued destructors, the
  index and free list of the buffer of possible roots. Output:
  headers, rewriting of URLs, what handlers and diagnostics print, `redirect`
  naming a level that an error handler has ended. FPM: `check_requests`, the
  process a request runs in, log and pid files, captured worker output, status
  page, binding and inheriting sockets. Scheduler: a panic in a test. Sessions:
  user save handlers, session calls nested in the serialization of `$_SESSION`,
  diagnostics that throw, upload progress, cookies and headers; a deletion
  while somebody waits for the lock is modelled, so is the garbage
  collection, which ignores locks. Coroutine: `yield from` arrays and iterators,
  keys, values and what is sent, calls open across a yield, ticks, stack limits, `exit`,
  destructors during unwinding, the `@` state.
- *Components left aside.* Pure functions over values (conversions, dates, hashing,
  JSON, regular expressions, XML, character sets, images), which have no order
  of events and are tested against recorded PHP output; the compiler; text front
  ends (CGI, phpdbg, configuration); generated tables, which are most of the
  repository's lines. `PROJECT.json` gives the reason for each.
- *Why the models stop here.* What is left of the stateful parts would multiply
  instances that are near the limit of what TLC finishes in minutes (weak maps
  in `Heap`, request timeouts in `FpmPool`, shared output levels in `Coroutine`).

## 8. Further work

1. `RootBuffer`: the buffer of possible roots with its entries, free list and
   stored indices (`gc.rs:66-180`), shown to implement the set `buffered` of
   `Heap` (`INSTANCE ... WITH`), including the address check that protects a stale
   index.
2. Proofs: an abstract output stream that `Output` implements (a client that
   receives a subsequence of what was echoed) and an abstract scheduler of
   conflicting tests, as refinements; the safety half of `NobodyOutlives` (what the
   watchdog knows when its pipe ends).
3. Heap: weak maps as ephemeron edges, the end of the request
   (`Vm::shutdown`) as further steps, lazy ghosts.
4. `WorkerRequest`: the process of a request, `check_requests` and slot reuse, composed with `FpmPool`.
5. Fibers and output together: a fiber suspended inside an output handler.
