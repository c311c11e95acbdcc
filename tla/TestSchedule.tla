---------------------------- MODULE TestSchedule ----------------------------
(***************************************************************************)
(* The parallel scheduler of the .phpt runner (goro-phpt, schedule.rs):    *)
(* worker threads take jobs under one mutex, two jobs that share a         *)
(* CONFLICTS key never run together, and the jobs keyed "all" run after    *)
(* every other one, one at a time.                                         *)
(*                                                                         *)
(* The code keeps `free` as a queue and `keyed` and `exclusive` as lists,  *)
(* all three filled in increasing index order and only ever taken from, so *)
(* a set of indices stands for each of them: the front of the queue is its *)
(* smallest element.                                                       *)
(***************************************************************************)
EXTENDS Integers, FiniteSets

CONSTANTS
    Job,         \* the indices of the jobs, 0 .. jobs.len() - 1
    Key,         \* the CONFLICTS keys other than "all"
    Conflicts,   \* Conflicts[j]: the keys of job j
    Exclusive,   \* the jobs one of whose keys is "all" (Job::is_exclusive)
    Worker       \* the threads of the scope

ASSUME JobAssumption == Job \subseteq Nat /\ IsFiniteSet(Job)
ASSUME ConflictsAssumption == Conflicts \in [Job -> SUBSET Key]
ASSUME ExclusiveAssumption == Exclusive \subseteq Job
ASSUME WorkerAssumption == IsFiniteSet(Worker) /\ Worker # {}

VARIABLES
    free,        \* State.free: jobs without a key, not taken yet
    keyed,       \* State.keyed: jobs with keys, not taken yet
    held,        \* State.held: the keys of the keyed jobs being run
    exclusive,   \* run_all's `exclusive`: jobs left for the final loop
    pc,          \* where each thread is
    job,         \* the job a thread runs
    solo,        \* the exclusive job the main thread runs, as a set
    finished     \* the jobs f has returned from

vars == <<free, keyed, held, exclusive, pc, job, solo, finished>>

none == -1

First(S) == CHOOSE i \in S : \A k \in S : i <= k

(* Mutant: `all` beside another key leaves the job among the keyed ones. *)
KeyedEvenIfAll == {j \in Job : Conflicts[j] # {}}

KeyedJobs == {j \in Job \ Exclusive : Conflicts[j] # {}}

Init ==
    /\ free = {j \in Job \ Exclusive : Conflicts[j] = {}}
    /\ keyed = KeyedJobs
    /\ exclusive = Exclusive
    /\ held = {}
    /\ pc = [w \in Worker |-> "take"]
    /\ job = [w \in Worker |-> none]
    /\ solo = {}
    /\ finished = {}

(* Mutant: the first keyed job, whatever is held. *)
AnyKeyed == keyed

(* The keyed jobs none of whose keys is held. *)
Startable == {j \in keyed : Conflicts[j] \cap held = {}}

(* The first startable keyed job: its keys are held from here on. *)
TakeKeyed(w) ==
    /\ pc[w] = "take"
    /\ Startable # {}
    /\ LET i == First(Startable) IN
         /\ keyed' = keyed \ {i}
         /\ held' = held \cup Conflicts[i]
         /\ job' = [job EXCEPT ![w] = i]
    /\ pc' = [pc EXCEPT ![w] = "run"]
    /\ UNCHANGED <<free, exclusive, solo, finished>>

(* No keyed job can start: the front of the free queue. *)
TakeFree(w) ==
    /\ pc[w] = "take"
    /\ Startable = {} /\ free # {}
    /\ free' = free \ {First(free)}
    /\ job' = [job EXCEPT ![w] = First(free)]
    /\ pc' = [pc EXCEPT ![w] = "run"]
    /\ UNCHANGED <<keyed, held, exclusive, solo, finished>>

(* Mutant: no look at whether a keyed job is left before sleeping. *)
NothingToStart == Startable = {} /\ free = {}

(* Keyed jobs are left, all of them blocked: sleep on the condition. *)
AllBlocked == Startable = {} /\ free = {} /\ keyed # {}

Sleep(w) ==
    /\ pc[w] = "take"
    /\ AllBlocked
    /\ pc' = [pc EXCEPT ![w] = "wait"]
    /\ UNCHANGED <<free, keyed, held, exclusive, job, solo, finished>>

(* Mutant: a thread ends once the free queue is empty. *)
NoFreeLeft == free = {}

(* Nothing is left to take: the thread ends. *)
NothingLeft == free = {} /\ keyed = {}

Exit(w) ==
    /\ pc[w] = "take"
    /\ NothingLeft
    /\ pc' = [pc EXCEPT ![w] = "done"]
    /\ UNCHANGED <<free, keyed, held, exclusive, job, solo, finished>>

(* The thread is without a job again. *)
LetGo(w) == [job EXCEPT ![w] = none]

(* f(&jobs[i]) returns; a job without keys has nothing to release. *)
Return(w) ==
    /\ pc[w] = "run"
    /\ finished' = finished \cup {job[w]}
    /\ IF Conflicts[job[w]] = {}
         THEN pc' = [pc EXCEPT ![w] = "take"] /\ job' = LetGo(w)
         ELSE pc' = [pc EXCEPT ![w] = "release"] /\ UNCHANGED job
    /\ UNCHANGED <<free, keyed, held, exclusive, solo>>

(* The keys are given back and every sleeping thread looks again. *)
Release(w) ==
    /\ pc[w] = "release"
    /\ held' = held \ Conflicts[job[w]]
    /\ job' = LetGo(w)
    /\ pc' = [v \in Worker |->
                IF v = w \/ pc[v] = "wait" THEN "take" ELSE pc[v]]
    /\ UNCHANGED <<free, keyed, exclusive, solo, finished>>

(* Mutant: the final loop starts when the first thread has ended. *)
OneJoined == \E w \in Worker : pc[w] = "done"

(* The scope has joined every thread. *)
Joined == \A w \in Worker : pc[w] = "done"

(* The exclusive jobs, one by one. *)
StartExclusive ==
    /\ Joined
    /\ solo = {} /\ exclusive # {}
    /\ solo' = {First(exclusive)}
    /\ exclusive' = exclusive \ {First(exclusive)}
    /\ UNCHANGED <<free, keyed, held, pc, job, finished>>

ReturnExclusive ==
    /\ solo # {}
    /\ finished' = finished \cup solo
    /\ solo' = {}
    /\ UNCHANGED <<free, keyed, held, exclusive, pc, job>>

(* run_all has returned. *)
Terminated ==
    /\ Joined
    /\ solo = {} /\ exclusive = {}
    /\ UNCHANGED vars

WorkerStep(w) ==
    \/ TakeKeyed(w) \/ TakeFree(w) \/ Sleep(w)
    \/ Exit(w) \/ Return(w) \/ Release(w)

Next ==
    \/ \E w \in Worker : WorkerStep(w)
    \/ StartExclusive \/ ReturnExclusive \/ Terminated

(* Every thread is run by the operating system, and every f returns: a
   test has a time limit of its own (proc.rs). *)
Fairness ==
    /\ \A w \in Worker : WF_vars(WorkerStep(w))
    /\ WF_vars(StartExclusive \/ ReturnExclusive)

Spec == Init /\ [][Next]_vars /\ Fairness

-----------------------------------------------------------------------------
Pc == {"take", "wait", "run", "release", "done"}

(* The jobs some thread, the main one included, is inside f for. *)
Running == {job[w] : w \in {v \in Worker : pc[v] = "run"}} \cup solo

(* Every variable has the type the code gives it. *)
TypeOK ==
    /\ free \subseteq Job
    /\ keyed \subseteq Job
    /\ exclusive \subseteq Job
    /\ held \subseteq Key
    /\ pc \in [Worker -> Pc]
    /\ job \in [Worker -> Job \cup {none}]
    /\ \A w \in Worker : job[w] # none <=> pc[w] \in {"run", "release"}
    /\ solo \subseteq Job
    /\ finished \subseteq Job

(* CONFLICTS is honoured: two threads inside f never run jobs that share a
   key ("tests sharing a key don't run at the same time", schedule.rs:4). *)
NoOverlap ==
    \A v, w \in Worker :
        v # w /\ pc[v] = "run" /\ pc[w] = "run"
            => Conflicts[job[v]] \cap Conflicts[job[w]] = {}

(* A job keyed `all` runs beside no other one, whatever the other's keys. *)
ExclusiveAlone ==
    \A i \in Exclusive : i \in Running => Running = {i}

(* No job is run twice or dropped: a job is in exactly one of the three
   lists, a thread's hands, the main thread's, or the finished set. *)
Holding(i) == {w \in Worker : pc[w] = "run" /\ job[w] = i}

RunOnce ==
    \A i \in Job :
        /\ Cardinality(Holding(i)) <= 1
        /\ i \in finished \cup Running <=> i \notin free \cup keyed \cup exclusive
        /\ i \in Running => i \notin finished

(* A thread only sleeps while another one holds a key it will give back:
   there is always someone to call notify_all (no lost wake-up, and no
   sleeping when the last keyed job has been taken). *)
SleepersAreWoken ==
    \A w \in Worker : pc[w] = "wait" =>
        \E v \in Worker : pc[v] \in {"run", "release"} /\ Conflicts[job[v]] # {}
=============================================================================
