----------------------------- MODULE TestRunner -----------------------------
(***************************************************************************)
(* The scheduler and the processes of the .phpt runner together: f, which  *)
(* TestSchedule's threads call for a job, runs the sections of a test one  *)
(* after the other, each with run() of proc.rs (runner.rs).  The exclusive *)
(* jobs are run by the main thread.                                        *)
(***************************************************************************)
EXTENDS TestSchedule, TestProcess

CONSTANT main      \* the main thread

ASSUME ThreadAssumption == Thread = Worker \cup {main} /\ main \notin Worker

RunnerInit == Init /\ ProcInit

(* A thread is inside f. *)
Inside(t) == IF t = main THEN solo # {} ELSE pc[t] = "run"

(* f starts the process of its next section. *)
Section(t) ==
    /\ alive /\ Inside(t)
    /\ Spawn(t)
    /\ UNCHANGED vars

(* f returns between two sections. *)
RunnerReturn(w) ==
    /\ alive /\ at[w] = "idle"
    /\ Return(w)
    /\ UNCHANGED procVars

RunnerReturnExclusive ==
    /\ alive /\ at[main] = "idle"
    /\ ReturnExclusive
    /\ UNCHANGED procVars

(* What a thread does between two jobs. *)
Schedule(w) ==
    /\ alive
    /\ \/ TakeKeyed(w) \/ TakeFree(w) \/ Sleep(w)
       \/ Exit(w) \/ Release(w)
    /\ UNCHANGED procVars

RunnerStartExclusive ==
    /\ alive
    /\ StartExclusive
    /\ UNCHANGED procVars

(* What goes on inside run(), in the tests, and in the watchdog. *)
Process ==
    /\ \/ alive /\ \E t \in Thread : RunStep(t)
       \/ alive /\ \E p \in Pid : ReaderEnds(p) \/ ReaderKills(p)
       \/ alive /\ RunnerDies
       \/ \E p \in Pid : LeaderExits(p) \/ StartsMember(p) \/ MemberExits(p)
       \/ DogReads \/ DogEnds \/ DogKilled
    /\ UNCHANGED vars

(* The runner has died and the watchdog has ended; or run_all has returned. *)
Rest ==
    /\ \/ ~alive /\ dog = "over" /\ member = {}
       \/ Joined /\ solo = {} /\ exclusive = {}
    /\ UNCHANGED <<vars, procVars>>

RunnerNext ==
    \/ \E t \in Thread : Section(t)
    \/ \E w \in Worker : RunnerReturn(w) \/ Schedule(w)
    \/ RunnerReturnExclusive \/ RunnerStartExclusive
    \/ Process \/ Rest

(* As in the two modules.  That f returns is no assumption here: a test has
   a number of sections, and run() has to return for each. *)
RunnerFairness ==
    LET all == <<vars, procVars>>
    IN  /\ \A w \in Worker : WF_all(Schedule(w)) /\ SF_all(RunnerReturn(w))
        /\ WF_all(RunnerStartExclusive) /\ SF_all(RunnerReturnExclusive)
        /\ \A t \in Thread :
             /\ WF_all(alive /\ RunStep(t) /\ UNCHANGED vars)
             /\ SF_all(alive /\ (Tell(t) \/ Untell(t)) /\ UNCHANGED vars)
        /\ WF_all((DogReads \/ DogEnds) /\ UNCHANGED vars)

RunnerSpec == RunnerInit /\ [][RunnerNext]_<<vars, procVars>> /\ RunnerFairness

-----------------------------------------------------------------------------
(* The group p has a process, live or not yet reaped. *)
Populated(p) == leader[p] # "none" \/ p \in member

(* CONFLICTS holds of the processes: while the runner lives, every process
   group that exists belongs to a thread inside a test, and two groups to two
   tests without a common key, neither of them exclusive.  The scheduler only
   keeps the calls of f apart; that "tests sharing a key don't run at the same
   time" (schedule.rs:4) rests on run() leaving nothing behind. *)
ProcessesNeverConflict ==
    alive => \A p \in Pid : Populated(p) =>
        /\ \E t \in Thread : Inside(t) /\ pid[t] = p
        /\ \A q \in Pid \ {p} : Populated(q) =>
             \E v, w \in Worker :
                 /\ v # w /\ pid[v] = p /\ pid[w] = q
                 /\ Conflicts[job[v]] \cap Conflicts[job[w]] = {}

(* Every job is run to its end, unless the runner is killed, whatever the
   tests' processes do. *)
EveryJobEnds == <>[](~alive \/ finished = Job)
=============================================================================
