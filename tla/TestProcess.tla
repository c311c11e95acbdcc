---------------------------- MODULE TestProcess -----------------------------
(***************************************************************************)
(* The processes of the .phpt runner (goro-phpt, proc.rs): what a worker   *)
(* thread of TestSchedule does inside f.  run() starts a test in a process *)
(* group of its own, waits for it with a time limit, kills what is left of *)
(* the group and reaps it.  A watchdog process, told of every group over a *)
(* socket, kills the groups that are left when the runner dies.            *)
(*                                                                         *)
(* A process ID is free for another test once the test's first process is  *)
(* reaped and its group empty.  A process that left its group (setsid) is  *)
(* out of everybody's reach; it shows here as a reader thread that goes on *)
(* after the run, because such a process may keep the pipe open.           *)
(***************************************************************************)
EXTENDS Integers, Sequences, FiniteSets

CONSTANTS
    Thread,      \* the threads that call run()
    Pid,         \* the process IDs there are
    MaxGroups,   \* the room in the watchdog's table
    WireRoom     \* the messages the socket holds before send() waits

ASSUME WireAssumption == WireRoom \in Nat \ {0}
ASSUME PidAssumption == Pid \subseteq Nat \ {0}
(* MAX_GROUPS is 1024: of more threads than that, some go unwatched. *)
ASSUME MaxGroupsAssumption ==
    MaxGroups \in Nat /\ IsFiniteSet(Thread) /\ Cardinality(Thread) <= MaxGroups

VARIABLES
    alive,       \* whether the runner is
    at,          \* where each thread is in run()
    pid,         \* the process of the thread's test
    late,        \* run's timed_out
    reading,     \* the tests whose reader thread has not ended
    leader,      \* the first process of each group: none, running, zombie
    member,      \* the groups with another live process in them
    dog,         \* the watchdog: "up" or "over" (or never started)
    wire,        \* messages it has not read: p for a start, -p for an end
    groups       \* the groups in its table

proc == <<reading, leader, member>>
watch == <<dog, wire, groups>>
procVars == <<alive, at, pid, late, proc, watch>>

noPid == 0

(* start_watchdog may fail: the tests run without one. *)
ProcInit ==
    /\ alive = TRUE
    /\ at = [w \in Thread |-> "idle"]
    /\ pid = [w \in Thread |-> noPid]
    /\ late = [w \in Thread |-> FALSE]
    /\ reading = {}
    /\ leader = [p \in Pid |-> "none"]
    /\ member = {}
    /\ dog \in {"up", "over"}
    /\ wire = <<>>
    /\ groups = {}

Go(w, p) == at' = [at EXCEPT ![w] = p]

FreePids == {p \in Pid : leader[p] = "none" /\ p \notin member}

-----------------------------------------------------------------------------
(* The processes of the tests. *)
LeaderExits(p) ==
    /\ leader[p] = "running"
    /\ leader' = [leader EXCEPT ![p] = "zombie"]
    /\ UNCHANGED <<alive, at, pid, late, reading, member, watch>>

StartsMember(p) ==
    /\ leader[p] = "running"
    /\ member' = member \cup {p}
    /\ UNCHANGED <<alive, at, pid, late, reading, leader, watch>>

MemberExits(p) ==
    /\ p \in member
    /\ member' = member \ {p}
    /\ UNCHANGED <<alive, at, pid, late, reading, leader, watch>>

(* SIGKILL to the groups of P: a first process that is killed is a zombie
   until its parent reaps it. *)
KillGroups(P) ==
    /\ leader' = [p \in Pid |-> IF p \in P /\ leader[p] = "running"
                                  THEN "zombie" ELSE leader[p]]
    /\ member' = member \ P

-----------------------------------------------------------------------------
(* run(). *)
Spawn(w) ==
    /\ at[w] = "idle"
    /\ \E p \in FreePids :
         /\ pid' = [pid EXCEPT ![w] = p]
         /\ leader' = [leader EXCEPT ![p] = "running"]
         /\ reading' = reading \cup {p}
    /\ Go(w, "tell")
    /\ UNCHANGED <<alive, late, member, watch>>

(* tell_watchdog: without a watchdog the message goes nowhere. *)
Send(m) ==
    IF dog = "up"
      THEN Len(wire) < WireRoom /\ wire' = Append(wire, m)
      ELSE UNCHANGED wire

Tell(w) ==
    /\ at[w] = "tell"
    /\ Send(pid[w])
    /\ Go(w, "wait")
    /\ UNCHANGED <<alive, pid, late, proc, dog, groups>>

(* wait_exited_no_reap has seen the exit. *)
ExitSeen(w) ==
    /\ at[w] = "wait"
    /\ leader[pid[w]] = "zombie"
    /\ Go(w, "kill")
    /\ UNCHANGED <<alive, pid, late, proc, watch>>

TimesOut(w) ==
    /\ at[w] = "wait"
    /\ late' = [late EXCEPT ![w] = TRUE]
    /\ Go(w, "kill")
    /\ UNCHANGED <<alive, pid, proc, watch>>

(* Mutant: the group is only killed when the time is up. *)
IfLate(w) == IF late[w] THEN {pid[w]} ELSE {}

(* What the end of the run kills. *)
Doomed(w) == {pid[w]}

KillGroup(w) ==
    /\ at[w] = "kill"
    /\ KillGroups(Doomed(w))
    /\ Go(w, IF late[w] THEN "join" ELSE "untell")
    /\ UNCHANGED <<alive, pid, late, reading, watch>>

Killed(w) ==
    /\ at[w] = "join"
    /\ leader[pid[w]] = "zombie"
    /\ Go(w, "untell")
    /\ UNCHANGED <<alive, pid, late, proc, watch>>

(* Mutant: the process is reaped before the watchdog is told. *)
ReapThenUntell(w) ==
    \/ /\ at[w] = "untell"
       /\ leader' = [leader EXCEPT ![pid[w]] = "none"]
       /\ Go(w, "reap")
       /\ UNCHANGED <<alive, pid, late, reading, member, watch>>
    \/ /\ at[w] = "reap"
       /\ Send(-pid[w])
       /\ Go(w, "collect")
       /\ UNCHANGED <<alive, pid, late, proc, dog, groups>>

Untell(w) ==
    /\ at[w] = "untell"
    /\ Send(-pid[w])
    /\ Go(w, "reap")
    /\ UNCHANGED <<alive, pid, late, proc, dog, groups>>

(* child.wait(): the process ID is free from here on. *)
Reap(w) ==
    /\ at[w] = "reap"
    /\ leader[pid[w]] = "zombie"
    /\ leader' = [leader EXCEPT ![pid[w]] = "none"]
    /\ Go(w, "collect")
    /\ UNCHANGED <<alive, pid, late, reading, member, watch>>

(* Mutant: the output is waited for without a limit. *)
OnlyOutput(w) == pid[w] \notin reading

(* The output has come, or five seconds have passed. *)
OutputOrTimeout(w) == TRUE

Collect(w) ==
    /\ at[w] = "collect"
    /\ OutputOrTimeout(w)
    /\ pid' = [pid EXCEPT ![w] = noPid]
    /\ late' = [late EXCEPT ![w] = FALSE]
    /\ Go(w, "idle")
    /\ UNCHANGED <<alive, proc, watch>>

(* The reader thread: end of file, which the pipe has when nobody holds it
   any more. *)
ReaderEnds(p) ==
    /\ p \in reading
    /\ leader[p] # "running" /\ p \notin member
    /\ reading' = reading \ {p}
    /\ UNCHANGED <<alive, at, pid, late, leader, member, watch>>

(* More output than the limit: the reader kills the group, by its number.
   (The readers of two runs that had one number, the earlier one's pipe still
   open, are one here.) *)
ReaderKills(p) ==
    /\ p \in reading
    /\ reading' = reading \ {p}
    /\ KillGroups({p})
    /\ UNCHANGED <<alive, at, pid, late, watch>>

-----------------------------------------------------------------------------
(* The runner dies, however: its threads are gone, its end of the socket is
   closed, and every first process gets the signal it asked for
   (PR_SET_PDEATHSIG); init reaps them. *)
RunnerDies ==
    /\ alive' = FALSE
    /\ at' = [w \in Thread |-> "idle"]
    /\ pid' = [w \in Thread |-> noPid]
    /\ late' = [w \in Thread |-> FALSE]
    /\ reading' = {}
    /\ leader' = [p \in Pid |-> "none"]
    /\ UNCHANGED <<member, watch>>

(* The watchdog takes one message: a start is kept while there is room. *)
Told(gs, m) ==
    IF m < 0 THEN gs \ {-m}
    ELSE IF Cardinality(gs) < MaxGroups THEN gs \cup {m} ELSE gs

DogReads ==
    /\ dog = "up" /\ wire # <<>>
    /\ groups' = Told(groups, Head(wire))
    /\ wire' = Tail(wire)
    /\ UNCHANGED <<alive, at, pid, late, proc, dog>>

(* Mutant: the watchdog holds the runner's end of the socket itself. *)
NeverClosed == FALSE

(* The runner's end of the socket is closed. *)
EndOfFile == ~alive

DogEnds ==
    /\ dog = "up" /\ EndOfFile /\ wire = <<>>
    /\ KillGroups(groups)
    /\ dog' = "over"
    /\ groups' = {}
    /\ UNCHANGED <<alive, at, pid, late, reading, wire>>

(* The watchdog is killed while the runner lives on. *)
DogKilled ==
    /\ dog = "up" /\ alive
    /\ dog' = "over"
    /\ wire' = <<>>
    /\ groups' = {}
    /\ UNCHANGED <<alive, at, pid, late, proc>>

(* Nothing is left to happen. *)
AllGone ==
    /\ ~alive /\ dog = "over" /\ member = {}
    /\ UNCHANGED procVars

RunStep(w) ==
    \/ Tell(w) \/ ExitSeen(w) \/ TimesOut(w) \/ KillGroup(w)
    \/ Killed(w) \/ Untell(w) \/ Reap(w) \/ Collect(w)

ProcNext ==
    \/ /\ alive
       /\ \/ \E w \in Thread : Spawn(w) \/ RunStep(w)
          \/ \E p \in Pid : ReaderEnds(p) \/ ReaderKills(p)
          \/ RunnerDies
    \/ \E p \in Pid : LeaderExits(p) \/ StartsMember(p) \/ MemberExits(p)
    \/ DogReads \/ DogEnds \/ DogKilled \/ AllGone

(* Threads and the watchdog are run by the operating system, which lets a
   thread that waits for room in the socket have its turn; a time limit
   passes.  Nothing is assumed of the tests. *)
ProcFairness ==
    /\ \A w \in Thread : /\ WF_procVars(alive /\ RunStep(w))
                         /\ SF_procVars(alive /\ (Tell(w) \/ Untell(w)))
    /\ WF_procVars(DogReads \/ DogEnds)

ProcSpec == ProcInit /\ [][ProcNext]_procVars /\ ProcFairness

-----------------------------------------------------------------------------
At == {"idle", "tell", "wait", "kill", "join", "untell", "reap", "collect"}

(* Every variable has the type the code gives it. *)
ProcTypeOK ==
    /\ alive \in BOOLEAN
    /\ at \in [Thread -> At]
    /\ pid \in [Thread -> Pid \cup {noPid}]
    /\ late \in [Thread -> BOOLEAN]
    /\ reading \subseteq Pid
    /\ leader \in [Pid -> {"none", "running", "zombie"}]
    /\ member \subseteq Pid
    /\ dog \in {"up", "over"}
    /\ wire \in Seq(Pid \cup {-p : p \in Pid})
    /\ groups \subseteq Pid
    /\ \A w \in Thread : pid[w] = noPid <=> at[w] = "idle"

(* A group some thread started and has not reaped: no other process can have
   its number. *)
Reserved(p) ==
    \E w \in Thread : pid[w] = p /\ at[w] # "collect" /\ leader[p] # "none"

(* What a watchdog with the groups gs would kill once it had read the messages
   ms: the groups it has been told of, and not of their end. *)
WatchedBy(gs, ms) ==
    {p \in Pid :
        \/ p \in gs /\ \A i \in 1 .. Len(ms) : ms[i] # -p
        \/ \E i \in 1 .. Len(ms) :
             /\ ms[i] = p
             /\ \A k \in i + 1 .. Len(ms) : ms[k] # -p}

Watched == WatchedBy(groups, wire)

(* The end of a run kills its own group, and the watchdog would kill groups of
   running tests only: a process ID is freed after everybody who would signal
   it has let go of it ("Before the wait below frees the group id for reuse",
   proc.rs:305). *)
SignalsReachTheirOwn ==
    /\ \A w \in Thread : at[w] \in {"kill", "join", "untell", "reap"} =>
         /\ leader[pid[w]] # "none"
         /\ \A v \in Thread : pid[v] = pid[w] /\ v # w => at[v] = "collect"
    /\ alive => \A p \in Watched : Reserved(p)

(* As long as the runner lives, a group has processes only while its run is
   going on: run() leaves nothing behind. *)
NothingIsLeft ==
    alive => \A p \in Pid : p \in member \/ leader[p] # "none" => Reserved(p)

(* "kills the running tests' process groups when the runner dies, however it
   dies" (proc.rs:12): every group the watchdog was told of is empty in the
   end. *)
NobodyOutlives ==
    \A p \in Pid :
        ~alive /\ dog = "up" /\ p \in Watched ~> p \notin member
=============================================================================
