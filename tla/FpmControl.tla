----------------------------- MODULE FpmControl -----------------------------
(***************************************************************************)
(* How the FPM master stops and reloads (goro-engine fpm/master.rs): the   *)
(* signals it reads from a signalfd, the escalation QUIT, TERM, KILL over   *)
(* its workers, and the exec of a new master.  The pool is a static one:   *)
(* a worker reaped while the master is not stopping is replaced.           *)
(***************************************************************************)
EXTENDS Naturals, FiniteSets, Sequences

CONSTANTS
    Worker,         \* the places of the pool
    Sent            \* the signals the master is sent, each of them once

Signal == {"INT", "QUIT", "USR1", "USR2", "TERM"}

ASSUME WorkerAssumption == IsFiniteSet(Worker) /\ Worker # {}
ASSUME SentAssumption == Sent \subseteq Signal

VARIABLES
    at,         \* what the master does
    sigs,       \* signals waiting on the master's signalfd
    batch,      \* signals read and not handled yet
    steps,      \* what stop_children has still to do, the step under way first
    waiting,    \* a step is under way
    after,      \* what follows stop_children: "exit" or "exec"
    pending,    \* what stop_children will return
    worker,     \* the workers
    asked,      \* the signals sent so far
    cut,        \* some request was cut short
    timed       \* configuration: process_control_timeout > 0

master == <<at, batch, steps, waiting, after, pending>>
vars == <<at, sigs, batch, steps, waiting, after, pending, worker, asked, cut, timed>>

(* A worker is idle, runs a request, or is dead and not reaped; there may be
   none.  `told` are the signals it has not read; `quit` is its own flag. *)
WorkerType ==
    [state : {"none", "idle", "busy", "dead"},
     told : SUBSET {"QUIT", "TERM", "KILL"}, quit : BOOLEAN]
StepType == [sig : {"QUIT", "TERM"}, timed : BOOLEAN]

Fresh == [state |-> "idle", told |-> {}, quit |-> FALSE]
None == [state |-> "none", told |-> {}, quit |-> FALSE]

(* Every variable has its type; nothing is sent to a place without a worker. *)
TypeOK ==
    /\ at \in {"loop", "stop", "kill", "gone"}
    /\ sigs \subseteq Sent /\ batch \subseteq Sent /\ pending \subseteq Sent
    /\ asked \subseteq Sent
    /\ steps \in Seq(StepType) /\ waiting \in BOOLEAN
    /\ after \in {"exit", "exec"}
    /\ waiting => at = "stop" /\ steps # <<>>
    /\ worker \in [Worker -> WorkerType]
    /\ cut \in BOOLEAN /\ timed \in BOOLEAN
    /\ \A w \in Worker : worker[w].state = "none" => worker[w] = None

In(state) == {w \in Worker : worker[w].state = state}
Children == Worker \ In("none")
Alive == In("idle") \cup In("busy")

Init ==
    /\ at = "loop" /\ sigs = {} /\ batch = {} /\ steps = <<>>
    /\ waiting = FALSE /\ after = "exit" /\ pending = {} /\ asked = {}
    /\ cut = FALSE /\ timed \in BOOLEAN
    /\ worker = [w \in Worker |-> Fresh]

-----------------------------------------------------------------------------
(* The master is sent a signal; two of the same that wait are one. *)
Send(s) ==
    /\ at # "gone" /\ s \notin asked
    /\ sigs' = sigs \cup {s}
    /\ asked' = asked \cup {s}
    /\ UNCHANGED <<master, worker, cut, timed>>

(* A signalfd gives the signals of the lowest number first. *)
Number == [s \in Signal |->
    CASE s = "INT" -> 2 [] s = "QUIT" -> 3 [] s = "USR1" -> 10
      [] s = "USR2" -> 12 [] s = "TERM" -> 15]

(* run_loop reads all the signals there are, then handles each. *)
Read ==
    /\ at = "loop" /\ batch = {} /\ sigs # {}
    /\ batch' = sigs /\ sigs' = {}
    /\ UNCHANGED <<at, steps, waiting, after, pending, worker, asked, cut, timed>>

Step(sig, limited) == [sig |-> sig, timed |-> limited]

(* Mutants: the process control timeout ignored; SIGTERM first. *)
NeverTimed == <<Step("QUIT", FALSE), Step("TERM", TRUE)>>
Hasty == <<Step("TERM", TRUE), Step("QUIT", timed)>>

(* terminate(graceful), terminate(false) and reload. *)
Finishing == <<Step("QUIT", timed), Step("TERM", TRUE)>>
Terminating == <<Step("TERM", TRUE)>>
Reloading == <<Step("QUIT", timed), Step("TERM", timed)>>

(* terminate and reload never return: what is left of the batch is gone. *)
Stop(plan, then) ==
    /\ at' = "stop" /\ batch' = {} /\ steps' = plan /\ after' = then

Handle(s) ==
    /\ at = "loop" /\ s \in batch
    /\ \A t \in batch : Number[s] <= Number[t]
    /\ \/ s \in {"TERM", "INT"} /\ Stop(Terminating, "exit")
       \/ s = "QUIT" /\ Stop(Finishing, "exit")
       \/ s = "USR2" /\ Stop(Reloading, "exec")
       \/ s = "USR1" /\ batch' = batch \ {s} /\ UNCHANGED <<at, steps, after>>
    /\ UNCHANGED <<sigs, waiting, pending, worker, asked, cut, timed>>

(* Mutant: a worker is replaced whenever it is reaped. *)
AlwaysRefilled == {Fresh, None}

(* What reap leaves in the place of a dead worker: the fork of another may
   fail. *)
Refilled == IF at = "loop" THEN {Fresh, None} ELSE {None}

Reaped ==
    {now \in [Worker -> {worker[w] : w \in Worker} \cup Refilled] :
        \A w \in Worker :
            IF worker[w].state = "dead" THEN now[w] \in Refilled
            ELSE now[w] = worker[w]}

(* The end of a round of run_loop. *)
Reap ==
    /\ at = "loop" /\ batch = {} /\ In("dead") # {}
    /\ worker' \in Reaped
    /\ UNCHANGED <<master, sigs, asked, cut, timed>>

(* signal_all. *)
Told(sig) ==
    [w \in Worker |-> IF w \in Children
                      THEN [worker[w] EXCEPT !.told = @ \cup {sig}] ELSE worker[w]]

(* stop_children: the next step signals every worker. *)
BeginStep ==
    /\ at = "stop" /\ ~waiting /\ steps # <<>> /\ Children # {}
    /\ worker' = Told(Head(steps).sig)
    /\ waiting' = TRUE
    /\ UNCHANGED <<at, sigs, batch, steps, after, pending, asked, cut, timed>>

(* One round of its waiting: signals are kept, dead workers reaped. *)
Wait ==
    /\ at = "stop" /\ waiting /\ Children # {}
    /\ sigs # {} \/ In("dead") # {}
    /\ pending' = pending \cup sigs /\ sigs' = {}
    /\ worker' \in Reaped
    /\ UNCHANGED <<at, batch, steps, waiting, after, asked, cut, timed>>

(* The step's time is over, or nobody is left. *)
Timeout ==
    /\ at = "stop" /\ waiting /\ Head(steps).timed /\ Children # {}
    /\ steps' = Tail(steps) /\ waiting' = FALSE
    /\ UNCHANGED <<at, sigs, batch, after, pending, worker, asked, cut, timed>>

StepDone ==
    /\ at = "stop" /\ waiting /\ Children = {}
    /\ steps' = <<>> /\ waiting' = FALSE
    /\ UNCHANGED <<at, sigs, batch, after, pending, worker, asked, cut, timed>>

Kill ==
    /\ at = "stop" /\ ~waiting /\ steps = <<>> /\ Children # {}
    /\ worker' = Told("KILL")
    /\ at' = "kill"
    /\ UNCHANGED <<sigs, batch, steps, waiting, after, pending, asked, cut, timed>>

(* The wait for killed workers reads signals and keeps none. *)
WaitKilled ==
    /\ at = "kill" /\ Children # {}
    /\ sigs # {} \/ In("dead") # {}
    /\ sigs' = {}
    /\ worker' \in Reaped
    /\ UNCHANGED <<master, asked, cut, timed>>

(* Mutant: the children are not waited for once they are killed. *)
SignalledAll == at = "kill" \/ (at = "stop" /\ ~waiting /\ Children = {})

Stopped ==
    \/ at = "stop" /\ ~waiting /\ Children = {}
    \/ at = "kill" /\ Children = {}

Interrupted == pending \cap {"TERM", "INT"} # {}

(* The end of the master. *)
Exit ==
    /\ Stopped
    /\ after = "exit" \/ Interrupted
    /\ at' = "gone"
    /\ UNCHANGED <<sigs, batch, steps, waiting, after, pending, worker, asked, cut, timed>>

(* execv: a new master starts its workers; signals not read yet are its own.
   It may fail. *)
Exec ==
    /\ Stopped
    /\ after = "exec" /\ ~Interrupted
    /\ \/ /\ at' = "loop" /\ steps' = <<>> /\ pending' = {}
          /\ worker' = [w \in Worker |-> Fresh]
       \/ at' = "gone" /\ UNCHANGED <<steps, pending, worker>>
    /\ UNCHANGED <<sigs, batch, waiting, after, asked, cut, timed>>

-----------------------------------------------------------------------------
(***************************************************************************)
(* The workers (fpm/worker.rs).                                            *)
(***************************************************************************)
Become(w, state) == worker' = [worker EXCEPT ![w].state = state]

(* A request was read.  An idle worker is one that waits for a connection or
   reads it; a signal may arrive just after the last bytes. *)
Take(w) ==
    /\ worker[w].state = "idle" /\ "KILL" \notin worker[w].told
    /\ Become(w, "busy")
    /\ UNCHANGED <<master, sigs, asked, cut, timed>>

(* The request ends; a worker told to quit meanwhile exits. *)
Finish(w) ==
    /\ worker[w].state = "busy"
    /\ Become(w, IF worker[w].quit THEN "dead" ELSE "idle")
    /\ UNCHANGED <<master, sigs, asked, cut, timed>>

(* pm.max_requests, or a crash between two requests. *)
End(w) ==
    /\ at = "loop" /\ worker[w].state = "idle"
    /\ Become(w, "dead")
    /\ UNCHANGED <<master, sigs, asked, cut, timed>>

(* The signals a worker obeys at once. *)
EndsNow(w) == "TERM" \in worker[w].told \/ worker[w].state = "idle"

(* It reads its signals: SIGTERM kills it with its request, SIGQUIT ends it
   after its request. *)
Hear(w) ==
    /\ w \in Alive /\ worker[w].told \cap {"QUIT", "TERM"} # {}
    /\ worker' = [worker EXCEPT ![w].told = @ \cap {"KILL"}, ![w].quit = TRUE,
                                ![w].state = IF EndsNow(w) THEN "dead" ELSE @]
    /\ cut' = (cut \/ (w \in In("busy") /\ EndsNow(w)))
    /\ UNCHANGED <<master, sigs, asked, timed>>

Killed(w) ==
    /\ w \in Alive /\ "KILL" \in worker[w].told
    /\ Become(w, "dead")
    /\ cut' = (cut \/ w \in In("busy"))
    /\ UNCHANGED <<master, sigs, asked, timed>>

-----------------------------------------------------------------------------
MasterNext ==
    \/ Read \/ Reap \/ BeginStep \/ Wait \/ Timeout \/ StepDone \/ Kill
    \/ WaitKilled \/ Exit \/ Exec
    \/ \E s \in Signal : Handle(s)

WorkerNext ==
    \E w \in Worker : Take(w) \/ Finish(w) \/ End(w) \/ Hear(w) \/ Killed(w)

(* The master is gone, or polls with nothing to do. *)
Rest == at \in {"loop", "gone"} /\ UNCHANGED vars

Next == MasterNext \/ WorkerNext \/ (\E s \in Signal \cap Sent : Send(s)) \/ Rest

Spec == Init /\ [][Next]_vars

(* The master's loop goes on and the kernel kills whom it is told to; nothing
   is assumed of requests, nor of workers that do not read their signals. *)
FairSpec ==
    /\ Spec
    /\ WF_vars(Read) /\ WF_vars(\E s \in Signal : Handle(s)) /\ WF_vars(Reap)
    /\ WF_vars(BeginStep) /\ WF_vars(Wait) /\ WF_vars(Timeout)
    /\ WF_vars(StepDone) /\ WF_vars(Kill) /\ WF_vars(WaitKilled)
    /\ WF_vars(Exit) /\ WF_vars(Exec)
    /\ \A w \in Worker : WF_vars(Killed(w))

(* Workers read their signals, which they do while a request runs too. *)
HearingSpec == FairSpec /\ \A w \in Worker : WF_vars(Hear(w))

(* They do, and requests end. *)
Polite == \A w \in Worker : WF_vars(Hear(w)) /\ WF_vars(Finish(w))

-----------------------------------------------------------------------------
Stopping == at \in {"stop", "kill"}

(* The master never leaves a process behind: neither when it exits nor when
   it becomes another master. *)
NobodyIsLeft ==
    [][Stopping /\ ~Stopping' => In("none") = Worker]_vars

(* A pool that stops is not refilled. *)
NoRefillWhileStopping ==
    [][Stopping /\ Stopping' => Alive' \subseteq Alive]_vars

(* Without a timeout, SIGQUIT and SIGUSR2 let every request in progress end. *)
GracefulFinishesRequests == ~timed /\ asked \cap {"INT", "TERM"} = {} => ~cut

(* Whatever the workers do, a master with a timeout that is asked to end, and
   never to reload, ends. *)
EndIsHonoured ==
    timed /\ []("USR2" \notin asked) =>
        (asked \cap {"INT", "QUIT", "TERM"} # {}) ~> (at = "gone")

(* A graceful stop or a reload is over once the requests are, timeout or
   not. *)
StopEnds == Polite => ((at = "stop") ~> (at \in {"loop", "gone"}))

(* "SIGINT and SIGTERM terminate immediately" (master.rs:4): a master that is
   sent SIGTERM ends, whatever else it is doing. *)
TermIsHonoured == ("TERM" \in asked) ~> (at = "gone")
=============================================================================
