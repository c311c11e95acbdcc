------------------------------- MODULE FpmPool -------------------------------
(***************************************************************************)
(* A pool of FPM workers while the master is not stopping (goro-engine     *)
(* fpm/master.rs, worker.rs, scoreboard.rs): the rounds of run_loop and of *)
(* maintenance on one side, the workers' loops on the other, and between   *)
(* them the scoreboard, which each side reads while the other writes it,   *)
(* SIGQUIT, and the listening socket they share.                           *)
(*                                                                         *)
(* A worker is known by its slot: only the master, which is one thread,    *)
(* gives a slot (spawn) and takes it back (reap).                          *)
(***************************************************************************)
EXTENDS Integers, FiniteSets, SequencesExt

CONSTANTS
    Slot,           \* the slots of the scoreboard: pm.max_children of them
    Pools,          \* the configurations considered
    Prompt,         \* nobody needs a second for a step that waits for nothing
    Backlog,        \* bound: connections waiting
    MaxFaults       \* bound: forks that fail and workers that crash

(* The settings of [www] a pool is started with: pm, pm.min_spare_servers,
   pm.max_spare_servers, pm.max_spawn_rate, pm.process_idle_timeout (in
   seconds) and pm.max_requests (0 for no limit). *)
PoolType ==
    [pm : {"static", "dynamic", "ondemand"}, min_spare : Nat, max_spare : Nat,
     max_spawn_rate : Nat, idle_timeout : Nat, max_requests : Nat]

ASSUME SlotAssumption == IsFiniteSet(Slot) /\ Slot # {}
ASSUME PromptAssumption == Prompt \in BOOLEAN
ASSUME BoundAssumption == {Backlog, MaxFaults} \subseteq Nat
ASSUME PoolsAssumption ==
    \A p \in Pools :
        /\ p \in PoolType
        /\ p.pm = "dynamic" =>
              /\ 1 <= p.min_spare /\ p.min_spare <= p.max_spare
              /\ p.max_spare <= Cardinality(Slot) /\ 1 <= p.max_spawn_rate

VARIABLES
    worker,     \* the slots: the process in each and what the board says of it
    order,      \* the slots in use, by idle_since
    queue,      \* connections waiting on the listening socket
    at,         \* what the master does next
    seen,       \* the idle (and starting) workers it counted
    watching,   \* this round watches the listening socket
    recent,     \* pending_spawn: a process was started within 200 ms
    due,        \* a second has passed since the last maintenance
    rate,       \* spawn_rate
    faults,     \* faults still to come
    pool        \* the pool's configuration

master == <<at, seen, watching, recent, due, rate>>
vars == <<worker, order, queue, master, faults, pool>>

Manager == pool.pm
MinSpare == pool.min_spare
MaxSpare == pool.max_spare

(* Ages are counted in seconds, up to the first one past the timeout. *)
Oldest == IF Manager = "ondemand" THEN pool.idle_timeout + 1 ELSE 0

WorkerType ==
    [at : {"none", "starting", "poll", "accept", "reading", "running",
           "finishing", "waiting", "dead"},
     board : {"IDLE", "READING", "RUNNING", "FINISHING", "STARTING"},
     told : BOOLEAN,            \* SIGQUIT sent, not read
     quitting : BOOLEAN,        \* Child::quitting, the master's
     quit : BOOLEAN,            \* W::quit, its own
     served : 0 .. pool.max_requests,
     age : 0 .. Oldest,         \* seconds since idle_since
     calm : BOOLEAN]            \* idle since before the last second passed

-----------------------------------------------------------------------------
(***************************************************************************)
(* The scoreboard and the slots.                                           *)
(***************************************************************************)
Fresh == [at |-> "starting", board |-> "STARTING", told |-> FALSE,
          quitting |-> FALSE, quit |-> FALSE, served |-> 0, age |-> 0, calm |-> FALSE]
Free == [Fresh EXCEPT !.at = "none", !.board = "IDLE"]

In(where) == {s \in Slot : worker[s].at = where}
Children == Slot \ In("none")
Alive == Children \ In("dead")

(* The slots in use the board shows in a state: a dead worker is there until
   it is reaped. *)
Shown(state) == {s \in Children : worker[s].board = state}

Place(s) == CHOOSE i \in DOMAIN order : order[i] = s

(* The slots that stay in use in their order, then the new ones. *)
InTurn(old, new) ==
    {r \in SetToSeqs(old \cup new) :
        \A i, j \in DOMAIN r : i < j /\ r[j] \in old =>
            r[i] \in old /\ Place(r[i]) < Place(r[j])}

(* spawn, n times: as many of the workers in S as could be forked. *)
Spawn(n, slots) ==
    \E S \in SUBSET {s \in Slot : slots[s] = Free} :
        /\ Cardinality(S) <= n
        /\ n - Cardinality(S) <= faults
        /\ faults' = faults - (n - Cardinality(S))
        /\ worker' = [s \in Slot |-> IF s \in S THEN Fresh ELSE slots[s]]
        /\ order' \in InTurn({s \in Slot : slots[s] # Free}, S)

(* Mutant: a worker is marked, and never signalled. *)
Unsignalled(S) ==
    worker' = [s \in Slot |->
        IF s \in S THEN [worker[s] EXCEPT !.quitting = TRUE] ELSE worker[s]]

(* quit_child: once to each worker. *)
QuitChildren(S) ==
    worker' = [s \in Slot |->
        IF s \in S /\ ~worker[s].quitting
        THEN [worker[s] EXCEPT !.quitting = TRUE, !.told = TRUE] ELSE worker[s]]

Smallest(S) == CHOOSE n \in S : \A m \in S : n <= m
Largest(S) == CHOOSE n \in S : \A m \in S : m <= n

(* Every variable has its type, and `order` orders the slots in use. *)
TypeOK ==
    /\ worker \in [Slot -> WorkerType]
    /\ order \in Seq(Slot) /\ IsInjective(order) /\ ToSet(order) = Children
    /\ queue \in 0 .. Backlog
    /\ at \in {"watch count", "watch", "poll", "reap", "count", "count starting",
               "decide", "quit idle"}
    /\ seen \in 0 .. 2 * Cardinality(Slot)
    /\ watching \in BOOLEAN /\ recent \in BOOLEAN /\ due \in BOOLEAN
    /\ rate \in 1 .. Largest({1, pool.max_spawn_rate})
    /\ faults \in 0 .. MaxFaults /\ pool \in Pools

-----------------------------------------------------------------------------
(***************************************************************************)
(* The master: run_loop, reap and maintenance.                             *)
(***************************************************************************)
RoundStart == IF Manager = "ondemand" THEN "watch count" ELSE "poll"

(* pm.start_servers is between the spare ones. *)
AtStart ==
    CASE Manager = "static" -> {Cardinality(Slot)}
      [] Manager = "dynamic" -> MinSpare .. MaxSpare
      [] Manager = "ondemand" -> {0}

Init ==
    /\ pool \in Pools
    /\ \E n \in AtStart, S \in SUBSET Slot :
          /\ Cardinality(S) <= n
          /\ n - Cardinality(S) <= MaxFaults
          /\ faults = MaxFaults - (n - Cardinality(S))
          /\ worker = [s \in Slot |-> IF s \in S THEN Fresh ELSE Free]
          /\ order \in SetToSeqs(S)
    /\ queue = 0 /\ at = RoundStart /\ seen = 0 /\ watching = FALSE
    /\ recent = FALSE /\ due = FALSE /\ rate = 1

(* An ondemand pool watches its socket when nobody would take a connection:
   the idle workers are counted first, then those starting looked for. *)
WatchCount ==
    /\ at = "watch count"
    /\ seen' = Cardinality(Shown("IDLE"))
    /\ at' = "watch"
    /\ UNCHANGED <<worker, order, queue, watching, recent, due, rate, faults, pool>>

Watch ==
    /\ at = "watch"
    /\ watching' = (seen = 0 /\ Shown("STARTING") = {} /\ ~recent)
    /\ at' = "poll" /\ seen' = 0
    /\ UNCHANGED <<worker, order, queue, recent, due, rate, faults, pool>>

(* The socket it watches is readable: a worker is started if one may be. *)
Poll ==
    /\ at = "poll"
    /\ at' = "reap" /\ watching' = FALSE
    /\ IF watching /\ queue > 0
       THEN /\ recent' = TRUE
            /\ Spawn(IF Children = Slot THEN 0 ELSE 1, worker)
       ELSE UNCHANGED <<worker, order, recent, faults>>
    /\ UNCHANGED <<queue, seen, due, rate, pool>>

(* Mutant: the slot is given back as it is. *)
NotCleared ==
    [s \in Slot |-> IF worker[s].at = "dead" THEN [worker[s] EXCEPT !.at = "none"]
                    ELSE worker[s]]

(* The slots without those of dead workers. *)
Reaped == [s \in Slot |-> IF worker[s].at = "dead" THEN Free ELSE worker[s]]

(* Mutant: nothing is restarted. *)
NoRespawn == 0

(* What reap starts for the workers it reaped. *)
Respawned == IF Manager = "static" THEN Cardinality(In("dead")) ELSE 0

Reap ==
    /\ at = "reap"
    /\ Spawn(Respawned, Reaped)
    /\ due' = FALSE
    /\ at' = IF ~due \/ Manager = "static" THEN RoundStart
             ELSE IF Manager = "dynamic" THEN "count" ELSE "quit idle"
    /\ UNCHANGED <<queue, seen, watching, recent, rate, pool>>

(* maintenance of a dynamic pool: two reads of the board, then what follows. *)
Count ==
    /\ at = "count"
    /\ seen' = Cardinality(Shown("IDLE"))
    /\ at' = "count starting"
    /\ UNCHANGED <<worker, order, queue, watching, recent, due, rate, faults, pool>>

CountStarting ==
    /\ at = "count starting"
    /\ seen' = seen + Cardinality(Shown("STARTING"))
    /\ at' = "decide"
    /\ UNCHANGED <<worker, order, queue, watching, recent, due, rate, faults, pool>>

(* Mutant: no idle worker. *)
NoVictims == {}

(* The idle worker with the smallest idle_since. *)
Victims ==
    {s \in Shown("IDLE") : \A t \in Shown("IDLE") : Place(s) <= Place(t)}

Trim ==
    /\ at = "decide" /\ seen > MaxSpare
    /\ QuitChildren(Victims)
    /\ rate' = 1 /\ at' = RoundStart /\ seen' = 0
    /\ UNCHANGED <<order, queue, watching, recent, due, faults, pool>>

(* How many workers a round starts. *)
Wanted ==
    Largest({1, Smallest({MinSpare - seen, rate, Cardinality(Slot \ Children)})})

Grow ==
    /\ at = "decide" /\ seen < MinSpare
    /\ IF Children = Slot THEN UNCHANGED <<worker, order, rate, faults>>
       ELSE /\ Spawn(Wanted, worker)
            /\ rate' = Smallest({rate * 2, pool.max_spawn_rate})
    /\ at' = RoundStart /\ seen' = 0
    /\ UNCHANGED <<queue, watching, recent, due, pool>>

Keep ==
    /\ at = "decide" /\ seen \in MinSpare .. MaxSpare
    /\ rate' = 1 /\ at' = RoundStart /\ seen' = 0
    /\ UNCHANGED <<worker, order, queue, watching, recent, due, faults, pool>>

(* maintenance of an ondemand pool. *)
QuitIdle ==
    /\ at = "quit idle"
    /\ QuitChildren({s \in Shown("IDLE") : worker[s].age > pool.idle_timeout})
    /\ at' = RoundStart
    /\ UNCHANGED <<order, queue, seen, watching, recent, due, rate, faults, pool>>

-----------------------------------------------------------------------------
(***************************************************************************)
(* The workers.                                                            *)
(***************************************************************************)
Put(s, new) ==
    /\ worker' = [worker EXCEPT ![s] = new]
    /\ UNCHANGED <<order, master, faults, pool>>

(* The top of the worker's loop: idle, or its end if it was told to quit. *)
AtTop(w) ==
    [w EXCEPT !.board = "IDLE", !.calm = FALSE, !.at = IF w.quit THEN "dead" ELSE "poll"]

(* The end of a connection. *)
Served(w) ==
    IF pool.max_requests > 0 /\ w.served >= pool.max_requests THEN [w EXCEPT !.at = "dead"]
    ELSE AtTop(w)

(* worker::run up to its loop. *)
Start(s) ==
    /\ s \in In("starting")
    /\ Put(s, AtTop(worker[s]))
    /\ UNCHANGED queue

(* poll says that there is a signal. *)
ObeyIdle(s) ==
    /\ s \in In("poll") /\ worker[s].told
    /\ Put(s, AtTop([worker[s] EXCEPT !.told = FALSE, !.quit = TRUE]))
    /\ UNCHANGED queue

(* poll says that there is a connection, and no signal. *)
Wake(s) ==
    /\ s \in In("poll") /\ queue > 0 /\ ~worker[s].told
    /\ Put(s, [worker[s] EXCEPT !.at = "accept", !.calm = FALSE])
    /\ UNCHANGED queue

Accept(s) ==
    /\ s \in In("accept") /\ queue > 0
    /\ queue' = queue - 1
    /\ Put(s, [worker[s] EXCEPT !.at = "reading", !.board = "READING"])

(* Mutant: the listening socket blocks. *)
Blocks(s) == s \in In("accept") /\ FALSE /\ UNCHANGED vars

(* Another worker took it: the socket does not block. *)
AcceptNothing(s) ==
    /\ s \in In("accept") /\ queue = 0
    /\ Put(s, AtTop(worker[s]))
    /\ UNCHANGED queue

(* read_request, of the connection's first request or of another one, ends
   with a signal to quit: the connection is closed. *)
Interrupted(s) ==
    /\ s \in In("reading") \cup In("waiting") /\ worker[s].told
    /\ Put(s, Served([worker[s] EXCEPT !.told = FALSE, !.quit = TRUE]))
    /\ UNCHANGED queue

(* The client is gone, or it is not an allowed one. *)
Closed(s) ==
    /\ s \in In("reading") \cup In("waiting")
    /\ Put(s, Served(worker[s]))
    /\ UNCHANGED queue

(* The last bytes may be read just before a signal arrives. *)
Request(s) ==
    /\ s \in In("reading") \cup In("waiting")
    /\ Put(s, [worker[s] EXCEPT !.at = "running", !.board = "RUNNING",
                                !.served = Smallest({@ + 1, pool.max_requests})])
    /\ UNCHANGED queue

(* While its request runs in another process. *)
ObeyRunning(s) ==
    /\ s \in In("running") \cup In("finishing") /\ worker[s].told
    /\ Put(s, [worker[s] EXCEPT !.told = FALSE, !.quit = TRUE])
    /\ UNCHANGED queue

Finish(s) ==
    /\ s \in In("running")
    /\ Put(s, [worker[s] EXCEPT !.at = "finishing", !.board = "FINISHING"])
    /\ UNCHANGED queue

NoMore(s) == pool.max_requests > 0 /\ worker[s].served >= pool.max_requests

(* The response is sent: the connection is closed, or kept for another
   request. *)
Respond(s) ==
    /\ s \in In("finishing")
    /\ \/ Put(s, Served(worker[s]))
       \/ /\ ~worker[s].quit /\ ~NoMore(s)
          /\ Put(s, [worker[s] EXCEPT !.at = "waiting", !.board = "READING"])
    /\ UNCHANGED queue

(* A worker dies where it is. *)
Crash(s) ==
    /\ s \in Alive /\ faults > 0
    /\ worker' = [worker EXCEPT ![s].at = "dead"]
    /\ faults' = faults - 1
    /\ UNCHANGED <<order, queue, master, pool>>

-----------------------------------------------------------------------------
(***************************************************************************)
(* Clients and time.                                                       *)
(***************************************************************************)
Connect ==
    /\ queue < Backlog
    /\ queue' = queue + 1
    /\ UNCHANGED <<worker, order, master, faults, pool>>

(* Between two rounds of maintenance, with nothing to do at once. *)
Settled ==
    /\ ~due /\ at \in {"watch count", "watch", "poll", "reap"}
    /\ \A s \in Slot : /\ worker[s].at \notin {"starting", "accept"}
                       /\ ~worker[s].told
                       /\ worker[s].at = "poll" => queue = 0

Second ==
    /\ Prompt => Settled
    /\ due' = TRUE
    /\ worker' = [s \in Slot |-> IF s \notin Children THEN worker[s]
          ELSE [worker[s] EXCEPT !.age = Smallest({@ + 1, Oldest}),
                                 !.calm = worker[s].at = "poll"]]
    /\ UNCHANGED <<order, queue, at, seen, watching, recent, rate, faults, pool>>

(* Mutant: pending_spawn is never too old. *)
NeverOver == FALSE /\ UNCHANGED vars

(* 200 ms after the last start. *)
RecentOver ==
    /\ recent /\ recent' = FALSE
    /\ UNCHANGED <<worker, order, queue, at, seen, watching, due, rate, faults, pool>>

-----------------------------------------------------------------------------
MasterNext ==
    \/ WatchCount \/ Watch \/ Poll \/ Reap
    \/ Count \/ CountStarting \/ Trim \/ Grow \/ Keep \/ QuitIdle

WorkerNext(s) ==
    \/ Start(s) \/ ObeyIdle(s) \/ Wake(s) \/ Accept(s) \/ AcceptNothing(s)
    \/ Interrupted(s) \/ Closed(s) \/ Request(s) \/ ObeyRunning(s)
    \/ Finish(s) \/ Respond(s)

Next ==
    \/ MasterNext \/ (\E s \in Slot : WorkerNext(s) \/ Crash(s))
    \/ Connect \/ Second \/ RecentOver

Spec == Init /\ [][Next]_vars

(* The processes run and time passes.  Requests end, and clients close their
   connections in the end, but need not connect. *)
FairSpec ==
    /\ Spec /\ WF_vars(MasterNext) /\ WF_vars(Second) /\ WF_vars(RecentOver)
    /\ \A s \in Slot : WF_vars(WorkerNext(s)) /\ SF_vars(Closed(s))

-----------------------------------------------------------------------------
(* A waiting connection is taken: some worker accepts, or the queue is
   emptied, again and again. *)
ConnectionsAreTaken == []<>(queue = 0) \/ []<><<queue' < queue>>_vars

(* A worker told to quit by the process manager is gone in the end. *)
QuittingEnds == \A s \in Slot : worker[s].quitting ~> ~worker[s].quitting

(* No connection waits or is served. *)
Quiet == queue = 0 /\ \A s \in Children : worker[s].at \in {"starting", "poll", "accept", "dead"}

(* A dynamic pool nobody uses keeps between min and max spare servers. *)
SpareSettles ==
    Manager = "dynamic" /\ <>[]Quiet => <>[](Cardinality(In("poll")) \in MinSpare .. MaxSpare)

(* An ondemand pool nobody uses keeps no process. *)
OndemandEmpties == Manager = "ondemand" /\ <>[]Quiet => <>[](Children = {})

(* A static pool lacks no more workers than there were faults. *)
StaticKeepsItsWorkers ==
    Manager = "static" => Cardinality(In("none")) <= MaxFaults - faults

(* "When the process last became idle" (scoreboard.rs:64): an ondemand
   worker is told to quit once it has been idle for process_idle_timeout. *)
QuitsOnlyTheLongIdle ==
    [][\A s \in Slot : worker'[s].told /\ ~worker[s].told => worker[s].calm]_vars
=============================================================================
