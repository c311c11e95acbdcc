-------------------------- MODULE FpmControlProofs --------------------------
(***************************************************************************)
(* What holds of the master's stopping for every number of workers: type    *)
(* correctness, that no process is left behind, that a stopping pool is     *)
(* not refilled, and that without a timeout no request is cut short.        *)
(***************************************************************************)
EXTENDS FpmControl, TLAPS

(* The plans of the three ways to stop are sequences of steps. *)
LEMMA PlansTyped ==
    ASSUME TypeOK
    PROVE  /\ Finishing \in Seq(StepType) /\ Terminating \in Seq(StepType)
           /\ Reloading \in Seq(StepType)
  BY DEF TypeOK, Finishing, Terminating, Reloading, Step, StepType

LEMMA EmptyPlan == <<>> \in Seq(StepType)
  OBVIOUS

(* A new worker and an empty place. *)
LEMMA FreshTyped == Fresh \in WorkerType /\ None \in WorkerType
  <1>1. {} \in SUBSET {"QUIT", "TERM", "KILL"}
    OBVIOUS
  <1> QED BY <1>1 DEF Fresh, None, WorkerType

(* reap leaves workers, and none that is dead; while the master stops it adds
   none. *)
LEMMA ReapedTyped ==
    ASSUME TypeOK, NEW now \in Reaped
    PROVE  /\ now \in [Worker -> WorkerType]
           /\ \A w \in Worker : \/ now[w] = worker[w] /\ worker[w].state # "dead"
                                \/ now[w] = None
                                \/ now[w] = Fresh /\ at = "loop"
  <1>1. Refilled \subseteq WorkerType
    BY FreshTyped DEF Refilled
  <1>2. \A w \in Worker : IF worker[w].state = "dead" THEN now[w] \in Refilled
                          ELSE now[w] = worker[w]
    BY DEF Reaped
  <1>3. now \in [Worker -> {worker[w] : w \in Worker} \cup Refilled]
    BY DEF Reaped
  <1>4. worker \in [Worker -> WorkerType]
    BY DEF TypeOK
  <1>5. now \in [Worker -> WorkerType]
    BY <1>1, <1>3, <1>4
  <1>6. \A w \in Worker : \/ now[w] = worker[w] /\ worker[w].state # "dead"
                          \/ now[w] = None
                          \/ now[w] = Fresh /\ at = "loop"
    BY <1>2 DEF Refilled
  <1> QED BY <1>5, <1>6

(* Every signal sent by the master goes to a worker. *)
LEMMA ToldTyped ==
    ASSUME TypeOK, NEW sig \in {"QUIT", "TERM", "KILL"}
    PROVE  /\ Told(sig) \in [Worker -> WorkerType]
           /\ \A w \in Worker :
                /\ Told(sig)[w].state = worker[w].state
                /\ Told(sig)[w].state = "none" => Told(sig)[w] = None
                /\ Told(sig)[w].told \subseteq worker[w].told \cup {sig}
  <1>1. worker \in [Worker -> WorkerType]
    BY DEF TypeOK
  <1>2. ASSUME NEW w \in Worker
        PROVE  /\ Told(sig)[w] \in WorkerType
               /\ Told(sig)[w].state = worker[w].state
               /\ Told(sig)[w].state = "none" => Told(sig)[w] = None
               /\ Told(sig)[w].told \subseteq worker[w].told \cup {sig}
    <2>1. worker[w] \in WorkerType
      BY <1>1
    <2>2. CASE w \in Children
      BY <2>1, <2>2 DEF Told, Children, In, WorkerType
    <2>3. CASE w \notin Children
      BY <2>1, <2>3 DEF Told, Children, In, TypeOK
    <2> QED BY <2>2, <2>3
  <1>3. Told(sig) = [w \in Worker |-> Told(sig)[w]]
    BY DEF Told
  <1> QED BY <1>2, <1>3

-----------------------------------------------------------------------------
(* The variables keep their types, and only workers are signalled. *)
LEMMA TypeStep == TypeOK /\ [Next]_vars => TypeOK'
<1> SUFFICES ASSUME TypeOK, [Next]_vars PROVE TypeOK'
    OBVIOUS
<1>1. ASSUME NEW s \in Signal \cap Sent, Send(s) PROVE TypeOK'
  BY <1>1 DEF TypeOK, Send, master
<1>2. CASE Read
  BY <1>2 DEF TypeOK, Read
<1>3. ASSUME NEW s \in Signal, Handle(s) PROVE TypeOK'
  <2>1. /\ at = "loop" /\ ~waiting
        /\ UNCHANGED <<sigs, waiting, pending, worker, asked, cut, timed>>
    BY <1>3 DEF Handle, TypeOK
  <2>2. /\ at' \in {"loop", "stop"} /\ batch' \subseteq Sent
        /\ steps' \in Seq(StepType) /\ after' \in {"exit", "exec"}
    BY <1>3, PlansTyped DEF Handle, Stop, TypeOK
  <2> QED BY <2>1, <2>2 DEF TypeOK
<1>4. CASE Reap
  <2>1. worker' \in Reaped /\ UNCHANGED <<master, sigs, asked, cut, timed>>
    BY <1>4 DEF Reap
  <2> QED BY <2>1, ReapedTyped DEF TypeOK, master, Fresh
<1>5. CASE BeginStep
  <2>1. Head(steps) \in StepType
    BY <1>5 DEF BeginStep, TypeOK
  <2>2. Head(steps).sig \in {"QUIT", "TERM", "KILL"}
    BY <2>1 DEF StepType
  <2> QED BY <1>5, <2>2, ToldTyped DEF BeginStep, TypeOK
<1>6. CASE Wait
  <2>1. /\ worker' \in Reaped /\ pending' \subseteq Sent /\ sigs' = {}
        /\ UNCHANGED <<at, batch, steps, waiting, after, asked, cut, timed>>
    BY <1>6 DEF Wait, TypeOK
  <2> QED BY <2>1, ReapedTyped DEF TypeOK, Fresh
<1>7. CASE Timeout
  <2>1. Tail(steps) \in Seq(StepType)
    BY <1>7 DEF Timeout, TypeOK
  <2> QED BY <1>7, <2>1 DEF Timeout, TypeOK
<1>8. CASE StepDone
  BY <1>8, EmptyPlan DEF StepDone, TypeOK
<1>9. CASE Kill
  BY <1>9, ToldTyped DEF Kill, TypeOK
<1>10. CASE WaitKilled
  <2>1. worker' \in Reaped /\ sigs' = {} /\ UNCHANGED <<master, asked, cut, timed>>
    BY <1>10 DEF WaitKilled
  <2> QED BY <2>1, ReapedTyped DEF TypeOK, master, Fresh
<1>11. CASE Exit
  BY <1>11 DEF Exit, Stopped, TypeOK
<1>12. CASE Exec
  <2>1. CASE UNCHANGED <<steps, pending, worker>> /\ at' = "gone"
    BY <1>12, <2>1 DEF Exec, Stopped, TypeOK
  <2>2. CASE /\ at' = "loop" /\ steps' = <<>> /\ pending' = {}
             /\ worker' = [w \in Worker |-> Fresh]
    <3>1. \A w \in Worker : worker'[w] \in WorkerType /\ worker'[w].state # "none"
      BY <2>2, FreshTyped DEF Fresh
    <3> QED BY <1>12, <2>2, <3>1, FreshTyped, EmptyPlan DEF Exec, Stopped, TypeOK
  <2> QED BY <1>12, <2>1, <2>2 DEF Exec
<1>13. ASSUME NEW w \in Worker, Take(w) \/ Finish(w) \/ End(w) \/ Killed(w)
       PROVE TypeOK'
  <2>1. PICK state \in {"idle", "busy", "dead"} : Become(w, state)
    BY <1>13 DEF Take, Finish, End, Killed
  <2>2. UNCHANGED <<master, sigs, asked, timed>> /\ cut' \in BOOLEAN
    BY <1>13 DEF Take, Finish, End, Killed, TypeOK
  <2>3. [worker[w] EXCEPT !.state = state] \in WorkerType
    BY DEF TypeOK, WorkerType
  <2>4. /\ worker' \in [Worker -> WorkerType]
        /\ \A v \in Worker : worker'[v].state = "none" => worker'[v] = None
    BY <2>1, <2>3 DEF Become, TypeOK, WorkerType
  <2> QED BY <2>2, <2>4 DEF TypeOK, master
<1>14. ASSUME NEW w \in Worker, Hear(w) PROVE TypeOK'
  <2> DEFINE new == [worker[w] EXCEPT !.told = @ \cap {"KILL"}, !.quit = TRUE,
                                      !.state = IF EndsNow(w) THEN "dead" ELSE @]
  <2>1. worker[w] \in WorkerType /\ worker[w].state # "none"
    BY <1>14 DEF Hear, Alive, In, TypeOK
  <2>2. worker[w].told \cap {"KILL"} \in SUBSET {"QUIT", "TERM", "KILL"}
    OBVIOUS
  <2>3. new \in WorkerType /\ new.state # "none"
    BY <2>1, <2>2 DEF WorkerType
  <2>4. worker' = [worker EXCEPT ![w] = new]
    BY <1>14 DEF Hear, TypeOK
  <2>5. /\ worker' \in [Worker -> WorkerType]
        /\ \A v \in Worker : worker'[v].state = "none" => worker'[v] = None
    BY <2>3, <2>4 DEF TypeOK
  <2>6. UNCHANGED <<master, sigs, asked, timed>> /\ cut' \in BOOLEAN
    BY <1>14 DEF Hear, TypeOK
  <2> QED BY <2>5, <2>6 DEF TypeOK, master
<1>15. CASE UNCHANGED vars
  BY <1>15 DEF TypeOK, vars
<1> QED
  BY <1>1, <1>2, <1>3, <1>4, <1>5, <1>6, <1>7, <1>8, <1>9, <1>10, <1>11, <1>12,
     <1>13, <1>14, <1>15 DEF Next, MasterNext, WorkerNext, Rest

(* Every variable keeps its type and no signal goes to a worker that was
   reaped: signal_all only names the children. *)
THEOREM TypeCorrect == Spec => []TypeOK
<1>1. Init => TypeOK
  <2> SUFFICES ASSUME Init PROVE TypeOK
    OBVIOUS
  <2>1. \A w \in Worker : worker[w] \in WorkerType /\ worker[w].state # "none"
    BY FreshTyped DEF Init, Fresh
  <2> QED BY <2>1, FreshTyped, EmptyPlan DEF Init, TypeOK
<1> QED BY <1>1, TypeStep, PTL DEF Spec

-----------------------------------------------------------------------------
(* The master leaves its stopping by Exit or Exec alone, and both wait for the
   last child. *)
THEOREM NoneLeftBehind == Spec => NobodyIsLeft
<1>1. TypeOK /\ [Next]_vars => [Stopping /\ ~Stopping' => In("none") = Worker]_vars
  <2> SUFFICES ASSUME Next, Stopping, ~Stopping'
               PROVE  In("none") = Worker
    BY DEF vars
  <2>1. Exit \/ Exec => Children = {}
    BY DEF Exit, Exec, Stopped
  <2>2. Exit \/ Exec
    BY DEF Next, MasterNext, WorkerNext, Rest, Send, Read, Handle, Reap, BeginStep,
           Wait, Timeout, StepDone, Kill, WaitKilled, Take, Finish, End, Hear,
           Killed, Become, Stopping, master, vars
  <2> QED BY <2>1, <2>2 DEF Children, In
<1> QED BY <1>1, TypeCorrect, PTL DEF Spec, NobodyIsLeft

(* While the master stops, no step brings a worker to life. *)
LEMMA NoneRevived ==
    TypeOK /\ [Next]_vars => [Stopping /\ Stopping' => Alive' \subseteq Alive]_vars
<1> SUFFICES ASSUME TypeOK, Next, Stopping, Stopping'
             PROVE  Alive' \subseteq Alive
    BY DEF vars
<1>1. CASE \E s \in Signal \cap Sent : Send(s)
  BY <1>1 DEF Send, Alive, In
<1>2. CASE Wait \/ WaitKilled
  <2>1. worker' \in Reaped /\ at # "loop"
    BY <1>2 DEF Wait, WaitKilled
  <2> QED BY <2>1, ReapedTyped DEF Alive, In, None
<1>3. CASE BeginStep \/ Kill
  <2>1. PICK sig \in {"QUIT", "TERM", "KILL"} : worker' = Told(sig)
    <3>1. BeginStep => Head(steps) \in StepType
      BY DEF BeginStep, TypeOK
    <3>2. BeginStep => Head(steps).sig \in {"QUIT", "TERM"}
      BY <3>1 DEF StepType
    <3> QED BY <1>3, <3>2 DEF BeginStep, Kill
  <2> QED BY <2>1, ToldTyped DEF Alive, In
<1>4. CASE Timeout \/ StepDone \/ Exit \/ Rest
  BY <1>4 DEF Timeout, StepDone, Exit, Rest, vars, Alive, In
<1>5. ASSUME NEW w \in Worker, Take(w) \/ Finish(w) \/ Killed(w)
      PROVE  Alive' \subseteq Alive
  BY <1>5 DEF Take, Finish, Killed, Become, Alive, In, TypeOK, WorkerType
<1>6. ASSUME NEW w \in Worker, Hear(w) PROVE Alive' \subseteq Alive
  BY <1>6 DEF Hear, Alive, In, TypeOK, WorkerType
<1> QED
  BY <1>1, <1>2, <1>3, <1>4, <1>5, <1>6
  DEF Next, MasterNext, WorkerNext, Stopping, Read, Handle, Reap, Exec, End

(* A pool that stops is not refilled. *)
THEOREM StoppingPoolShrinks == Spec => NoRefillWhileStopping
  BY NoneRevived, TypeCorrect, PTL DEF Spec, NoRefillWhileStopping

-----------------------------------------------------------------------------
(* Why a graceful stop lets requests end when there is no timeout: as long as
   a worker is left, stop_children is at its first step, which is SIGQUIT and
   has no end, so that no worker is ever sent SIGTERM or SIGKILL. *)
Asked == asked \cap {"INT", "TERM"} # {}
Patient ==
    /\ ~cut /\ at # "kill" /\ sigs \cup batch \subseteq asked
    /\ \A w \in Worker : worker[w].told \subseteq {"QUIT"}
    /\ at = "stop" /\ Children # {} => steps # <<>> /\ Head(steps) = Step("QUIT", FALSE)

LEMMA PatientStep ==
    ASSUME TypeOK, ~timed, Next, Patient, ~Asked'
    PROVE  Patient'
<1>1. CASE \E s \in Signal \cap Sent : Send(s)
  <2>1. /\ UNCHANGED <<at, batch, steps, worker, cut, timed>>
        /\ sigs' \cup batch' \subseteq asked'
    BY <1>1 DEF Send, Patient, master
  <2>2. Children' = Children
    BY <2>1 DEF Children, In
  <2> QED BY <2>1, <2>2 DEF Patient
<1>2. CASE Read
  BY <1>2 DEF Read, Patient, Children, In
<1>3. ASSUME NEW s \in Signal, Handle(s) PROVE Patient'
  <2>1. s \notin {"TERM", "INT"} /\ UNCHANGED <<sigs, worker, asked, cut, timed>>
    BY <1>3 DEF Handle, Patient, Asked
  <2>2. /\ at' \in {"loop", "stop"} /\ batch' \subseteq batch
        /\ at' = "stop" => steps' \in {Finishing, Reloading}
    BY <1>3, <2>1 DEF Handle, Stop
  <2>3. \A plan \in {Finishing, Reloading} :
            plan # <<>> /\ Head(plan) = Step("QUIT", FALSE)
    BY DEF TypeOK, Finishing, Reloading, Step
  <2> QED BY <2>1, <2>2, <2>3 DEF Patient
<1>4. CASE Reap \/ Wait \/ WaitKilled
  <2>1. worker' \in Reaped /\ UNCHANGED <<at, batch, steps, asked, cut, timed>> /\ sigs' \in {sigs, {}}
    BY <1>4 DEF Reap, Wait, WaitKilled, master
  <2>2. \A w \in Worker : worker'[w].told \subseteq {"QUIT"}
    BY <2>1, ReapedTyped DEF Patient, Fresh, None
  <2>3. at = "stop" /\ Children' # {} => Children # {}
    BY <2>1, ReapedTyped DEF Children, In, None, Fresh
  <2> QED BY <2>1, <2>2, <2>3 DEF Patient
<1>5. CASE BeginStep
  <2>1. Head(steps).sig = "QUIT"
    BY <1>5 DEF BeginStep, Patient, Step
  <2>2. worker' = Told("QUIT") /\ UNCHANGED <<at, sigs, batch, steps, asked, cut, timed>>
    BY <1>5, <2>1 DEF BeginStep
  <2>3. /\ \A w \in Worker : worker'[w].told \subseteq {"QUIT"}
        /\ Children' = Children
    BY <2>2, ToldTyped DEF Patient, Children, In
  <2> QED BY <2>2, <2>3 DEF Patient
<1>6. CASE Timeout
  BY <1>6 DEF Timeout, Patient, Step
<1>7. CASE StepDone
  BY <1>7 DEF StepDone, Patient, Children, In
<1>8. CASE Kill
  BY <1>8 DEF Kill, Patient
<1>9. CASE Exit
  BY <1>9 DEF Exit, Patient
<1>10. CASE Exec
  <2>1. /\ at' \in {"loop", "gone"} /\ UNCHANGED <<sigs, batch, asked, cut, timed>>
        /\ worker' = worker \/ worker' = [w \in Worker |-> Fresh]
    BY <1>10 DEF Exec
  <2>2. \A w \in Worker : worker'[w].told \subseteq {"QUIT"}
    BY <2>1 DEF Patient, Fresh
  <2> QED BY <2>1, <2>2 DEF Patient
<1>11. ASSUME NEW w \in Worker, Take(w) \/ Finish(w) \/ End(w) PROVE Patient'
  <2>1. PICK state \in {"idle", "busy", "dead"} : Become(w, state)
    BY <1>11 DEF Take, Finish, End
  <2>2. UNCHANGED <<master, sigs, asked, cut, timed>> /\ worker[w].state # "none"
    BY <1>11 DEF Take, Finish, End
  <2>3. /\ \A v \in Worker : worker'[v].told = worker[v].told
        /\ Children' = Children
    BY <2>1, <2>2 DEF Become, Children, In, TypeOK, WorkerType
  <2> QED BY <2>2, <2>3 DEF Patient, master
<1>12. ASSUME NEW w \in Worker, Hear(w) PROVE Patient'
  <2>1. /\ \A v \in Worker : worker'[v].told \subseteq worker[v].told
        /\ Children' \subseteq Children
        /\ UNCHANGED <<master, sigs, asked, timed>>
    BY <1>12 DEF Hear, Alive, Children, In, TypeOK, WorkerType
  <2>2. ~cut'
    BY <1>12 DEF Hear, EndsNow, Patient, In
  <2> QED BY <2>1, <2>2 DEF Patient, master
<1>13. ASSUME NEW w \in Worker, Killed(w) PROVE Patient'
  BY <1>13 DEF Killed, Patient
<1>14. CASE Rest
  BY <1>14 DEF Rest, vars, Patient, Children, In
<1> QED
  BY <1>1, <1>2, <1>3, <1>4, <1>5, <1>6, <1>7, <1>8, <1>9, <1>10, <1>11, <1>12,
     <1>13, <1>14 DEF Next, MasterNext, WorkerNext

(* Without process_control_timeout, SIGQUIT and SIGUSR2 let every request in
   progress end, whatever order the signals and the workers come in. *)
THEOREM RequestsFinish == Spec => []GracefulFinishesRequests
<1> DEFINE Inv == ~timed /\ ~Asked => Patient
<1>1. Init => Inv
  BY DEF Init, Patient, Fresh
<1>2. TypeOK /\ Inv /\ [Next]_vars => Inv'
  <2> SUFFICES ASSUME TypeOK, Inv, [Next]_vars, ~timed', ~Asked' PROVE Patient'
    OBVIOUS
  <2>1. asked \subseteq asked' /\ timed' = timed
    BY DEF Next, MasterNext, WorkerNext, Rest, Send, Read, Handle, Reap, BeginStep,
           Wait, Timeout, StepDone, Kill, WaitKilled, Exit, Exec, Take, Finish, End,
           Hear, Killed, vars
  <2>2. Patient
    BY <2>1 DEF Asked
  <2>3. CASE Next
    BY <2>1, <2>2, <2>3, PatientStep
  <2>4. CASE UNCHANGED vars
    BY <2>2, <2>4 DEF vars, Patient, Children, In
  <2> QED BY <2>3, <2>4
<1>3. Inv => GracefulFinishesRequests
  BY DEF Patient, GracefulFinishesRequests, Asked
<1> QED BY <1>1, <1>2, <1>3, TypeCorrect, PTL DEF Spec
=============================================================================
