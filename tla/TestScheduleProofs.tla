------------------------- MODULE TestScheduleProofs -------------------------
(* Proofs about the .phpt scheduler, for every set of jobs and threads.    *)
EXTENDS TestSchedule, WellFoundedInduction, FiniteSetTheorems, TLAPS

(* First(S) is an element of S: a non-empty set of indices has a least one. *)
LEMMA FirstInSet ==
    ASSUME NEW S \in SUBSET Job, S # {}
    PROVE  First(S) \in S
<1> DEFINE Less == {p \in Nat \X Nat : p[1] < p[2]}
<1>1. IsWellFoundedOn(Less, Nat)
  BY NatLessThanWellFounded DEF OpToRel
<1>2. S \subseteq Nat
  BY JobAssumption
<1> HIDE DEF Less
<1>3. PICK i \in S : \A k \in S : <<k, i>> \notin Less
  BY <1>1, <1>2, WFMin
<1>4. ASSUME NEW k \in S, k < i
      PROVE  FALSE
  <2>1. <<k, i>> \in Nat \X Nat /\ <<k, i>>[1] < <<k, i>>[2]
    BY <1>2, <1>4
  <2>2. <<k, i>> \in Less
    BY <2>1, Zenon DEF Less
  <2> QED
    BY <1>3, <2>2
<1>5. \A k \in S : i <= k
  BY <1>2, <1>4
<1> QED
  BY <1>5 DEF First

(***************************************************************************)
(* The inductive invariant.  NoOverlap alone is not inductive: a thread    *)
(* that takes a keyed job looks at `held`, not at the other threads, so    *)
(* `held` must be known to contain every key in use, the keys of a thread  *)
(* between f's return and its release included; and a release must not     *)
(* take away a key that another thread holds.                              *)
(***************************************************************************)
Holds(w) == pc[w] \in {"run", "release"}

KeysHeld ==
    \A w \in Worker : Holds(w) =>
        /\ job[w] \in Job \ Exclusive
        /\ Conflicts[job[w]] \subseteq held

KeysDisjoint ==
    \A v, w \in Worker :
        v # w /\ Holds(v) /\ Holds(w)
            => Conflicts[job[v]] \cap Conflicts[job[w]] = {}

(* The threads never see an exclusive job, and the main thread runs one only
   when they have all ended. *)
ExclusiveApart ==
    /\ free \subseteq {j \in Job \ Exclusive : Conflicts[j] = {}}
    /\ keyed \subseteq Job \ Exclusive
    /\ solo # {} => \A w \in Worker : pc[w] = "done"
    /\ solo = {} \/ \E i \in Job : solo = {i}

IInv == TypeOK /\ KeysHeld /\ KeysDisjoint /\ ExclusiveApart

LEMMA InitIInv == Init => IInv
BY JobAssumption, ConflictsAssumption, ExclusiveAssumption
   DEF Init, KeyedJobs, none, IInv, TypeOK, KeysHeld, KeysDisjoint, ExclusiveApart, Holds, Pc

LEMMA StepIInv == IInv /\ [Next]_vars => IInv'
<1> SUFFICES ASSUME IInv, [Next]_vars
             PROVE  IInv'
  OBVIOUS
<1> USE JobAssumption, ConflictsAssumption, ExclusiveAssumption
    DEF none, LetGo, AllBlocked, NothingLeft, Joined
<1>1. ASSUME NEW w \in Worker, TakeKeyed(w)
      PROVE  IInv'
  <2> DEFINE i == First(Startable)
  <2>1. i \in keyed /\ Conflicts[i] \cap held = {}
    <3>1. Startable \in SUBSET Job /\ Startable # {}
      BY <1>1 DEF TakeKeyed, Startable, IInv, TypeOK
    <3>2. i \in Startable
      BY <3>1, FirstInSet
    <3> QED
      BY <3>2 DEF Startable
  <2>2. /\ pc[w] = "take"
        /\ keyed' = keyed \ {i}
        /\ held' = held \cup Conflicts[i]
        /\ job' = [job EXCEPT ![w] = i]
        /\ pc' = [pc EXCEPT ![w] = "run"]
        /\ UNCHANGED <<free, exclusive, solo, finished>>
    BY <1>1 DEF TakeKeyed
  <2> HIDE DEF i
  <2>3. i \in Job \ Exclusive /\ Conflicts[i] \subseteq Key
    BY <2>1 DEF IInv, ExclusiveApart
  <2>4. TypeOK'
    BY <2>2, <2>3 DEF IInv, TypeOK, Pc
  <2>5. KeysHeld'
    BY <2>2, <2>3 DEF IInv, TypeOK, KeysHeld, Holds
  <2>6. KeysDisjoint'
    BY <2>1, <2>2, <2>3 DEF IInv, TypeOK, KeysHeld, KeysDisjoint, Holds
  <2>7. ExclusiveApart'
    BY <2>2 DEF IInv, TypeOK, ExclusiveApart
  <2> QED
    BY <2>4, <2>5, <2>6, <2>7 DEF IInv
<1>2. ASSUME NEW w \in Worker, TakeFree(w)
      PROVE  IInv'
  <2> DEFINE i == First(free)
  <2>1. i \in free
    BY <1>2, FirstInSet DEF TakeFree, IInv, TypeOK
  <2>2. /\ pc[w] = "take"
        /\ free' = free \ {i}
        /\ job' = [job EXCEPT ![w] = i]
        /\ pc' = [pc EXCEPT ![w] = "run"]
        /\ UNCHANGED <<keyed, held, exclusive, solo, finished>>
    BY <1>2 DEF TakeFree
  <2> HIDE DEF i
  <2>3. i \in Job \ Exclusive /\ Conflicts[i] = {}
    BY <2>1 DEF IInv, ExclusiveApart
  <2>4. TypeOK'
    BY <2>2, <2>3 DEF IInv, TypeOK, Pc
  <2>5. KeysHeld'
    BY <2>2, <2>3 DEF IInv, TypeOK, KeysHeld, Holds
  <2>6. KeysDisjoint'
    BY <2>2, <2>3 DEF IInv, TypeOK, KeysHeld, KeysDisjoint, Holds
  <2>7. ExclusiveApart'
    BY <2>2 DEF IInv, TypeOK, ExclusiveApart
  <2> QED
    BY <2>4, <2>5, <2>6, <2>7 DEF IInv
<1>3. ASSUME NEW w \in Worker, Sleep(w) \/ Exit(w)
      PROVE  IInv'
  <2>1. TypeOK'
    BY <1>3 DEF Sleep, Exit, IInv, TypeOK, Pc
  <2>2. KeysHeld' /\ KeysDisjoint'
    BY <1>3 DEF Sleep, Exit, IInv, TypeOK, KeysHeld, KeysDisjoint, Holds
  <2>3. ExclusiveApart'
    BY <1>3 DEF Sleep, Exit, IInv, TypeOK, ExclusiveApart
  <2> QED
    BY <2>1, <2>2, <2>3 DEF IInv
<1>4. ASSUME NEW w \in Worker, Return(w)
      PROVE  IInv'
  <2>1. TypeOK'
    BY <1>4 DEF Return, IInv, TypeOK, KeysHeld, Holds, Pc
  <2>2. KeysHeld' /\ KeysDisjoint'
    BY <1>4 DEF Return, IInv, TypeOK, KeysHeld, KeysDisjoint, Holds
  <2>3. ExclusiveApart'
    BY <1>4 DEF Return, IInv, TypeOK, ExclusiveApart
  <2> QED
    BY <2>1, <2>2, <2>3 DEF IInv
<1>5. ASSUME NEW w \in Worker, Release(w)
      PROVE  IInv'
  <2>1. TypeOK'
    BY <1>5 DEF Release, IInv, TypeOK, Pc
  <2>2. \A v \in Worker : Holds(v)' => v # w /\ Holds(v) /\ job'[v] = job[v]
    BY <1>5 DEF Release, Holds, IInv, TypeOK
  <2>3. KeysHeld'
    BY <1>5, <2>2 DEF Release, IInv, KeysHeld, KeysDisjoint, Holds
  <2>4. KeysDisjoint'
    BY <2>2 DEF IInv, KeysDisjoint
  <2>5. ExclusiveApart'
    BY <1>5 DEF Release, IInv, TypeOK, ExclusiveApart
  <2> QED
    BY <2>1, <2>3, <2>4, <2>5 DEF IInv
<1>6. CASE StartExclusive
  <2> DEFINE i == First(exclusive)
  <2>1. i \in exclusive
    BY <1>6, FirstInSet DEF StartExclusive, IInv, TypeOK
  <2>2. /\ \A w \in Worker : pc[w] = "done"
        /\ solo' = {i}
        /\ exclusive' = exclusive \ {i}
        /\ UNCHANGED <<free, keyed, held, pc, job, finished>>
    BY <1>6 DEF StartExclusive
  <2> HIDE DEF i
  <2> QED
    BY <2>1, <2>2
       DEF IInv, TypeOK, KeysHeld, KeysDisjoint, ExclusiveApart, Holds
<1>7. CASE ReturnExclusive \/ Terminated \/ UNCHANGED vars
  BY <1>7 DEF ReturnExclusive, Terminated, vars,
              IInv, TypeOK, KeysHeld, KeysDisjoint, ExclusiveApart, Holds
<1> QED
  BY <1>1, <1>2, <1>3, <1>4, <1>5, <1>6, <1>7 DEF Next, WorkerStep

(* The scheduler keeps its inductive invariant. *)
LEMMA Inductive == Spec => []IInv
BY InitIInv, StepIInv, PTL DEF Spec

(* Every variable keeps its type, for every set of jobs, keys and threads. *)
THEOREM TypeCorrect == Spec => []TypeOK
<1>1. IInv => TypeOK
  BY DEF IInv
<1> QED
  BY <1>1, Inductive, PTL

(* Two threads are never inside tests that share a CONFLICTS key. *)
THEOREM ConflictsHonoured == Spec => []NoOverlap
<1>1. IInv => NoOverlap
  BY DEF IInv, KeysDisjoint, NoOverlap, Holds
<1> QED
  BY <1>1, Inductive, PTL

(* A test keyed `all` runs beside no other test. *)
THEOREM ExclusiveRunsAlone == Spec => []ExclusiveAlone
<1>1. IInv => ExclusiveAlone
  BY DEF IInv, KeysHeld, ExclusiveApart, ExclusiveAlone, Running, Holds
<1> QED
  BY <1>1, Inductive, PTL

(***************************************************************************)
(* What the threads owe each other: a job left is in one list and nobody's *)
(* hands; a key is in `held` for a thread that will give it back; and who  *)
(* sleeps, sleeps for such a thread.  The last is inductive only with the  *)
(* second, since Sleep looks at `held` and not at the threads.             *)
(***************************************************************************)
Left == free \cup keyed \cup exclusive

Places ==
    /\ \A i \in keyed : Conflicts[i] # {}
    /\ exclusive \subseteq Exclusive
    /\ Left \cap (finished \cup Running) = {}
    /\ Job \subseteq Left \cup finished \cup Running
    /\ Running \cap finished = {}
    /\ \A v, w \in Worker : pc[v] = "run" /\ pc[w] = "run" /\ job[v] = job[w] => v = w

KeysGivenBack ==
    \A k \in held : \E v \in Worker : Holds(v) /\ k \in Conflicts[job[v]]

Debts == Places /\ KeysGivenBack /\ SleepersAreWoken

LEMMA InitDebts == Init => Debts
BY ExclusiveAssumption
   DEF Init, KeyedJobs, none, Debts, Places, Left, Running, KeysGivenBack, SleepersAreWoken

(* A thread in "take" takes job i out of one of the two lists. *)
LEMMA TakeDebts ==
    ASSUME IInv, Debts, NEW w \in Worker, TakeKeyed(w) \/ TakeFree(w)
    PROVE  Debts'
<1> USE JobAssumption, ConflictsAssumption, ExclusiveAssumption
<1> DEFINE i == job'[w]
<1>1. /\ i \in free \cup keyed /\ i \in Job
      /\ free' = free \ {i} /\ keyed' = keyed \ {i}
      /\ held' = held \cup Conflicts[i]
      /\ pc[w] = "take" /\ job[w] = none
      /\ job' = [job EXCEPT ![w] = i]
      /\ pc' = [pc EXCEPT ![w] = "run"]
      /\ UNCHANGED <<exclusive, solo, finished>>
  <2>1. CASE TakeKeyed(w)
    <3>1. Startable \in SUBSET Job /\ Startable # {}
      BY <2>1 DEF TakeKeyed, Startable, IInv, TypeOK
    <3>2. First(Startable) \in keyed
      BY <3>1, FirstInSet DEF Startable
    <3>3. i = First(Startable)
      BY <2>1 DEF TakeKeyed, IInv, TypeOK
    <3>4. i \notin free
      BY <3>2, <3>3 DEF IInv, ExclusiveApart, Debts, Places
    <3> QED
      BY <2>1, <3>2, <3>3, <3>4 DEF TakeKeyed, IInv, TypeOK
  <2>2. CASE TakeFree(w)
    <3>1. First(free) \in free
      BY <2>2, FirstInSet DEF TakeFree, IInv, TypeOK
    <3>2. i = First(free)
      BY <2>2 DEF TakeFree, IInv, TypeOK
    <3>3. i \notin keyed /\ Conflicts[i] = {}
      BY <3>1, <3>2 DEF IInv, ExclusiveApart, Debts, Places
    <3> QED
      BY <2>2, <3>1, <3>2, <3>3 DEF TakeFree, IInv, TypeOK
  <2> QED
    BY <2>1, <2>2
<1> HIDE DEF i
<1>2. Running' = Running \cup {i}
  BY <1>1 DEF Running, IInv, TypeOK
<1>3. i \notin exclusive /\ i \notin finished \cup Running
  BY <1>1 DEF IInv, ExclusiveApart, Debts, Places, Left
<1>4. Places'
  <2>1. \A v \in Worker \ {w} : pc'[v] = "run" => job'[v] \in Running
    BY <1>1 DEF Running, IInv, TypeOK
  <2>2. \A u, v \in Worker : pc'[u] = "run" /\ pc'[v] = "run" /\ job'[u] = job'[v] => u = v
    BY <1>1, <1>3, <2>1 DEF Debts, Places, IInv, TypeOK
  <2>3. Left' = Left \ {i}
    BY <1>1, <1>3 DEF Left
  <2> QED
    BY <1>1, <1>2, <1>3, <2>2, <2>3 DEF Debts, Places
<1>5. \A v \in Worker : Holds(v) => Holds(v)' /\ job'[v] = job[v]
  BY <1>1 DEF Holds, IInv, TypeOK
<1>6. Holds(w)' /\ job'[w] = i
  BY <1>1 DEF Holds, IInv, TypeOK
<1>7. KeysGivenBack'
  BY <1>1, <1>5, <1>6 DEF KeysGivenBack, Debts
<1>8. SleepersAreWoken'
  BY <1>1, <1>5 DEF Debts, SleepersAreWoken, Holds, IInv, TypeOK
<1> QED
  BY <1>4, <1>7, <1>8 DEF Debts

LEMMA StepDebts == IInv /\ Debts /\ [Next]_vars => Debts'
<1> SUFFICES ASSUME IInv, Debts, [Next]_vars
             PROVE  Debts'
  OBVIOUS
<1> USE JobAssumption, ConflictsAssumption, ExclusiveAssumption
<1>1. ASSUME NEW w \in Worker, Sleep(w)
      PROVE  Debts'
  <2>1. Places' /\ KeysGivenBack'
    BY <1>1 DEF Sleep, Debts, Places, Left, Running, KeysGivenBack, Holds, IInv, TypeOK
  <2>2. PICK v \in Worker : Holds(v) /\ Conflicts[job[v]] # {}
    <3>1. PICK j \in keyed : Conflicts[j] \cap held # {}
      BY <1>1 DEF Sleep, AllBlocked, Startable
    <3> QED
      BY <3>1 DEF Debts, KeysGivenBack
  <2>3. SleepersAreWoken'
    BY <1>1, <2>2 DEF Sleep, SleepersAreWoken, Debts, Holds, IInv, TypeOK
  <2> QED
    BY <2>1, <2>3 DEF Debts
<1>2. ASSUME NEW w \in Worker, Exit(w)
      PROVE  Debts'
  <2>1. Places' /\ KeysGivenBack'
    BY <1>2 DEF Exit, Debts, Places, Left, Running, KeysGivenBack, Holds, IInv, TypeOK
  <2>2. SleepersAreWoken'
    BY <1>2 DEF Exit, SleepersAreWoken, Debts, IInv, TypeOK
  <2> QED
    BY <2>1, <2>2 DEF Debts
<1>3. ASSUME NEW w \in Worker, Return(w)
      PROVE  Debts'
  <2>1. job[w] \in Job /\ job[w] # none
    BY <1>3 DEF Return, IInv, KeysHeld, Holds, TypeOK
  <2>2. Running = Running' \cup {job[w]} /\ job[w] \notin Running'
    <3>1. solo = {}
      BY <1>3 DEF Return, IInv, ExclusiveApart
    <3>2. \A v \in Worker \ {w} : /\ pc'[v] = pc[v] /\ job'[v] = job[v]
                                  /\ pc[v] = "run" => job[v] # job[w]
      BY <1>3 DEF Return, LetGo, Debts, Places, IInv, TypeOK
    <3>3. pc[w] = "run" /\ pc'[w] # "run"
      BY <1>3 DEF Return, IInv, TypeOK
    <3> QED
      BY <1>3, <3>1, <3>2, <3>3 DEF Return, Running
  <2>3. Places'
    BY <1>3, <2>1, <2>2 DEF Return, LetGo, Debts, Places, Left, IInv, TypeOK
  <2>4. \A v \in Worker : Holds(v) /\ Conflicts[job[v]] # {} => Holds(v)' /\ job'[v] = job[v]
    BY <1>3 DEF Return, LetGo, Holds, IInv, TypeOK
  <2>5. KeysGivenBack'
    BY <1>3, <2>4 DEF Return, Debts, KeysGivenBack
  <2>6. SleepersAreWoken'
    BY <1>3, <2>4 DEF Return, Debts, SleepersAreWoken, Holds, IInv, TypeOK
  <2> QED
    BY <2>3, <2>5, <2>6 DEF Debts
<1>4. ASSUME NEW w \in Worker, Release(w)
      PROVE  Debts'
  <2>1. \A v \in Worker : /\ pc'[v] = "run" <=> pc[v] = "run"
                          /\ pc[v] = "run" => job'[v] = job[v]
                          /\ pc'[v] # "wait"
    BY <1>4 DEF Release, LetGo, IInv, TypeOK
  <2>2. Running' = Running
    BY <1>4, <2>1 DEF Release, Running
  <2>3. Places'
    BY <1>4, <2>1, <2>2 DEF Release, Debts, Places, Left
  <2>4. \A v \in Worker : Holds(v) /\ v # w => Holds(v)' /\ job'[v] = job[v]
    BY <1>4 DEF Release, LetGo, Holds, IInv, TypeOK
  <2>5. KeysGivenBack'
    BY <1>4, <2>4 DEF Release, Debts, KeysGivenBack
  <2>6. SleepersAreWoken'
    BY <2>1 DEF SleepersAreWoken
  <2> QED
    BY <2>3, <2>5, <2>6 DEF Debts
<1>5. CASE StartExclusive
  <2> DEFINE i == First(exclusive)
  <2>1. i \in exclusive
    BY <1>5, FirstInSet DEF StartExclusive, IInv, TypeOK
  <2>2. /\ \A w \in Worker : pc[w] = "done"
        /\ solo = {} /\ solo' = {i}
        /\ exclusive' = exclusive \ {i}
        /\ UNCHANGED <<free, keyed, held, pc, job, finished>>
    BY <1>5 DEF StartExclusive, Joined
  <2> HIDE DEF i
  <2>3. Running = {} /\ Running' = {i}
    BY <2>2 DEF Running
  <2>4. i \notin free \cup keyed
    BY <2>1 DEF IInv, ExclusiveApart, Debts, Places
  <2>5. Places'
    <3>1. Left' = Left \ {i} /\ i \in Left
      BY <2>1, <2>2, <2>4 DEF Left
    <3>2. \A v \in Worker : pc'[v] # "run"
      BY <2>2
    <3>3. i \notin finished
      BY <3>1 DEF Debts, Places
    <3> QED
      BY <2>2, <2>3, <3>1, <3>2, <3>3 DEF Debts, Places
  <2>6. KeysGivenBack' /\ SleepersAreWoken'
    BY <2>2 DEF Debts, KeysGivenBack, SleepersAreWoken, Holds
  <2> QED
    BY <2>5, <2>6 DEF Debts
<1>6. CASE ReturnExclusive
  <2>1. \A w \in Worker : pc[w] = "done"
    BY <1>6 DEF ReturnExclusive, IInv, ExclusiveApart
  <2>2. Running = solo /\ Running' = {}
    BY <1>6, <2>1 DEF ReturnExclusive, Running
  <2>3. Places'
    BY <1>6, <2>1, <2>2 DEF ReturnExclusive, Debts, Places, Left
  <2>4. KeysGivenBack' /\ SleepersAreWoken'
    BY <1>6, <2>1 DEF ReturnExclusive, Debts, KeysGivenBack, SleepersAreWoken, Holds
  <2> QED
    BY <2>3, <2>4 DEF Debts
<1>7. CASE Terminated \/ UNCHANGED vars
  BY <1>7 DEF Terminated, vars, Debts, Places, Left, Running,
              KeysGivenBack, SleepersAreWoken, Holds
<1> QED
  BY <1>1, <1>2, <1>3, <1>4, <1>5, <1>6, <1>7, TakeDebts DEF Next, WorkerStep

LEMMA DebtsKept == Spec => []Debts
BY Inductive, InitDebts, StepDebts, PTL DEF Spec

LEMMA DebtsSay == Debts => RunOnce /\ SleepersAreWoken
<1> SUFFICES ASSUME Debts, NEW i \in Job
             PROVE  /\ Cardinality(Holding(i)) <= 1
                    /\ i \in finished \cup Running <=> i \notin free \cup keyed \cup exclusive
                    /\ i \in Running => i \notin finished
  BY DEF RunOnce, Debts
<1>1. Holding(i) = {} \/ \E w : Holding(i) = {w}
  BY DEF Holding, Debts, Places
<1>2. Cardinality(Holding(i)) \in {0, 1}
  BY <1>1, FS_EmptySet, FS_Singleton
<1> QED
  BY <1>2 DEF Debts, Places, Left

(* No job is run twice or dropped. *)
THEOREM JobsRunOnce == Spec => []RunOnce
BY DebtsSay, DebtsKept, PTL

(* A thread that sleeps has somebody to wake it: another thread that holds
   keys and will give them back. *)
THEOREM NoLostWakeUp == Spec => []SleepersAreWoken
BY DebtsSay, DebtsKept, PTL
=============================================================================
