---------------------------- MODULE FpmPoolProofs ----------------------------
(***************************************************************************)
(* Theorems about FpmPool, for every number of slots, every configuration  *)
(* and every number of faults: the slots and the order they were started   *)
(* in agree, what the master counts stays within the board, and a static   *)
(* pool lacks no more workers than there were faults.                      *)
(***************************************************************************)
EXTENDS FpmPool, FiniteSetTheorems, TLAPS

-----------------------------------------------------------------------------
(***************************************************************************)
(* Numbers and sets of slots.                                              *)
(***************************************************************************)
LEMMA SmallestOfTwo ==
    ASSUME NEW a \in Int, NEW b \in Int
    PROVE  Smallest({a, b}) = IF a <= b THEN a ELSE b
<1> DEFINE m == IF a <= b THEN a ELSE b
<1>1. m \in {a, b} /\ \A x \in {a, b} : m <= x
  OBVIOUS
<1>2. \A y \in {a, b} : (\A x \in {a, b} : y <= x) => y = m
  OBVIOUS
<1> QED BY <1>1, <1>2 DEF Smallest

LEMMA LargestOfTwo ==
    ASSUME NEW a \in Int, NEW b \in Int
    PROVE  Largest({a, b}) = IF a <= b THEN b ELSE a
<1> DEFINE m == IF a <= b THEN b ELSE a
<1>1. m \in {a, b} /\ \A x \in {a, b} : x <= m
  OBVIOUS
<1>2. \A y \in {a, b} : (\A x \in {a, b} : x <= y) => y = m
  OBVIOUS
<1> QED BY <1>1, <1>2 DEF Largest

LEMMA SmallestOfThree ==
    ASSUME NEW a \in Int, NEW b \in Int, NEW c \in Int
    PROVE  Smallest({a, b, c}) \in {a, b, c}
<1>1. \E m \in {a, b, c} : \A x \in {a, b, c} : m <= x
  <2>1. CASE a <= b /\ a <= c
    BY <2>1
  <2>2. CASE b <= a /\ b <= c
    BY <2>2
  <2>3. CASE c <= a /\ c <= b
    BY <2>3
  <2> QED BY <2>1, <2>2, <2>3
<1> QED BY <1>1 DEF Smallest

LEMMA SlotsFinite ==
    ASSUME NEW S \in SUBSET Slot
    PROVE  /\ IsFiniteSet(S) /\ Cardinality(S) \in Nat
           /\ Cardinality(S) <= Cardinality(Slot) /\ Cardinality(Slot) \in Nat
BY SlotAssumption, FS_Subset, FS_CardinalityType

(* Every order of a finite set has each of its elements once. *)
LEMMA OrdersOfSet ==
    ASSUME NEW S \in SUBSET Slot, NEW r \in SetToSeqs(S)
    PROVE  r \in Seq(Slot) /\ IsInjective(r) /\ ToSet(r) = S
<1> DEFINE D == 1 .. Cardinality(S)
<1>1. r \in [D -> S] /\ \A i, j \in D : i # j => r[i] # r[j]
  BY DEF SetToSeqs
<1>2. IsFiniteSet(S) /\ Cardinality(S) \in Nat
  BY SlotsFinite
<1>3. IsFiniteSet(D) /\ Cardinality(D) = Cardinality(S)
  <2>1. Cardinality(D) = IF 1 > Cardinality(S) THEN 0 ELSE Cardinality(S) - 1 + 1
    BY <1>2, FS_Interval
  <2> QED BY <1>2, <2>1, FS_Interval
<1>4. IsInjective(r)
  BY <1>1 DEF IsInjective
<1>5. r \in Injection(D, S)
  BY <1>1, <1>4 DEF Injection
<1>6. r \in Surjection(D, S)
  <2> HIDE DEF D
  <2> QED BY <1>2, <1>3, <1>5, FS_Injection
<1>7. ToSet(r) = S
  BY <1>1, <1>6 DEF ToSet, Surjection
<1>8. r \in Seq(Slot)
  BY <1>1, <1>2
<1> QED BY <1>4, <1>7, <1>8

-----------------------------------------------------------------------------
(***************************************************************************)
(* The invariant.  The first part speaks of the board, which the master    *)
(* and the workers write, the second of what the master alone knows.       *)
(***************************************************************************)
(* A slot that is given back is as if it had never been used: a spawn takes
   such slots only, and takes all it needs of them. *)
BoardInv ==
    /\ worker \in [Slot -> WorkerType]
    /\ \A s \in Slot : worker[s].at = "none" => worker[s] = Free
    /\ order \in Seq(Slot) /\ IsInjective(order) /\ ToSet(order) = Children
    /\ faults \in 0 .. MaxFaults /\ pool \in Pools
    /\ StaticKeepsItsWorkers

(* Only a dynamic pool counts and decides, and between the two counts the
   first is at most the number of slots. *)
MasterInv ==
    /\ at \in {"watch count", "watch", "poll", "reap", "count", "count starting",
               "decide", "quit idle"}
    /\ at \in {"count", "count starting", "decide"} => Manager = "dynamic"
    /\ at = "count starting" => seen <= Cardinality(Slot)
    /\ seen \in 0 .. 2 * Cardinality(Slot)
    /\ watching \in BOOLEAN /\ recent \in BOOLEAN /\ due \in BOOLEAN
    /\ rate \in 1 .. Largest({1, pool.max_spawn_rate})

PoolInv == BoardInv /\ MasterInv /\ queue \in 0 .. Backlog

LEMMA InvTypes == PoolInv => TypeOK
BY DEF PoolInv, BoardInv, MasterInv, TypeOK

LEMMA PoolFacts ==
    ASSUME pool \in Pools
    PROVE  /\ pool.pm \in {"static", "dynamic", "ondemand"}
           /\ pool.max_spawn_rate \in Nat /\ pool.max_requests \in Nat
           /\ pool.min_spare \in Nat /\ pool.max_spare \in Nat
           /\ Oldest \in Nat
           /\ Manager = "dynamic" => pool.max_spawn_rate >= 1
           /\ 1 \in 1 .. Largest({1, pool.max_spawn_rate})
<1>1. pool \in PoolType /\ (pool.pm = "dynamic" => 1 <= pool.max_spawn_rate)
  BY PoolsAssumption
<1>2. pool.max_spawn_rate \in Nat /\ pool.idle_timeout \in Nat
  BY <1>1 DEF PoolType
<1>3. Largest({1, pool.max_spawn_rate}) \in Nat /\ Largest({1, pool.max_spawn_rate}) >= 1
  BY <1>2, LargestOfTwo
<1> QED BY <1>1, <1>2, <1>3 DEF PoolType, Oldest, Manager

(* The types depend on the configuration, which never changes. *)
LEMMA SameTypes == pool' = pool => WorkerType' = WorkerType /\ Manager' = Manager
BY DEF WorkerType, Oldest, Manager

LEMMA FreshIsWorker ==
    ASSUME pool \in Pools
    PROVE  /\ Fresh \in WorkerType /\ Free \in WorkerType
           /\ Fresh.at = "starting" /\ Free.at = "none"
<1>1. Oldest \in Nat /\ pool.max_requests \in Nat
  BY PoolFacts
<1>2. 0 \in 0 .. Oldest /\ 0 \in 0 .. pool.max_requests
  BY <1>1
<1> QED BY <1>2 DEF Fresh, Free, WorkerType

-----------------------------------------------------------------------------
(***************************************************************************)
(* The board.  Two facts carry the invariant from step to step: one about  *)
(* forks, one about every other change to a worker.                        *)
(***************************************************************************)
(* n forks into slots of which at most n more are empty than faults explain
   leave no more empty slots than faults explain. *)
LEMMA SpawnKeepsBoard ==
    ASSUME BoardInv, pool' = pool,
           NEW n \in Nat, NEW slots \in [Slot -> WorkerType], Spawn(n, slots),
           \A s \in Slot : slots[s].at = "none" => slots[s] = Free,
           Manager = "static" =>
             Cardinality({s \in Slot : slots[s].at = "none"}) <= MaxFaults - faults + n
    PROVE  BoardInv'
<1> DEFINE none == {s \in Slot : slots[s].at = "none"}
<1>1. PICK S \in SUBSET {s \in Slot : slots[s] = Free} :
        /\ Cardinality(S) <= n
        /\ n - Cardinality(S) <= faults
        /\ faults' = faults - (n - Cardinality(S))
        /\ worker' = [s \in Slot |-> IF s \in S THEN Fresh ELSE slots[s]]
        /\ order' \in InTurn({s \in Slot : slots[s] # Free}, S)
  BY DEF Spawn
<1>2. pool \in Pools /\ faults \in 0 .. MaxFaults /\ MaxFaults \in Nat
  BY BoundAssumption DEF BoardInv
<1>3. Fresh \in WorkerType /\ Fresh.at = "starting" /\ Free.at = "none"
  BY <1>2, FreshIsWorker
<1>4. S \in SUBSET none /\ none \in SUBSET Slot
  BY <1>3
<1>5. /\ Cardinality(S) \in Nat /\ Cardinality(none) \in Nat /\ IsFiniteSet(none)
      /\ Cardinality(none \ S) = Cardinality(none) - Cardinality(S)
  <2>1. S \in SUBSET Slot /\ none \cap S = S
    BY <1>4
  <2>2. IsFiniteSet(none) /\ Cardinality(none) \in Nat /\ Cardinality(S) \in Nat
    BY <1>4, <2>1, SlotsFinite
  <2>3. Cardinality(none \ S) = Cardinality(none) - Cardinality(none \cap S)
    BY <2>2, FS_Difference
  <2> QED BY <2>1, <2>2, <2>3
<1>6. faults' \in 0 .. faults
  BY <1>1, <1>2, <1>5
<1>7. worker' \in [Slot -> WorkerType']
  BY <1>1, <1>3, SameTypes
<1>8. \A s \in Slot : worker'[s].at = "none" <=> s \in none \ S
  BY <1>1, <1>3
<1>9. \A s \in Slot : worker'[s].at = "none" => worker'[s] = Free
  BY <1>1, <1>3
<1>10. order' \in Seq(Slot) /\ IsInjective(order') /\ ToSet(order') = Children'
  <2>1. order' \in SetToSeqs({s \in Slot : slots[s] # Free} \cup S)
    BY <1>1 DEF InTurn
  <2>2. {s \in Slot : slots[s] # Free} \cup S \in SUBSET Slot
    BY <1>1
  <2>3. Children' = {s \in Slot : slots[s] # Free} \cup S
    <3>1. Children' = {s \in Slot : worker'[s].at # "none"}
      BY DEF Children, In
    <3>2. \A s \in Slot : s \in none <=> slots[s] = Free
      BY <1>3
    <3> QED BY <1>1, <1>8, <3>1, <3>2
  <2> QED BY <2>1, <2>2, <2>3, OrdersOfSet
<1>11. StaticKeepsItsWorkers'
  <2>1. In("none")' = none \ S
    BY <1>8 DEF In
  <2> SUFFICES ASSUME Manager = "static"
               PROVE  Cardinality(none \ S) <= MaxFaults - faults'
    BY <2>1, SameTypes DEF StaticKeepsItsWorkers
  <2>2. Cardinality(none) <= MaxFaults - faults + n
    OBVIOUS
  <2> HIDE DEF none
  <2> QED BY <1>1, <1>2, <1>5, <2>2
<1>12. faults' \in 0 .. MaxFaults /\ pool' \in Pools
  BY <1>2, <1>6
<1> QED BY <1>7, <1>9, <1>10, <1>11, <1>12 DEF BoardInv

(* A step in which no slot is taken or given back. *)
LEMMA KeepsBoard ==
    ASSUME BoardInv, pool' = pool, order' = order, faults' \in 0 .. faults,
           worker' \in [Slot -> WorkerType],
           \A s \in Slot : worker[s].at = "none" => worker'[s] = worker[s],
           \A s \in Slot : worker[s].at # "none" => worker'[s].at # "none"
    PROVE  BoardInv'
<1>1. worker' \in [Slot -> WorkerType']
  BY SameTypes
<1>2. \A s \in Slot : worker'[s].at = "none" <=> worker[s].at = "none"
  OBVIOUS
<1>3. \A s \in Slot : worker'[s].at = "none" => worker'[s] = Free
  BY <1>2 DEF BoardInv
<1>4. In("none")' = In("none") /\ Children' = Children
  BY <1>2 DEF In, Children
<1>5. order' \in Seq(Slot) /\ IsInjective(order') /\ ToSet(order') = Children'
  BY <1>4 DEF BoardInv
<1>6. faults' \in 0 .. MaxFaults /\ pool' \in Pools
  BY BoundAssumption DEF BoardInv
<1>7. StaticKeepsItsWorkers'
  <2>1. Cardinality(In("none")) \in Nat
    BY SlotsFinite DEF In
  <2>2. Manager = "static" => Cardinality(In("none")) <= MaxFaults - faults
    BY DEF BoardInv, StaticKeepsItsWorkers
  <2>3. faults \in Int /\ faults' \in Int /\ faults' <= faults /\ MaxFaults \in Int
    BY BoundAssumption DEF BoardInv
  <2>4. Manager = "static" => Cardinality(In("none")) <= MaxFaults - faults'
    BY <2>1, <2>2, <2>3
  <2> QED BY <1>4, <2>4, SameTypes DEF StaticKeepsItsWorkers
<1> QED BY <1>1, <1>3, <1>5, <1>6, <1>7 DEF BoardInv

(* A step of the worker in slot s. *)
LEMMA PutKeepsBoard ==
    ASSUME BoardInv, NEW s \in Slot, NEW new \in WorkerType, Put(s, new),
           worker[s].at # "none", new.at # "none"
    PROVE  BoardInv'
<1>1. worker' = [worker EXCEPT ![s] = new] /\ order' = order /\ faults' = faults
      /\ pool' = pool
  BY DEF Put
<1>2. worker' \in [Slot -> WorkerType] /\ \A t \in Slot :
        worker'[t] = IF t = s THEN new ELSE worker[t]
  BY <1>1 DEF BoardInv
<1>3. faults' \in 0 .. faults
  BY <1>1 DEF BoardInv
<1> QED BY <1>1, <1>2, <1>3, KeepsBoard

(* Signalling workers takes no slot and gives none back. *)
LEMMA QuitKeepsBoard ==
    ASSUME BoardInv, NEW S \in SUBSET Children, QuitChildren(S),
           pool' = pool, order' = order, faults' = faults
    PROVE  BoardInv'
<1>1. \A s \in Slot : worker'[s] =
        IF s \in S /\ ~worker[s].quitting
        THEN [worker[s] EXCEPT !.quitting = TRUE, !.told = TRUE] ELSE worker[s]
  BY DEF QuitChildren
<1>2. ASSUME NEW w \in WorkerType
      PROVE  /\ [w EXCEPT !.quitting = TRUE, !.told = TRUE] \in WorkerType
             /\ [w EXCEPT !.quitting = TRUE, !.told = TRUE].at = w.at
  BY DEF WorkerType
<1>3. \A s \in Slot : worker[s] \in WorkerType
  BY DEF BoardInv
<1>4. worker' \in [Slot -> WorkerType]
  BY <1>1, <1>2, <1>3 DEF QuitChildren
<1>5. \A s \in Slot : worker'[s].at = worker[s].at
  BY <1>1, <1>2, <1>3
<1>6. \A s \in Slot : worker[s].at = "none" => worker'[s] = worker[s]
  BY <1>1 DEF Children, In
<1>7. faults' \in 0 .. faults
  BY DEF BoardInv
<1> QED BY <1>4, <1>5, <1>6, <1>7, KeepsBoard

-----------------------------------------------------------------------------
(***************************************************************************)
(* The start of the pool.                                                  *)
(***************************************************************************)
(* A round begins with a count of a pool that may watch its socket, or with
   the wait. *)
LEMMA RoundStarts == RoundStart \in {"watch count", "poll"}
BY DEF RoundStart

LEMMA InitPoolInv == Init => PoolInv
<1> SUFFICES ASSUME Init
             PROVE  PoolInv
  OBVIOUS
<1>1. pool \in Pools
  BY DEF Init
<1>2. PICK n \in AtStart : \E S \in SUBSET Slot :
        /\ Cardinality(S) <= n
        /\ n - Cardinality(S) <= MaxFaults
        /\ faults = MaxFaults - (n - Cardinality(S))
        /\ worker = [s \in Slot |-> IF s \in S THEN Fresh ELSE Free]
        /\ order \in SetToSeqs(S)
  BY DEF Init
<1>3. PICK S \in SUBSET Slot :
        /\ Cardinality(S) <= n
        /\ n - Cardinality(S) <= MaxFaults
        /\ faults = MaxFaults - (n - Cardinality(S))
        /\ worker = [s \in Slot |-> IF s \in S THEN Fresh ELSE Free]
        /\ order \in SetToSeqs(S)
  BY <1>2
<1>4. /\ Fresh \in WorkerType /\ Free \in WorkerType
      /\ Fresh.at = "starting" /\ Free.at = "none"
  BY <1>1, FreshIsWorker
<1>5. In("none") = Slot \ S /\ Children = S
  BY <1>3, <1>4 DEF In, Children
<1>6. Cardinality(S) \in Nat /\ Cardinality(Slot) \in Nat
      /\ Cardinality(Slot \ S) = Cardinality(Slot) - Cardinality(S)
  <2>1. Slot \cap S = S
    OBVIOUS
  <2> QED BY <2>1, SlotsFinite, SlotAssumption, FS_Difference
<1>7. n \in Nat /\ (Manager = "static" => n = Cardinality(Slot))
  BY <1>1, <1>6, PoolFacts DEF AtStart, MinSpare, MaxSpare, Manager
<1>8. faults \in 0 .. MaxFaults
  BY <1>3, <1>6, <1>7, BoundAssumption
<1>9. StaticKeepsItsWorkers
  <2>1. Manager = "static" => Cardinality(Slot \ S) <= MaxFaults - faults
    BY <1>3, <1>6, <1>7, <1>8, BoundAssumption
  <2> QED BY <1>5, <2>1 DEF StaticKeepsItsWorkers
<1>10. order \in Seq(Slot) /\ IsInjective(order) /\ ToSet(order) = Children
  BY <1>3, <1>5, OrdersOfSet
<1>11. worker \in [Slot -> WorkerType]
       /\ \A s \in Slot : worker[s].at = "none" => worker[s] = Free
  BY <1>3, <1>4
<1>12. BoardInv
  BY <1>1, <1>8, <1>9, <1>10, <1>11 DEF BoardInv
<1>13. MasterInv
  <2>1. at \in {"watch count", "poll"}
    BY RoundStarts DEF Init
  <2>2. 0 \in 0 .. 2 * Cardinality(Slot)
    BY <1>6
  <2>3. 1 \in 1 .. Largest({1, pool.max_spawn_rate})
    BY <1>1, PoolFacts
  <2> QED BY <2>1, <2>2, <2>3 DEF Init, MasterInv
<1> QED BY <1>12, <1>13, BoundAssumption DEF Init, PoolInv

-----------------------------------------------------------------------------
(***************************************************************************)
(* The master.                                                             *)
(***************************************************************************)
(* What the board shows is at most what there are slots. *)
LEMMA ShownAreSlots ==
    ASSUME NEW state
    PROVE  /\ Shown(state) \in SUBSET Children
           /\ Cardinality(Shown(state)) \in 0 .. Cardinality(Slot)
           /\ Cardinality(Slot) \in Nat
<1>1. Shown(state) \in SUBSET Slot
  BY DEF Shown, Children
<1> QED BY <1>1, SlotsFinite DEF Shown

(* The steps that leave the board alone. *)
LEMMA BoardUnchanged ==
    ASSUME BoardInv, UNCHANGED <<worker, order, faults, pool>>
    PROVE  BoardInv'
<1>1. worker' \in [Slot -> WorkerType] /\ faults' \in 0 .. faults
  BY DEF BoardInv
<1> QED BY <1>1, KeepsBoard

LEMMA TwoCounts ==
    ASSUME NEW k \in Nat, NEW a \in 0 .. k, NEW b \in 0 .. k
    PROVE  a \in 0 .. 2 * k /\ a + b \in 0 .. 2 * k /\ 0 .. 2 * k \subseteq Nat
OBVIOUS

LEMMA CountsKeepInv ==
    ASSUME PoolInv, WatchCount \/ Watch \/ Count \/ CountStarting \/ Keep
    PROVE  PoolInv'
<1> USE DEF PoolInv
<1>1. BoardInv' /\ pool' = pool /\ queue' = queue /\ rate' \in {rate, 1}
      /\ pool \in Pools
  BY BoardUnchanged DEF WatchCount, Watch, Count, CountStarting, Keep, BoardInv
<1>2. 1 \in 1 .. Largest({1, pool.max_spawn_rate})
  BY <1>1, PoolFacts
<1>3. /\ Cardinality(Shown("IDLE")) \in 0 .. Cardinality(Slot)
      /\ Cardinality(Shown("STARTING")) \in 0 .. Cardinality(Slot)
      /\ Cardinality(Slot) \in Nat
  BY ShownAreSlots
<1>4. RoundStart \in {"watch count", "poll"}
  BY RoundStarts
<1>5. watching' \in BOOLEAN /\ recent' \in BOOLEAN /\ due' \in BOOLEAN
  BY DEF WatchCount, Watch, Count, CountStarting, Keep, MasterInv
<1>6. rate' \in 1 .. Largest({1, pool'.max_spawn_rate})
  BY <1>1, <1>2 DEF MasterInv
<1>7. ASSUME WatchCount \/ Watch \/ Keep PROVE MasterInv'
  <2>1. at' \in {"watch", "poll", "watch count"}
    BY <1>4, <1>7 DEF WatchCount, Watch, Keep
  <2>2. seen' \in 0 .. Cardinality(Slot)
    <3>1. seen' = Cardinality(Shown("IDLE")) \/ seen' = 0
      BY <1>7 DEF WatchCount, Watch, Keep
    <3> QED BY <1>3, <3>1
  <2>3. seen' \in 0 .. 2 * Cardinality(Slot)
    BY <1>3, <2>2, TwoCounts
  <2> QED BY <1>1, <2>1, <2>3, <1>5, <1>6 DEF MasterInv
<1>8. ASSUME Count \/ CountStarting PROVE MasterInv'
  <2>1. Manager' = "dynamic" /\ (at' = "decide" \/ at' = "count starting")
    BY <1>1, <1>8, SameTypes DEF Count, CountStarting, MasterInv
  <2>2. CASE Count
    <3>1. seen' \in 0 .. Cardinality(Slot)
      BY <1>3, <2>2 DEF Count
    <3>2. seen' \in 0 .. 2 * Cardinality(Slot) /\ seen' <= Cardinality(Slot)
      BY <1>3, <3>1, TwoCounts
    <3> QED BY <1>1, <2>1, <3>2, <1>5, <1>6 DEF MasterInv
  <2>3. CASE CountStarting
    <3>1. seen \in 0 .. Cardinality(Slot)
      <4>1. seen \in Nat /\ seen <= Cardinality(Slot)
        BY <1>3, <2>3, TwoCounts DEF CountStarting, MasterInv
      <4> QED BY <1>3, <4>1
    <3>2. seen' = seen + Cardinality(Shown("STARTING")) /\ at' = "decide"
      BY <2>3 DEF CountStarting
    <3>3. seen' \in 0 .. 2 * Cardinality(Slot)
      BY <1>3, <3>1, <3>2, TwoCounts
    <3> QED BY <1>1, <2>1, <3>2, <3>3, <1>5, <1>6 DEF MasterInv
  <2> QED BY <1>8, <2>2, <2>3
<1> QED BY <1>1, <1>7, <1>8

LEMMA PollKeepsInv ==
    ASSUME PoolInv, Poll
    PROVE  PoolInv'
<1> USE DEF PoolInv
<1>1. pool' = pool /\ queue' = queue /\ pool \in Pools
  BY DEF Poll, BoardInv
<1>2. ASSUME watching /\ queue > 0 PROVE BoardInv'
  <2> DEFINE n == IF Children = Slot THEN 0 ELSE 1
  <2>1. Spawn(n, worker)
    BY <1>2 DEF Poll
  <2>2. n \in Nat /\ worker \in [Slot -> WorkerType]
        /\ \A s \in Slot : worker[s].at = "none" => worker[s] = Free
    BY DEF BoardInv
  <2>3. Manager = "static" =>
          Cardinality({s \in Slot : worker[s].at = "none"}) <= MaxFaults - faults + n
    <3>1. Manager = "static" => Cardinality(In("none")) <= MaxFaults - faults
      BY DEF BoardInv, StaticKeepsItsWorkers
    <3>2. Cardinality(In("none")) \in Nat /\ MaxFaults \in Nat /\ faults \in Nat
      BY SlotsFinite, BoundAssumption DEF In, BoardInv
    <3>3. Manager = "static" => Cardinality(In("none")) <= MaxFaults - faults + n
      BY <2>2, <3>1, <3>2
    <3> QED BY <3>3 DEF In
  <2> HIDE DEF n
  <2> QED BY <1>1, <2>1, <2>2, <2>3, SpawnKeepsBoard
<1>3. ASSUME ~(watching /\ queue > 0) PROVE BoardInv'
  BY <1>1, <1>3, BoardUnchanged DEF Poll
<1>4. MasterInv'
  BY <1>1, SameTypes DEF Poll, MasterInv
<1> QED BY <1>1, <1>2, <1>3, <1>4

LEMMA DisjointSlots ==
    ASSUME NEW S \in SUBSET Slot, NEW T \in SUBSET Slot, S \cap T = {}
    PROVE  /\ Cardinality(S) \in Nat /\ Cardinality(T) \in Nat
           /\ Cardinality(S \cup T) = Cardinality(S) + Cardinality(T)
<1>1. /\ IsFiniteSet(S) /\ Cardinality(S) \in Nat
      /\ IsFiniteSet(T) /\ Cardinality(T) \in Nat
  BY SlotsFinite
<1>2. Cardinality(S \cup T) = Cardinality(S) + Cardinality(T) - Cardinality(S \cap T)
  BY <1>1, FS_Union
<1>3. Cardinality(S \cap T) = 0
  BY FS_EmptySet
<1> QED BY <1>1, <1>2, <1>3

LEMMA ReapKeepsInv ==
    ASSUME PoolInv, Reap
    PROVE  PoolInv'
<1> USE DEF PoolInv
<1>1. pool' = pool /\ queue' = queue /\ pool \in Pools
  BY DEF Reap, BoardInv
<1>2. Free \in WorkerType /\ Free.at = "none"
  BY <1>1, FreshIsWorker
<1>3. worker \in [Slot -> WorkerType]
      /\ \A s \in Slot : worker[s].at = "none" => worker[s] = Free
  BY DEF BoardInv
<1>4. Reaped \in [Slot -> WorkerType]
      /\ \A s \in Slot : Reaped[s].at = "none" => Reaped[s] = Free
  BY <1>2, <1>3 DEF Reaped
<1>5. In("none") \in SUBSET Slot /\ In("dead") \in SUBSET Slot
      /\ In("none") \cap In("dead") = {}
  BY DEF In
<1>6. /\ Cardinality(In("none")) \in Nat /\ Cardinality(In("dead")) \in Nat
      /\ Cardinality(In("none") \cup In("dead"))
            = Cardinality(In("none")) + Cardinality(In("dead"))
  BY <1>5, DisjointSlots
<1>7. {s \in Slot : Reaped[s].at = "none"} = In("none") \cup In("dead")
  BY <1>2, <1>3 DEF Reaped, In
<1>8. Respawned \in Nat
  BY <1>6 DEF Respawned
<1>9. Manager = "static" =>
        Cardinality({s \in Slot : Reaped[s].at = "none"}) <= MaxFaults - faults + Respawned
  <2>1. Manager = "static" => Cardinality(In("none")) <= MaxFaults - faults
    BY DEF BoardInv, StaticKeepsItsWorkers
  <2>2. MaxFaults \in Nat /\ faults \in Nat
    BY BoundAssumption DEF BoardInv
  <2>3. Manager = "static" => Respawned = Cardinality(In("dead"))
    BY DEF Respawned
  <2>4. Cardinality({s \in Slot : Reaped[s].at = "none"})
          = Cardinality(In("none")) + Cardinality(In("dead"))
    BY <1>6, <1>7
  <2>5. Manager = "static" => Cardinality(In("none")) + Cardinality(In("dead"))
                                <= MaxFaults - faults + Respawned
    BY <1>6, <2>1, <2>2, <2>3
  <2> QED BY <2>4, <2>5
<1>10. BoardInv'
  BY <1>1, <1>4, <1>8, <1>9, SpawnKeepsBoard DEF Reap
<1>11. at' \in {"watch count", "poll", "quit idle"} \/ (at' = "count" /\ Manager = "dynamic")
  <2>1. due \in BOOLEAN
    BY DEF MasterInv
  <2>2. at' \in {RoundStart, "quit idle"} \/ (at' = "count" /\ Manager = "dynamic")
    BY <2>1 DEF Reap
  <2> QED BY <2>2, RoundStarts
<1>12. /\ seen' \in 0 .. 2 * Cardinality(Slot) /\ watching' \in BOOLEAN
       /\ recent' \in BOOLEAN /\ due' \in BOOLEAN
       /\ rate' \in 1 .. Largest({1, pool'.max_spawn_rate})
  BY <1>1 DEF Reap, MasterInv
<1>13. MasterInv'
  BY <1>1, <1>11, <1>12, SameTypes DEF MasterInv
<1> QED BY <1>1, <1>10, <1>13

LEMMA TrimKeepsInv ==
    ASSUME PoolInv, Trim
    PROVE  PoolInv'
<1> USE DEF PoolInv
<1>1. pool' = pool /\ queue' = queue /\ pool \in Pools
  BY DEF Trim, BoardInv
<1>2. Victims \in SUBSET Children
  BY DEF Victims, Shown
<1>3. BoardInv'
  BY <1>1, <1>2, QuitKeepsBoard DEF Trim
<1>4. 0 \in 0 .. 2 * Cardinality(Slot)
  BY ShownAreSlots, TwoCounts
<1>5. rate' \in 1 .. Largest({1, pool'.max_spawn_rate})
  BY <1>1, PoolFacts DEF Trim
<1>6. MasterInv'
  BY <1>1, <1>4, <1>5, RoundStarts DEF Trim, MasterInv
<1> QED BY <1>1, <1>3, <1>6

LEMMA QuitIdleKeepsInv ==
    ASSUME PoolInv, QuitIdle
    PROVE  PoolInv'
<1> USE DEF PoolInv
<1>1. pool' = pool /\ queue' = queue /\ pool \in Pools
  BY DEF QuitIdle, BoardInv
<1>2. {s \in Shown("IDLE") : worker[s].age > pool.idle_timeout} \in SUBSET Children
  BY DEF Shown
<1>3. BoardInv'
  BY <1>1, <1>2, QuitKeepsBoard DEF QuitIdle
<1>4. MasterInv'
  BY <1>1, RoundStarts DEF QuitIdle, MasterInv
<1> QED BY <1>1, <1>3, <1>4

(* The number of workers started at once stays between 1 and
   pm.max_spawn_rate while it doubles. *)
LEMMA RateDoubles ==
    ASSUME NEW most \in Nat, most >= 1, NEW r \in 1 .. Largest({1, most})
    PROVE  Smallest({r * 2, most}) \in 1 .. Largest({1, most})
<1>1. Largest({1, most}) = most
  BY LargestOfTwo
<1>2. r \in Nat /\ r >= 1 /\ r * 2 \in Nat
  BY <1>1
<1>3. Smallest({r * 2, most}) = IF r * 2 <= most THEN r * 2 ELSE most
  BY <1>2, SmallestOfTwo
<1> QED BY <1>1, <1>2, <1>3

LEMMA GrowKeepsInv ==
    ASSUME PoolInv, Grow
    PROVE  PoolInv'
<1> USE DEF PoolInv
<1>1. pool' = pool /\ queue' = queue /\ pool \in Pools
  BY DEF Grow, BoardInv
<1>2. Manager = "dynamic"
  BY DEF Grow, MasterInv
<1>3. pool.max_spawn_rate \in Nat /\ pool.max_spawn_rate >= 1 /\ pool.min_spare \in Nat
  BY <1>1, <1>2, PoolFacts
<1>4. rate \in 1 .. Largest({1, pool.max_spawn_rate}) /\ rate \in Nat
  <2>1. rate \in 1 .. Largest({1, pool.max_spawn_rate})
    BY DEF MasterInv
  <2>2. Largest({1, pool.max_spawn_rate}) \in Nat
    BY <1>3, LargestOfTwo
  <2> QED BY <2>1, <2>2
<1>5. Wanted \in Nat
  <2>1. seen \in Int
    <3>1. seen \in 0 .. 2 * Cardinality(Slot)
      BY DEF MasterInv
    <3>2. Cardinality(Slot) \in Nat /\ 0 \in 0 .. Cardinality(Slot)
      BY ShownAreSlots
    <3> QED BY <3>1, <3>2, TwoCounts
  <2>2. Cardinality(Slot \ Children) \in Int
    BY SlotsFinite
  <2>3. MinSpare - seen \in Int /\ rate \in Int
    BY <1>3, <1>4, <2>1 DEF MinSpare
  <2> DEFINE k == Smallest({MinSpare - seen, rate, Cardinality(Slot \ Children)})
  <2>4. k \in {MinSpare - seen, rate, Cardinality(Slot \ Children)}
    BY <2>2, <2>3, SmallestOfThree
  <2>5. k \in Int
    BY <2>2, <2>3, <2>4
  <2>6. Wanted = Largest({1, k})
    BY DEF Wanted
  <2> HIDE DEF k
  <2>7. Wanted = IF 1 <= k THEN k ELSE 1
    BY <2>5, <2>6, LargestOfTwo
  <2> QED BY <2>5, <2>7
<1>6. ASSUME Children = Slot
      PROVE  BoardInv' /\ rate' = rate
  BY <1>1, <1>6, BoardUnchanged DEF Grow
<1>7. ASSUME Children # Slot
      PROVE  BoardInv' /\ rate' = Smallest({rate * 2, pool.max_spawn_rate})
  <2>1. Spawn(Wanted, worker) /\ rate' = Smallest({rate * 2, pool.max_spawn_rate})
    BY <1>7 DEF Grow
  <2>2. worker \in [Slot -> WorkerType]
        /\ \A s \in Slot : worker[s].at = "none" => worker[s] = Free
    BY DEF BoardInv
  <2>3. Manager # "static"
    BY <1>2
  <2> QED BY <1>1, <1>5, <2>1, <2>2, <2>3, SpawnKeepsBoard
<1>8. rate' \in 1 .. Largest({1, pool.max_spawn_rate})
  BY <1>3, <1>4, <1>6, <1>7, RateDoubles
<1>9. 0 \in 0 .. 2 * Cardinality(Slot)
  BY ShownAreSlots, TwoCounts
<1>10. MasterInv'
  BY <1>1, <1>8, <1>9, RoundStarts DEF Grow, MasterInv
<1> QED BY <1>1, <1>6, <1>7, <1>10

-----------------------------------------------------------------------------
(***************************************************************************)
(* The workers.                                                            *)
(***************************************************************************)
(* What a worker does next is a state of a worker that has not given its
   slot back: only reap does. *)
InUse(w) == w \in WorkerType /\ w.at # "none"

LEMMA NextStates ==
    ASSUME NEW w \in WorkerType
    PROVE  /\ InUse(AtTop(w))
           /\ w.at # "none" => InUse(Served(w))
<1>1. InUse(AtTop(w))
  BY DEF InUse, AtTop, WorkerType
<1>2. ASSUME w.at # "none" PROVE InUse([w EXCEPT !.at = "dead"])
  BY <1>2 DEF InUse, WorkerType
<1> QED BY <1>1, <1>2 DEF Served

LEMMA Counted ==
    ASSUME NEW m \in Nat, NEW k \in 0 .. m
    PROVE  Smallest({k + 1, m}) \in 0 .. m
BY SmallestOfTwo

(* A worker's step moves one worker of the board and nothing the master has. *)
LEMMA WorkerMoves ==
    ASSUME PoolInv, NEW s \in Slot, WorkerNext(s)
    PROVE  /\ worker[s].at # "none"
           /\ \E new \in WorkerType : new.at # "none" /\ Put(s, new)
           /\ queue' \in 0 .. Backlog
<1> DEFINE w == worker[s]
<1>1. w \in WorkerType /\ queue \in 0 .. Backlog /\ Backlog \in Nat /\ pool \in Pools
  BY BoundAssumption DEF PoolInv, BoardInv
<1>2. [w EXCEPT !.told = FALSE, !.quit = TRUE] \in WorkerType
      /\ [w EXCEPT !.told = FALSE, !.quit = TRUE].at = w.at
  BY <1>1 DEF WorkerType
<1>3. /\ InUse([w EXCEPT !.at = "accept", !.calm = FALSE])
      /\ InUse([w EXCEPT !.at = "reading", !.board = "READING"])
      /\ InUse([w EXCEPT !.at = "finishing", !.board = "FINISHING"])
      /\ InUse([w EXCEPT !.at = "waiting", !.board = "READING"])
  BY <1>1 DEF InUse, WorkerType
<1>4. InUse([w EXCEPT !.at = "running", !.board = "RUNNING",
                      !.served = Smallest({@ + 1, pool.max_requests})])
  <2>1. pool.max_requests \in Nat /\ w.served \in 0 .. pool.max_requests
    BY <1>1, PoolFacts DEF WorkerType
  <2>2. Smallest({w.served + 1, pool.max_requests}) \in 0 .. pool.max_requests
    BY <2>1, Counted
  <2> QED BY <1>1, <2>2 DEF InUse, WorkerType
<1>5. InUse(AtTop(w)) /\ InUse(AtTop([w EXCEPT !.told = FALSE, !.quit = TRUE]))
  BY <1>1, <1>2, NextStates
<1>6. w.at # "none" => InUse(Served(w))
        /\ InUse(Served([w EXCEPT !.told = FALSE, !.quit = TRUE]))
        /\ InUse([w EXCEPT !.told = FALSE, !.quit = TRUE])
  BY <1>1, <1>2, NextStates DEF InUse
<1>7. ASSUME NEW new, InUse(new), Put(s, new)
      PROVE  \E x \in WorkerType : x.at # "none" /\ Put(s, x)
  BY <1>7 DEF InUse
<1>8. w.at # "none"
  BY DEF WorkerNext, Start, ObeyIdle, Wake, Accept, AcceptNothing, Interrupted, Closed,
         Request, ObeyRunning, Finish, Respond, In
<1>9. queue' \in 0 .. Backlog
  <2>1. CASE Accept(s)
    BY <1>1, <2>1 DEF Accept
  <2>2. CASE ~Accept(s)
    BY <1>1, <2>2 DEF WorkerNext, Start, ObeyIdle, Wake, AcceptNothing, Interrupted,
                      Closed, Request, ObeyRunning, Finish, Respond
  <2> QED BY <2>1, <2>2
<1>10. CASE Start(s) \/ AcceptNothing(s) \/ ObeyIdle(s)
  BY <1>5, <1>7, <1>8, <1>9, <1>10 DEF Start, AcceptNothing, ObeyIdle
<1>11. CASE Wake(s) \/ Accept(s) \/ Finish(s)
  BY <1>3, <1>7, <1>8, <1>9, <1>11 DEF Wake, Accept, Finish
<1>12. CASE Interrupted(s) \/ Closed(s) \/ ObeyRunning(s)
  BY <1>6, <1>7, <1>8, <1>9, <1>12 DEF Interrupted, Closed, ObeyRunning
<1>13. CASE Request(s)
  BY <1>4, <1>7, <1>8, <1>9, <1>13 DEF Request
<1>14. CASE Respond(s)
  BY <1>3, <1>6, <1>7, <1>8, <1>9, <1>14 DEF Respond
<1> QED BY <1>10, <1>11, <1>12, <1>13, <1>14 DEF WorkerNext

(* What the master alone knows is kept by every step but its own and the
   clock's. *)
LEMMA MasterUnchanged ==
    ASSUME MasterInv, UNCHANGED <<master, pool>>
    PROVE  MasterInv'
BY SameTypes DEF MasterInv, master

LEMMA WorkerKeepsInv ==
    ASSUME PoolInv, NEW s \in Slot, WorkerNext(s)
    PROVE  PoolInv'
<1>1. worker[s].at # "none" /\ queue' \in 0 .. Backlog
  BY WorkerMoves
<1>2. PICK new \in WorkerType : new.at # "none" /\ Put(s, new)
  BY WorkerMoves
<1>3. BoardInv'
  BY <1>1, <1>2, PutKeepsBoard DEF PoolInv
<1>4. MasterInv'
  BY <1>2, MasterUnchanged DEF Put, PoolInv
<1> QED BY <1>1, <1>3, <1>4 DEF PoolInv

LEMMA CrashKeepsInv ==
    ASSUME PoolInv, NEW s \in Slot, Crash(s)
    PROVE  PoolInv'
<1>1. /\ worker' = [worker EXCEPT ![s].at = "dead"] /\ faults > 0 /\ faults' = faults - 1
      /\ worker[s].at # "none"
      /\ order' = order /\ queue' = queue /\ UNCHANGED <<master, pool>>
  BY DEF Crash, Alive, Children, In
<1>2. worker \in [Slot -> WorkerType] /\ faults \in 0 .. MaxFaults /\ MaxFaults \in Nat
  BY BoundAssumption DEF PoolInv, BoardInv
<1>3. [worker[s] EXCEPT !.at = "dead"] \in WorkerType
      /\ [worker[s] EXCEPT !.at = "dead"].at = "dead"
  BY <1>2 DEF WorkerType
<1>4. worker' \in [Slot -> WorkerType]
      /\ \A t \in Slot : worker'[t] =
           IF t = s THEN [worker[s] EXCEPT !.at = "dead"] ELSE worker[t]
  BY <1>1, <1>2, <1>3
<1>5. /\ \A t \in Slot : worker[t].at = "none" => worker'[t] = worker[t]
      /\ \A t \in Slot : worker[t].at # "none" => worker'[t].at # "none"
  BY <1>1, <1>3, <1>4
<1>6. faults' \in 0 .. faults
  BY <1>1, <1>2
<1>7. BoardInv'
  BY <1>1, <1>4, <1>5, <1>6, KeepsBoard DEF PoolInv
<1>8. MasterInv'
  BY <1>1, MasterUnchanged DEF PoolInv
<1> QED BY <1>1, <1>7, <1>8 DEF PoolInv

-----------------------------------------------------------------------------
(***************************************************************************)
(* Clients and time.                                                       *)
(***************************************************************************)
LEMMA ConnectKeepsInv ==
    ASSUME PoolInv, Connect \/ RecentOver
    PROVE  PoolInv'
<1>1. UNCHANGED <<worker, order, faults, pool>>
  BY DEF Connect, RecentOver
<1>2. BoardInv'
  BY <1>1, BoardUnchanged DEF PoolInv
<1>3. CASE Connect
  <2>1. queue' \in 0 .. Backlog
    BY <1>3, BoundAssumption DEF Connect, PoolInv
  <2>2. MasterInv'
    BY <1>3, MasterUnchanged DEF Connect, PoolInv
  <2> QED BY <1>2, <2>1, <2>2 DEF PoolInv
<1>4. CASE RecentOver
  <2>1. MasterInv' /\ queue' = queue
    BY <1>4, SameTypes DEF RecentOver, MasterInv, PoolInv
  <2> QED BY <1>2, <2>1 DEF PoolInv
<1> QED BY <1>3, <1>4

LEMMA SecondKeepsInv ==
    ASSUME PoolInv, Second
    PROVE  PoolInv'
<1>1. /\ due' = TRUE
      /\ worker' = [s \in Slot |-> IF s \notin Children THEN worker[s]
            ELSE [worker[s] EXCEPT !.age = Smallest({@ + 1, Oldest}),
                                   !.calm = worker[s].at = "poll"]]
      /\ UNCHANGED <<order, queue, at, seen, watching, recent, rate, faults, pool>>
  BY DEF Second
<1>2. worker \in [Slot -> WorkerType] /\ pool \in Pools /\ faults \in 0 .. MaxFaults
  BY DEF PoolInv, BoardInv
<1>3. Oldest \in Nat
  BY <1>2, PoolFacts
<1>4. ASSUME NEW s \in Children
      PROVE  /\ worker'[s] \in WorkerType
             /\ worker'[s].at = worker[s].at
  <2>1. worker'[s] = [worker[s] EXCEPT !.age = Smallest({worker[s].age + 1, Oldest}),
                                       !.calm = worker[s].at = "poll"]
    BY <1>1 DEF Children
  <2>2. worker[s] \in WorkerType
    BY <1>2 DEF Children
  <2>3. Smallest({worker[s].age + 1, Oldest}) \in 0 .. Oldest
    <3>1. worker[s].age \in 0 .. Oldest
      BY <2>2 DEF WorkerType
    <3> QED BY <1>3, <3>1, Counted
  <2>4. (worker[s].at = "poll") \in BOOLEAN
    OBVIOUS
  <2> QED BY <2>1, <2>2, <2>3, <2>4 DEF WorkerType
<1>5. \A s \in Slot : worker[s].at = "none" => worker'[s] = worker[s]
  BY <1>1 DEF Children, In
<1>6. \A s \in Slot : worker[s].at # "none" => s \in Children
  BY DEF Children, In
<1>7. worker' \in [Slot -> WorkerType]
  <2>1. \A s \in Slot : worker'[s] \in WorkerType
    BY <1>2, <1>4, <1>5, <1>6
  <2> QED BY <1>1, <2>1
<1>8. \A s \in Slot : worker[s].at # "none" => worker'[s].at # "none"
  BY <1>4, <1>6
<1>9. faults' \in 0 .. faults
  <2>1. faults' = faults
    BY <1>1
  <2> QED BY <1>2, <2>1
<1>10. BoardInv'
  BY <1>1, <1>5, <1>7, <1>8, <1>9, KeepsBoard DEF PoolInv
<1>11. MasterInv'
  BY <1>1, SameTypes DEF MasterInv, PoolInv
<1> QED BY <1>1, <1>10, <1>11 DEF PoolInv

-----------------------------------------------------------------------------
LEMMA NextPoolInv == PoolInv /\ [Next]_vars => PoolInv'
<1> SUFFICES ASSUME PoolInv, [Next]_vars
             PROVE  PoolInv'
  OBVIOUS
<1>1. CASE WatchCount \/ Watch \/ Count \/ CountStarting \/ Keep
  BY <1>1, CountsKeepInv
<1>2. CASE Poll \/ Reap \/ Trim \/ Grow \/ QuitIdle
  BY <1>2, PollKeepsInv, ReapKeepsInv, TrimKeepsInv, GrowKeepsInv, QuitIdleKeepsInv
<1>3. CASE \E s \in Slot : WorkerNext(s) \/ Crash(s)
  BY <1>3, WorkerKeepsInv, CrashKeepsInv
<1>4. CASE Connect \/ RecentOver \/ Second
  BY <1>4, ConnectKeepsInv, SecondKeepsInv
<1>5. CASE UNCHANGED vars
  <2>1. UNCHANGED <<worker, order, faults, pool, master, queue>>
    BY <1>5 DEF vars
  <2> QED BY <2>1, BoardUnchanged, MasterUnchanged DEF PoolInv
<1> QED BY <1>1, <1>2, <1>3, <1>4, <1>5 DEF Next, MasterNext

(* The invariant is one of the specification, whatever the pool. *)
THEOREM PoolInvariant == Spec => []PoolInv
  BY InitPoolInv, NextPoolInv, PTL DEF Spec

(* EVERY VARIABLE HAS ITS TYPE, and the order of the slots by idle_since has
   each slot in use once and no other, through every spawn, crash and reap
   (Board::alloc and Board::free, scoreboard.rs:147). *)
THEOREM TypeCorrect == Spec => []TypeOK
  BY PoolInvariant, InvTypes, PTL

(* A STATIC POOL IS KEPT: it lacks at most as many workers as forks failed and
   workers crashed, whatever is read, signalled or reaped between two rounds
   (Master::reap restarts what it reaped, master.rs:904). *)
THEOREM StaticPoolKept == Spec => []StaticKeepsItsWorkers
<1>1. PoolInv => StaticKeepsItsWorkers
  BY DEF PoolInv, BoardInv
<1> QED BY <1>1, PoolInvariant, PTL
=============================================================================
