-------------------------- MODULE TestRunnerProofs --------------------------
(***************************************************************************)
(* Theorems about run() and the watchdog, for any number of threads,       *)
(* process IDs and messages the socket holds: they never signal a group    *)
(* that is not the one they mean, and a run leaves no process behind.      *)
(* Then theorems about the runner as a whole: it is a scheduler and a set  *)
(* of runs, each of which keeps what was proved of it alone, and the two   *)
(* together keep the processes of conflicting tests apart.                 *)
(***************************************************************************)
EXTENDS TestRunner, TestScheduleProofs

Message == Pid \cup {-p : p \in Pid}

(* The thread w has started its test and has not reaped it. *)
Active(w) == at[w] \in {"tell", "wait", "kill", "join", "untell", "reap"}

(* A number belongs to one run at a time, and to that one until it is reaped;
   from the killing of the group on, the group stays dead. *)
Owned ==
    /\ \A w \in Thread : Active(w) => leader[pid[w]] # "none"
    /\ \A v, w \in Thread : Active(v) /\ Active(w) /\ pid[v] = pid[w] => v = w
    /\ \A w \in Thread : at[w] \in {"join", "untell", "reap"} =>
         leader[pid[w]] = "zombie" /\ pid[w] \notin member

(* Every process is the business of some run. *)
Kept ==
    alive => \A p \in Pid : p \in member \/ leader[p] # "none" =>
        \E w \in Thread : Active(w) /\ pid[w] = p

(* The watchdog is told of a group while its run is between the two
   messages. *)
Sent ==
    alive => \A p \in Watched :
        \E w \in Thread :
            at[w] \in {"wait", "kill", "join", "untell"} /\ pid[w] = p

(* The threads are gone with the runner. *)
Gone == ~alive => \A w \in Thread : at[w] = "idle"

(* Nobody reads for a watchdog that is no more. *)
Over == dog = "over" => groups = {} /\ wire = <<>>

ProcInv == ProcTypeOK /\ Owned /\ Kept /\ Sent /\ Gone /\ Over

-----------------------------------------------------------------------------
(* A number is not the end of another. *)
LEMMA Signs == \A p, q \in Pid : p # -q /\ noPid # p /\ (-p = -q => p = q)
  BY PidAssumption DEF noPid

(* The message of an end names its group. *)
LEMMA Negation ==
    ASSUME NEW m \in Message, NEW p \in Pid
    PROVE  m \in Int /\ (-m = p => m = -p)
<1>1. p \in Nat /\ p # 0
  BY PidAssumption
<1>2. CASE m \in Pid
  <2>1. m \in Nat /\ m # 0
    BY <1>2, PidAssumption
  <2> QED BY <2>1, <1>1
<1>3. CASE m \in {-q : q \in Pid}
  <2>1. PICK q \in Pid : m = -q
    BY <1>3
  <2>2. q \in Nat
    BY PidAssumption
  <2> QED BY <2>1, <2>2, <1>1
<1> QED BY <1>2, <1>3 DEF Message

(* A start adds its own group, at most. *)
LEMMA WatchedStart ==
    ASSUME NEW gs, NEW ms \in Seq(Message), NEW q \in Pid
    PROVE  WatchedBy(gs, Append(ms, q)) \subseteq WatchedBy(gs, ms) \cup {q}
<1> SUFFICES ASSUME NEW p \in WatchedBy(gs, Append(ms, q)), p # q
             PROVE  p \in WatchedBy(gs, ms)
  OBVIOUS
<1> DEFINE as == Append(ms, q)
<1>1. /\ Len(as) = Len(ms) + 1 /\ Len(ms) \in Nat
      /\ \A i \in 1 .. Len(ms) : as[i] = ms[i]
      /\ as[Len(ms) + 1] = q
  BY DEF Message
<1>2. CASE p \in gs /\ \A i \in 1 .. Len(as) : as[i] # -p
  BY <1>1, <1>2 DEF WatchedBy
<1>3. CASE \E i \in 1 .. Len(as) : as[i] = p /\ \A k \in i + 1 .. Len(as) : as[k] # -p
  <2>1. PICK i \in 1 .. Len(as) : as[i] = p /\ \A k \in i + 1 .. Len(as) : as[k] # -p
    BY <1>3
  <2>2. i \in 1 .. Len(ms) /\ ms[i] = p
    BY <1>1, <2>1
  <2>3. \A k \in i + 1 .. Len(ms) : ms[k] # -p
    BY <1>1, <2>1, <2>2
  <2> QED BY <2>2, <2>3 DEF WatchedBy
<1> QED BY <1>2, <1>3 DEF WatchedBy

(* An end takes its group away. *)
LEMMA WatchedEnd ==
    ASSUME NEW gs, NEW ms \in Seq(Message), NEW q \in Pid
    PROVE  WatchedBy(gs, Append(ms, -q)) \subseteq WatchedBy(gs, ms) \ {q}
<1> SUFFICES ASSUME NEW p \in WatchedBy(gs, Append(ms, -q))
             PROVE  p \in WatchedBy(gs, ms) /\ p # q
  OBVIOUS
<1> DEFINE as == Append(ms, -q)
<1>1. /\ Len(as) = Len(ms) + 1 /\ Len(ms) \in Nat
      /\ \A i \in 1 .. Len(ms) : as[i] = ms[i]
      /\ as[Len(ms) + 1] = -q
  BY DEF Message
<1>2. CASE p \in gs /\ \A i \in 1 .. Len(as) : as[i] # -p
  BY <1>1, <1>2 DEF WatchedBy
<1>3. CASE \E i \in 1 .. Len(as) : as[i] = p /\ \A k \in i + 1 .. Len(as) : as[k] # -p
  <2>1. PICK i \in 1 .. Len(as) : as[i] = p /\ \A k \in i + 1 .. Len(as) : as[k] # -p
    BY <1>3
  <2>2. i \in 1 .. Len(ms) /\ ms[i] = p
    BY <1>1, <2>1, Signs DEF WatchedBy
  <2>3. \A k \in i + 1 .. Len(ms) : ms[k] # -p
    BY <1>1, <2>1, <2>2
  <2>4. p # q
    BY <1>1, <2>1, <2>2
  <2> QED BY <2>2, <2>3, <2>4 DEF WatchedBy
<1> QED BY <1>2, <1>3 DEF WatchedBy

(* Reading a message makes nothing new. *)
LEMMA WatchedRead ==
    ASSUME NEW gs, NEW ms \in Seq(Message), ms # <<>>
    PROVE  WatchedBy(Told(gs, Head(ms)), Tail(ms)) \subseteq WatchedBy(gs, ms)
<1> SUFFICES ASSUME NEW p \in WatchedBy(Told(gs, Head(ms)), Tail(ms))
             PROVE  p \in WatchedBy(gs, ms)
  OBVIOUS
<1> DEFINE ts == Tail(ms)
           m == Head(ms)
<1>1. /\ Len(ms) \in Nat /\ Len(ms) >= 1 /\ Len(ts) = Len(ms) - 1
      /\ ms[1] = m /\ m \in Message
      /\ \A i \in 1 .. Len(ts) : ts[i] = ms[i + 1]
  OBVIOUS
<1>p. p \in Pid /\ p \in Nat /\ p # 0
  BY PidAssumption DEF WatchedBy
<1>2. CASE p \in Told(gs, m) /\ \A i \in 1 .. Len(ts) : ts[i] # -p
  <2>1. \A k \in 2 .. Len(ms) : ms[k] # -p
    <3> SUFFICES ASSUME NEW k \in 2 .. Len(ms) PROVE ms[k] # -p
      OBVIOUS
    <3>1. k - 1 \in 1 .. Len(ts) /\ ts[k - 1] = ms[(k - 1) + 1]
      BY <1>1
    <3>2. (k - 1) + 1 = k
      OBVIOUS
    <3> QED BY <3>1, <3>2, <1>2
  <2>2. CASE p \in gs /\ m # -p
    BY <2>1, <2>2, <1>1, <1>p DEF WatchedBy
  <2>3. CASE p = m
    BY <2>1, <2>3, <1>1, <1>p DEF WatchedBy
  <2>4. (p \in gs /\ m # -p) \/ p = m
    <3>1. m \in Int /\ (-m = p => m = -p)
      BY <1>1, <1>p, Negation
    <3>2. p \in gs \/ p = m
      BY <1>2 DEF Told
    <3>3. m = -p => p \notin Told(gs, m)
      BY <3>1, <1>p DEF Told
    <3> QED BY <3>2, <3>3, <1>2
  <2> QED BY <2>2, <2>3, <2>4
<1>3. CASE \E i \in 1 .. Len(ts) : ts[i] = p /\ \A k \in i + 1 .. Len(ts) : ts[k] # -p
  <2>1. PICK i \in 1 .. Len(ts) : ts[i] = p /\ \A k \in i + 1 .. Len(ts) : ts[k] # -p
    BY <1>3
  <2>2. i + 1 \in 1 .. Len(ms) /\ ms[i + 1] = p
    BY <2>1, <1>1
  <2>3. \A k \in i + 2 .. Len(ms) : ms[k] # -p
    <3> SUFFICES ASSUME NEW k \in i + 2 .. Len(ms) PROVE ms[k] # -p
      OBVIOUS
    <3>1. k - 1 \in i + 1 .. Len(ts) /\ ts[k - 1] = ms[(k - 1) + 1]
      BY <1>1, <2>1
    <3> QED BY <3>1, <2>1, <1>1
  <2> QED BY <2>2, <2>3, <1>1, <1>p, <2>1 DEF WatchedBy
<1> QED BY <1>2, <1>3 DEF WatchedBy

-----------------------------------------------------------------------------
(* A watchdog that is over would kill nobody. *)
LEMMA OverWatchesNobody == WatchedBy({}, <<>>) = {}
  BY DEF WatchedBy

LEMMA InitInv == ProcInit => ProcInv
<1> SUFFICES ASSUME ProcInit PROVE ProcInv
  OBVIOUS
<1>1. ProcTypeOK
  BY DEF ProcInit, ProcTypeOK, At
<1>2. Watched = {}
  BY OverWatchesNobody DEF ProcInit, Watched
<1>3. Owned /\ Kept /\ Gone /\ Over
  BY DEF ProcInit, Owned, Kept, Gone, Over, Active
<1> QED BY <1>1, <1>2, <1>3 DEF ProcInv, Sent

(* What the processes of the tests do. *)
LEMMA ChildrenKeepInv ==
    ASSUME ProcInv, NEW p \in Pid, LeaderExits(p) \/ StartsMember(p) \/ MemberExits(p)
    PROVE  ProcInv'
<1> USE DEF ProcInv
<1>1. Watched' = Watched /\ alive' = alive /\ at' = at /\ pid' = pid
  BY DEF LeaderExits, StartsMember, MemberExits, watch, Watched
<1>2. ProcTypeOK'
  BY DEF LeaderExits, StartsMember, MemberExits, watch, ProcTypeOK
<1>3. Owned'
  BY <1>1 DEF LeaderExits, StartsMember, MemberExits, Owned, Active, ProcTypeOK
<1>4. Kept'
  BY <1>1 DEF LeaderExits, StartsMember, MemberExits, Kept, Active, ProcTypeOK
<1>5. Sent' /\ Gone' /\ Over'
  BY <1>1 DEF LeaderExits, StartsMember, MemberExits, watch, Sent, Gone, Over
<1> QED BY <1>2, <1>3, <1>4, <1>5

(* A run begins with a number nobody has. *)
LEMMA SpawnKeepsInv ==
    ASSUME ProcInv, alive, NEW w \in Thread, Spawn(w)
    PROVE  ProcInv'
<1> USE DEF ProcInv
<1>1. PICK p \in FreePids : /\ pid' = [pid EXCEPT ![w] = p]
                            /\ leader' = [leader EXCEPT ![p] = "running"]
                            /\ reading' = reading \cup {p}
  BY DEF Spawn
<1>2. /\ at[w] = "idle" /\ at' = [at EXCEPT ![w] = "tell"]
      /\ alive' = alive /\ late' = late /\ member' = member
      /\ dog' = dog /\ wire' = wire /\ groups' = groups
  BY DEF Spawn, Go, watch
<1>3. p \in Pid /\ leader[p] = "none" /\ p \notin member /\ p # noPid
  BY Signs DEF FreePids
<1>4. ProcTypeOK'
  BY <1>1, <1>2, <1>3 DEF ProcTypeOK, At
<1>5. \A v \in Thread : Active(v) => pid[v] # p
  BY <1>3 DEF Owned
<1>6. \A v \in Thread : Active(v)' <=> Active(v) \/ v = w
  BY <1>2 DEF Active, ProcTypeOK
<1>7. \A v \in Thread : Active(v) => v # w /\ pid'[v] = pid[v] /\ pid'[v] # p
  BY <1>1, <1>2, <1>5 DEF Active, ProcTypeOK
<1>8. Owned'
  <2>1. \A v \in Thread : Active(v)' => leader'[pid'[v]] # "none"
    BY <1>1, <1>3, <1>6, <1>7 DEF Owned, ProcTypeOK
  <2>2. \A u, v \in Thread : Active(u)' /\ Active(v)' /\ pid'[u] = pid'[v] => u = v
    BY <1>1, <1>3, <1>6, <1>7 DEF Owned, ProcTypeOK
  <2>3. \A v \in Thread : at'[v] \in {"join", "untell", "reap"} =>
          leader'[pid'[v]] = "zombie" /\ pid'[v] \notin member'
    BY <1>1, <1>2, <1>3, <1>7 DEF Owned, ProcTypeOK, Active
  <2> QED BY <2>1, <2>2, <2>3 DEF Owned
<1>9. Kept'
  BY <1>1, <1>2, <1>3, <1>6, <1>7 DEF Kept, ProcTypeOK
<1>10. Watched' = Watched
  BY <1>2 DEF Watched
<1>11. Sent' /\ Gone' /\ Over'
  BY <1>1, <1>2, <1>7, <1>10 DEF Sent, Gone, Over, ProcTypeOK, Active
<1> QED BY <1>4, <1>8, <1>9, <1>11

(* What a step of run() sends, the watchdog knows; nothing else changes. *)
LEMMA TellKeepsInv ==
    ASSUME ProcInv, alive, NEW w \in Thread, Tell(w)
    PROVE  ProcInv'
<1> USE DEF ProcInv
<1>1. /\ at[w] = "tell" /\ at' = [at EXCEPT ![w] = "wait"] /\ pid' = pid
      /\ alive' = alive /\ late' = late /\ member' = member /\ leader' = leader
      /\ reading' = reading /\ dog' = dog /\ groups' = groups
  BY DEF Tell, Go, proc
<1>2. pid[w] \in Pid /\ pid[w] \in Message
  BY <1>1 DEF ProcTypeOK, Message, At
<1>3. wire' \in Seq(Message) /\ Watched' \subseteq Watched \cup {pid[w]}
      /\ (dog = "over" => wire' = wire)
  <2>1. CASE dog = "up"
    <3>1. wire' = Append(wire, pid[w]) /\ wire \in Seq(Message)
      BY <2>1 DEF Tell, Send, ProcTypeOK, Message
    <3>2. WatchedBy(groups, wire') \subseteq Watched \cup {pid[w]}
      BY <3>1, <1>2, WatchedStart DEF Watched
    <3> QED BY <2>1, <3>1, <3>2, <1>1, <1>2 DEF Watched
  <2>2. CASE dog # "up"
    BY <2>2, <1>1 DEF Tell, Send, Watched, ProcTypeOK, Message
  <2> QED BY <2>1, <2>2
<1>4. ProcTypeOK'
  BY <1>1, <1>3 DEF ProcTypeOK, At, Message
<1>5. Owned' /\ Kept'
  BY <1>1 DEF Owned, Kept, Active, ProcTypeOK
<1>6. Sent'
  BY <1>1, <1>2, <1>3 DEF Sent, ProcTypeOK
<1>7. Gone' /\ Over'
  BY <1>1, <1>3 DEF Gone, Over
<1> QED BY <1>4, <1>5, <1>6, <1>7

LEMMA UntellKeepsInv ==
    ASSUME ProcInv, alive, NEW w \in Thread, Untell(w)
    PROVE  ProcInv'
<1> USE DEF ProcInv
<1>1. /\ at[w] = "untell" /\ at' = [at EXCEPT ![w] = "reap"] /\ pid' = pid
      /\ alive' = alive /\ late' = late /\ member' = member /\ leader' = leader
      /\ reading' = reading /\ dog' = dog /\ groups' = groups
  BY DEF Untell, Go, proc
<1>2. pid[w] \in Pid /\ -pid[w] \in Message
  BY <1>1 DEF ProcTypeOK, Message, At
<1>3. wire' \in Seq(Message) /\ Watched' \subseteq Watched \ {pid[w]}
      /\ (dog = "over" => wire' = wire)
  <2>1. CASE dog = "up"
    <3>1. wire' = Append(wire, -pid[w]) /\ wire \in Seq(Message)
      BY <2>1 DEF Untell, Send, ProcTypeOK, Message
    <3>2. WatchedBy(groups, wire') \subseteq Watched \ {pid[w]}
      BY <3>1, <1>2, WatchedEnd DEF Watched
    <3> QED BY <2>1, <3>1, <3>2, <1>1, <1>2 DEF Watched
  <2>2. CASE dog # "up"
    BY <2>2, <1>1, OverWatchesNobody DEF Untell, Send, Watched, ProcTypeOK, Message, Over
  <2> QED BY <2>1, <2>2
<1>4. ProcTypeOK'
  BY <1>1, <1>3 DEF ProcTypeOK, At, Message
<1>5. Owned' /\ Kept'
  BY <1>1 DEF Owned, Kept, Active, ProcTypeOK
<1>6. Sent'
  BY <1>1, <1>2, <1>3 DEF Sent, ProcTypeOK
<1>7. Gone' /\ Over'
  BY <1>1, <1>3 DEF Gone, Over
<1> QED BY <1>4, <1>5, <1>6, <1>7

(* A wait that is over. *)
LEMMA WaitKeepsInv ==
    ASSUME ProcInv, alive, NEW w \in Thread, ExitSeen(w) \/ TimesOut(w) \/ Killed(w)
    PROVE  ProcInv'
<1> USE DEF ProcInv
<1>1. /\ \/ at[w] = "wait" /\ at' = [at EXCEPT ![w] = "kill"]
         \/ at[w] = "join" /\ at' = [at EXCEPT ![w] = "untell"]
      /\ late' = late \/ late' = [late EXCEPT ![w] = TRUE]
      /\ pid' = pid /\ alive' = alive /\ member' = member /\ leader' = leader
      /\ reading' = reading /\ dog' = dog /\ wire' = wire /\ groups' = groups
  BY DEF ExitSeen, TimesOut, Killed, Go, proc, watch
<1>2. ProcTypeOK'
  BY <1>1 DEF ProcTypeOK, At
<1>3. Owned' /\ Kept'
  BY <1>1 DEF Owned, Kept, Active, ProcTypeOK
<1>4. Watched' = Watched
  BY <1>1 DEF Watched
<1>5. Sent' /\ Gone' /\ Over'
  BY <1>1, <1>4 DEF Sent, Gone, Over, ProcTypeOK
<1> QED BY <1>2, <1>3, <1>5

(* A killed group is dead, and the others are as they were. *)
LEMMA KillGroupKeepsInv ==
    ASSUME ProcInv, alive, NEW w \in Thread, KillGroup(w)
    PROVE  ProcInv'
<1> USE DEF ProcInv
<1>1. /\ at[w] = "kill"
      /\ at' = [at EXCEPT ![w] = IF late[w] THEN "join" ELSE "untell"]
      /\ leader' = [p \in Pid |-> IF p \in {pid[w]} /\ leader[p] = "running"
                                    THEN "zombie" ELSE leader[p]]
      /\ member' = member \ {pid[w]}
      /\ alive' = alive /\ pid' = pid /\ late' = late /\ reading' = reading
      /\ dog' = dog /\ wire' = wire /\ groups' = groups
  BY DEF KillGroup, Go, Doomed, KillGroups, watch
<1>2. pid[w] \in Pid
  BY <1>1 DEF ProcTypeOK
<1>3. ProcTypeOK'
  BY <1>1 DEF ProcTypeOK, At
<1>4. /\ \A p \in Pid : leader'[p] # "none" <=> leader[p] # "none"
      /\ \A p \in Pid : leader[p] = "zombie" => leader'[p] = "zombie"
  BY <1>1
<1>5. leader'[pid[w]] = "zombie" /\ pid[w] \notin member'
  BY <1>1, <1>2 DEF Owned, Active, ProcTypeOK
<1>6. \A v \in Thread : /\ Active(v)' <=> Active(v)
                        /\ Active(v) => pid[v] \in Pid
  BY <1>1 DEF Active, ProcTypeOK
<1>7. Owned'
  <2>1. /\ \A v \in Thread : Active(v)' => leader'[pid'[v]] # "none"
        /\ \A u, v \in Thread : Active(u)' /\ Active(v)' /\ pid'[u] = pid'[v] => u = v
    BY <1>1, <1>4, <1>6 DEF Owned
  <2>2. \A v \in Thread : at'[v] \in {"join", "untell", "reap"} =>
          leader'[pid'[v]] = "zombie" /\ pid'[v] \notin member'
    <3> SUFFICES ASSUME NEW v \in Thread, at'[v] \in {"join", "untell", "reap"}
                 PROVE  leader'[pid'[v]] = "zombie" /\ pid'[v] \notin member'
      OBVIOUS
    <3>1. CASE v = w
      BY <3>1, <1>1, <1>5
    <3>2. CASE v # w
      <4>1. at[v] \in {"join", "untell", "reap"}
        BY <3>2, <1>1 DEF ProcTypeOK
      <4>2. leader[pid[v]] = "zombie" /\ pid[v] \notin member /\ pid[v] \in Pid
        BY <4>1, <1>6 DEF Owned, Active
      <4> QED BY <4>2, <1>1, <1>4
    <3> QED BY <3>1, <3>2
  <2> QED BY <2>1, <2>2 DEF Owned
<1>8. Kept'
  BY <1>1, <1>4, <1>6 DEF Kept
<1>9. Watched' = Watched
  BY <1>1 DEF Watched
<1>10. Sent' /\ Gone' /\ Over'
  BY <1>1, <1>9 DEF Sent, Gone, Over, ProcTypeOK
<1> QED BY <1>3, <1>7, <1>8, <1>10

(* A number is free again when nobody would signal it. *)
LEMMA ReapKeepsInv ==
    ASSUME ProcInv, alive, NEW w \in Thread, Reap(w)
    PROVE  ProcInv'
<1> USE DEF ProcInv
<1>1. /\ at[w] = "reap" /\ at' = [at EXCEPT ![w] = "collect"]
      /\ leader' = [leader EXCEPT ![pid[w]] = "none"]
      /\ alive' = alive /\ pid' = pid /\ late' = late /\ reading' = reading
      /\ member' = member /\ dog' = dog /\ wire' = wire /\ groups' = groups
  BY DEF Reap, Go, watch
<1>2. pid[w] \in Pid /\ Active(w) /\ pid[w] \notin member
  BY <1>1 DEF ProcTypeOK, Active, Owned
<1>3. ProcTypeOK'
  BY <1>1 DEF ProcTypeOK, At
<1>4. \A v \in Thread : Active(v)' => Active(v) /\ v # w
  BY <1>1 DEF Active, ProcTypeOK
<1>5. \A v \in Thread : Active(v) /\ v # w => Active(v)' /\ pid[v] # pid[w]
  BY <1>1, <1>2 DEF Active, ProcTypeOK, Owned
<1>6. Owned'
  BY <1>1, <1>2, <1>4, <1>5 DEF Owned, ProcTypeOK, Active
<1>7. Kept'
  BY <1>1, <1>2, <1>5 DEF Kept, ProcTypeOK
<1>8. Watched' = Watched
  BY <1>1 DEF Watched
<1>9. Sent' /\ Gone' /\ Over'
  BY <1>1, <1>8 DEF Sent, Gone, Over, ProcTypeOK
<1> QED BY <1>3, <1>6, <1>7, <1>9

LEMMA CollectKeepsInv ==
    ASSUME ProcInv, alive, NEW w \in Thread, Collect(w)
    PROVE  ProcInv'
<1> USE DEF ProcInv
<1>1. /\ at[w] = "collect" /\ at' = [at EXCEPT ![w] = "idle"]
      /\ pid' = [pid EXCEPT ![w] = noPid] /\ late' = [late EXCEPT ![w] = FALSE]
      /\ alive' = alive /\ reading' = reading /\ leader' = leader
      /\ member' = member /\ dog' = dog /\ wire' = wire /\ groups' = groups
  BY DEF Collect, Go, proc, watch
<1>2. ProcTypeOK'
  BY <1>1 DEF ProcTypeOK, At
<1>3. \A v \in Thread : /\ Active(v)' <=> Active(v)
                        /\ Active(v) => pid'[v] = pid[v]
  BY <1>1 DEF Active, ProcTypeOK
<1>4. Owned'
  BY <1>1, <1>3 DEF Owned, ProcTypeOK, Active
<1>5. Kept'
  BY <1>1, <1>3 DEF Kept
<1>6. Watched' = Watched
  BY <1>1 DEF Watched
<1>7. Sent' /\ Gone' /\ Over'
  BY <1>1, <1>6 DEF Sent, Gone, Over, ProcTypeOK
<1> QED BY <1>2, <1>4, <1>5, <1>7

(* A reader's late signal finds a group that is being run, or nobody. *)
LEMMA ReaderKeepsInv ==
    ASSUME ProcInv, NEW p \in Pid, ReaderEnds(p) \/ ReaderKills(p)
    PROVE  ProcInv'
<1> USE DEF ProcInv
<1>1. /\ alive' = alive /\ at' = at /\ pid' = pid /\ late' = late
      /\ reading' = reading \ {p}
      /\ dog' = dog /\ wire' = wire /\ groups' = groups
      /\ member' \subseteq member
  BY DEF ReaderEnds, ReaderKills, KillGroups, watch
<1>2. /\ leader' \in [Pid -> {"none", "running", "zombie"}]
      /\ \A q \in Pid : leader'[q] # "none" <=> leader[q] # "none"
      /\ \A q \in Pid : leader[q] = "zombie" => leader'[q] = "zombie"
  BY DEF ReaderEnds, ReaderKills, KillGroups, ProcTypeOK
<1>3. ProcTypeOK'
  BY <1>1, <1>2 DEF ProcTypeOK
<1>4. \A v \in Thread : Active(v) => pid[v] \in Pid
  BY DEF Active, ProcTypeOK
<1>5. Owned'
  BY <1>1, <1>2, <1>4 DEF Owned, Active
<1>6. Kept'
  BY <1>1, <1>2 DEF Kept, Active
<1>7. Watched' = Watched
  BY <1>1 DEF Watched
<1>8. Sent' /\ Gone' /\ Over'
  BY <1>1, <1>7 DEF Sent, Gone, Over
<1> QED BY <1>3, <1>5, <1>6, <1>8

LEMMA RunnerDiesKeepsInv ==
    ASSUME ProcInv, RunnerDies
    PROVE  ProcInv'
<1> USE DEF ProcInv
<1>1. ProcTypeOK'
  BY DEF RunnerDies, watch, ProcTypeOK, At
<1>2. Owned' /\ Kept' /\ Sent' /\ Gone' /\ Over'
  BY DEF RunnerDies, watch, Owned, Kept, Sent, Gone, Over, Active
<1> QED BY <1>1, <1>2

(* The watchdog. *)
LEMMA DogKeepsInv ==
    ASSUME ProcInv, DogReads \/ DogEnds \/ DogKilled
    PROVE  ProcInv'
<1> USE DEF ProcInv
<1>0. Over
  OBVIOUS
<1>1. CASE DogReads
  <2>1. /\ dog = "up" /\ wire # <<>> /\ groups' = Told(groups, Head(wire))
        /\ wire' = Tail(wire) /\ alive' = alive /\ at' = at /\ pid' = pid
        /\ late' = late /\ reading' = reading /\ leader' = leader
        /\ member' = member /\ dog' = dog
    BY <1>1 DEF DogReads, proc
  <2>2. wire \in Seq(Message)
    BY DEF ProcTypeOK, Message
  <2>3. Watched' \subseteq Watched
    BY <2>1, <2>2, WatchedRead DEF Watched
  <2>4. wire' \in Seq(Message) /\ Head(wire) \in Message
    BY <2>1, <2>2
  <2>5. groups' \subseteq Pid
    <3>1. CASE Head(wire) \in Pid
      BY <3>1, <2>1 DEF Told, ProcTypeOK
    <3>2. CASE Head(wire) \in {-p : p \in Pid}
      <4>1. PICK p \in Pid : Head(wire) = -p
        BY <3>2
      <4>2. Head(wire) < 0
        BY <4>1, PidAssumption
      <4> QED BY <4>2, <2>1 DEF Told, ProcTypeOK
    <3> QED BY <3>1, <3>2, <2>4 DEF Message
  <2>6. ProcTypeOK'
    BY <2>1, <2>4, <2>5 DEF ProcTypeOK, Message
  <2>7. Owned' /\ Kept' /\ Gone' /\ Over'
    BY <2>1 DEF Owned, Kept, Gone, Over, Active
  <2>8. Sent'
    BY <2>1, <2>3 DEF Sent
  <2> QED BY <2>6, <2>7, <2>8
<1>2. CASE DogEnds
  <2>1. /\ ~alive /\ wire = <<>> /\ dog' = "over" /\ groups' = {}
        /\ alive' = alive /\ at' = at /\ pid' = pid /\ late' = late
        /\ reading' = reading /\ wire' = wire /\ member' \subseteq member
    BY <1>2 DEF DogEnds, EndOfFile, KillGroups
  <2>2. leader' \in [Pid -> {"none", "running", "zombie"}]
    BY <1>2 DEF DogEnds, KillGroups, ProcTypeOK
  <2>3. ProcTypeOK'
    BY <2>1, <2>2 DEF ProcTypeOK
  <2>4. Owned' /\ Kept' /\ Sent' /\ Gone' /\ Over'
    BY <2>1 DEF Owned, Kept, Sent, Gone, Over, Active
  <2> QED BY <2>3, <2>4
<1>3. CASE DogKilled
  <2>1. /\ dog' = "over" /\ wire' = <<>> /\ groups' = {}
        /\ alive' = alive /\ at' = at /\ pid' = pid /\ late' = late
        /\ reading' = reading /\ leader' = leader /\ member' = member
    BY <1>3 DEF DogKilled, proc
  <2>2. ProcTypeOK'
    BY <2>1 DEF ProcTypeOK
  <2>3. Owned' /\ Kept' /\ Gone' /\ Over'
    BY <2>1 DEF Owned, Kept, Gone, Over, Active
  <2>4. Watched' = {}
    BY <2>1, OverWatchesNobody DEF Watched
  <2> QED BY <2>2, <2>3, <2>4 DEF Sent
<1> QED BY <1>1, <1>2, <1>3

LEMMA NextInv == ProcInv /\ [ProcNext]_procVars => ProcInv'
<1> SUFFICES ASSUME ProcInv, [ProcNext]_procVars PROVE ProcInv'
  OBVIOUS
<1>1. CASE alive /\ \E w \in Thread : Spawn(w) \/ RunStep(w)
  BY <1>1, SpawnKeepsInv, TellKeepsInv, UntellKeepsInv, WaitKeepsInv,
     KillGroupKeepsInv, ReapKeepsInv, CollectKeepsInv DEF RunStep
<1>2. CASE \E p \in Pid : ReaderEnds(p) \/ ReaderKills(p)
  BY <1>2, ReaderKeepsInv
<1>3. CASE RunnerDies
  BY <1>3, RunnerDiesKeepsInv
<1>4. CASE \E p \in Pid : LeaderExits(p) \/ StartsMember(p) \/ MemberExits(p)
  BY <1>4, ChildrenKeepInv
<1>5. CASE DogReads \/ DogEnds \/ DogKilled
  BY <1>5, DogKeepsInv
<1>6. CASE UNCHANGED procVars
  BY <1>6 DEF procVars, proc, watch, ProcInv, ProcTypeOK, Owned, Kept, Sent, Gone, Over,
              Active, Watched
<1> QED BY <1>1, <1>2, <1>3, <1>4, <1>5, <1>6 DEF ProcNext, AllGone

(* The invariant is one of the specification, however many the threads, the
   numbers and the messages. *)
THEOREM Invariant == ProcSpec => []ProcInv
  BY InitInv, NextInv, PTL DEF ProcSpec

(* Every variable of run(), of the processes and of the watchdog keeps its
   type. *)
THEOREM ProcTypeCorrect == ProcSpec => []ProcTypeOK
<1>1. ProcInv => ProcTypeOK
  BY DEF ProcInv
<1> QED BY <1>1, Invariant, PTL

LEMMA OwnSignalsFollow == ProcInv => SignalsReachTheirOwn
<1> SUFFICES ASSUME ProcInv PROVE SignalsReachTheirOwn
  OBVIOUS
<1>1. ASSUME NEW w \in Thread, at[w] \in {"kill", "join", "untell", "reap"}
      PROVE  leader[pid[w]] # "none"
  BY <1>1 DEF ProcInv, Owned, Active
<1>2. ASSUME NEW w \in Thread, at[w] \in {"kill", "join", "untell", "reap"},
             NEW v \in Thread, pid[v] = pid[w], v # w
      PROVE  at[v] = "collect"
  <2>1. Active(w) /\ ~Active(v)
    BY <1>2 DEF ProcInv, Owned, Active
  <2>2. pid[v] # noPid
    BY <1>2 DEF ProcInv, ProcTypeOK
  <2> QED BY <2>1, <2>2 DEF ProcInv, ProcTypeOK, Active, At
<1>3. ASSUME alive, NEW p \in Watched PROVE Reserved(p)
  BY <1>3 DEF ProcInv, Sent, Owned, Active, Reserved
<1> QED BY <1>1, <1>2, <1>3 DEF SignalsReachTheirOwn

(* The end of a run and the watchdog kill groups of tests that are running,
   and never a process that got a number somebody still held: run() tells the
   watchdog of the end before it reaps (proc.rs:305). *)
THEOREM OwnSignals == ProcSpec => []SignalsReachTheirOwn
  BY Invariant, OwnSignalsFollow, PTL

(* As long as the runner lives, every process of a test belongs to a run that
   has not ended: run() leaves none behind (but one that left its group). *)
THEOREM NoGroupOutlives == ProcSpec => []NothingIsLeft
<1>1. ProcInv => NothingIsLeft
  BY DEF ProcInv, Kept, Owned, Active, Reserved, NothingIsLeft
<1> QED BY <1>1, Invariant, PTL

-----------------------------------------------------------------------------
(***************************************************************************)
(* The runner: the scheduler and the runs together.                        *)
(***************************************************************************)
(* Every step of the runner is one of each part, or leaves that part alone. *)
LEMMA StepsOfBoth == [RunnerNext]_<<vars, procVars>> => [Next]_vars /\ [ProcNext]_procVars
<1> SUFFICES ASSUME [RunnerNext]_<<vars, procVars>>
             PROVE  [Next]_vars /\ [ProcNext]_procVars
  OBVIOUS
<1>1. CASE \E t \in Thread : Section(t)
  BY <1>1 DEF Section, ProcNext
<1>2. CASE \E w \in Worker : RunnerReturn(w) \/ Schedule(w)
  BY <1>2 DEF RunnerReturn, Schedule, Next, WorkerStep
<1>3. CASE RunnerReturnExclusive \/ RunnerStartExclusive
  BY <1>3 DEF RunnerReturnExclusive, RunnerStartExclusive, Next
<1>4. CASE Process
  BY <1>4 DEF Process, ProcNext
<1>5. CASE Rest \/ UNCHANGED <<vars, procVars>>
  BY <1>5 DEF Rest
<1> QED BY <1>1, <1>2, <1>3, <1>4, <1>5 DEF RunnerNext

(* THE PARTS KEEP THEIR PROMISES in the whole: everything the scheduler alone
   and run() alone were proved to keep holds of the runner. *)
LEMMA PartsKeepTheirs == RunnerSpec => [](IInv /\ Debts /\ ProcInv)
<1>1. RunnerInit => IInv /\ Debts /\ ProcInv
  BY InitIInv, InitDebts, InitInv DEF RunnerInit
<1>2. IInv /\ Debts /\ ProcInv /\ [RunnerNext]_<<vars, procVars>>
        => (IInv /\ Debts /\ ProcInv)'
  BY StepsOfBoth, StepIInv, StepDebts, NextInv
<1> QED BY <1>1, <1>2, PTL DEF RunnerSpec

-----------------------------------------------------------------------------
(* A thread is in run() only while it is inside a test. *)
RunsInside == alive => \A t \in Thread : at[t] # "idle" => Inside(t)

LEMMA StepRunsInside ==
    ASSUME IInv, ProcInv, RunsInside, [RunnerNext]_<<vars, procVars>>
    PROVE  RunsInside'
<1> USE ThreadAssumption
<1>1. CASE \E t \in Thread : Section(t)
  <2>1. PICK t \in Thread : alive /\ Inside(t) /\ Spawn(t) /\ UNCHANGED vars
    BY <1>1 DEF Section
  <2>2. \A u \in Thread : Inside(u)' <=> Inside(u)
    BY <2>1 DEF Inside, vars
  <2>3. \A u \in Thread \ {t} : at'[u] = at[u]
    BY <2>1 DEF Spawn, Go, ProcInv, ProcTypeOK
  <2> QED BY <2>1, <2>2, <2>3 DEF RunsInside, Spawn
<1>2. ASSUME NEW w \in Worker, RunnerReturn(w)
      PROVE  RunsInside'
  <2>1. alive /\ at[w] = "idle" /\ UNCHANGED <<alive, at>> /\ UNCHANGED solo
    BY <1>2 DEF RunnerReturn, Return, procVars
  <2>2. \A v \in Worker \ {w} : pc'[v] = pc[v]
    BY <1>2 DEF RunnerReturn, Return, IInv, TypeOK
  <2> QED BY <2>1, <2>2 DEF RunsInside, Inside
<1>3. ASSUME NEW w \in Worker, Schedule(w)
      PROVE  RunsInside'
  <2>1. alive /\ UNCHANGED <<alive, at>> /\ UNCHANGED solo
    BY <1>3 DEF Schedule, TakeKeyed, TakeFree, Sleep, Exit, Release, procVars
  <2>2. \A v \in Worker : pc[v] = "run" => pc'[v] = "run"
    BY <1>3 DEF Schedule, TakeKeyed, TakeFree, Sleep, Exit, Release, IInv, TypeOK
  <2> QED BY <2>1, <2>2 DEF RunsInside, Inside
<1>4. CASE RunnerReturnExclusive
  BY <1>4 DEF RunnerReturnExclusive, ReturnExclusive, procVars, RunsInside, Inside
<1>5. CASE RunnerStartExclusive
  BY <1>5 DEF RunnerStartExclusive, StartExclusive, procVars, RunsInside, Inside
<1>6. CASE Process
  <2>1. \A t \in Thread : Inside(t)' <=> Inside(t)
    BY <1>6 DEF Process, vars, Inside
  <2>2. CASE alive /\ \E t \in Thread : RunStep(t)
    <3>1. PICK t \in Thread : RunStep(t)
      BY <2>2
    <3>2. at[t] # "idle" /\ \A u \in Thread \ {t} : at'[u] = at[u]
      BY <3>1 DEF RunStep, Tell, ExitSeen, TimesOut, KillGroup, Killed, Untell, Reap,
                  Collect, Go, ProcInv, ProcTypeOK
    <3>3. Inside(t)
      BY <2>2, <3>2 DEF RunsInside
    <3> QED BY <2>1, <2>2, <3>2, <3>3 DEF RunsInside
  <2>3. CASE RunnerDies
    BY <2>3 DEF RunnerDies, RunsInside
  <2>4. CASE ~(alive /\ \E t \in Thread : RunStep(t)) /\ ~RunnerDies
    <3>1. UNCHANGED <<alive, at>>
      BY <1>6, <2>4 DEF Process, ReaderEnds, ReaderKills, LeaderExits, StartsMember,
                        MemberExits, DogReads, DogEnds, DogKilled
    <3> QED BY <2>1, <3>1 DEF RunsInside
  <2> QED BY <2>2, <2>3, <2>4
<1>7. CASE Rest \/ UNCHANGED <<vars, procVars>>
  BY <1>7 DEF Rest, vars, procVars, RunsInside, Inside
<1> QED BY <1>1, <1>2, <1>3, <1>4, <1>5, <1>6, <1>7 DEF RunnerNext

LEMMA RunnerInvariant == RunnerSpec => [](IInv /\ Debts /\ ProcInv /\ RunsInside)
<1>1. RunnerInit => RunsInside
  BY DEF RunnerInit, ProcInit, RunsInside
<1>2. IInv /\ ProcInv /\ RunsInside /\ [RunnerNext]_<<vars, procVars>> => RunsInside'
  BY StepRunsInside
<1> QED BY <1>1, <1>2, PartsKeepTheirs, PTL DEF RunnerSpec

(* No two processes of conflicting tests exist together, whatever the tests
   leave in the background: of any number of jobs, keys, threads and process
   IDs. *)
THEOREM ProcessesApart == RunnerSpec => []ProcessesNeverConflict
<1>1. IInv /\ ProcInv /\ RunsInside => ProcessesNeverConflict
  <2> SUFFICES ASSUME IInv, ProcInv, RunsInside, alive, NEW p \in Pid, Populated(p)
               PROVE  /\ \E t \in Thread : Inside(t) /\ pid[t] = p
                      /\ \A q \in Pid \ {p} : Populated(q) =>
                           \E v, w \in Worker :
                               /\ v # w /\ pid[v] = p /\ pid[w] = q
                               /\ Conflicts[job[v]] \cap Conflicts[job[w]] = {}
    BY DEF ProcessesNeverConflict
  <2>1. \A q \in Pid : Populated(q) => \E t \in Thread : Inside(t) /\ pid[t] = q
    BY DEF Populated, ProcInv, Kept, Active, RunsInside
  <2>2. ASSUME NEW q \in Pid \ {p}, Populated(q)
        PROVE  \E v, w \in Worker :
                   /\ v # w /\ pid[v] = p /\ pid[w] = q
                   /\ Conflicts[job[v]] \cap Conflicts[job[w]] = {}
    <3>1. PICK t \in Thread : Inside(t) /\ pid[t] = p
      BY <2>1
    <3>2. PICK u \in Thread : Inside(u) /\ pid[u] = q
      BY <2>1, <2>2
    <3>3. t # u
      BY <2>2, <3>1, <3>2
    <3>4. t \in Worker /\ u \in Worker /\ pc[t] = "run" /\ pc[u] = "run"
      BY <3>1, <3>2, <3>3, ThreadAssumption DEF Inside, IInv, ExclusiveApart
    <3> QED BY <3>1, <3>2, <3>3, <3>4 DEF IInv, KeysDisjoint, Holds
  <2> QED BY <2>1, <2>2
<1> QED BY <1>1, RunnerInvariant, PTL

(* In the runner as a whole, too, no thread sleeps for ever for want of a
   wake-up, and no signal goes to another test. *)
THEOREM RunnerKeepsBoth ==
    RunnerSpec => [](NoOverlap /\ RunOnce /\ SleepersAreWoken /\ SignalsReachTheirOwn)
<1>1. IInv => NoOverlap
  BY DEF IInv, KeysDisjoint, NoOverlap, Holds
<1>2. Debts => RunOnce /\ SleepersAreWoken
  BY DebtsSay
<1> QED BY <1>1, <1>2, OwnSignalsFollow, RunnerInvariant, PTL
=============================================================================
