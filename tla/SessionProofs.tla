---------------------------- MODULE SessionProofs ---------------------------
(***************************************************************************)
(* Theorems about Session, for any number of requests, session IDs, files  *)
(* and contents: the files save handler implements SessionStore.           *)
(***************************************************************************)
EXTENDS Session, TLAPS

(* The request s has the lock of the file that session i is. *)
Holds(s, i) == dir[i] # none /\ Locks(s, dir[i])

(* The conjuncts of TypeOK, apart. *)
Types ==
    /\ pc \in [Request -> Pc]
    /\ op \in [Request -> Op]
    /\ active \in [Request -> BOOLEAN]
    /\ id \in [Request -> Id \cup {none}]
    /\ sess \in [Request -> Data \cup {none}]
    /\ seen \in [Request -> Data \cup {none}]
    /\ file \in [Request -> Id \cup {none}]
    /\ fd \in [Request -> Inode \cup {none}]

Disk ==
    /\ dir \in [Id -> Inode \cup {none}]
    /\ content \in [Inode -> Data]
    /\ strict \in BOOLEAN /\ lazy \in BOOLEAN

(* Where a request is in which call, and what is open then. *)
Control(r) ==
    /\ file[r] = none <=> fd[r] = none
    /\ pc[r] \notin {"idle", "script", "over"} => active[r] /\ id[r] # none
    /\ pc[r] \in {"flock", "read", "truncate", "fill"} => file[r] = id[r]
    /\ pc[r] \in {"idle", "over"} => ~active[r]
    /\ pc[r] = "idle" => fd[r] = none
    /\ pc[r] \in {"idle", "script", "over"} => op[r] = none
    /\ active[r] => sess[r] \in Data
    /\ ~active[r] => seen[r] = none
    /\ pc[r] = "script" /\ active[r] => id[r] # none /\ file[r] \in {none, id[r]}
    /\ pc[r] \in {"open", "flock"} => op[r] \in Saving \cup {"start", "reset", "regenerate"}
    /\ pc[r] = "read" => op[r] \in {"start", "reset", "regenerate"}
    /\ pc[r] = "open" /\ op[r] \in Saving => file[r] = none
    /\ pc[r] \in {"open", "flock", "read"} /\ op[r] \notin Saving => seen[r] = none
    /\ pc[r] \in {"truncate", "fill"} => op[r] \in Saving
    /\ pc[r] = "unlink" => file[r] = none /\ op[r] \in {"destroy", "renew"}

(* What the owner of a file knows of it. *)
Knows(r) ==
    /\ pc[r] = "script" /\ active[r] /\ file[r] = id[r] => seen[r] = content[fd[r]]
    /\ pc[r] = "fill" => content[fd[r]] = Empty

(* flock(): one process past it for each file. *)
Alone ==
    \A r, s \in Request :
        fd[r] # none /\ fd[r] = fd[s] /\ pc[r] # "flock" /\ pc[s] # "flock" => r = s

(* A file has one name, and is open under that name. *)
OneName ==
    /\ \A i, j \in Id : dir[i] # none /\ dir[i] = dir[j] => i = j
    /\ \A r \in Request, i \in Id : dir[i] # none /\ dir[i] = fd[r] => file[r] = i

Inv ==
    /\ Types /\ Disk
    /\ \A r \in Request : Control(r) /\ Knows(r)
    /\ Alone
    /\ OneName

LEMMA InvIsTyped == Inv => TypeOK
  BY DEF Inv, Types, Disk, Control, TypeOK

(* Nothing of another request changes. *)
Frame(r) ==
    \A s \in Request \ {r} :
        /\ pc'[s] = pc[s] /\ op'[s] = op[s] /\ active'[s] = active[s] /\ id'[s] = id[s]
        /\ sess'[s] = sess[s] /\ seen'[s] = seen[s] /\ file'[s] = file[s] /\ fd'[s] = fd[s]

-----------------------------------------------------------------------------
(***************************************************************************)
(* What a request's own step does to its own state.                        *)
(***************************************************************************)

LEMMA EndSessionIs ==
    ASSUME Types, NEW r \in Request, NEW f \in BOOLEAN, EndSession(r, f)
    PROVE  /\ active' \in [Request -> BOOLEAN] /\ active'[r] = FALSE
           /\ id' \in [Request -> Id \cup {none}]
           /\ sess' \in [Request -> Data \cup {none}]
           /\ seen' \in [Request -> Data \cup {none}] /\ seen'[r] = none
           /\ op' \in [Request -> Op] /\ op'[r] = none
           /\ \A s \in Request \ {r} :
                /\ op'[s] = op[s] /\ active'[s] = active[s] /\ id'[s] = id[s]
                /\ sess'[s] = sess[s] /\ seen'[s] = seen[s]
<1>1. active' \in [Request -> BOOLEAN] /\ active'[r] = FALSE
  BY DEF EndSession, Types
<1>2. id' \in [Request -> Id \cup {none}] /\ \A s \in Request \ {r} : id'[s] = id[s]
  BY DEF EndSession, Types
<1>3. sess' \in [Request -> Data \cup {none}] /\ seen' \in [Request -> Data \cup {none}] /\ seen'[r] = none
  BY DEF EndSession, Types
<1>4. op' \in [Request -> Op] /\ op'[r] = none
  BY DEF EndSession, Types, Op
<1>5. \A s \in Request \ {r} :
        op'[s] = op[s] /\ active'[s] = active[s] /\ sess'[s] = sess[s] /\ seen'[s] = seen[s]
  BY DEF EndSession, Types
<1> QED BY <1>1, <1>2, <1>3, <1>4, <1>5

LEMMA CloseFileIs ==
    ASSUME Types, NEW r \in Request, CloseFile(r)
    PROVE  /\ file' \in [Request -> Id \cup {none}] /\ file'[r] = none
           /\ fd' \in [Request -> Inode \cup {none}] /\ fd'[r] = none
           /\ \A s \in Request \ {r} : file'[s] = file[s] /\ fd'[s] = fd[s]
  BY DEF CloseFile, Types

LEMMA ClosedIs ==
    ASSUME Types, NEW r \in Request, NEW o, Closed(r, o)
    PROVE  /\ Types' /\ Frame(r) /\ file'[r] = none /\ fd'[r] = none
           /\ seen'[r] = none
           /\ \/ /\ o \in {"keep", "renew"}
                 /\ pc'[r] = "open" /\ op'[r] = "regenerate" /\ id'[r] \in Id
                 /\ active'[r] = active[r] /\ sess'[r] = sess[r]
              \/ /\ o \notin {"keep", "renew"}
                 /\ pc'[r] \in {"script", "over"} /\ op'[r] = none /\ active'[r] = FALSE
<1>1. /\ file' \in [Request -> Id \cup {none}] /\ file'[r] = none
      /\ fd' \in [Request -> Inode \cup {none}] /\ fd'[r] = none
      /\ \A s \in Request \ {r} : file'[s] = file[s] /\ fd'[s] = fd[s]
  BY CloseFileIs DEF Closed
<1>2. CASE o \in {"keep", "renew"}
  <2>1. /\ id' \in [Request -> Id \cup {none}] /\ id'[r] \in Id
        /\ \A s \in Request \ {r} : id'[s] = id[s]
    BY <1>2 DEF Closed, NewIds, Types
  <2>2. /\ seen' \in [Request -> Data \cup {none}] /\ seen'[r] = none
        /\ \A s \in Request \ {r} : seen'[s] = seen[s]
        /\ active' = active /\ sess' = sess
    BY <1>2 DEF Closed, Types
  <2>3. /\ op' \in [Request -> Op] /\ op'[r] = "regenerate"
        /\ \A s \in Request \ {r} : op'[s] = op[s]
    BY <1>2 DEF Closed, Types, Op
  <2>4. /\ pc' \in [Request -> Pc] /\ pc'[r] = "open"
        /\ \A s \in Request \ {r} : pc'[s] = pc[s]
    BY <1>2 DEF Closed, Types, Go, Pc
  <2> QED BY <1>1, <1>2, <2>1, <2>2, <2>3, <2>4 DEF Types, Frame
<1>3. CASE o \notin {"keep", "renew"}
  <2>1. /\ pc' \in [Request -> Pc] /\ pc'[r] \in {"script", "over"}
        /\ \A s \in Request \ {r} : pc'[s] = pc[s]
    BY <1>3 DEF Closed, Types, Go, Pc
  <2> DEFINE f == o \in {"start", "reset", "destroy"}
  <2>2. f \in BOOLEAN /\ EndSession(r, f)
    BY <1>3 DEF Closed
  <2> HIDE DEF f
  <2> QED BY <1>1, <1>3, <2>1, <2>2, EndSessionIs DEF Types, Frame
<1> QED BY <1>2, <1>3

(* The step of r keeps the types and leaves r in a state it may be in. *)
Own(r) == Types' /\ Frame(r) /\ Control(r)'

LEMMA ClosedOwn ==
    ASSUME Types, NEW r \in Request, NEW o, Closed(r, o), active[r] => sess[r] \in Data,
           o \in {"keep", "renew"} => active[r]
    PROVE  Own(r)
<1>1. Op \cap {"keep"} # {} BY DEF Op, Saving
<1> QED BY ClosedIs, NoneAssumption DEF Own, Control, Saving, Types

LEMMA EndedOwn ==
    ASSUME Types, NEW r \in Request, NEW f \in BOOLEAN, EndSession(r, f),
           NEW p \in {"script", "over", "idle"}, Go(r, p),
           CloseFile(r) \/ (UNCHANGED open /\ Control(r) /\ p # "idle")
    PROVE  Own(r)
<1>1. /\ pc' \in [Request -> Pc] /\ pc'[r] = p
      /\ \A s \in Request \ {r} : pc'[s] = pc[s]
  BY DEF Go, Types, Pc
<1>2. /\ file' \in [Request -> Id \cup {none}] /\ fd' \in [Request -> Inode \cup {none}]
      /\ file'[r] = none <=> fd'[r] = none
      /\ p = "idle" => fd'[r] = none
      /\ \A s \in Request \ {r} : file'[s] = file[s] /\ fd'[s] = fd[s]
  <2>1. CASE CloseFile(r) BY <2>1, CloseFileIs
  <2>2. CASE UNCHANGED open /\ Control(r) /\ p # "idle"
    BY <2>2 DEF open, Types, Control
  <2> QED BY <2>1, <2>2
<1>3. /\ active' \in [Request -> BOOLEAN] /\ active'[r] = FALSE
      /\ id' \in [Request -> Id \cup {none}]
      /\ sess' \in [Request -> Data \cup {none}]
      /\ seen' \in [Request -> Data \cup {none}] /\ seen'[r] = none
      /\ op' \in [Request -> Op] /\ op'[r] = none
      /\ \A s \in Request \ {r} :
           /\ op'[s] = op[s] /\ active'[s] = active[s] /\ id'[s] = id[s]
           /\ sess'[s] = sess[s] /\ seen'[s] = seen[s]
  BY EndSessionIs
<1>4. Types' /\ Frame(r)
  BY <1>1, <1>2, <1>3 DEF Types, Frame
<1>5. Control(r)'
  BY <1>1, <1>2, <1>3 DEF Control
<1> QED BY <1>4, <1>5 DEF Own

LEMMA SmallSteps ==
    ASSUME Inv, NEW r \in Request
    PROVE  /\ Begin(r) => Own(r)
           /\ \A d \in Data : Assign(r, d) => Own(r)
           /\ \A i \in Id : SetId(r, i) => Own(r)
           /\ AlreadyOpen(r) => Own(r)
           /\ CloseOther(r) => Own(r)
<1> USE DEF Own, Inv, mem, open
<1>1. ASSUME Begin(r) PROVE Own(r)
  BY <1>1 DEF Begin, Go, Types, Frame, Control, Pc, Saving
<1>2. ASSUME NEW d \in Data, Assign(r, d) PROVE Own(r)
  BY <1>2 DEF Assign, Types, Frame, Control
<1>3. ASSUME NEW i \in Id, SetId(r, i) PROVE Own(r)
  BY <1>3 DEF SetId, Types, Frame, Control
<1>4. ASSUME AlreadyOpen(r) PROVE Own(r)
  BY <1>4 DEF AlreadyOpen, IsOpen, Go, Types, Frame, Control, Pc, Saving
<1>5. ASSUME CloseOther(r) PROVE Own(r)
  BY <1>5, CloseFileIs DEF CloseOther, Types, Frame, Control
<1> QED BY <1>1, <1>2, <1>3, <1>4, <1>5

LEMMA SettleIs ==
    ASSUME Types, NEW r \in Request, NEW cur \in Id \cup {none}, Settle(r, cur)
    PROVE  /\ id' \in [Request -> Id \cup {none}] /\ id'[r] \in Id
           /\ \A s \in Request \ {r} : id'[s] = id[s]
  BY NoneAssumption DEF Settle, NewIds, Types

LEMMA StartSteps ==
    ASSUME Inv, NEW r \in Request
    PROVE  /\ Start(r) => Own(r)
           /\ Reset(r) => Own(r)
           /\ OpenExisting(r) => Own(r)
           /\ OpenNew(r) => Own(r)
           /\ Lock(r) => Own(r)
           /\ Read(r) => Own(r)
           /\ TruncateReopened(r) => Own(r)
<1> USE NoneAssumption, DataAssumption DEF Own, Inv, Types, Frame, Control, mem, open, Pc, Saving
<1>1. ASSUME Start(r) PROVE Own(r)
  <2>1. /\ id' \in [Request -> Id \cup {none}] /\ id'[r] \in Id
        /\ \A s \in Request \ {r} : id'[s] = id[s]
    BY <1>1, SettleIs DEF Start
  <2>2. /\ active' \in [Request -> BOOLEAN] /\ active'[r] = TRUE
        /\ sess' \in [Request -> Data \cup {none}] /\ sess'[r] = Empty
        /\ op' \in [Request -> Op] /\ op'[r] = "start"
        /\ pc' \in [Request -> Pc] /\ pc'[r] = "open"
        /\ UNCHANGED <<seen, file, fd>>
        /\ \A s \in Request \ {r} :
             pc'[s] = pc[s] /\ op'[s] = op[s] /\ active'[s] = active[s] /\ sess'[s] = sess[s]
    BY <1>1 DEF Start, Go, Op
  <2>3. Types' /\ Frame(r)
    BY <2>1, <2>2
  <2>4. seen[r] = none
    BY <1>1 DEF Start
  <2>5. Control(r)'
    BY <2>1, <2>2, <2>4
  <2> QED BY <2>3, <2>5
<1>2. ASSUME Reset(r) PROVE Own(r)
  <2>1. /\ id' \in [Request -> Id \cup {none}] /\ id'[r] \in Id
        /\ \A s \in Request \ {r} : id'[s] = id[s]
    BY <1>2, SettleIs DEF Reset
  <2>2. /\ sess' \in [Request -> Data \cup {none}] /\ sess'[r] = Empty
        /\ seen' \in [Request -> Data \cup {none}] /\ seen'[r] = none
        /\ op' \in [Request -> Op] /\ op'[r] = "reset"
        /\ pc' \in [Request -> Pc] /\ pc'[r] = "open"
        /\ active[r] /\ UNCHANGED <<active, file, fd>>
        /\ \A s \in Request \ {r} :
             pc'[s] = pc[s] /\ op'[s] = op[s] /\ seen'[s] = seen[s] /\ sess'[s] = sess[s]
    BY <1>2 DEF Reset, Go, Op
  <2>3. Types' /\ Frame(r)
    BY <2>1, <2>2
  <2>4. Control(r)'
    BY <2>1, <2>2
  <2> QED BY <2>3, <2>4
<1>3. ASSUME OpenExisting(r) PROVE Own(r)
  BY <1>3 DEF OpenExisting, Go, Disk
<1>4. ASSUME OpenNew(r) PROVE Own(r)
  BY <1>4 DEF OpenNew, Unused, Go, Disk
<1>5. ASSUME Lock(r) PROVE Own(r)
  BY <1>5 DEF Lock, Go
<1>6. ASSUME Read(r) PROVE Own(r)
  BY <1>6 DEF Read, Go, Disk, Op
<1>7. ASSUME TruncateReopened(r) PROVE Own(r)
  BY <1>7 DEF TruncateReopened, Go
<1> QED BY <1>1, <1>2, <1>3, <1>4, <1>5, <1>6, <1>7

LEMMA SaveSteps ==
    ASSUME Inv, NEW r \in Request, NEW o
    PROVE  /\ SaveThrows(r, o) => Own(r)
           /\ GivesUp(r, o) => Own(r)
           /\ Touch(r, o) => Own(r)
           /\ Truncate(r, o) => Own(r)
           /\ Reopen(r, o) => Own(r)
           /\ Fill(r) => Own(r)
           /\ Abort(r) => Own(r)
<1> USE NoneAssumption, DataAssumption DEF Inv
<1>1. ASSUME SaveThrows(r, o), o = "keep" PROVE Own(r)
  BY <1>1 DEF SaveThrows, MaySave, Go, Own, Types, Frame, Control, mem, open, Pc, Saving
<1>2. ASSUME SaveThrows(r, o), o # "keep" PROVE Own(r)
  <2> DEFINE p == IF o = "end" THEN "over" ELSE "script"
  <2>1. EndSession(r, FALSE) /\ UNCHANGED open /\ Go(r, p)
    BY <1>2 DEF SaveThrows
  <2>2. p \in {"script", "over", "idle"} /\ p # "idle"
    OBVIOUS
  <2> HIDE DEF p
  <2> QED BY <2>1, <2>2, EndedOwn
<1>3. ASSUME GivesUp(r, o) PROVE Own(r)
  BY <1>3, ClosedOwn DEF GivesUp, MaySave, Control
<1>4. ASSUME Touch(r, o) PROVE Own(r)
  BY <1>4, ClosedOwn DEF Touch, MaySave, Control
<1>5. ASSUME Truncate(r, o) PROVE Own(r)
  BY <1>5 DEF Truncate, MaySave, Go, Own, Types, Frame, Control, open, Pc, Op, Saving
<1>6. ASSUME Reopen(r, o) PROVE Own(r)
  BY <1>6 DEF Reopen, MaySave, Go, Own, Types, Frame, Control, open, Pc, Op, Saving
<1>7. ASSUME Fill(r) PROVE Own(r)
  <2>1. Closed(r, op[r]) /\ active[r] /\ sess[r] \in Data
    BY <1>7 DEF Fill, Control
  <2> QED BY <2>1, ClosedOwn
<1>8. ASSUME Abort(r) PROVE Own(r)
  <2>1. CloseFile(r) /\ EndSession(r, FALSE) /\ pc[r] = "script" /\ pc' = pc
    BY <1>8 DEF Abort
  <2>2. Go(r, "script")
    BY <2>1 DEF Go, Types
  <2> QED BY <2>1, <2>2, EndedOwn
<1> QED BY <1>1, <1>2, <1>3, <1>4, <1>5, <1>6, <1>7, <1>8

LEMMA EndSteps ==
    ASSUME Inv, NEW r \in Request
    PROVE  /\ OpenFails(r) => Own(r)
           /\ ReadAndClose(r) => Own(r)
           /\ \A o : Destroy(r, o) => Own(r)
           /\ DecodeFails(r) => Own(r)
           /\ DecodeDies(r) => Own(r)
           /\ Unlink(r) => Own(r)
           /\ UnlinkFails(r) => Own(r)
           /\ \A i : Expire(r, i) => Own(r)
           /\ Gone(r) => Own(r)
<1> USE NoneAssumption, DataAssumption DEF Inv
<1>1. ASSUME OpenFails(r) PROVE Own(r)
  BY <1>1, ClosedOwn DEF OpenFails, Control
<1>2. ASSUME ReadAndClose(r) PROVE Own(r)
  BY <1>2, EndedOwn DEF ReadAndClose
<1>3. ASSUME NEW o, Destroy(r, o) PROVE Own(r)
  BY <1>3 DEF Destroy, LetGo, CloseFile, Go, Own, Types, Frame, Control, open, Pc, Op, Saving
<1>4. ASSUME DecodeFails(r) PROVE Own(r)
  BY <1>4 DEF DecodeFails, LetGo, CloseFile, Go, Own, Types, Frame, Control, open, Pc, Op, Saving
<1>5. ASSUME DecodeDies(r) PROVE Own(r)
  BY <1>5, EndedOwn DEF DecodeDies
<1>6. ASSUME Unlink(r) PROVE Own(r)
  <2>1. Closed(r, op[r]) /\ active[r] /\ sess[r] \in Data
    BY <1>6 DEF Unlink, Control
  <2> QED BY <2>1, ClosedOwn
<1>7. ASSUME UnlinkFails(r) PROVE Own(r)
  <2>1. CASE op[r] = "destroy"
    BY <1>7, <2>1, EndedOwn DEF UnlinkFails
  <2>2. CASE op[r] # "destroy"
    <3>1. /\ pc' \in [Request -> Pc] /\ pc'[r] = "script"
          /\ op' \in [Request -> Op] /\ op'[r] = none
          /\ \A s \in Request \ {r} : pc'[s] = pc[s] /\ op'[s] = op[s]
          /\ UNCHANGED <<active, id, sess, seen, file, fd>>
      BY <1>7, <2>2 DEF UnlinkFails, Go, Types, Pc, Op, open
    <3>2. Types' /\ Frame(r)
      BY <3>1 DEF Types, Frame
    <3>3. Control(r)'
      BY <1>7, <3>1 DEF Control, UnlinkFails
    <3> QED BY <3>2, <3>3 DEF Own
  <2> QED BY <2>1, <2>2
<1>8. ASSUME NEW i, Expire(r, i) PROVE Own(r)
  BY <1>8 DEF Expire, Own, Types, Frame, Control, mem, open
<1>9. ASSUME Gone(r) PROVE Own(r)
  BY <1>9, EndedOwn DEF Gone
<1> QED BY <1>1, <1>2, <1>3, <1>4, <1>5, <1>6, <1>7, <1>8, <1>9
-----------------------------------------------------------------------------
(***************************************************************************)
(* The directory and the files.                                            *)
(***************************************************************************)

(* A step that opens no file, locks none and writes none. *)
LEMMA QuietStep ==
    ASSUME Inv, NEW r \in Request, Own(r), UNCHANGED <<disk, ini>>, Knows(r)',
           \/ fd'[r] = none
           \/ fd'[r] = fd[r] /\ file'[r] = file[r] /\ (pc[r] = "flock" => pc'[r] = "flock")
    PROVE  Inv'
<1> USE DEF Inv, Own, Frame, disk, ini
<1>1. Types' /\ Disk' /\ Control(r)'
  BY DEF Disk
<1>2. \A s \in Request : Control(s)' /\ Knows(s)'
  BY <1>1 DEF Control, Knows
<1>3. Alone'
  BY DEF Alone
<1>4. OneName'
  BY DEF OneName
<1> QED BY <1>1, <1>2, <1>3, <1>4

LEMMA QuietSteps ==
    ASSUME Inv, NEW r \in Request
    PROVE  /\ Begin(r) => Inv'
           /\ \A d \in Data : Assign(r, d) => Inv'
           /\ \A i \in Id : SetId(r, i) => Inv'
           /\ AlreadyOpen(r) => Inv'
           /\ CloseOther(r) => Inv'
           /\ Start(r) => Inv'
           /\ Reset(r) => Inv'
           /\ Read(r) => Inv'
<1> USE DEF Inv, mem, open, Knows, Go, Types
<1>1. ASSUME Begin(r) PROVE Inv'
  BY <1>1, SmallSteps, QuietStep DEF Begin, Control
<1>2. ASSUME NEW d \in Data, Assign(r, d) PROVE Inv'
  BY <1>2, SmallSteps, QuietStep DEF Assign, disk
<1>3. ASSUME NEW i \in Id, SetId(r, i) PROVE Inv'
  BY <1>3, SmallSteps, QuietStep DEF SetId
<1>4. ASSUME AlreadyOpen(r) PROVE Inv'
  BY <1>4, SmallSteps, QuietStep DEF AlreadyOpen
<1>5. ASSUME CloseOther(r) PROVE Inv'
  BY <1>5, SmallSteps, QuietStep DEF CloseOther, CloseFile
<1>6. ASSUME Start(r) PROVE Inv'
  BY <1>6, StartSteps, QuietStep DEF Start
<1>7. ASSUME Reset(r) PROVE Inv'
  BY <1>7, StartSteps, QuietStep DEF Reset
<1>8. ASSUME Read(r) PROVE Inv'
  BY <1>8, StartSteps, QuietStep DEF Read, disk
<1> QED BY <1>1, <1>2, <1>3, <1>4, <1>5, <1>6, <1>7, <1>8

(* What a step that closes the file, or ends the session, leaves to know. *)
LEMMA NothingToKnow ==
    ASSUME Types, NEW r \in Request
    PROVE  /\ \A o : Closed(r, o) => Knows(r)' /\ fd'[r] = none
           /\ \A f \in BOOLEAN, p \in {"script", "over", "idle"} :
                EndSession(r, f) /\ Go(r, p) => Knows(r)'
<1>1. ASSUME NEW o, Closed(r, o) PROVE Knows(r)' /\ fd'[r] = none
  BY <1>1, ClosedIs DEF Knows
<1>2. ASSUME NEW f \in BOOLEAN, NEW p \in {"script", "over", "idle"}, EndSession(r, f), Go(r, p)
      PROVE  Knows(r)'
  BY <1>2, EndSessionIs DEF Knows, Go, Types
<1> QED BY <1>1, <1>2

LEMMA ClosingSteps ==
    ASSUME Inv, NEW r \in Request
    PROVE  /\ OpenFails(r) => Inv'
           /\ ReadAndClose(r) => Inv'
           /\ \A o : GivesUp(r, o) \/ Touch(r, o) => Inv'
           /\ Abort(r) => Inv'
           /\ Gone(r) => Inv'
<1> Types
  BY DEF Inv
<1>1. ASSUME OpenFails(r) PROVE Inv'
  BY <1>1, EndSteps, QuietStep, NothingToKnow DEF OpenFails
<1>2. ASSUME ReadAndClose(r) PROVE Inv'
  BY <1>2, EndSteps, QuietStep, NothingToKnow, CloseFileIs DEF ReadAndClose
<1>3. ASSUME NEW o, GivesUp(r, o) PROVE Inv'
  BY <1>3, SaveSteps, QuietStep, NothingToKnow DEF GivesUp
<1>4. ASSUME NEW o, Touch(r, o) PROVE Inv'
  BY <1>4, SaveSteps, QuietStep, NothingToKnow DEF Touch
<1>5. ASSUME Abort(r) PROVE Inv'
  <2>1. EndSession(r, FALSE) /\ Go(r, "script") /\ fd'[r] = none /\ UNCHANGED <<disk, ini>>
    BY <1>5, CloseFileIs DEF Abort, Go, Types
  <2> QED BY <1>5, <2>1, SaveSteps, QuietStep, NothingToKnow
<1>6. ASSUME Gone(r) PROVE Inv'
  BY <1>6, EndSteps, QuietStep, NothingToKnow, CloseFileIs DEF Gone
<1> QED BY <1>1, <1>2, <1>3, <1>4, <1>5, <1>6

LEMMA LeavingSteps ==
    ASSUME Inv, NEW r \in Request
    PROVE  /\ \A o : SaveThrows(r, o) => Inv'
           /\ \A o : Reopen(r, o) => Inv'
           /\ \A o : Destroy(r, o) => Inv'
           /\ DecodeFails(r) => Inv'
           /\ DecodeDies(r) => Inv'
           /\ UnlinkFails(r) => Inv'
<1> USE DEF Inv, mem, open, Types
<1>1. ASSUME NEW o, SaveThrows(r, o) PROVE Inv'
  <2>1. Own(r) /\ UNCHANGED <<disk, ini>> /\ fd'[r] = fd[r] /\ file'[r] = file[r] /\ pc[r] # "flock"
    BY <1>1, SaveSteps DEF SaveThrows, MaySave
  <2>2. Knows(r)'
    BY <1>1, NothingToKnow DEF SaveThrows, MaySave, Knows, Go, disk
  <2> QED BY <2>1, <2>2, QuietStep
<1>2. ASSUME NEW o, Reopen(r, o) PROVE Inv'
  BY <1>2, SaveSteps, QuietStep DEF Reopen, MaySave, Knows, Go
<1>3. ASSUME NEW o, Destroy(r, o) PROVE Inv'
  BY <1>3, EndSteps, QuietStep DEF Destroy, LetGo, CloseFile, Knows, Go
<1>4. ASSUME DecodeFails(r) PROVE Inv'
  BY <1>4, EndSteps, QuietStep DEF DecodeFails, LetGo, CloseFile, Knows, Go
<1>5. ASSUME DecodeDies(r) PROVE Inv'
  BY <1>5, EndSteps, QuietStep, NothingToKnow DEF DecodeDies
<1>6. ASSUME UnlinkFails(r) PROVE Inv'
  <2>1. Own(r) /\ UNCHANGED <<disk, ini>> /\ pc[r] = "unlink" /\ fd[r] = none /\ file[r] = none
    BY <1>6, EndSteps DEF UnlinkFails, Control
  <2>2. CASE op[r] = "destroy"
    BY <1>6, <2>1, <2>2, QuietStep, NothingToKnow, CloseFileIs DEF UnlinkFails
  <2>3. CASE op[r] # "destroy"
    BY <1>6, <2>1, <2>3, QuietStep DEF UnlinkFails, Knows, Go, Control
  <2> QED BY <2>2, <2>3
<1> QED BY <1>1, <1>2, <1>3, <1>4, <1>5, <1>6

LEMMA OpeningSteps ==
    ASSUME Inv, NEW r \in Request
    PROVE  /\ OpenExisting(r) => Inv'
           /\ OpenNew(r) => Inv'
           /\ Lock(r) => Inv'
<1>1. ASSUME OpenExisting(r) PROVE Inv'
  <2>1. Own(r) /\ UNCHANGED <<dir, content, strict, lazy>> /\ pc'[r] = "flock"
        /\ fd'[r] = dir[id[r]] /\ file'[r] = id[r] /\ id[r] \in Id /\ dir[id[r]] # none
    BY <1>1, StartSteps DEF OpenExisting, Opened, Go, Inv, Types, Control, ini
  <2>2. Types' /\ Disk'
    BY <2>1 DEF Inv, Disk, Own
  <2>3. \A s \in Request : Control(s)' /\ Knows(s)'
    BY <2>1 DEF Inv, Own, Frame, Control, Knows
  <2>4. Alone'
    BY <2>1 DEF Inv, Own, Frame, Alone
  <2>5. OneName'
    BY <2>1 DEF Inv, Own, Frame, OneName
  <2> QED BY <2>2, <2>3, <2>4, <2>5 DEF Inv
<1>2. ASSUME OpenNew(r) PROVE Inv'
  <2>1. PICK n \in Unused : /\ dir' = [dir EXCEPT ![id[r]] = n]
                            /\ content' = [content EXCEPT ![n] = Empty]
                            /\ fd' = [fd EXCEPT ![r] = n]
    BY <1>2 DEF OpenNew
  <2>2. Own(r) /\ UNCHANGED <<strict, lazy>> /\ pc'[r] = "flock" /\ fd'[r] = n
        /\ file'[r] = id[r] /\ id[r] \in Id
    BY <1>2, <2>1, StartSteps DEF OpenNew, Go, Inv, Types, Control, ini
  <2>3. n \in Inode /\ (\A i \in Id : dir[i] # n) /\ \A s \in Request : fd[s] # n
    BY DEF Unused, Linked
  <2>4. Types' /\ Disk'
    BY <2>1, <2>2, <2>3, DataAssumption DEF Inv, Disk, Own
  <2>5. \A s \in Request : Control(s)' /\ Knows(s)'
    <3>1. ASSUME NEW s \in Request, s # r PROVE Control(s)'
      BY <2>2, <3>1 DEF Inv, Own, Frame, Control
    <3>2. ASSUME NEW s \in Request, s # r PROVE Knows(s)'
      <4>1. content'[fd[s]] = content[fd[s]] \/ fd[s] = none
        BY <2>1, <2>3 DEF Inv, Types, Disk
      <4>2. Control(s) /\ Knows(s) /\ Id \cap {none} = {}
        BY NoneAssumption DEF Inv
      <4> QED BY <2>2, <3>2, <4>1, <4>2 DEF Own, Frame, Knows, Control
    <3>3. Control(r)' /\ Knows(r)'
      BY <2>2 DEF Own, Knows
    <3> QED BY <3>1, <3>2, <3>3
  <2>6. Alone'
    BY <2>2, <2>3 DEF Inv, Own, Frame, Alone
  <2>7. OneName'
    <3>1. \A i \in Id : dir'[i] = IF i = id[r] THEN n ELSE dir[i]
      BY <2>1, <2>2 DEF Inv, Disk
    <3> QED BY <2>2, <2>3, <3>1 DEF Inv, Own, Frame, OneName
  <2> QED BY <2>4, <2>5, <2>6, <2>7 DEF Inv
<1>3. ASSUME Lock(r) PROVE Inv'
  <2>1. Own(r) /\ UNCHANGED <<dir, content, strict, lazy, fd, file>> /\ pc'[r] \in {"truncate", "read"}
    BY <1>3, StartSteps DEF Lock, Go, Inv, Types, open, disk, ini
  <2>2. Types' /\ Disk'
    BY <2>1 DEF Inv, Disk, Own
  <2>3. \A s \in Request : Control(s)' /\ Knows(s)'
    BY <2>1 DEF Inv, Own, Frame, Control, Knows
  <2>4. Alone'
    BY <1>3, <2>1 DEF Inv, Own, Frame, Alone, Lock, LockIsFree, Locks
  <2>5. OneName'
    BY <2>1 DEF Inv, Own, Frame, OneName
  <2> QED BY <2>2, <2>3, <2>4, <2>5 DEF Inv
<1> QED BY <1>1, <1>2, <1>3
(* Nobody else is past flock() on the file r writes. *)
LEMMA WriterAlone ==
    ASSUME Inv, NEW r \in Request, pc[r] \in {"script", "truncate", "fill"},
           file[r] = id[r], id[r] # none
    PROVE  /\ fd[r] \in Inode
           /\ \A s \in Request \ {r} : pc[s] # "flock" => fd[s] # fd[r]
           /\ \A s \in Request \ {r} : pc[s] \in {"script", "fill"} /\ active[s] /\ file[s] = id[s] =>
                fd[s] \in Inode /\ fd[s] # fd[r]
<1>1. fd[r] \in Inode
  BY DEF Inv, Types, Control
<1>2. ASSUME NEW s \in Request \ {r}, pc[s] # "flock" PROVE fd[s] # fd[r]
  BY <1>1, <1>2, NoneAssumption DEF Inv, Alone
<1>3. ASSUME NEW s \in Request \ {r}, pc[s] \in {"script", "fill"}, active[s], file[s] = id[s]
      PROVE  fd[s] \in Inode
  BY <1>3 DEF Inv, Types, Control
<1> QED BY <1>1, <1>2, <1>3

LEMMA WritingSteps ==
    ASSUME Inv, NEW r \in Request
    PROVE  /\ \A o : Truncate(r, o) => Inv'
           /\ TruncateReopened(r) => Inv'
           /\ Fill(r) => Inv'
<1> DEFINE Writes(d) == d \in Data /\ content' = [content EXCEPT ![fd[r]] = d]
<1>1. ASSUME NEW d, Writes(d), Own(r), UNCHANGED <<dir, ini>>,
             pc[r] \in {"script", "truncate", "fill"}, file[r] = id[r], id[r] # none,
             \/ fd'[r] = none /\ Knows(r)'
             \/ fd'[r] = fd[r] /\ file'[r] = file[r] /\ pc'[r] = "fill" /\ d = Empty
      PROVE  Inv'
  <2>1. fd[r] \in Inode /\ pc[r] # "flock"
    BY <1>1, WriterAlone
  <2>2. Types' /\ Disk' /\ Control(r)'
    BY <1>1, <2>1 DEF Inv, Disk, Own, ini
  <2>3. Knows(r)'
    BY <1>1, <2>1 DEF Knows, Inv, Disk
  <2>4. ASSUME NEW s \in Request \ {r} PROVE Control(s)' /\ Knows(s)'
    <3>1. Control(s)'
      BY <1>1 DEF Own, Frame, Inv, Control
    <3>2. Knows(s) /\ Control(s)
      BY DEF Inv
    <3>3. pc[s] \in {"script", "fill"} /\ active[s] /\ file[s] = id[s] => content'[fd[s]] = content[fd[s]]
      BY <1>1, WriterAlone DEF Inv, Disk
    <3>4. Knows(s)'
      BY <1>1, <3>2, <3>3 DEF Own, Frame, Knows, Control
    <3> QED BY <3>1, <3>4
  <2>5. Alone'
    BY <1>1, <2>1 DEF Inv, Own, Frame, Alone
  <2>6. OneName'
    BY <1>1 DEF Inv, Own, Frame, OneName
  <2> QED BY <2>2, <2>3, <2>4, <2>5, <2>6 DEF Inv
<1>2. ASSUME NEW o, Truncate(r, o) PROVE Inv'
  <2>1. Own(r) /\ Writes(Empty) /\ UNCHANGED <<dir, ini, fd, file>> /\ pc[r] = "script" /\ active[r]
        /\ file[r] = id[r]
    BY <1>2, SaveSteps, DataAssumption DEF Truncate, MaySave, Wiped, open
  <2>2. id[r] # none /\ pc'[r] = "fill"
    BY <1>2, <2>1 DEF Truncate, Go, Inv, Types, Control
  <2> HIDE DEF Writes
  <2> QED BY <1>1, <2>1, <2>2
<1>3. ASSUME TruncateReopened(r) PROVE Inv'
  <2>1. Own(r) /\ Writes(Empty) /\ UNCHANGED <<dir, ini, fd, file>> /\ pc[r] = "truncate"
    BY <1>3, StartSteps, DataAssumption DEF TruncateReopened, Wiped, open
  <2>2. id[r] # none /\ file[r] = id[r] /\ pc'[r] = "fill"
    BY <1>3, <2>1 DEF TruncateReopened, Go, Inv, Types, Control
  <2> HIDE DEF Writes
  <2> QED BY <1>1, <2>1, <2>2
<1>4. ASSUME Fill(r) PROVE Inv'
  <2>1. Own(r) /\ Closed(r, op[r]) /\ UNCHANGED <<dir, ini>> /\ pc[r] = "fill"
    BY <1>4, SaveSteps DEF Fill
  <2>2. id[r] # none /\ file[r] = id[r] /\ sess[r] \in Data
    BY <2>1 DEF Inv, Control
  <2>3. \E d : Writes(d)
    BY <1>4, <2>2, DataAssumption DEF Fill
  <2>4. fd'[r] = none /\ Knows(r)'
    BY <2>1, NothingToKnow DEF Inv
  <2> HIDE DEF Writes
  <2> QED BY <1>1, <2>1, <2>2, <2>3, <2>4
<1> QED BY <1>2, <1>3, <1>4

LEMMA RemovingSteps ==
    ASSUME Inv, NEW r \in Request
    PROVE  /\ Unlink(r) => Inv'
           /\ \A i \in Id : Expire(r, i) => Inv'
<1>1. ASSUME NEW i \in Id, dir' = [dir EXCEPT ![i] = none], Own(r), UNCHANGED <<content, ini>>,
             \/ fd'[r] = none /\ Knows(r)'
             \/ UNCHANGED <<pc, mem, open>>
      PROVE  Inv'
  <2> USE DEF Inv, Own, Frame, ini, mem, open
  <2>1. Types' /\ Disk' /\ Control(r)'
    BY <1>1 DEF Disk
  <2>2. \A s \in Request : Control(s)' /\ Knows(s)'
    BY <1>1, <2>1 DEF Control, Knows
  <2>3. Alone'
    BY <1>1 DEF Alone
  <2>4. OneName'
    <3>1. \A j \in Id : dir'[j] \in {none, dir[j]}
      BY <1>1 DEF Disk
    <3> QED BY <1>1, <3>1 DEF OneName
  <2> QED BY <2>1, <2>2, <2>3, <2>4
<1>2. ASSUME Unlink(r) PROVE Inv'
  <2>1. id[r] \in Id
    BY <1>2 DEF Unlink, Inv, Control, Types
  <2> QED BY <1>1, <1>2, <2>1, EndSteps, NothingToKnow DEF Unlink, Inv
<1>3. ASSUME NEW i \in Id, Expire(r, i) PROVE Inv'
  BY <1>1, <1>3, EndSteps DEF Expire
<1> QED BY <1>2, <1>3

-----------------------------------------------------------------------------
LEMMA InitInv == Init => Inv
<1> SUFFICES ASSUME Init PROVE Inv
  OBVIOUS
<1>1. Types /\ Disk
  BY DataAssumption DEF Init, Types, Disk, Pc, Op
<1>2. \A r \in Request : Control(r) /\ Knows(r)
  BY DEF Init, Control, Knows
<1>3. Alone /\ OneName
  BY DEF Init, Alone, OneName
<1> QED BY <1>1, <1>2, <1>3 DEF Inv

LEMMA NextInv == Inv /\ [Next]_vars => Inv'
<1> SUFFICES ASSUME Inv, [Next]_vars PROVE Inv'
  OBVIOUS
<1>1. CASE UNCHANGED vars
  BY <1>1 DEF vars, mem, open, disk, ini, Inv, Types, Disk, Control, Knows, Alone, OneName
<1>2. ASSUME NEW r \in Request, Script(r) PROVE Inv'
  BY <1>2, QuietSteps, RemovingSteps, ClosingSteps, LeavingSteps, WritingSteps DEF Script
<1>3. ASSUME NEW r \in Request, Continue(r) PROVE Inv'
  BY <1>3, QuietSteps, OpeningSteps, ClosingSteps, LeavingSteps, WritingSteps, RemovingSteps
  DEF Continue
<1>4. ASSUME NEW r \in Request, End(r) PROVE Inv'
  BY <1>4, ClosingSteps, LeavingSteps, WritingSteps DEF End, Finish
<1>5. ASSUME NEW r \in Request, Begin(r) \/ Lock(r) \/ Kill(r) PROVE Inv'
  BY <1>5, QuietSteps, OpeningSteps, ClosingSteps DEF Kill
<1> QED BY <1>1, <1>2, <1>3, <1>4, <1>5 DEF Next

(* Every reachable state satisfies Inv: what a request with a session open
   believes of its file is what the file holds, and it believes it alone
   (files.rs:152 flock, mod.rs:1090 save_state). *)
THEOREM Invariant == Spec => []Inv
  BY InitInv, NextInv, PTL DEF Spec

(* The request's variables keep their types, and an open file is the one of
   the session it was opened for (files.rs Files). *)
THEOREM TypeCorrect == Spec => []TypeOK
  BY Invariant, InvIsTyped, PTL
-----------------------------------------------------------------------------
(***************************************************************************)
(* The lock of an active session.                                          *)
(***************************************************************************)

Step(r) == Begin(r) \/ Script(r) \/ Continue(r) \/ Lock(r) \/ End(r) \/ Kill(r)

LEMMA StepIsOwn ==
    ASSUME Inv, NEW r \in Request, Step(r)
    PROVE  Own(r)
<1>1. CASE Script(r)
  BY <1>1, SmallSteps, StartSteps, SaveSteps, EndSteps DEF Script
<1>2. CASE Continue(r)
  BY <1>2, SmallSteps, StartSteps, SaveSteps, EndSteps DEF Continue
<1>3. CASE End(r)
  BY <1>3, SaveSteps, EndSteps DEF End, Finish
<1>4. CASE Begin(r) \/ Lock(r) \/ Kill(r)
  BY <1>4, SmallSteps, StartSteps, EndSteps DEF Kill
<1> QED BY <1>1, <1>2, <1>3, <1>4 DEF Step

LEMMA StaysLocked ==
    ASSUME Inv, NEW r \in Request, Step(r), Lapsed(r)', ~Lapsed(r)
    PROVE  UnlinkFails(r)
<1> USE DEF Lapsed, Go, mem, open
<1> Types /\ Control(r)
  BY DEF Inv
<1>1. ~\E o : Closed(r, o)
  BY ClosedIs
<1>2. ASSUME NEW f \in BOOLEAN PROVE ~EndSession(r, f)
  BY EndSessionIs
<1>3. ~Begin(r) /\ ~Kill(r) /\ ~Finish(r)
  BY <1>2 DEF Begin, Kill, Finish, Gone, Control, Types
<1>4. ~Lock(r) /\ ~Start(r) /\ ~Reset(r) /\ ~Abort(r) /\ \A o : ~Destroy(r, o)
  BY <1>2 DEF Lock, Start, Reset, Abort, Destroy, Types
<1>5. (\A d \in Data : ~Assign(r, d)) /\ \A i \in Id : ~SetId(r, i) /\ ~Expire(r, i)
  BY DEF Assign, SetId, Expire
<1>6. \A o : ~SaveThrows(r, o) /\ ~GivesUp(r, o) /\ ~Touch(r, o) /\ ~Truncate(r, o) /\ ~Reopen(r, o)
  BY <1>1, <1>2 DEF SaveThrows, GivesUp, Touch, Truncate, Reopen, MaySave, Types
<1>7. ~AlreadyOpen(r) /\ ~CloseOther(r) /\ ~OpenExisting(r) /\ ~OpenNew(r) /\ ~OpenFails(r)
  BY <1>1 DEF AlreadyOpen, CloseOther, OpenExisting, OpenNew, OpenFails, Types
<1>8. ~Read(r)
  BY DEF Read, Control
<1>9. ~ReadAndClose(r) /\ ~DecodeFails(r) /\ ~DecodeDies(r) /\ ~TruncateReopened(r) /\ ~Fill(r) /\ ~Unlink(r)
  BY <1>1, <1>2 DEF ReadAndClose, DecodeFails, DecodeDies, TruncateReopened, Fill, Unlink, Types
<1> QED BY <1>3, <1>4, <1>5, <1>6, <1>7, <1>8, <1>9 DEF Step, Script, Continue, End

(* No call gives up the lock of a session it leaves active, but for the
   regeneration whose deletion failed (files.rs:221 destroy). *)
THEOREM LockKept == Spec => KeepsItsLock
<1> DEFINE Kept == \A r \in Request : Lapsed(r)' /\ ~Lapsed(r) => UnlinkFails(r)
<1>1. Inv /\ [Next]_vars => [Kept]_vars
  <2> SUFFICES ASSUME Inv, Next PROVE Kept
    OBVIOUS
  <2>1. PICK q \in Request : Step(q)
    BY DEF Next, Step
  <2>2. Frame(q)
    BY <2>1, StepIsOwn DEF Own
  <2> QED BY <2>1, <2>2, StaysLocked DEF Frame, Lapsed
<1>2. KeepsItsLock <=> [][Kept]_vars
  BY DEF KeepsItsLock
<1> HIDE DEF Kept
<1> QED BY <1>1, <1>2, Invariant, PTL DEF Spec
-----------------------------------------------------------------------------
(***************************************************************************)
(* The refinement.  Owner(i) is the request that holds session i.          *)
(***************************************************************************)

OwnersHold ==
    \A i \in Id :
        /\ Owner(i) \in Request \cup {none}
        /\ \A r \in Request : Owner(i) = r <=> Holds(r, i)

(* A request holds one session. *)
HoldsOne ==
    \A r \in Request, i, j \in Id : Holds(r, i) /\ Holds(r, j) => i = j

LEMMA OwnerIs == Inv => OwnersHold /\ HoldsOne
<1> SUFFICES ASSUME Inv PROVE OwnersHold /\ HoldsOne
  OBVIOUS
<1>1. ASSUME NEW i \in Id
      PROVE  /\ Owner(i) \in Request \cup {none}
             /\ \A r \in Request : Owner(i) = r <=> Holds(r, i)
  <2>1. \A r, s \in Owners(i) : r = s
    BY DEF Inv, Alone, Owners, Locks
  <2>2. \A r \in Request : r \in Owners(i) <=> Holds(r, i)
    BY DEF Owners, Holds
  <2>3. CASE Owners(i) = {}
    BY <2>2, <2>3, NoneAssumption DEF Owner
  <2>4. CASE Owners(i) # {}
    <3>1. Owner(i) \in Owners(i) /\ Owners(i) \subseteq Request
      BY <2>4 DEF Owner, Owners
    <3> QED BY <2>1, <2>2, <3>1
  <2> QED BY <2>3, <2>4
<1>2. HoldsOne
  BY DEF HoldsOne, Holds, Locks, Inv, OneName
<1> QED BY <1>1, <1>2 DEF OwnersHold

LEMMA OwnerIsNext == Inv' => OwnersHold' /\ HoldsOne'
  BY OwnerIs, PTL

(* Session i, as the store has it, is as it was. *)
Same(i) ==
    /\ Stored(i)' = Stored(i) /\ Owner(i)' = Owner(i)
    /\ Known(Owner(i))' = Known(Owner(i))

LEMMA Elsewhere ==
    ASSUME OwnersHold, OwnersHold', NEW r \in Request, Own(r), NEW i \in Id,
           dir'[i] = dir[i], dir[i] = none \/ content'[dir[i]] = content[dir[i]],
           ~Holds(r, i), ~Holds(r, i)'
    PROVE  Same(i)
<1>1. \A s \in Request \ {r} : Holds(s, i)' <=> Holds(s, i)
  BY DEF Own, Frame, Holds, Locks
<1>2. Owner(i)' = Owner(i)
  <2>1. Owner(i) # r /\ Owner(i)' # r
    BY DEF OwnersHold
  <2> QED BY <1>1, <2>1 DEF OwnersHold
<1>3. Stored(i)' = Stored(i)
  BY DEF Stored
<1>4. Known(Owner(i))' = Known(Owner(i))
  BY <1>2 DEF OwnersHold, Known, Own, Frame
<1> QED BY <1>2, <1>3, <1>4 DEF Same

LEMMA BlindIs ==
    ASSUME NEW r \in Request, Own(r)
    PROVE  Blind \subseteq Request /\ Blind' \ {r} = Blind \ {r} /\ Blind' \subseteq Request
  BY DEF Blind, Own, Frame, Lapsed

(* A step of r that leaves the directory and the files alone. *)
LEMMA MapsQuietly ==
    ASSUME Inv, Inv', NEW r \in Request, Own(r), UNCHANGED <<dir, content>>,
           \/ fd'[r] = none /\ (r \in Blind' => fd[r] = none)
           \/ /\ fd'[r] = fd[r] /\ (pc[r] = "flock" <=> pc'[r] = "flock")
              /\ Known(r)' \in {Known(r), none}
              /\ fd[r] # none => (r \in Blind' <=> r \in Blind)
    PROVE  Store!Next \/ UNCHANGED Store!vars
<1> OwnersHold /\ OwnersHold' /\ HoldsOne /\ r # none
  BY OwnerIs, OwnerIsNext, NoneAssumption
<1>1. ASSUME NEW i \in Id, ~Holds(r, i) PROVE Same(i)
  BY <1>1, Elsewhere DEF Holds, Locks
<1>2. CASE \A i \in Id : ~Holds(r, i)
  <2>1. \A i \in Id : Same(i) /\ Owner(i) # r
    BY <1>1, <1>2 DEF OwnersHold
  <2>2. Store!Lapse(Blind')
    BY <2>1, BlindIs DEF Store!Lapse, Store!OwnsNone, Same
  <2> QED BY <2>2, BlindIs DEF Store!Next
<1>3. ASSUME NEW i \in Id, Holds(r, i) PROVE Store!Next \/ UNCHANGED Store!vars
  <2>1. \A j \in Id \ {i} : Same(j)
    BY <1>1, <1>3 DEF HoldsOne
  <2>2. Owner(i) = r /\ Stored(i)' = Stored(i) /\ fd[r] # none
    BY <1>3 DEF OwnersHold, Stored, Holds, Locks
  <2>3. CASE fd'[r] = none
    <3>1. \A s \in Request : ~Holds(s, i)'
      BY <1>3, <2>2, <2>3 DEF OwnersHold, Own, Frame, Holds, Locks
    <3>2. Owner(i)' = none
      BY <3>1 DEF OwnersHold
    <3>3. Known(Owner(i))' = none
      BY <3>2 DEF Known
    <3>4. Blind' \in {Blind, Blind \ {r}}
      BY <2>2, <2>3, BlindIs
    <3>5. Store!Release(r, i)
      BY <2>1, <2>2, <3>2, <3>3, <3>4 DEF Store!Release, Same
    <3> QED BY <3>5 DEF Store!Next
  <2>4. CASE fd'[r] # none
    <3>1. Owner(i)' = r
      BY <1>3, <2>4 DEF OwnersHold, Holds, Locks
    <3>2. Known(Owner(i))' = Known(r)' /\ Known(Owner(i)) = Known(r)
      BY <2>2, <3>1 DEF Known
    <3>3. Blind' = Blind
      BY <2>2, <2>4, BlindIs
    <3>4. CASE Known(r)' = Known(r)
      <4>1. \A j \in Id : Same(j)
        BY <2>1, <2>2, <3>1, <3>2, <3>4 DEF Same
      <4> QED BY <3>3, <4>1 DEF Store!vars, Same
    <3>5. CASE Known(r)' = none
      <4>1. Store!Forget(r, i)
        BY <2>1, <2>2, <3>1, <3>2, <3>3, <3>5 DEF Store!Forget, Same
      <4> QED BY <4>1 DEF Store!Next
    <3> QED BY <2>4, <3>4, <3>5
  <2> QED BY <2>3, <2>4
<1> QED BY <1>2, <1>3
(* What a step of a request is to the store: a step of it, or none. *)
Maps == Store!Next \/ UNCHANGED Store!vars

LEMMA KeepingMaps ==
    ASSUME Inv, Inv', NEW r \in Request, Own(r)
    PROVE  /\ \A d \in Data : Assign(r, d) => Maps
           /\ \A i \in Id : SetId(r, i) => Maps
           /\ AlreadyOpen(r) => Maps
           /\ Start(r) => Maps
           /\ Reset(r) => Maps
           /\ DecodeDies(r) => Maps
           /\ \A o : SaveThrows(r, o) => Maps
<1> USE DEF Maps, Go, mem, open, disk
<1> Types /\ Control(r) /\ Control(r)' /\ Types' /\ r # none
  BY NoneAssumption DEF Inv
<1> USE DEF Types, Known, Blind, Lapsed
<1>1. ASSUME NEW d \in Data, Assign(r, d) PROVE Maps
  BY <1>1, MapsQuietly DEF Assign
<1>2. ASSUME NEW i \in Id, SetId(r, i) PROVE Maps
  BY <1>2, MapsQuietly DEF SetId, Control
<1>3. ASSUME AlreadyOpen(r) PROVE Maps
  BY <1>3, MapsQuietly, NoneAssumption DEF AlreadyOpen, IsOpen, Control, Saving
<1>4. ASSUME Start(r) PROVE Maps
  BY <1>4, MapsQuietly, NoneAssumption DEF Start, Control, Saving
<1>5. ASSUME Reset(r) PROVE Maps
  BY <1>5, MapsQuietly, NoneAssumption DEF Reset, Control, Saving
<1>6. ASSUME DecodeDies(r) PROVE Maps
  BY <1>6, MapsQuietly, EndSessionIs, NoneAssumption DEF DecodeDies, Control, Saving
<1>7. ASSUME NEW o, SaveThrows(r, o) PROVE Maps
  <2>1. CASE o = "keep"
    BY <1>7, <2>1, MapsQuietly DEF SaveThrows, MaySave
  <2>2. CASE o # "keep"
    BY <1>7, <2>2, MapsQuietly, EndSessionIs, NoneAssumption DEF SaveThrows, MaySave, Control, Saving
  <2> QED BY <2>1, <2>2
<1> QED BY <1>1, <1>2, <1>3, <1>4, <1>5, <1>6, <1>7

(* A request is blind only where it has a session, or is saving one. *)
LEMMA NotBlind ==
    ASSUME NEW r \in Request, r \in Blind'
    PROVE  \/ pc'[r] = "script" /\ active'[r]
           \/ op'[r] \in Saving
  BY DEF Blind, Lapsed

LEMMA ClosingMaps ==
    ASSUME Inv, Inv', NEW r \in Request, Own(r)
    PROVE  /\ Begin(r) => Maps
           /\ CloseOther(r) => Maps
           /\ OpenFails(r) => Maps
           /\ ReadAndClose(r) => Maps
           /\ \A o : GivesUp(r, o) \/ Touch(r, o) => Maps
           /\ \A o : Reopen(r, o) => Maps
           /\ Abort(r) => Maps
           /\ \A o : Destroy(r, o) => Maps
           /\ DecodeFails(r) => Maps
           /\ UnlinkFails(r) => Maps
           /\ Gone(r) => Maps
<1> Types /\ Control(r) /\ Control(r)' /\ Types' /\ r # none
  BY NoneAssumption DEF Inv
<1>1. ASSUME UNCHANGED disk, fd'[r] = none, r \in Blind' => fd[r] = none PROVE Maps
  BY <1>1, MapsQuietly DEF Maps, disk
<1>2. \A o : Closed(r, o) => fd'[r] = none /\ r \notin Blind'
  BY ClosedIs, NotBlind, NoneAssumption DEF Saving
<1>3. \A f \in BOOLEAN : EndSession(r, f) => r \notin Blind'
  BY EndSessionIs, NotBlind, NoneAssumption DEF Saving
<1>4. CloseFile(r) => fd'[r] = none
  BY CloseFileIs
<1>5. ASSUME Begin(r) PROVE Maps
  BY <1>1, <1>5 DEF Begin, open, Control
<1>6. ASSUME CloseOther(r) PROVE Maps
  BY <1>1, <1>4, <1>6, NotBlind DEF CloseOther, Control, mem
<1>7. ASSUME OpenFails(r) PROVE Maps
  BY <1>1, <1>2, <1>7 DEF OpenFails
<1>8. ASSUME ReadAndClose(r) PROVE Maps
  BY <1>1, <1>3, <1>4, <1>8 DEF ReadAndClose
<1>9. ASSUME NEW o, GivesUp(r, o) \/ Touch(r, o) PROVE Maps
  BY <1>1, <1>2, <1>9 DEF GivesUp, Touch
<1>10. ASSUME NEW o, Reopen(r, o) PROVE Maps
  BY <1>1, <1>10 DEF Reopen, MaySave, Control, open
<1>11. ASSUME Abort(r) PROVE Maps
  BY <1>1, <1>3, <1>4, <1>11 DEF Abort
<1>12. ASSUME NEW o, Destroy(r, o) PROVE Maps
  BY <1>1, <1>4, <1>12, NotBlind DEF Destroy, LetGo, MaySave, Control, Go, Types, Saving, open
<1>13. ASSUME DecodeFails(r) PROVE Maps
  BY <1>1, <1>4, <1>13, NotBlind DEF DecodeFails, LetGo, Control, Go, Types, Saving
<1>14. ASSUME UnlinkFails(r) PROVE Maps
  BY <1>1, <1>4, <1>14 DEF UnlinkFails, Control, open
<1>15. ASSUME Gone(r) PROVE Maps
  BY <1>1, <1>3, <1>4, <1>15 DEF Gone
<1> QED BY <1>5, <1>6, <1>7, <1>8, <1>9, <1>10, <1>11, <1>12, <1>13, <1>14, <1>15
LEMMA OpeningMaps ==
    ASSUME Inv, Inv', NEW r \in Request, Own(r)
    PROVE  /\ OpenExisting(r) => Maps
           /\ OpenNew(r) => Maps
           /\ Lock(r) => Maps
<1> OwnersHold /\ OwnersHold' /\ HoldsOne /\ HoldsOne' /\ r # none
  BY OwnerIs, OwnerIsNext, NoneAssumption
<1> Types /\ Disk /\ Control(r) /\ Control(r)'
  BY DEF Inv
<1>1. ASSUME OpenExisting(r) PROVE Maps
  <2>1. /\ UNCHANGED <<dir, content, op>> /\ pc[r] = "open" /\ pc'[r] = "flock"
        /\ fd[r] = none
    BY <1>1 DEF OpenExisting, Opened, Go, Types, Control, mem
  <2>2. \A i \in Id : Same(i)
    BY <2>1, Elsewhere DEF Holds, Locks
  <2>3. Blind' = Blind
    BY <2>1, BlindIs DEF Blind, Lapsed
  <2> QED BY <2>2, <2>3 DEF Maps, Store!vars, Same
<1>2. ASSUME OpenNew(r) PROVE Maps
  <2>0. PICK i \in Id : i = id[r]
    BY <1>2 DEF OpenNew, Control, Types
  <2>1. PICK n \in Unused : /\ dir' = [dir EXCEPT ![i] = n]
                            /\ content' = [content EXCEPT ![n] = Empty]
                            /\ fd' = [fd EXCEPT ![r] = n]
    BY <1>2, <2>0 DEF OpenNew
  <2>2. /\ op' = op /\ pc[r] = "open" /\ pc'[r] = "flock" /\ fd[r] = none
        /\ dir[i] = none /\ n \in Inode /\ n # none
        /\ (\A j \in Id : dir[j] # n) /\ (\A s \in Request : fd[s] # n)
    BY <1>2, <2>0, NoneAssumption DEF OpenNew, Go, Types, Control, mem, Unused, Linked
  <2>3. ASSUME NEW j \in Id, j # i PROVE Same(j)
    <3>1. dir'[j] = dir[j] /\ (dir[j] = none \/ content'[dir[j]] = content[dir[j]])
      BY <2>1, <2>2, <2>3 DEF Disk
    <3> QED BY <2>2, <3>1, Elsewhere DEF Holds, Locks
  <2>4. Stored(i) = none /\ Stored(i)' = Empty
    BY <2>1, <2>2 DEF Stored, Disk
  <2>5. \A s \in Request : ~Holds(s, i) /\ ~Holds(s, i)'
    BY <2>1, <2>2 DEF Holds, Locks, Disk, Own, Frame
  <2>6. Owner(i) = none /\ Owner(i)' = none
    BY <2>2, <2>5 DEF OwnersHold
  <2>7. Known(Owner(i)) = none /\ Known(Owner(i))' = none
    BY <2>6 DEF Known
  <2>8. Blind' = Blind
    BY <2>2, BlindIs DEF Blind, Lapsed
  <2>9. Store!Create(i)
    BY <2>2, <2>3, <2>4, <2>6, <2>7, <2>8 DEF Store!Create, Same
  <2> QED BY <2>2, <2>9 DEF Maps, Store!Next
<1>3. ASSUME Lock(r) PROVE Maps
  <2>1. /\ UNCHANGED <<dir, content, fd, op, seen>> /\ pc[r] = "flock"
        /\ pc'[r] = IF op[r] \in Saving THEN "truncate" ELSE "read"
        /\ op[r] \notin Saving => seen[r] = none
        /\ \A s \in Request : ~Locks(s, fd[r])
    BY <1>3 DEF Lock, LockIsFree, Go, Types, Control, mem, open, disk
  <2>2. Blind' = Blind
    BY <2>1, BlindIs DEF Blind, Lapsed
  <2>3. \A i \in Id : ~Holds(r, i)
    BY <2>1 DEF Holds, Locks
  <2>4. ASSUME NEW i \in Id, ~Holds(r, i)' PROVE Same(i)
    BY <2>1, <2>3, <2>4, Elsewhere
  <2>5. CASE \A i \in Id : ~Holds(r, i)'
    BY <2>2, <2>4, <2>5 DEF Maps, Store!vars, Same
  <2>6. ASSUME NEW i \in Id, Holds(r, i)' PROVE Maps
    <3>1. \A j \in Id \ {i} : Same(j)
      BY <2>4, <2>6 DEF HoldsOne
    <3>2. dir[i] # none /\ dir[i] = fd[r]
      BY <2>1, <2>6 DEF Holds, Locks
    <3>3. Stored(i) # none /\ Stored(i)' = Stored(i)
      BY <2>1, <3>2, DataAssumption DEF Stored, Disk
    <3>4. Owner(i) = none /\ Owner(i)' = r
      BY <2>1, <2>6, <3>2 DEF OwnersHold, Holds
    <3>5. Known(Owner(i)) = none /\ Known(Owner(i))' = none
      BY <2>1, <3>4 DEF Known
    <3>6. Store!OwnsNone(r)
      BY <2>3 DEF Store!OwnsNone, OwnersHold
    <3>7. Store!Acquire(r, i)
      BY <2>2, <3>1, <3>3, <3>4, <3>5, <3>6 DEF Store!Acquire, Same
    <3> QED BY <3>7 DEF Maps, Store!Next
  <2> QED BY <2>5, <2>6
<1> QED BY <1>1, <1>2, <1>3

LEMMA ReadMaps ==
    ASSUME Inv, Inv', NEW r \in Request, Own(r), Read(r)
    PROVE  Maps
<1> OwnersHold /\ OwnersHold' /\ HoldsOne /\ HoldsOne' /\ r # none
  BY OwnerIs, OwnerIsNext, NoneAssumption
<1>1. /\ UNCHANGED <<dir, content, fd>> /\ pc[r] = "read" /\ pc'[r] = "script"
      /\ op[r] \notin Saving /\ op'[r] = none /\ seen'[r] = content[fd[r]]
      /\ file'[r] = id'[r]
  BY NoneAssumption DEF Read, Go, Inv, Types, Control, open, disk, Saving
<1>2. Blind' = Blind
  BY <1>1, BlindIs, NoneAssumption DEF Blind, Lapsed, Saving
<1>3. ASSUME NEW i \in Id, ~Holds(r, i) PROVE Same(i)
  BY <1>1, <1>3, Elsewhere DEF Holds, Locks
<1>4. CASE \A i \in Id : ~Holds(r, i)
  BY <1>2, <1>3, <1>4 DEF Maps, Store!vars, Same
<1>5. ASSUME NEW i \in Id, Holds(r, i) PROVE Maps
  <2>1. \A j \in Id \ {i} : Same(j)
    BY <1>3, <1>5 DEF HoldsOne
  <2>2. Holds(r, i)' /\ dir[i] # none /\ fd[r] = dir[i]
    BY <1>1, <1>5 DEF Holds, Locks
  <2>3. Owner(i) = r /\ Owner(i)' = r
    BY <1>5, <2>2 DEF OwnersHold
  <2>4. Stored(i)' = Stored(i) /\ Known(Owner(i))' = Stored(i)
    BY <1>1, <2>2, <2>3 DEF Stored, Known
  <2>5. Store!Read(r, i)
    BY <1>2, <2>1, <2>3, <2>4 DEF Store!Read, Same
  <2> QED BY <2>5 DEF Maps, Store!Next
<1> QED BY <1>4, <1>5

(* r, past flock() on its file, cuts it to nothing. *)
LEMMA WipeMaps ==
    ASSUME Inv, Inv', NEW r \in Request, Own(r), UNCHANGED <<dir, fd>>,
           content' = [content EXCEPT ![fd[r]] = Empty], fd[r] \in Inode,
           pc[r] # "flock", pc'[r] = "fill",
           Known(r) = content[fd[r]] \/ r \in Blind
    PROVE  Maps
<1> OwnersHold /\ OwnersHold' /\ HoldsOne /\ r # none /\ Disk
  BY OwnerIs, OwnerIsNext, NoneAssumption DEF Inv
<1>1. Blind' = Blind \ {r}
  BY BlindIs DEF Blind, Lapsed
<1>2. ASSUME NEW i \in Id, ~Holds(r, i) PROVE Same(i)
  <2>1. dir[i] # fd[r] \/ dir[i] = none
    BY <1>2 DEF Holds, Locks
  <2>2. dir[i] = none \/ content'[dir[i]] = content[dir[i]]
    BY <2>1 DEF Disk
  <2> QED BY <1>2, <2>2, Elsewhere DEF Holds, Locks
<1>3. CASE \A i \in Id : ~Holds(r, i)
  <2>1. Store!Lapse(Blind')
    BY <1>1, <1>2, <1>3 DEF Store!Lapse, Same
  <2> QED BY <2>1, BlindIs DEF Maps, Store!Next
<1>4. ASSUME NEW i \in Id, Holds(r, i) PROVE Maps
  <2>1. \A j \in Id \ {i} : Same(j)
    BY <1>2, <1>4 DEF HoldsOne
  <2>2. Holds(r, i)' /\ dir[i] # none /\ fd[r] = dir[i]
    BY <1>4 DEF Holds, Locks
  <2>3. Owner(i) = r /\ Owner(i)' = r
    BY <1>4, <2>2 DEF OwnersHold
  <2>4. Stored(i) = content[fd[r]] /\ Stored(i)' = Empty
    BY <2>2 DEF Stored, Disk
  <2>5. Known(Owner(i)) = Known(r) /\ Known(Owner(i))' = Empty
    BY <2>3 DEF Known
  <2>6. Store!Wipe(r, i)
    BY <1>1, <2>1, <2>3, <2>4, <2>5 DEF Store!Wipe, Same
  <2> QED BY <2>6 DEF Maps, Store!Next
<1> QED BY <1>3, <1>4

LEMMA WritingMaps ==
    ASSUME Inv, Inv', NEW r \in Request, Own(r)
    PROVE  /\ \A o : Truncate(r, o) => Maps
           /\ TruncateReopened(r) => Maps
           /\ Fill(r) => Maps
<1> Types /\ Disk /\ Control(r) /\ Control(r)' /\ Knows(r) /\ r # none
  BY NoneAssumption DEF Inv
<1>1. ASSUME NEW o, Truncate(r, o) PROVE Maps
  <2>1. /\ UNCHANGED <<dir, fd>> /\ content' = [content EXCEPT ![fd[r]] = Empty]
        /\ pc[r] = "script" /\ active[r] /\ file[r] = id[r] /\ id[r] # none /\ pc'[r] = "fill"
    BY <1>1 DEF Truncate, MaySave, Wiped, Go, Types, Control, open
  <2>2. fd[r] \in Inode /\ Known(r) = content[fd[r]]
    BY <2>1, WriterAlone DEF Knows, Known
  <2> QED BY <2>1, <2>2, WipeMaps
<1>2. ASSUME TruncateReopened(r) PROVE Maps
  <2>1. /\ UNCHANGED <<dir, fd>> /\ content' = [content EXCEPT ![fd[r]] = Empty]
        /\ pc[r] = "truncate" /\ file[r] = id[r] /\ id[r] # none /\ pc'[r] = "fill"
        /\ op[r] \in Saving
    BY <1>2 DEF TruncateReopened, Wiped, Go, Types, Control, open
  <2>2. fd[r] \in Inode /\ r \in Blind
    BY <2>1, WriterAlone DEF Blind
  <2> QED BY <2>1, <2>2, WipeMaps
<1>3. ASSUME Fill(r) PROVE Maps
  <2> OwnersHold /\ OwnersHold' /\ HoldsOne
    BY OwnerIs, OwnerIsNext
  <2>1. PICK d \in Data : content' = [content EXCEPT ![fd[r]] = d]
    BY <1>3, DataAssumption DEF Fill, Control
  <2>2. /\ UNCHANGED dir /\ pc[r] = "fill" /\ file[r] = id[r] /\ id[r] # none
        /\ Closed(r, op[r])
    BY <1>3 DEF Fill, Control
  <2>3. fd[r] \in Inode /\ fd'[r] = none /\ content[fd[r]] = Empty
    BY <2>2, WriterAlone, ClosedIs DEF Knows
  <2>4. r \notin Blind /\ r \notin Blind'
    BY <2>2, ClosedIs, NotBlind, NoneAssumption DEF Blind, Lapsed, Saving
  <2>5. Blind' = Blind
    BY <2>4, BlindIs
  <2>6. ASSUME NEW i \in Id, ~Holds(r, i) PROVE Same(i)
    <3>1. dir[i] # fd[r] \/ dir[i] = none
      BY <2>2, <2>6 DEF Holds, Locks
    <3>2. dir[i] = none \/ content'[dir[i]] = content[dir[i]]
      BY <2>1, <3>1 DEF Disk
    <3> QED BY <2>2, <2>3, <2>6, <3>2, Elsewhere DEF Holds, Locks
  <2>7. CASE \A i \in Id : ~Holds(r, i)
    BY <2>5, <2>6, <2>7 DEF Maps, Store!vars, Same
  <2>8. ASSUME NEW i \in Id, Holds(r, i) PROVE Maps
    <3>1. \A j \in Id \ {i} : Same(j)
      BY <2>6, <2>8 DEF HoldsOne
    <3>2. dir[i] # none /\ fd[r] = dir[i] /\ Owner(i) = r
      BY <2>8 DEF Holds, Locks, OwnersHold
    <3>3. \A s \in Request : ~Holds(s, i)'
      BY <2>2, <2>3, <2>8 DEF OwnersHold, Own, Frame, Holds, Locks
    <3>4. Owner(i)' = none
      BY <3>3 DEF OwnersHold
    <3>5. Known(Owner(i)) = Empty /\ Known(Owner(i))' = none
      BY <2>2, <3>2, <3>4 DEF Known
    <3>6. Stored(i) = Empty /\ Stored(i)' = d
      BY <2>1, <2>2, <2>3, <3>2 DEF Stored, Disk
    <3>7. Store!Commit(r, i, d)
      BY <2>5, <3>1, <3>2, <3>4, <3>5, <3>6 DEF Store!Commit, Same
    <3> QED BY <3>7 DEF Maps, Store!Next
  <2> QED BY <2>7, <2>8
<1> QED BY <1>1, <1>2, <1>3

LEMMA RemovingMaps ==
    ASSUME Inv, Inv', NEW r \in Request, Own(r)
    PROVE  /\ Unlink(r) => Maps
           /\ \A i \in Id : Expire(r, i) => Maps
<1> OwnersHold /\ OwnersHold' /\ Types /\ Disk /\ Control(r) /\ r # none
  BY OwnerIs, OwnerIsNext, NoneAssumption DEF Inv
<1>1. ASSUME NEW i \in Id, dir' = [dir EXCEPT ![i] = none], content' = content, Blind' = Blind,
             \A j \in Id \ {i} : (Holds(r, j)' <=> Holds(r, j)) /\ (Holds(r, j) => Known(r)' = Known(r))
      PROVE  Maps
  <2>1. ASSUME NEW j \in Id, j # i PROVE Same(j)
    <3>1. dir'[j] = dir[j]
      BY <1>1, <2>1 DEF Disk
    <3>2. CASE ~Holds(r, j)
      BY <1>1, <2>1, <3>1, <3>2, Elsewhere
    <3>3. CASE Holds(r, j)
      <4>1. Owner(j) = r /\ Owner(j)' = r
        BY <1>1, <2>1, <3>3 DEF OwnersHold
      <4> QED BY <1>1, <2>1, <3>1, <3>3, <4>1 DEF Same, Stored, Known
    <3> QED BY <3>2, <3>3
  <2>2. Stored(i)' = none /\ \A s \in Request : ~Holds(s, i)'
    BY <1>1 DEF Stored, Holds, Disk
  <2>3. Owner(i)' = none
    BY <2>2 DEF OwnersHold
  <2>4. Known(Owner(i))' = none
    BY <2>3 DEF Known
  <2>5. Store!Remove(i)
    BY <1>1, <2>1, <2>2, <2>3, <2>4 DEF Store!Remove, Same
  <2> QED BY <2>5 DEF Maps, Store!Next
<1>2. ASSUME Unlink(r) PROVE Maps
  <2>0. PICK i \in Id : i = id[r]
    BY <1>2 DEF Unlink, Control, Types
  <2>1. /\ fd[r] = none /\ pc[r] = "unlink" /\ op[r] \in {"destroy", "renew"}
        /\ dir' = [dir EXCEPT ![i] = none] /\ content' = content /\ Closed(r, op[r])
    BY <1>2, <2>0 DEF Unlink, Control, Types
  <2>2. fd'[r] = none /\ r \notin Blind /\ r \notin Blind'
    BY <2>1, ClosedIs, NotBlind, NoneAssumption DEF Blind, Lapsed, Saving
  <2>3. \A j \in Id : ~Holds(r, j) /\ ~Holds(r, j)'
    BY <2>1, <2>2 DEF Holds, Locks
  <2>4. Blind' = Blind
    BY <2>2, BlindIs
  <2> QED BY <1>1, <2>1, <2>3, <2>4
<1>3. ASSUME NEW i \in Id, Expire(r, i) PROVE Maps
  <2>1. dir' = [dir EXCEPT ![i] = none] /\ UNCHANGED <<content, pc, op, active, id, seen, file, fd>>
    BY <1>3 DEF Expire, mem, open
  <2>2. Blind' = Blind /\ Known(r)' = Known(r)
    BY <2>1 DEF Blind, Lapsed, Known
  <2>3. \A j \in Id \ {i} : Holds(r, j)' <=> Holds(r, j)
    BY <2>1 DEF Holds, Locks, Disk
  <2> QED BY <1>1, <2>1, <2>2, <2>3
<1> QED BY <1>2, <1>3

-----------------------------------------------------------------------------
LEMMA InitMaps == Init => Store!Init
<1> SUFFICES ASSUME Init PROVE Store!Init
  OBVIOUS
<1>1. \A i \in Id : Stored(i) = none /\ Owners(i) = {}
  BY DEF Init, Stored, Owners
<1>2. \A i \in Id : Owner(i) = none /\ Known(Owner(i)) = none
  BY <1>1 DEF Owner, Known
<1>3. Blind = {}
  BY NoneAssumption DEF Init, Blind, Lapsed, Saving
<1> QED BY <1>1, <1>2, <1>3 DEF Store!Init

LEMMA StepMaps == Inv /\ Inv' /\ [Next]_vars => [Store!Next]_(Store!vars)
<1> SUFFICES ASSUME Inv, Inv', [Next]_vars PROVE Maps
  BY DEF Maps
<1>1. CASE UNCHANGED vars
  BY <1>1 DEF vars, mem, open, disk, ini, Maps, Store!vars, Stored, Owner, Owners, Locks,
     Known, Blind, Lapsed
<1>2. ASSUME NEW r \in Request, Step(r) PROVE Maps
  <2>1. Own(r)
    BY <1>2, StepIsOwn
  <2>2. CASE Script(r)
    BY <2>1, <2>2, KeepingMaps, ClosingMaps, WritingMaps, RemovingMaps DEF Script
  <2>3. CASE Continue(r)
    BY <2>1, <2>3, KeepingMaps, ClosingMaps, OpeningMaps, ReadMaps, WritingMaps, RemovingMaps
    DEF Continue
  <2>4. CASE End(r)
    BY <2>1, <2>4, KeepingMaps, ClosingMaps, WritingMaps DEF End, Finish
  <2>5. CASE Begin(r) \/ Lock(r) \/ Kill(r)
    BY <2>1, <2>5, ClosingMaps, OpeningMaps DEF Kill
  <2> QED BY <1>2, <2>2, <2>3, <2>4, <2>5 DEF Step
<1> QED BY <1>1, <1>2 DEF Next, Step

(* The files save handler is a store whose sessions have one owner each, and
   whose owner writes over what it has read: whatever the requests, IDs and
   contents, whoever is killed, and whatever is deleted meanwhile
   (files.rs:132 open_file, files.rs:187 write, mod.rs:1090 save_state). *)
THEOREM Refines == Spec => ImplementsStore
  BY InitMaps, StepMaps, Invariant, PTL DEF Spec, ImplementsStore, Store!Spec
=============================================================================
