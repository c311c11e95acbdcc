---------------------------- MODULE SessionStore ----------------------------
(***************************************************************************)
(* What the files save handler of the session extension promises to the    *)
(* requests that share a store (files.rs:1): a session has one owner at a  *)
(* time, and what its owner overwrites is what it has read.  A session     *)
(* that is removed has no owner any more, whoever was using it.            *)
(***************************************************************************)
CONSTANTS
    Request,    \* the processes that run requests
    Id,         \* the session IDs
    Data,       \* what a session holds, encoded
    Empty,      \* the encoding of no variables
    none

VARIABLES
    data,       \* data[i]: what session i holds, none when there is none
    owner,      \* owner[i]: the request session i belongs to
    view,       \* view[i]: what the owner knows session i to hold
    lapsed      \* requests that lost their session in a failed deletion

vars == <<data, owner, view, lapsed>>

Init ==
    /\ data = [i \in Id |-> none]
    /\ owner = [i \in Id |-> none]
    /\ view = [i \in Id |-> none]
    /\ lapsed = {}

OwnsNone(r) == \A i \in Id : owner[i] # r

(* A session nobody has used comes into being, empty. *)
Create(i) ==
    /\ data[i] = none
    /\ data' = [data EXCEPT ![i] = Empty]
    /\ UNCHANGED <<owner, view, lapsed>>

(* A request has one session at a time, hence never waits for one while it
   keeps another one from somebody. *)
Acquire(r, i) ==
    /\ data[i] # none /\ owner[i] = none
    /\ OwnsNone(r)
    /\ owner' = [owner EXCEPT ![i] = r]
    /\ UNCHANGED <<data, view, lapsed>>

Read(r, i) ==
    /\ owner[i] = r
    /\ view' = [view EXCEPT ![i] = data[i]]
    /\ UNCHANGED <<data, owner, lapsed>>

(* The first half of a write.  Only a request that lapsed overwrites what it
   has not read. *)
Wipe(r, i) ==
    /\ owner[i] = r
    /\ view[i] = data[i] \/ r \in lapsed
    /\ data' = [data EXCEPT ![i] = Empty]
    /\ view' = [view EXCEPT ![i] = Empty]
    /\ lapsed' = lapsed \ {r}
    /\ UNCHANGED owner

(* The second half, which may fail, and the end of the session's use. *)
Commit(r, i, d) ==
    /\ owner[i] = r
    /\ view[i] = data[i] /\ data[i] = Empty
    /\ data' = [data EXCEPT ![i] = d]
    /\ owner' = [owner EXCEPT ![i] = none]
    /\ view' = [view EXCEPT ![i] = none]
    /\ UNCHANGED lapsed

(* The owner takes the session up again. *)
Forget(r, i) ==
    /\ owner[i] = r
    /\ view' = [view EXCEPT ![i] = none]
    /\ UNCHANGED <<data, owner, lapsed>>

(* The session's use ends as it is: nothing to write, or the end of the
   process, in the middle of a write too. *)
Release(r, i) ==
    /\ owner[i] = r
    /\ owner' = [owner EXCEPT ![i] = none]
    /\ view' = [view EXCEPT ![i] = none]
    /\ lapsed' \in {lapsed, lapsed \ {r}}
    /\ UNCHANGED data

Remove(i) ==
    /\ data' = [data EXCEPT ![i] = none]
    /\ owner' = [owner EXCEPT ![i] = none]
    /\ view' = [view EXCEPT ![i] = none]
    /\ UNCHANGED lapsed

(* A request without a session goes on as if it had one, or stops to. *)
Lapse(S) ==
    /\ \A r \in S \ lapsed : OwnsNone(r)
    /\ lapsed' = S
    /\ UNCHANGED <<data, owner, view>>

Next ==
    \/ \E i \in Id : Create(i) \/ Remove(i)
    \/ \E r \in Request, i \in Id :
         \/ Acquire(r, i) \/ Read(r, i) \/ Wipe(r, i)
         \/ Forget(r, i) \/ Release(r, i)
         \/ \E d \in Data : Commit(r, i, d)
    \/ \E S \in SUBSET Request : Lapse(S)

Spec == Init /\ [][Next]_vars
=============================================================================
