------------------------------ MODULE Session -------------------------------
(***************************************************************************)
(* Sessions with the files save handler (builtins/session/mod.rs,          *)
(* files.rs).  Requests, each a process of its own, share a directory with *)
(* one file per session ID, which a request locks with flock() while its   *)
(* session is active.                                                      *)
(*                                                                         *)
(* A step ends where another request may come between: after open(2),      *)
(* flock(2), read, ftruncate, write and unlink.  Between two session calls *)
(* the script runs; shutdown functions, destructors and output handlers    *)
(* count as script too, because Vm::shutdown calls the extension's         *)
(* shutdown after all of them.                                             *)
(***************************************************************************)
EXTENDS FiniteSets

CONSTANTS
    Request,    \* the processes that run requests
    Id,         \* the session IDs
    Data,       \* what $_SESSION holds, encoded
    Empty,      \* the encoding of no variables
    Inode,      \* the session files there have room to be
    none

ASSUME DataAssumption == Empty \in Data /\ none \notin Data
ASSUME NoneAssumption ==
    none \notin Request \cup Id \cup Inode \cup
              {"commit", "end", "keep", "start", "reset", "regenerate", "destroy", "renew"}

VARIABLES
    pc,         \* where each request is
    op,         \* the session call it is in
    active,     \* Sess.active
    id,         \* Sess.id
    sess,       \* $_SESSION, while a session is active
    seen,       \* Sess.data_read, while a session is active
    file,       \* Files.file: the ID the open file belongs to
    fd,         \* Files.file: the file itself
    dir,        \* the save directory: the file of each ID
    content,    \* what each file holds
    strict,     \* session.use_strict_mode
    lazy        \* session.lazy_write

mem == <<op, active, id, sess, seen>>
open == <<file, fd>>
disk == <<dir, content>>
ini == <<strict, lazy>>
vars == <<pc, mem, open, disk, ini>>

Init ==
    /\ pc = [r \in Request |-> "idle"]
    /\ op = [r \in Request |-> none]
    /\ active = [r \in Request |-> FALSE]
    /\ id = [r \in Request |-> none]
    /\ sess = [r \in Request |-> none]
    /\ seen = [r \in Request |-> none]
    /\ file = [r \in Request |-> none]
    /\ fd = [r \in Request |-> none]
    /\ dir = [i \in Id |-> none]
    /\ content = [n \in Inode |-> Empty]
    /\ strict \in BOOLEAN
    /\ lazy \in BOOLEAN

Go(r, p) == pc' = [pc EXCEPT ![r] = p]

-----------------------------------------------------------------------------
(* The kernel: a file's lock belongs to the one process past flock(). *)
Locks(r, n) == fd[r] = n /\ pc[r] # "flock"
Linked(n) == \E i \in Id : dir[i] = n
Unused == {n \in Inode : ~Linked(n) /\ \A r \in Request : fd[r] # n}

(* Closing the file releases its lock. *)
CloseFile(r) ==
    /\ file' = [file EXCEPT ![r] = none]
    /\ fd' = [fd EXCEPT ![r] = none]

(* IDs are random: a new one is nobody's. *)
NewIds == {i \in Id : dir[i] = none /\ \A r \in Request : id[r] # i /\ file[r] # i}

(* Mutant: the session stays active. *)
StaysActive(r, forget) ==
    /\ id' = IF forget THEN [id EXCEPT ![r] = none] ELSE id
    /\ sess' = [sess EXCEPT ![r] = none]
    /\ seen' = [seen EXCEPT ![r] = none]
    /\ op' = [op EXCEPT ![r] = none]
    /\ UNCHANGED active

(* end_session: the session is no longer active. *)
EndSession(r, forget) ==
    /\ active' = [active EXCEPT ![r] = FALSE]
    /\ id' = IF forget THEN [id EXCEPT ![r] = none] ELSE id
    /\ sess' = [sess EXCEPT ![r] = none]
    /\ seen' = [seen EXCEPT ![r] = none]
    /\ op' = [op EXCEPT ![r] = none]

-----------------------------------------------------------------------------
Begin(r) ==
    /\ pc[r] = "idle"
    /\ Go(r, "script")
    /\ UNCHANGED <<mem, open, disk, ini>>

(* Script: $_SESSION changes. *)
Assign(r, d) ==
    /\ pc[r] = "script" /\ active[r]
    /\ sess' = [sess EXCEPT ![r] = d]
    /\ UNCHANGED <<pc, op, active, id, seen, open, disk, ini>>

(* session_id(i), refused while a session is active. *)
SetId(r, i) ==
    /\ pc[r] = "script" /\ ~active[r]
    /\ id' = [id EXCEPT ![r] = i]
    /\ UNCHANGED <<pc, op, active, sess, seen, open, disk, ini>>

(* settle_id: the ID `cur`, or a new one when there is none or, in strict
   mode, no file of that name. *)
Settle(r, cur) ==
    IF cur = none \/ (strict /\ dir[cur] = none)
      THEN \E i \in NewIds : id' = [id EXCEPT ![r] = i]
      ELSE id' = [id EXCEPT ![r] = cur]

(* session_start() with the ID set before, or with the one the request came
   with, up to the opening of the file. *)
Start(r) ==
    /\ pc[r] = "script" /\ ~active[r]
    /\ \E came \in Id \cup {none} :
         /\ id[r] # none => came = id[r]
         /\ Settle(r, came)
    /\ active' = [active EXCEPT ![r] = TRUE]
    /\ sess' = [sess EXCEPT ![r] = Empty]
    /\ op' = [op EXCEPT ![r] = "start"]
    /\ Go(r, "open")
    /\ UNCHANGED <<seen, open, disk, ini>>

(* session_reset(): initialize again.  What was read before is not looked at
   any more. *)
Reset(r) ==
    /\ pc[r] = "script" /\ active[r]
    /\ Settle(r, id[r])
    /\ sess' = [sess EXCEPT ![r] = Empty]
    /\ seen' = [seen EXCEPT ![r] = none]
    /\ op' = [op EXCEPT ![r] = "reset"]
    /\ Go(r, "open")
    /\ UNCHANGED <<active, open, disk, ini>>

(* What save_state is called for: session_write_close(), the end of the
   request, a regeneration that keeps the old session. *)
Saving == {"commit", "end", "keep"}

(* mod_close, and what follows it in the calls that close the session's file:
   a regeneration goes on with a new ID, the others end the session. *)
Closed(r, o) ==
    /\ CloseFile(r)
    /\ IF o \in {"keep", "renew"}
         THEN /\ \E i \in NewIds : id' = [id EXCEPT ![r] = i]
              /\ seen' = [seen EXCEPT ![r] = none]
              /\ op' = [op EXCEPT ![r] = "regenerate"]
              /\ UNCHANGED <<active, sess>>
         ELSE EndSession(r, o \in {"start", "reset", "destroy"})
    /\ Go(r, CASE o \in {"keep", "renew"} -> "open"
               [] o = "end" -> "over"
               [] OTHER -> "script")

(* Mutant: whatever file is open. *)
AnyOpen(r) == file[r] # none

IsOpen(r) == file[r] = id[r]

(* open_file, the file of that ID being open. *)
AlreadyOpen(r) ==
    /\ pc[r] = "open" /\ IsOpen(r)
    /\ Go(r, "read")
    /\ UNCHANGED <<mem, open, disk, ini>>

(* open_file lets the file of another ID go first. *)
CloseOther(r) ==
    /\ pc[r] = "open" /\ file[r] # none /\ ~IsOpen(r)
    /\ CloseFile(r)
    /\ UNCHANGED <<pc, mem, disk, ini>>

(* Mutant: the file is opened with O_TRUNC. *)
Truncated(n) == [content EXCEPT ![n] = Empty]

(* What open(2) makes of an existing file: nothing, without O_TRUNC. *)
Opened(n) == content

OpenExisting(r) ==
    /\ pc[r] = "open" /\ file[r] = none
    /\ dir[id[r]] # none
    /\ file' = [file EXCEPT ![r] = id[r]]
    /\ fd' = [fd EXCEPT ![r] = dir[id[r]]]
    /\ content' = Opened(dir[id[r]])
    /\ Go(r, "flock")
    /\ UNCHANGED <<mem, dir, ini>>

(* O_CREAT. *)
OpenNew(r) ==
    /\ pc[r] = "open" /\ file[r] = none
    /\ dir[id[r]] = none
    /\ \E n \in Unused :
         /\ dir' = [dir EXCEPT ![id[r]] = n]
         /\ content' = [content EXCEPT ![n] = Empty]
         /\ fd' = [fd EXCEPT ![r] = n]
    /\ file' = [file EXCEPT ![r] = id[r]]
    /\ Go(r, "flock")
    /\ UNCHANGED <<mem, ini>>

(* open(2) fails: a session that was being started is over, without an ID; a
   write that had to open the file again is given up. *)
OpenFails(r) ==
    /\ pc[r] = "open" /\ file[r] = none
    /\ Closed(r, op[r])
    /\ UNCHANGED <<disk, ini>>

(* Mutant: flock with LOCK_SH. *)
Shared(n) == TRUE

LockIsFree(n) == \A r \in Request : ~Locks(r, n)

Lock(r) ==
    /\ pc[r] = "flock" /\ LockIsFree(fd[r])
    /\ Go(r, IF op[r] \in Saving THEN "truncate" ELSE "read")
    /\ UNCHANGED <<mem, open, disk, ini>>

(* The file is read: into $_SESSION, except for a regeneration, which keeps
   the variables it has. *)
Read(r) ==
    /\ pc[r] = "read"
    /\ seen' = [seen EXCEPT ![r] = content[fd[r]]]
    /\ sess' = IF op[r] = "regenerate" THEN sess
               ELSE [sess EXCEPT ![r] = content[fd[r]]]
    /\ op' = [op EXCEPT ![r] = none]
    /\ Go(r, "script")
    /\ UNCHANGED <<active, id, open, disk, ini>>

(* session_start(['read_and_close' => true]); or the cache limiter is one it
   does not know. *)
ReadAndClose(r) ==
    /\ pc[r] = "read" /\ op[r] = "start"
    /\ EndSession(r, FALSE)
    /\ CloseFile(r)
    /\ Go(r, "script")
    /\ UNCHANGED <<disk, ini>>

-----------------------------------------------------------------------------
(* save_state may run for `o`. *)
MaySave(r, o) ==
    /\ pc[r] = "script" /\ active[r]
    /\ o \in Saving

(* Serializing the variables throws: the session ends and its file stays
   open; a regeneration is given up, its session still active. *)
SaveThrows(r, o) ==
    /\ MaySave(r, o)
    /\ IF o = "keep" THEN UNCHANGED mem ELSE EndSession(r, FALSE)
    /\ Go(r, IF o = "end" THEN "over" ELSE "script")
    /\ UNCHANGED <<open, disk, ini>>

(* A variable has a name the serializer cannot write: nothing is written. *)
GivesUp(r, o) ==
    /\ MaySave(r, o)
    /\ Closed(r, o)
    /\ UNCHANGED <<disk, ini>>

(* session.lazy_write finds that nothing changed. *)
Unchanged(r) == lazy /\ sess[r] # Empty /\ sess[r] = seen[r]

(* The file gets a new modification time, no more. *)
Touch(r, o) ==
    /\ MaySave(r, o) /\ Unchanged(r)
    /\ Closed(r, o)
    /\ UNCHANGED <<disk, ini>>

Wiped(r) == [content EXCEPT ![fd[r]] = Empty]

(* The file is cut to nothing. *)
Truncate(r, o) ==
    /\ MaySave(r, o) /\ ~Unchanged(r)
    /\ file[r] = id[r]
    /\ content' = Wiped(r)
    /\ op' = [op EXCEPT ![r] = o]
    /\ Go(r, "fill")
    /\ UNCHANGED <<active, id, sess, seen, open, dir, ini>>

(* The file of the active session is not open any more, after a deletion that
   failed: it is opened again to be written. *)
Reopen(r, o) ==
    /\ MaySave(r, o) /\ ~Unchanged(r)
    /\ file[r] # id[r]
    /\ op' = [op EXCEPT ![r] = o]
    /\ Go(r, "open")
    /\ UNCHANGED <<active, id, sess, seen, open, disk, ini>>

TruncateReopened(r) ==
    /\ pc[r] = "truncate"
    /\ content' = Wiped(r)
    /\ Go(r, "fill")
    /\ UNCHANGED <<mem, open, dir, ini>>

(* The write, which may fail (a full disk), and the closing. *)
Fill(r) ==
    /\ pc[r] = "fill"
    /\ \E d \in {sess[r], Empty} : content' = [content EXCEPT ![fd[r]] = d]
    /\ Closed(r, op[r])
    /\ UNCHANGED <<dir, ini>>

(* session_abort(). *)
Abort(r) ==
    /\ pc[r] = "script" /\ active[r]
    /\ CloseFile(r)
    /\ EndSession(r, FALSE)
    /\ UNCHANGED <<pc, disk, ini>>

-----------------------------------------------------------------------------
(* files::destroy, first half: the file is closed if it is the one open. *)
LetGo(r) == IF file[r] = id[r] THEN CloseFile(r) ELSE UNCHANGED open

(* session_destroy() ("destroy"), session_decode() of something malformed,
   and a regeneration that deletes the old session ("renew"). *)
Destroy(r, o) ==
    /\ pc[r] = "script" /\ active[r]
    /\ o \in {"destroy", "renew"}
    /\ LetGo(r)
    /\ op' = [op EXCEPT ![r] = o]
    /\ Go(r, "unlink")
    /\ UNCHANGED <<active, id, sess, seen, disk, ini>>

(* decode_failed: what was read is not the encoding of variables. *)
DecodeFails(r) ==
    /\ pc[r] = "read" /\ op[r] \in {"start", "reset"}
    /\ content[fd[r]] # Empty
    /\ LetGo(r)
    /\ op' = [op EXCEPT ![r] = "destroy"]
    /\ Go(r, "unlink")
    /\ UNCHANGED <<active, id, sess, seen, disk, ini>>

(* A fatal error in code that decoding calls: the session is over, its file
   still open. *)
DecodeDies(r) ==
    /\ pc[r] = "read" /\ op[r] \in {"start", "reset"}
    /\ content[fd[r]] # Empty
    /\ EndSession(r, TRUE)
    /\ Go(r, "script")
    /\ UNCHANGED <<open, disk, ini>>

(* The second half; a file that is gone already is as good. *)
Unlink(r) ==
    /\ pc[r] = "unlink"
    /\ dir' = [dir EXCEPT ![id[r]] = none]
    /\ Closed(r, op[r])
    /\ UNCHANGED <<content, ini>>

(* remove_file fails: session_destroy() ends the session all the same; a
   regeneration returns, with the session active and its file closed. *)
UnlinkFails(r) ==
    /\ pc[r] = "unlink" /\ dir[id[r]] # none
    /\ IF op[r] = "destroy"
         THEN CloseFile(r) /\ EndSession(r, TRUE)
         ELSE /\ op' = [op EXCEPT ![r] = none]
              /\ UNCHANGED <<active, id, sess, seen, open>>
    /\ Go(r, "script")
    /\ UNCHANGED <<disk, ini>>

(* The garbage collection deletes a file that is too old, be it locked. *)
Expire(r, i) ==
    /\ pc[r] = "script" /\ active[r]
    /\ dir[i] # none
    /\ dir' = [dir EXCEPT ![i] = none]
    /\ UNCHANGED <<pc, mem, open, content, ini>>

-----------------------------------------------------------------------------
(* The request's state goes, and with it a file that is still open. *)
Gone(r) ==
    /\ CloseFile(r)
    /\ EndSession(r, TRUE)
    /\ Go(r, "idle")
    /\ UNCHANGED <<disk, ini>>

(* The end of a request whose session is over. *)
Finish(r) ==
    /\ pc[r] = "over" \/ (pc[r] = "script" /\ ~active[r])
    /\ Gone(r)

(* The process is killed, wherever it is. *)
Kill(r) ==
    /\ pc[r] # "idle"
    /\ Gone(r)

(* rshutdown. *)
End(r) ==
    \/ SaveThrows(r, "end") \/ GivesUp(r, "end") \/ Touch(r, "end")
    \/ Truncate(r, "end") \/ Reopen(r, "end")
    \/ Finish(r)

(* The steps of a session call that has begun. *)
Continue(r) ==
    \/ AlreadyOpen(r) \/ CloseOther(r)
    \/ OpenExisting(r) \/ OpenNew(r) \/ OpenFails(r)
    \/ Read(r) \/ ReadAndClose(r) \/ DecodeFails(r) \/ DecodeDies(r)
    \/ TruncateReopened(r) \/ Fill(r)
    \/ Unlink(r) \/ UnlinkFails(r)

Script(r) ==
    \/ \E d \in Data : Assign(r, d)
    \/ \E i \in Id : SetId(r, i) \/ Expire(r, i)
    \/ Start(r) \/ Reset(r) \/ Abort(r)
    \/ \E o \in {"commit", "keep"} :
         \/ SaveThrows(r, o) \/ GivesUp(r, o) \/ Touch(r, o)
         \/ Truncate(r, o) \/ Reopen(r, o)
    \/ \E o \in {"destroy", "renew"} : Destroy(r, o)

Next ==
    \E r \in Request :
        \/ Begin(r) \/ Script(r) \/ Continue(r) \/ Lock(r)
        \/ End(r) \/ Kill(r)

Spec == Init /\ [][Next]_vars

-----------------------------------------------------------------------------
Pc == {"idle", "script", "open", "flock", "read", "truncate", "fill", "unlink", "over"}
Op == Saving \cup {"start", "reset", "regenerate", "destroy", "renew", none}

(* Every variable has the type the code gives it; a file is open under one
   ID, and a call works on the file of its own session. *)
TypeOK ==
    /\ pc \in [Request -> Pc]
    /\ op \in [Request -> Op]
    /\ active \in [Request -> BOOLEAN]
    /\ id \in [Request -> Id \cup {none}]
    /\ sess \in [Request -> Data \cup {none}]
    /\ seen \in [Request -> Data \cup {none}]
    /\ file \in [Request -> Id \cup {none}]
    /\ fd \in [Request -> Inode \cup {none}]
    /\ dir \in [Id -> Inode \cup {none}]
    /\ content \in [Inode -> Data]
    /\ strict \in BOOLEAN /\ lazy \in BOOLEAN
    /\ \A r \in Request :
         /\ file[r] = none <=> fd[r] = none
         /\ pc[r] \in {"open", "flock", "read", "truncate", "fill", "unlink"} => id[r] # none
         /\ pc[r] \in {"flock", "read", "truncate", "fill"} => file[r] = id[r]

(* The script's session is active and nobody is kept from it. *)
Lapsed(r) == pc[r] = "script" /\ active[r] /\ file[r] # id[r]

(* The file of a session is "locked with flock() while the session is open"
   (files.rs:4): no call gives the lock up and leaves the session active,
   but for a regeneration that could not delete the old file. *)
KeepsItsLock ==
    [][\A r \in Request : Lapsed(r)' /\ ~Lapsed(r) => UnlinkFails(r)]_vars

-----------------------------------------------------------------------------
(* The abstract store: a session is the file its ID names now, and its owner
   is whoever has the lock of that file.  A file that was deleted while it
   was open is nobody's session. *)
Stored(i) == IF dir[i] = none THEN none ELSE content[dir[i]]

Owners(i) == {r \in Request : dir[i] # none /\ Locks(r, dir[i])}

Owner(i) == IF Owners(i) = {} THEN none ELSE CHOOSE r \in Owners(i) : TRUE

Known(r) == IF r = none \/ pc[r] = "truncate" THEN none
            ELSE IF pc[r] = "fill" THEN Empty
            ELSE seen[r]

Blind == {r \in Request : Lapsed(r) \/ (op[r] \in Saving /\ pc[r] \in {"open", "flock", "truncate"})}

Store == INSTANCE SessionStore WITH
    data <- [i \in Id |-> Stored(i)],
    owner <- [i \in Id |-> Owner(i)],
    view <- [i \in Id |-> Known(Owner(i))],
    lapsed <- Blind

(* Requests use the directory as they would use the store: one at a time,
   and writing over what they have read, whatever comes between open(2),
   flock(2) and the write, kills and deletions included. *)
ImplementsStore == Store!Spec
=============================================================================
