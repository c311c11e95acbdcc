------------------------------- MODULE Output -------------------------------
(***************************************************************************)
(* Output buffering (goro-engine vm/output.rs and builtins/output.rs): the *)
(* stack of ob_start() levels, the handlers that process what a level      *)
(* holds when it is flushed, cleaned or ended, chunked levels that flush   *)
(* in the middle of an echo, and the flush of everything at the end of the *)
(* request.                                                                *)
(*                                                                         *)
(* What the script echoes are bytes numbered in the order they are echoed. *)
(* What handlers print has no number: it is dropped when they return.  Two *)
(* kinds of callbacks run in the middle of an operation: the handler, and  *)
(* the user's error handler, for the deprecation of handlers that print.   *)
(***************************************************************************)
EXTENDS Naturals, FiniteSets, SequencesExt

CONSTANTS
    MaxLevel,           \* bound: levels
    MaxBytes,           \* bound: bytes the script echoes
    Chunk,              \* the chunk sizes ob_start is given, 0 for none
    Flags,              \* the sets of flags it is given
    ErrorHandlers       \* the user's error handler, among those below

Permission == {"CLEANABLE", "FLUSHABLE", "REMOVABLE"}

(* There is none; there is one; there is one that uses output buffering. *)
ErrorHandlerKinds == {"none", "plain", "buffers"}

ASSUME BoundAssumption == {MaxLevel, MaxBytes} \subseteq Nat
ASSUME ChunkAssumption == Chunk \subseteq Nat
ASSUME FlagsAssumption == Flags \subseteq SUBSET Permission
ASSUME ErrorAssumption == ErrorHandlers \subseteq ErrorHandlerKinds

VARIABLES
    stdout,         \* the bytes that left the stack
    buffers,        \* the levels, the outermost first
    calls,          \* the callbacks in progress, innermost last
    ending,         \* exit or a fatal error unwinds them
    deactivated,    \* output buffering was shut down
    phase,          \* "script", "final" (ob_end_all) or "done"
    printed,        \* how many bytes the script has echoed
    gone,           \* the bytes cleaned, replaced, or lost to a fatal error
    onError         \* the error handler the script has set

vars == <<stdout, buffers, calls, ending, deactivated, phase, printed, gone,
          onError>>

Op == {"write", "flush", "end", "clean", "end clean", "final"}
Cleaning == {"clean", "end clean"}
Ends == {"end", "end clean", "final"}

Byte == 1 .. MaxBytes

BufferType ==
    [data : Seq(Byte),
     callback : BOOLEAN,        \* it has a handler
     chunk_size : Chunk,
     flags : Flags,
     in_handler : BOOLEAN,
     produced : BOOLEAN,        \* its handler has printed
     disabled : BOOLEAN,        \* its handler is not called any more
     finished : BOOLEAN]        \* its handler has been called with FINAL

(* A callback in progress: the operation on the n-th level it is part of, and
   what that level held (for a handler) or passes on (for an error handler,
   while `redirect` is n - 1). *)
CallType == [call : {"handler", "error"}, op : Op, n : 1 .. MaxLevel, out : Seq(Byte)]

(* Every variable has its type. *)
TypeOK ==
    /\ stdout \in Seq(Byte)
    /\ buffers \in Seq(BufferType) /\ Len(buffers) <= MaxLevel
    /\ calls \in Seq(CallType) /\ Len(calls) <= 2
    /\ ending \in BOOLEAN /\ deactivated \in BOOLEAN
    /\ phase \in {"script", "final", "done"}
    /\ printed \in 0 .. MaxBytes /\ gone \subseteq Byte
    /\ onError \in ErrorHandlers

Init ==
    /\ stdout = <<>> /\ buffers = <<>> /\ calls = <<>> /\ ending = FALSE
    /\ deactivated = FALSE /\ phase = "script" /\ printed = 0 /\ gone = {}
    /\ onError \in ErrorHandlers

ObBuffer(callback, chunk, flags) ==
    [data |-> <<>>, callback |-> callback, chunk_size |-> chunk, flags |-> flags,
     in_handler |-> FALSE, produced |-> FALSE, disabled |-> FALSE, finished |-> FALSE]

Top == Last(buffers)
Handled(b) == b.callback /\ ~b.disabled
Redirected == \E i \in DOMAIN calls : calls[i].call = "error"
Holding(bs) == UNION {ToSet(bs[i].data) : i \in DOMAIN bs}

WithTop(bs, b) == Append(Front(bs), b)

-----------------------------------------------------------------------------
(***************************************************************************)
(* How an operation ends.  bs are the levels as the callbacks left them.   *)
(***************************************************************************)

(* Mutant: what is flushed goes straight to the client. *)
WriteThrough(bs, n, out) == buffers' = bs /\ stdout' = stdout \o out

(* write_level: appends to the n-th level, to stdout if n is 0. *)
WriteLevel(bs, n, out) ==
    /\ stdout' = IF n = 0 THEN stdout \o out ELSE stdout
    /\ buffers' = IF n = 0 THEN bs ELSE [bs EXCEPT ![n].data = @ \o out]

(* Mutant: the level is not taken off. *)
StaysOn(op, bs) == bs

(* The levels that are left once op is done with the top one. *)
Remaining(op, bs) == IF op \in Ends THEN Front(bs) ELSE bs

(* ob_clean_top: what the top level holds goes, whichever it is now. *)
Clean(op, n, bs) ==
    LET empty == IF bs = <<>> THEN bs ELSE WithTop(bs, [Last(bs) EXCEPT !.data = <<>>])
    IN  /\ buffers' = IF Len(bs) = n THEN Remaining(op, empty) ELSE empty
        /\ UNCHANGED stdout

(* The contents of the n-th level are processed: out goes to the level below,
   or nowhere if a callback changed the number of levels. *)
Finish(op, n, out, bs) ==
    IF op \in Cleaning THEN Clean(op, n, bs)
    ELSE IF Len(bs) = n THEN WriteLevel(Remaining(op, bs), n - 1, out)
    ELSE buffers' = bs /\ UNCHANGED stdout

(* What a handler's value becomes: FALSE passes the input on, other values
   replace it. *)
Processed(value, input) == IF value \in {"same", "false"} THEN input ELSE <<>>

(* Of its input, what an operation is meant to discard. *)
Discarded(op, value, input) ==
    IF op \in Cleaning \/ value = "other" THEN ToSet(input) ELSE {}

(* The start of an operation on the top level of bs: without a handler it is
   over at once, otherwise the handler is called (ob_process). *)
Begin(op, bs) ==
    LET n == Len(bs)
        b == Last(bs)
    IN  IF Handled(b)
        THEN /\ calls' = Append(calls, [call |-> "handler", op |-> op, n |-> n, out |-> b.data])
             /\ buffers' = WithTop(bs, [b EXCEPT !.in_handler = TRUE, !.produced = FALSE,
                                                 !.finished = @ \/ op \in Ends])
             /\ UNCHANGED <<stdout, gone>>
        ELSE /\ Finish(op, n, b.data, WithTop(bs, [b EXCEPT !.data = <<>>]))
             /\ gone' = gone \cup Discarded(op, "same", b.data)
             /\ UNCHANGED calls

-----------------------------------------------------------------------------
(***************************************************************************)
(* The script, and the error handler, which may do what the script does.   *)
(***************************************************************************)
Call == Last(calls)

(* Mutant: handlers may use output buffering. *)
Anyone == phase = "script" \/ (calls # <<>> /\ ~ending)

(* Who may use output buffering: the script, and the error handler. *)
Runs ==
    \/ phase = "script" /\ calls = <<>>
    \/ calls # <<>> /\ Call.call = "error" /\ ~ending /\ onError = "buffers"

(* echo, at the script's top level; a level whose chunk is full is flushed. *)
Echo ==
    /\ phase = "script" /\ calls = <<>> /\ printed < MaxBytes
    /\ printed' = printed + 1
    /\ IF buffers = <<>>
       THEN stdout' = Append(stdout, printed') /\ UNCHANGED <<buffers, calls, gone>>
       ELSE LET b == [Top EXCEPT !.data = Append(@, printed')] IN
            IF b.chunk_size > 0 /\ Len(b.data) >= b.chunk_size
            THEN Begin("write", WithTop(buffers, b))
            ELSE buffers' = WithTop(buffers, b) /\ UNCHANGED <<stdout, calls, gone>>
    /\ UNCHANGED <<ending, deactivated, phase, onError>>

ObStart ==
    /\ Runs /\ ~deactivated /\ Len(buffers) < MaxLevel
    /\ \E callback \in BOOLEAN, chunk \in Chunk, flags \in Flags :
          buffers' = Append(buffers, ObBuffer(callback, chunk, flags))
    /\ UNCHANGED <<stdout, calls, ending, deactivated, phase, printed, gone, onError>>

Operate(op, permission) ==
    /\ Runs /\ buffers # <<>> /\ permission \in Top.flags
    /\ Begin(op, buffers)
    /\ UNCHANGED <<ending, deactivated, phase, printed, onError>>

(* The last two also stand for ob_get_flush and ob_get_clean. *)
ObFlush == Operate("flush", "FLUSHABLE")
ObClean == Operate("clean", "CLEANABLE")
ObEndFlush == Operate("end", "REMOVABLE")
ObEndClean == Operate("end clean", "REMOVABLE")

-----------------------------------------------------------------------------
(***************************************************************************)
(* The handler.                                                            *)
(***************************************************************************)
HandlerRuns == calls # <<>> /\ Call.call = "handler"

(* Mutant: shutting down leaves the levels. *)
StillThere(bs) == bs

(* The levels that are left when output buffering is shut down. *)
ShutDown(bs) == <<>>

(* It prints: into its own level (below, if an error handler called it). *)
HandlerPrints ==
    /\ HandlerRuns /\ ~Redirected
    /\ buffers' = WithTop(buffers, [Top EXCEPT !.produced = TRUE])
    /\ UNCHANGED <<stdout, calls, ending, deactivated, phase, printed, gone, onError>>

(* It calls a function of output control: everything that is buffered is
   lost, output buffering is shut down and the script ends. *)
HandlerBuffers ==
    /\ HandlerRuns
    /\ deactivated' = TRUE
    /\ gone' = gone \cup Holding(buffers)
    /\ buffers' = ShutDown(buffers)
    /\ calls' = Front(calls)
    /\ ending' = (calls' # <<>>)
    /\ UNCHANGED <<stdout, phase, printed, onError>>

(* What it printed is deprecated, which calls the user's error handler unless
   that is what is running. *)
Complains == Top.produced /\ onError # "none" /\ ~Redirected

(* It returns its input, FALSE, or something else. *)
HandlerReturns(value) ==
    /\ HandlerRuns
    /\ LET out == Processed(value, Call.out)
           bs  == WithTop(buffers,
                     [Top EXCEPT !.in_handler = FALSE, !.produced = FALSE, !.data = <<>>,
                                 !.disabled = @ \/ value = "false"])
       IN IF Complains
          THEN /\ calls' = WithTop(calls, [Call EXCEPT !.call = "error", !.out = out])
               /\ buffers' = bs
               /\ UNCHANGED stdout
          ELSE /\ calls' = Front(calls)
               /\ Finish(Call.op, Call.n, out, bs)
    /\ gone' = gone \cup Discarded(Call.op, value, Call.out)
    /\ UNCHANGED <<ending, deactivated, phase, printed, onError>>

(* Mutant: a level that ends forgets what it holds. *)
Forgets == TRUE

(* At the end of the request a level whose handler fails passes nothing on. *)
DropsHeld == phase = "final"

(* It throws: it is not called again; a level that stays keeps what it held,
   one that goes passes it on. *)
HandlerThrows ==
    /\ HandlerRuns
    /\ calls' = Front(calls)
    /\ LET bs == WithTop(buffers, [Top EXCEPT !.in_handler = FALSE, !.disabled = TRUE])
           n == Call.n
       IN CASE Call.op \in {"write", "flush"} ->
                 buffers' = bs /\ UNCHANGED <<stdout, gone, phase>>
            [] Call.op \in Cleaning ->
                 /\ Clean(Call.op, n, bs)
                 /\ gone' = gone \cup ToSet(Top.data)
                 /\ UNCHANGED phase
            [] Call.op = "end" ->
                 /\ IF DropsHeld
                    THEN buffers' = Remaining("end", bs) /\ UNCHANGED stdout
                    ELSE WriteLevel(Remaining("end", bs), n - 1, Top.data)
                 /\ gone' = gone \cup (IF phase = "final" THEN ToSet(Top.data) ELSE {})
                 /\ UNCHANGED phase
            [] Call.op = "final" ->
                 /\ buffers' = <<>> /\ phase' = "done"
                 /\ gone' = gone \cup Holding(buffers)
                 /\ UNCHANGED stdout
    /\ UNCHANGED <<ending, deactivated, printed, onError>>

(* It exits, or meets a fatal error: what the level held is lost. *)
HandlerExits ==
    /\ HandlerRuns
    /\ calls' = Front(calls)
    /\ Finish(Call.op, Call.n, <<>>,
              WithTop(buffers, [Top EXCEPT !.in_handler = FALSE, !.disabled = TRUE,
                                           !.data = <<>>]))
    /\ gone' = gone \cup ToSet(Top.data)
    /\ ending' = (calls' # <<>>)
    /\ UNCHANGED <<deactivated, phase, printed, onError>>

(* The error handler is over: the operation goes on with what the output
   handler returned. *)
ErrorHandlerEnds ==
    /\ calls # <<>> /\ Call.call = "error"
    /\ calls' = Front(calls) /\ ending' = FALSE
    /\ Finish(Call.op, Call.n, Call.out, buffers)
    /\ UNCHANGED <<deactivated, phase, printed, gone, onError>>

(* At the end of the request, its exception ends everything. *)
ErrorHandlerThrows ==
    /\ calls # <<>> /\ Call.call = "error" /\ Call.op = "final" /\ ~ending
    /\ Len(buffers) = Call.n
    /\ calls' = Front(calls)
    /\ stdout' = IF Call.n = 1 THEN stdout \o Call.out ELSE stdout
    /\ buffers' = <<>> /\ phase' = "done"
    /\ gone' = gone \cup Holding(buffers) \cup (IF Call.n = 1 THEN {} ELSE ToSet(Call.out))
    /\ UNCHANGED <<ending, deactivated, printed, onError>>

-----------------------------------------------------------------------------
(* ob_end_all: every level is ended, the innermost first. *)
EndAll ==
    /\ phase = "script" /\ calls = <<>>
    /\ phase' = "final"
    /\ UNCHANGED <<stdout, buffers, calls, ending, deactivated, printed, gone, onError>>

EndTop ==
    /\ phase = "final" /\ calls = <<>> /\ buffers # <<>>
    /\ Begin("final", buffers)
    /\ UNCHANGED <<ending, deactivated, phase, printed, onError>>

Flushed ==
    /\ phase = "final" /\ calls = <<>> /\ buffers = <<>>
    /\ phase' = "done"
    /\ UNCHANGED <<stdout, buffers, calls, ending, deactivated, printed, gone, onError>>

Over == phase = "done" /\ UNCHANGED vars

HandlerEnds ==
    \/ \E value \in {"same", "false", "other"} : HandlerReturns(value)
    \/ HandlerThrows \/ HandlerExits \/ HandlerBuffers

ScriptNext == Echo \/ ObStart \/ ObFlush \/ ObClean \/ ObEndFlush \/ ObEndClean

Next ==
    \/ ScriptNext \/ HandlerPrints \/ HandlerEnds
    \/ ErrorHandlerEnds \/ ErrorHandlerThrows
    \/ EndAll \/ EndTop \/ Flushed \/ Over

Spec == Init /\ [][Next]_vars

(* Callbacks return, and the end of the request goes on; a script may run for
   ever. *)
FairSpec ==
    /\ Spec
    /\ WF_vars(HandlerEnds) /\ WF_vars(ErrorHandlerEnds)
    /\ WF_vars(EndTop) /\ WF_vars(Flushed)

-----------------------------------------------------------------------------
(* What is at level i: at 0, what has left the stack. *)
At(out, bs, i) == IF i = 0 THEN out ELSE bs[i].data

Increasing(s) == \A i, j \in DOMAIN s : i < j => s[i] < s[j]
Before(s, t) == \A i \in DOMAIN s, j \in DOMAIN t : s[i] < t[j]

InLine(out, bs) ==
    \A i, j \in 0 .. Len(bs) :
        /\ Increasing(At(out, bs, i))
        /\ i < j => Before(At(out, bs, i), At(out, bs, j))

(* What the script echoes reaches the client at most once and in the order it
   was echoed, whatever levels it goes through. *)
InOrder == InLine(stdout, buffers)

(* A byte echoed is on its way, in the hands of an operation, or gone because
   it was cleaned, replaced by a handler, or lost to a fatal error; and those
   never come back. *)
InHand ==
    UNION {ToSet(calls[i].out) : i \in {j \in DOMAIN calls :
              calls[j].call = "error" /\ calls[j].op \notin Cleaning}}
Accounted ==
    (1 .. printed) \ gone = ToSet(stdout) \cup Holding(buffers) \cup InHand

NothingLost == onError # "buffers" => Accounted

(* The check ob_flush_top, ob_end_flush and ob_clean_top rely on: when a
   handler ends, its level is the top one, or there is none left and there
   never will be. *)
HandlersKeepLevels ==
    /\ HandlerRuns => Len(buffers) = Call.n /\ Top.in_handler
    /\ Cardinality({i \in DOMAIN buffers : buffers[i].in_handler})
         = (IF HandlerRuns THEN 1 ELSE 0)
    /\ deactivated => buffers = <<>>

(* A handler that was told that the output is over (PHP_OUTPUT_HANDLER_FINAL)
   is never called again. *)
HandlerCalled == Len(calls') > Len(calls)
FinalIsLast == [][HandlerCalled /\ onError # "buffers" => ~Top.finished]_vars

(* The end of the request comes, and leaves nothing buffered. *)
RequestEnds ==
    onError # "buffers" => ((phase = "final") ~> (phase = "done" /\ buffers = <<>>))

(* "Passes the top buffer's contents to the level below" (vm/output.rs:371),
   whatever the script's error handler does. *)
ContentsArePassedOn == Accounted
=============================================================================
