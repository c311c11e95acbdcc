----------------------------- MODULE Coroutine ------------------------------
(***************************************************************************)
(* Generators and fibers of the engine (goro-engine vm/iter.rs,            *)
(* builtins/fiber.rs, and dispatch_exception of vm/errors.rs): who runs,   *)
(* who waits for whom, and what an exception or a destruction does to      *)
(* them.  A body is the code of a generator, of a fiber, or of the script; *)
(* of its own control flow the model keeps one try with a finally block,   *)
(* with catch blocks anywhere.                                             *)
(*                                                                         *)
(* A context (the main script or a fiber) has an execution state of its    *)
(* own, `ex`: a stack of activations over its own body.  An activation is  *)
(* one call of gen_resume: a chain of generators, each of which delegates  *)
(* to the next (`yield from`), with the last one running.                  *)
(***************************************************************************)
EXTENDS Integers, FiniteSets, SequencesExt

CONSTANTS
    Gen,        \* the generator objects the program creates
    Fiber,      \* its fibers
    main,       \* the script
    Programs,   \* bound: which bodies have a try block, in one program or another
    none

ASSUME BodyAssumption ==
    /\ IsFiniteSet(Gen)
    /\ Gen \cap Fiber = {} /\ main \notin Gen \cup Fiber /\ none \notin Gen
ASSUME ProgramsAssumption == Programs \subseteq SUBSET (Gen \cup Fiber \cup {main})

Context == Fiber \cup {main}
Body == Gen \cup Context

VARIABLES
    gen,        \* the generators: GenData
    fiber,      \* the fibers: FiberData
    ex,         \* the activations of each context
    fibers,     \* Vm::fiber_stack: the fibers running, each in the one before
    pos,        \* where a body is: outside a try, in it, in its finally block
    pend,       \* the exception its finally block ends with
    flying,     \* the exception being thrown in the code that runs
    again,      \* the call of gen_resume that must come next, if any
    careful     \* the bodies with a try block

vars == <<gen, fiber, ex, fibers, pos, pend, flying, again, careful>>
code == <<pos, pend>>

(* gexit and fexit are the markers GeneratorExit_ and FiberExit_, which no
   catch block matches. *)
Exception == {"none", "error", "gexit", "fexit"}
GenType ==
    [st : {"none", "created", "suspended", "running", "returned", "aborted", "gone"},
     frame : BOOLEAN,           \* GenData has the frame
     del : Gen \cup {none},     \* delegate
     forced : BOOLEAN]          \* force_closed
FiberType ==
    [st : {"init", "running", "suspended", "terminated"}, closing : BOOLEAN]
ActivationType ==
    [up : Seq(Gen),             \* the generators that delegate, from the one resumed
     cur : Gen,                 \* the one that runs
     then : {"done", "resume", "throw", "destroy"}]    \* what the call still has to do

Done(g) == gen[g].st \in {"returned", "aborted"}

Init ==
    /\ gen = [g \in Gen |-> [st |-> "none", frame |-> FALSE, del |-> none, forced |-> FALSE]]
    /\ fiber = [f \in Fiber |-> [st |-> "init", closing |-> FALSE]]
    /\ ex = [c \in Context |-> <<>>]
    /\ fibers = <<>>
    /\ pos = [b \in Body |-> "plain"]
    /\ pend = [b \in Body |-> "none"]
    /\ flying = "none"
    /\ again = <<>>
    /\ careful \in Programs

(* The context that runs, its activations, and the body that runs in it. *)
Here == IF fibers = <<>> THEN main ELSE Last(fibers)
Stack == ex[Here]
Cur == IF Stack = <<>> THEN Here ELSE Last(Stack).cur

Chain(a) == Append(a.up, a.cur)
Push(a) == [ex EXCEPT ![Here] = Append(@, a)]
Pop == [ex EXCEPT ![Here] = Front(@)]
Replace(a) == [ex EXCEPT ![Here] = Append(Front(@), a)]

(* The code of a body may take its next step; or an exception is thrown. *)
Calm == flying = "none" /\ again = <<>>
Thrown == flying # "none"

At(b, p, x) == pos' = [pos EXCEPT ![b] = p] /\ pend' = [pend EXCEPT ![b] = x]

-----------------------------------------------------------------------------
(***************************************************************************)
(* Resuming a generator.                                                   *)
(***************************************************************************)
(* The generators of ch run: the last one's own code, while the ones before
   it keep their frames and count as running. *)
Running(ch) ==
    [g \in Gen |->
        IF g = Last(ch) THEN [gen[g] EXCEPT !.st = "running", !.frame = FALSE, !.del = none]
        ELSE IF g \in ToSet(ch) THEN [gen[g] EXCEPT !.st = "running", !.del = none]
        ELSE gen[g]]

Delegates(g) == gen[g].st = "suspended" /\ gen[g].del # none

(* The way down from a generator that is resumed, to the one it delegates to
   and so on, up to one that does not delegate; the generators on the way
   count as running, so that one already on it is not followed again. *)
Follow(g) ==
    {p \in BoundedSeq(Gen, Cardinality(Gen) + 1) :
        /\ p # <<>> /\ p[1] = g
        /\ \A n \in 1 .. Len(p) - 1 : Delegates(p[n]) /\ p[n + 1] = gen[p[n]].del
        /\ IsInjective(Front(p))
        /\ Delegates(Last(p)) => Last(p) \in ToSet(Front(p))}

(* Mutant: a generator that runs may be resumed. *)
IgnoreBusy(p) == FALSE

Busy(p) == gen[Last(p)].st = "running" \/ Last(p) \in ToSet(Front(p))

(* gen_resume, with an exception to throw at the pause.  The last generator
   runs; when it has finished or is running already the one before it goes on
   (with an Error in the second case), or else the caller. *)
Resume(g, x, then) == \E p \in Follow(g) :
    LET ready == ~Busy(p) /\ ~Done(Last(p))
        ch == IF ready THEN p ELSE Front(p)
    IN  /\ flying' = IF Busy(p) THEN "error" ELSE x
        /\ IF ch = <<>> THEN UNCHANGED <<gen, ex>>
           ELSE /\ gen' = Running(ch)
                /\ ex' = Push([up |-> Front(ch), cur |-> Last(ch), then |-> then])

Exists(g) == gen[g].st \notin {"none", "gone"}

(* current(), valid(), key(), rewind(), getReturn(), foreach: a generator not
   started yet is. *)
Touch(g) ==
    /\ Calm /\ gen[g].st = "created"
    /\ Resume(g, "none", "done")
    /\ UNCHANGED <<fiber, fibers, code, again>>

(* next(), send(): one not started yet first runs to its first yield. *)
Advance(g) ==
    /\ Calm /\ Exists(g)
    /\ Resume(g, "none", IF gen[g].st = "created" THEN "resume" ELSE "done")
    /\ UNCHANGED <<fiber, fibers, code, again>>

(* throw(): the same; a finished generator throws in the caller. *)
ThrowInto(g) ==
    /\ Calm /\ Exists(g)
    /\ IF gen[g].st = "created" THEN Resume(g, "none", "throw")
       ELSE Resume(g, "error", "done")
    /\ UNCHANGED <<fiber, fibers, code, again>>

(* The second half of such a call. *)
SecondHalf ==
    /\ again # <<>>
    /\ Resume(again[1], again[2], "done")
    /\ again' = <<>>
    /\ UNCHANGED <<fiber, fibers, code>>

-----------------------------------------------------------------------------
(***************************************************************************)
(* What the code of a generator does.                                      *)
(***************************************************************************)
Create(g) ==
    /\ Calm /\ gen[g].st = "none"
    /\ gen' = [gen EXCEPT ![g].st = "created", ![g].frame = TRUE]
    /\ UNCHANGED <<fiber, ex, fibers, code, flying, again>>

(* The whole chain comes to rest, each generator with the next as delegate
   and the last with d, and the call of gen_resume returns. *)
Suspended(ch, d) ==
    [g \in Gen |->
        IF g \notin ToSet(ch) THEN gen[g]
        ELSE LET k == CHOOSE n \in DOMAIN ch : ch[n] = g
             IN  [gen[g] EXCEPT !.st = "suspended", !.frame = TRUE,
                                !.del = IF g = Last(ch) THEN d ELSE ch[k + 1]]]

Suspend(d) ==
    LET a == Last(Stack)
    IN  /\ gen' = Suspended(Chain(a), d)
        /\ ex' = Pop
        /\ again' = CASE a.then = "resume" -> <<Chain(a)[1], "none">>
                      [] a.then = "throw"  -> <<Chain(a)[1], "error">>
                      [] OTHER             -> <<>>
        /\ UNCHANGED <<fiber, fibers, code, flying>>

Fails == flying' = "error" /\ UNCHANGED <<gen, fiber, ex, fibers, code, again>>

(* Mutant: a generator being destroyed may pause. *)
AnyOpen(g) == TRUE

(* A generator being destroyed may not yield. *)
MayPause(g) == ~gen[g].forced

Yield ==
    /\ Calm /\ Cur \in Gen
    /\ IF MayPause(Cur) THEN Suspend(none) ELSE Fails

(* Mutant: a delegate that has not started is left for the next resume. *)
NeverFresh(h) == FALSE

NotStarted(h) == gen[h].st = "created"

YieldFrom(h) ==
    /\ Calm /\ Cur \in Gen /\ Exists(h)
    /\ \/ /\ ~MayPause(Cur) \/ h = Cur \/ gen[h].st \in {"running", "aborted"}
          /\ Fails
       \/ /\ MayPause(Cur) /\ NotStarted(h)
          /\ LET ch == Append(Chain(Last(Stack)), h)
             IN  /\ gen' = [Running(ch) EXCEPT ![Cur].frame = TRUE]
                 /\ ex' = Replace([Last(Stack) EXCEPT !.up = Front(ch), !.cur = h])
          /\ UNCHANGED <<fiber, fibers, code, flying, again>>
       \/ /\ MayPause(Cur) /\ gen[h].st \in {"created", "suspended"} /\ ~NotStarted(h)
          /\ Suspend(h)

(* The generator on top ends.  Its delegator goes on, with the exception if
   there is one; without a delegator the call of gen_resume returns.  What a
   call was still to throw is thrown at the caller, a destructor keeps its
   own marker to itself. *)
EndGenerator(st) ==
    LET a == Last(Stack)
        g == a.cur
        ended == [gen EXCEPT ![g].st = st, ![g].frame = FALSE]
    IN  /\ At(g, "plain", "none")
        /\ IF a.up # <<>>
           THEN /\ gen' = [ended EXCEPT ![Last(a.up)].frame = FALSE]
                /\ ex' = Replace([a EXCEPT !.up = Front(@), !.cur = Last(a.up)])
                /\ UNCHANGED flying
           ELSE /\ gen' = ended
                /\ ex' = Pop
                /\ flying' = IF flying = "none" /\ a.then = "throw" THEN "error"
                             ELSE IF flying = "gexit" /\ a.then = "destroy" THEN "none"
                             ELSE flying
        /\ UNCHANGED <<fiber, fibers, again>>

Return ==
    /\ Calm /\ Cur \in Gen /\ pos[Cur] # "try"
    /\ EndGenerator("returned")

Uncaught ==
    /\ Thrown /\ Cur \in Gen /\ pos[Cur] # "try"
    /\ EndGenerator("aborted")

(* Mutant: a generator that waits in its try block is freed like any other. *)
NeverIn(g) == FALSE

(* gen_destruct: the pause is inside a try with a finally block. *)
MustUnwind(g) == gen[g].st = "suspended" /\ pos[g] = "try"

(* The last reference to a generator goes away. *)
Release(g) ==
    /\ Calm /\ Exists(g) /\ gen[g].st # "running"
    /\ \A h \in Gen : gen[h].del # g
    /\ IF MustUnwind(g)
       THEN /\ gen' = [gen EXCEPT ![g] = [st |-> "running", frame |-> FALSE,
                                          del |-> none, forced |-> TRUE]]
            /\ ex' = Push([up |-> <<>>, cur |-> g, then |-> "destroy"])
            /\ flying' = "gexit"
            /\ UNCHANGED code
       ELSE /\ gen' = [gen EXCEPT ![g] = [@ EXCEPT !.st = "gone", !.frame = FALSE, !.del = none]]
            /\ At(g, "plain", "none")
            /\ UNCHANGED <<ex, flying>>
    /\ UNCHANGED <<fiber, fibers, again>>

-----------------------------------------------------------------------------
(***************************************************************************)
(* A body's own control flow, and exceptions (dispatch_exception).         *)
(***************************************************************************)
EnterTry ==
    /\ Calm /\ Cur \in careful /\ pos[Cur] = "plain"
    /\ At(Cur, "try", "none")
    /\ UNCHANGED <<gen, fiber, ex, fibers, flying, again>>

LeaveTry ==
    /\ Calm /\ pos[Cur] = "try"
    /\ At(Cur, "finally", "none")
    /\ UNCHANGED <<gen, fiber, ex, fibers, flying, again>>

(* The exception the block was entered with is thrown again. *)
EndFinally ==
    /\ Calm /\ pos[Cur] = "finally"
    /\ flying' = pend[Cur]
    /\ At(Cur, "plain", "none")
    /\ UNCHANGED <<gen, fiber, ex, fibers, again>>

(* `throw`, and every call the engine refuses with an Error. *)
Raise == Calm /\ Fails

Catchable == flying = "error"

(* A catch block inside the try or the finally block, or around the latter:
   then what the block was to throw at its end is forgotten. *)
Catch ==
    /\ Catchable
    /\ flying' = "none"
    /\ \/ UNCHANGED code
       \/ pos[Cur] = "finally" /\ At(Cur, "plain", "none")
    /\ UNCHANGED <<gen, fiber, ex, fibers, again>>

ToFinally ==
    /\ Thrown /\ pos[Cur] = "try"
    /\ At(Cur, "finally", flying)
    /\ flying' = "none"
    /\ UNCHANGED <<gen, fiber, ex, fibers, again>>

(* The script ends with an uncaught exception; what runs after it (shutdown
   functions, destructors) is the script too. *)
ScriptFails ==
    /\ Thrown /\ Cur = main /\ pos[main] # "try"
    /\ flying' = "none"
    /\ At(main, "plain", "none")
    /\ UNCHANGED <<gen, fiber, ex, fibers, again>>

-----------------------------------------------------------------------------
(***************************************************************************)
(* Fibers: start(), resume(), throw(), suspend(), and their end.           *)
(***************************************************************************)
SwitchTo(f, x) ==
    /\ fibers' = Append(fibers, f)
    /\ flying' = x
    /\ UNCHANGED <<gen, ex, code, again>>

FiberStart(f) ==
    /\ Calm /\ fiber[f].st = "init"
    /\ fiber' = [fiber EXCEPT ![f].st = "running"]
    /\ SwitchTo(f, "none")

FiberResume(f, x) ==
    /\ Calm /\ fiber[f].st = "suspended"
    /\ fiber' = [fiber EXCEPT ![f].st = "running"]
    /\ SwitchTo(f, x)

(* Mutant: a fiber being destroyed may suspend. *)
AnyFiber(f) == TRUE

MaySuspend(f) == ~fiber[f].closing

FiberSuspend ==
    /\ Calm /\ Here # main
    /\ IF MaySuspend(Here)
       THEN /\ fiber' = [fiber EXCEPT ![Here].st = "suspended"]
            /\ fibers' = Front(fibers)
            /\ UNCHANGED <<gen, ex, code, flying, again>>
       ELSE Fails

(* Its function returns, or an exception leaves it: the resumer gets it,
   unless it is the graceful exit. *)
FiberEnds ==
    /\ again = <<>> /\ Cur \in Fiber /\ pos[Cur] # "try"
    /\ fiber' = [fiber EXCEPT ![Cur].st = "terminated"]
    /\ fibers' = Front(fibers)
    /\ flying' = IF flying = "fexit" THEN "none" ELSE flying
    /\ At(Cur, "plain", "none")
    /\ UNCHANGED <<gen, ex, again>>

(* A suspended fiber that goes away is unwound. *)
FiberDestroy(f) ==
    /\ Calm /\ fiber[f].st = "suspended"
    /\ fiber' = [fiber EXCEPT ![f] = [st |-> "running", closing |-> TRUE]]
    /\ SwitchTo(f, "fexit")

Step ==
    \/ \E g \in Gen :
         \/ Create(g) \/ Touch(g) \/ Advance(g) \/ ThrowInto(g)
         \/ YieldFrom(g) \/ Release(g)
    \/ SecondHalf \/ Yield \/ Return \/ Uncaught
    \/ EnterTry \/ LeaveTry \/ EndFinally \/ Raise \/ Catch \/ ToFinally
    \/ ScriptFails
    \/ \E f \in Fiber :
         \/ FiberStart(f) \/ FiberDestroy(f)
         \/ \E x \in {"none", "error"} : FiberResume(f, x)
    \/ FiberSuspend \/ FiberEnds

Next == Step /\ UNCHANGED careful

Spec == Init /\ [][Next]_vars

-----------------------------------------------------------------------------
Activation(c) == {ex[c][i] : i \in DOMAIN ex[c]}

(* Every variable has the type the code gives it; a context that does not run
   and is not suspended has nothing on its stack; and what is being destroyed
   runs to its end: it is not found paused again ("Cannot yield from finally in
   a force-closed generator", "Cannot suspend in a force-closed fiber"). *)
TypeOK ==
    /\ gen \in [Gen -> GenType] /\ \A g \in Gen : gen[g].forced => gen[g].st # "suspended"
    /\ fiber \in [Fiber -> FiberType]
    /\ \A f \in Fiber : fiber[f].closing => fiber[f].st # "suspended"
    /\ ex \in [Context -> Seq(ActivationType)]
    /\ fibers \in Seq(Fiber)
    /\ ToSet(fibers) = {f \in Fiber : fiber[f].st = "running"} /\ IsInjective(fibers)
    /\ \A f \in Fiber : fiber[f].st \in {"init", "terminated"} => ex[f] = <<>>
    /\ pos \in [Body -> {"plain", "try", "finally"}]
    /\ pend \in [Body -> Exception] /\ flying \in Exception
    /\ \A b \in Body : pend[b] # "none" => pos[b] = "finally"
    /\ Thrown => again = <<>>
    /\ careful \in Programs

(* The places of g on the stacks: as the one that runs, or as a delegator. *)
Places(g) ==
    UNION {UNION {{<<c, i, n>> : n \in {m \in DOMAIN Chain(ex[c][i]) : Chain(ex[c][i])[m] = g}}
                  : i \in DOMAIN ex[c]} : c \in Context}

(* ONE FRAME: the frame of a generator is in one place.  A generator counts as
   running exactly while it is on one stack, its fiber's or the script's, once;
   and it has its frame with it whenever a resume will ask for it (without, the
   generator would silently end there, iter.rs:1057). *)
OneFrame ==
    \A g \in Gen :
        /\ Cardinality(Places(g)) = IF gen[g].st = "running" THEN 1 ELSE 0
        /\ gen[g].frame <=>
             \/ gen[g].st \in {"created", "suspended"}
             \/ \E c \in Context : \E a \in Activation(c) : g \in ToSet(a.up)

(* A delegate has always been started, so that what is sent or thrown through
   the generators above reaches a pause and not the start of a function. *)
DelegateIsStarted ==
    \A g \in Gen : gen[g].del # none =>
        /\ gen[g].st = "suspended"
        /\ gen[gen[g].del].st \notin {"none", "created", "gone"}

(* FINALLY RUNS: a body leaves its try block by its finally block alone,
   whatever ends it: an exception, the destruction of the generator or of the
   fiber it is in, of another generator that delegates to it. *)
FinallyRuns ==
    [][\A b \in Body : pos[b] = "try" => pos'[b] \in {"try", "finally"}]_vars

(* The exit that unwinds a fiber is thrown in that fiber ("A suspended fiber
   that is destroyed is resumed with an uncatchable "graceful exit" that
   unwinds it", fiber.rs:6). *)
ExitUnwindsItsFiber ==
    flying = "fexit" => Here \in Fiber /\ fiber[Here].closing
=============================================================================
