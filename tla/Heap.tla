-------------------------------- MODULE Heap --------------------------------
(***************************************************************************)
(* The memory of a PHP request (goro-runtime gc.rs, object.rs, array.rs,   *)
(* reference.rs, and their use by the engine): reference counting with     *)
(* destructors queued at the last release, copy-on-write arrays, the       *)
(* buffer of possible roots, and the cycle collector with the destructors  *)
(* the engine runs for it.                                                 *)
(*                                                                         *)
(* A node is a container: an object (with or without a destructor), a      *)
(* reference cell or the data of an array.  Scalars hold nothing and are   *)
(* all null.  A handle is an edge into a node; a node's reference count    *)
(* is the number of handles to it, which are the script's variables, the   *)
(* slots of nodes, and what the engine keeps (`Held` below).               *)
(***************************************************************************)
EXTENDS Integers, FiniteSets, Sequences

CONSTANTS
    Node,       \* the addresses a container can have
    Var,        \* the variables of the script
    Field,      \* the property slots of an object, the keys of an array
    Class,      \* what the script creates, among the four kinds below
    Programs,   \* the scripts: what each creates, what its destructors do
    MaxDepth,   \* bound: calls of destructors and collections in progress
    null

Kinds == {"plain", "dtor", "ref", "arr"}

ASSUME NodeAssumption == IsFiniteSet(Node) /\ null \notin Node
ASSUME VarAssumption == IsFiniteSet(Var) /\ IsFiniteSet(Field) /\ Field # {}
ASSUME ClassAssumption == Class \subseteq Kinds
ASSUME ProgramsAssumption ==
    Programs \subseteq
        [creates : SUBSET Class, does : SUBSET {"script", "keep", "throw"}]
ASSUME DepthAssumption == MaxDepth \in Nat

VARIABLES
    h,          \* the heap, a record of the fields of HeapType
    frames,     \* the destructors and collections in progress, innermost last
    ran,        \* the live objects whose destructor has been started
    program     \* the script that runs

vars == <<h, frames, ran, program>>

Slot == Node \X Field

HeapType ==
    [kind     : [Node -> Kinds \cup {"free"}],
     var      : [Var -> Node \cup {null}],
     slot     : [Slot -> Node \cup {null}],
     mc       : SUBSET Node,    \* arrays that may be part of a cycle (A_MAY_CYCLE)
     called   : SUBSET Node,    \* F_DTOR_CALLED
     buffered : SUBSET Node,    \* the possible roots
     pending  : SUBSET Node]    \* the queue of destructors to run

(* A destructor's call holds its object; a collection, the objects whose
   destructors it has still to call. *)
Frame ==
    [call : {"dtor"}, this : Node] \cup [call : {"gc"}, todo : SUBSET Node]

Init ==
    /\ h = [kind |-> [n \in Node |-> "free"], var |-> [v \in Var |-> null],
            slot |-> [s \in Slot |-> null], mc |-> {}, called |-> {},
            buffered |-> {}, pending |-> {}]
    /\ frames = <<>>
    /\ ran = {}
    /\ program \in Programs

Live(g) == {n \in Node : g.kind[n] # "free"}

(* Mutant: a destructor is due again each time the object is released. *)
AlwaysDue(g) == {n \in Node : g.kind[n] = "dtor"}

NeedsDestructor(g) == {n \in Node : g.kind[n] = "dtor"} \ g.called

(* What a stack of calls holds; the queue holds its objects as well. *)
HeldBy(fs) ==
    {n \in Node : \E i \in DOMAIN fs :
        \/ fs[i].call = "dtor" /\ fs[i].this = n
        \/ fs[i].call = "gc" /\ n \in fs[i].todo}
Held(g, fs) == g.pending \cup HeldBy(fs)
InVar(g) == {n \in Node : \E v \in Var : g.var[v] = n}
Outside(g, fs) == InVar(g) \cup Held(g, fs)

SlotsOf(g, X, n) == {s \in X \X Field : g.slot[s] = n}

(* Rc::strong_count. *)
Strong(g, fs, n) ==
    Cardinality({v \in Var : g.var[v] = n}) + Cardinality(SlotsOf(g, Node, n))
      + (IF n \in Held(g, fs) THEN 1 ELSE 0)

(* What the nodes of S hold, directly or not, S included: the least set that
   contains S and whatever its own nodes hold. *)
Closed(g, X) == \A s \in Slot : s[1] \in X /\ g.slot[s] # null => g.slot[s] \in X

Reach(g, S) ==
    {n \in Node : \A X \in SUBSET Node : S \subseteq X /\ Closed(g, X) => n \in X}

-----------------------------------------------------------------------------
(***************************************************************************)
(* Releasing handles.                                                      *)
(***************************************************************************)

(* No handle is left to n but those of the nodes of X. *)
Orphan(g, fs, X, n) ==
    /\ n \in Live(g) \ Outside(g, fs)
    /\ \A s \in Slot : g.slot[s] = n => s[1] \in X

(* What the last releases free: Drop for Object, ArrayData and RefInner drop
   the contents, which may free more.  An object whose destructor is due is
   not freed but queued. *)
Cascaded(g, fs, X) ==
    \A m \in Node \ NeedsDestructor(g) : Orphan(g, fs, X, m) => m \in X

Freed(g, fs) ==
    {n \in Node : \A X \in SUBSET Node : Cascaded(g, fs, X) => n \in X}

(* Mutants: every array is taken for one that cannot be part of a cycle;
   an object whose destructor was called is not recorded any more. *)
SuspectNoArray(g, lost) == {n \in lost : g.kind[n] # "arr"}
SuspectUncalled(g, lost) == lost \ g.called

(* A container that survives the release of a handle is a possible root;
   an array, only once it has held a container. *)
Suspect(g, lost) == {n \in lost : g.kind[n] = "arr" => n \in g.mc}

(* Mutant: the drop hook of a buffered container is missing. *)
KeepEntry(roots, freed) == roots

(* A container freed while buffered takes its entry out. *)
TakeOut(roots, freed) == roots \ freed

(* g is the heap just after handles to the nodes of T went away.  (That a
   queued object may be buffered as well makes no difference: the queue's
   handle keeps it alive, and dropping that handle buffers it again.) *)
Settle(g, fs, T) ==
    LET freed  == Freed(g, fs)
        queued == {n \in NeedsDestructor(g) : Orphan(g, fs, freed, n)}
        lost   == T \cup {n \in Node : SlotsOf(g, freed, n) # {}}
    IN [kind     |-> [n \in Node |-> IF n \in freed THEN "free" ELSE g.kind[n]],
        var      |-> g.var,
        slot     |-> [s \in Slot |-> IF s[1] \in freed THEN null ELSE g.slot[s]],
        mc       |-> g.mc \ freed,
        called   |-> (g.called \cup queued) \ freed,
        buffered |-> TakeOut(g.buffered \cup Suspect(g, lost \ queued), freed),
        pending  |-> g.pending \cup queued]

-----------------------------------------------------------------------------
(***************************************************************************)
(* The collector: the garbage among what the nodes of R reach.             *)
(***************************************************************************)

(* Mutant: the collector's own clone of a node is discounted twice. *)
ExternalLessOne(g, fs, G) ==
    {n \in G : Strong(g, fs, n) - 1 > Cardinality(SlotsOf(g, G, n))}

(* Graph::mark_alive: more handles than those the scanned nodes hold. *)
External(g, fs, G) ==
    {n \in G : Strong(g, fs, n) > Cardinality(SlotsOf(g, G, n))}

Garbage(g, fs, R) ==
    LET G == Reach(g, R) IN G \ Reach(g, External(g, fs, G))

(* Mutant: only reference cells are emptied. *)
CellsOf(g, X) == {n \in X : g.kind[n] = "ref"}

(* Objects and cells are emptied, arrays are not. *)
Emptied(g, X) == {n \in X : g.kind[n] # "arr"}

(* Emptying the garbage X frees it, arrays included. *)
Clear(g, fs, X) ==
    LET cut == Emptied(g, X) \X Field
    IN Settle([g EXCEPT !.slot = [s \in Slot |-> IF s \in cut THEN null ELSE g.slot[s]]],
              fs, {n \in Node : \E s \in cut : g.slot[s] = n})

(* Mutants: the objects are not marked; the callback drops them. *)
Unmarked(g, due) == [g EXCEPT !.buffered = {}]
Dropped(fs, due) == fs

DueIn(g, X) == X \cap NeedsDestructor(g)
Scanned(g, due) == [g EXCEPT !.buffered = {}, !.called = @ \cup due]

Push(fs, due) == IF due = {} THEN fs ELSE Append(fs, [call |-> "gc", todo |-> due])

(* gc::collect_cycles with a callback that only keeps the objects it is
   given: a first round marks the garbage whose destructors are due, a
   second one frees the garbage those objects do not reach. *)
Collected(g, fs) ==
    LET first == Garbage(g, fs, g.buffered)
        due   == DueIn(g, first)
        g1    == Scanned(g, due)
    IN Clear(g1, Push(fs, due), Garbage(g1, Push(fs, due), first))

-----------------------------------------------------------------------------
(***************************************************************************)
(* The script.  It runs between the engine's safe points: never while a    *)
(* destructor is queued.                                                   *)
(***************************************************************************)
Top == frames[Len(frames)]
Below == SubSeq(frames, 1, Len(frames) - 1)
InDestructor == frames # <<>> /\ Top.call = "dtor"

ScriptRuns == h.pending = {} /\ (frames = <<>> \/ InDestructor)

ScriptActs ==
    /\ ScriptRuns
    /\ frames # <<>> => "script" \in program.does /\ Len(frames) < MaxDepth

(* What the running code can name: its variables, $this, and what they hold. *)
Named == InVar(h) \cup (IF InDestructor THEN {Top.this} ELSE {})
Value == {null} \cup Named \cup {h.slot[s] : s \in Named \X Field}

Releasing(x) == {x} \ {null}

Change(g, T) == h' = Settle(g, frames, T)

(* ran forgets the objects that are freed. *)
Forget(ran1) == ran' = {n \in ran1 : h'.kind[n] # "free"}

(* $v = new C, $v = [] or $v = &$undefined. *)
New(v, c) ==
    /\ ScriptActs
    /\ c \in program.creates
    /\ \E n \in Node \ Live(h) :
         Change([h EXCEPT !.kind[n] = c, !.var[v] = n], Releasing(h.var[v]))
    /\ UNCHANGED frames
    /\ Forget(ran)

(* $v = x, $v = &x, unset($v), and a variable going out of scope.  (Reading
   through a temporary handle only buffers more possible roots.) *)
Assign(v, x) ==
    /\ ScriptActs
    /\ x # h.var[v]
    /\ Change([h EXCEPT !.var[v] = x], Releasing(h.var[v]))
    /\ UNCHANGED frames
    /\ Forget(ran)

(* A cell has one slot. *)
CellField == CHOOSE f \in Field : TRUE

(* $n->f = x, or an assignment through the reference n. *)
Store(s, x) ==
    /\ ScriptActs
    /\ s[1] \in Named /\ h.kind[s[1]] # "arr"
    /\ h.kind[s[1]] = "ref" =>
         s[2] = CellField /\ (x # null => h.kind[x] # "ref")
    /\ x # h.slot[s]
    /\ Change([h EXCEPT !.slot[s] = x], Releasing(h.slot[s]))
    /\ UNCHANGED frames
    /\ Forget(ran)

(* Mutant: the value being stored is not counted. *)
SoleHandle(a, x) == Strong(h, frames, a) = 1

(* PhpArray::make_mut: an array with one handle is written in place.  The
   value being stored is a handle of its own. *)
Unique(a, x) == Strong(h, frames, a) = 1 /\ x # a

(* $a[f] = x on an array that only one place holds. *)
WriteInPlace(a, f, x) ==
    /\ ScriptActs
    /\ a \in Value \ {null} /\ h.kind[a] = "arr"
    /\ Unique(a, x) /\ x # h.slot[<<a, f>>]
    /\ \A s \in Slot :
         h.slot[s] = a /\ h.kind[s[1]] = "arr" => Unique(s[1], x)
    /\ Change([h EXCEPT !.slot[<<a, f>>] = x,
                        !.mc = IF x = null THEN @ ELSE @ \cup {a}],
              Releasing(h.slot[<<a, f>>]))
    /\ UNCHANGED frames
    /\ Forget(ran)

(* copy_elem: a reference that only the copied array holds is dereferenced. *)
CopyOf(x) ==
    IF x # null /\ h.kind[x] = "ref" /\ Strong(h, frames, x) = 1
      THEN h.slot[<<x, CellField>>]
      ELSE x

(* $a[f] = x on a shared array: the written place gets a copy b.  The old
   handle is replaced without being recorded as a possible root. *)
Copied(a, b, f, x) ==
    [h EXCEPT !.kind[b] = "arr",
              !.slot = [s \in Slot |->
                  IF s = <<b, f>> THEN x
                  ELSE IF s[1] = b THEN CopyOf(h.slot[<<a, s[2]>>])
                  ELSE h.slot[s]],
              !.mc = @ \cup (IF a \in h.mc \/ x # null THEN {b} ELSE {})]

(* What the copied element the write replaces drops: a handle that was not
   the last one. *)
Overwritten(a, f) == Releasing(CopyOf(h.slot[<<a, f>>]))

WriteCopyInVar(v, f, x) ==
    /\ ScriptActs
    /\ LET a == h.var[v] IN
         /\ a # null /\ h.kind[a] = "arr" /\ ~Unique(a, x)
         /\ \E b \in Node \ Live(h) :
              Change([Copied(a, b, f, x) EXCEPT !.var[v] = b], Overwritten(a, f))
    /\ UNCHANGED frames
    /\ Forget(ran)

(* The place is a slot of an object, of a reference, or of an array that was
   itself separated first. *)
WriteCopyInSlot(s, f, x) ==
    /\ ScriptActs
    /\ s[1] \in Named
    /\ h.kind[s[1]] = "arr" => Unique(s[1], x)
    /\ LET a == h.slot[s] IN
         /\ a # null /\ h.kind[a] = "arr" /\ ~Unique(a, x)
         /\ \E b \in Node \ Live(h) :
              Change([Copied(a, b, f, x) EXCEPT !.slot[s] = b], Overwritten(a, f))
    /\ UNCHANGED frames
    /\ Forget(ran)

-----------------------------------------------------------------------------
(***************************************************************************)
(* The engine: collections, and the destructors it calls.                  *)
(***************************************************************************)

(* gc_collect_cycles(), and `new` once the buffer is full: Vm::collect_cycles
   up to its first call of a destructor. *)
Collect ==
    /\ ScriptActs
    /\ h.buffered # {}
    /\ Len(frames) + 2 <= MaxDepth
    /\ h' = Collected(h, frames)
    /\ frames' = Push(frames, DueIn(h, Garbage(h, frames, h.buffered)))
    /\ Forget(ran)

Call(n) == [call |-> "dtor", this |-> n]

(* A safe point: run_pending_destructors takes a queued object. *)
RunPending ==
    /\ frames = <<>> \/ InDestructor
    /\ \E n \in h.pending :
         /\ h' = [h EXCEPT !.pending = @ \ {n}]
         /\ frames' = Append(frames, Call(n))
         /\ ran' = ran \cup {n}

InCollection == frames # <<>> /\ Top.call = "gc"

(* The collection calls the next destructor. *)
GcDestructor ==
    /\ InCollection
    /\ \E n \in Top.todo :
         /\ frames' = Append(Append(Below, [Top EXCEPT !.todo = @ \ {n}]), Call(n))
         /\ ran' = ran \cup {n}
    /\ UNCHANGED h

(* Mutant: the second collection frees every object it called, kept or not. *)
Unchecked(g, fs) == g.called

(* What the second collection frees. *)
StillGarbage(g, fs) == Garbage(g, fs, g.buffered)

(* All of them called: collect again, with a callback that calls nothing. *)
GcAgain ==
    /\ InCollection /\ Top.todo = {}
    /\ LET X == StillGarbage(h, Below) IN
         h' = Clear(Scanned(h, DueIn(h, X)), Below, X)
    /\ frames' = Below
    /\ Forget(ran)

(* A destructor returns: the object's last handle may go with the call. *)
EndDestructor ==
    /\ InDestructor /\ h.pending = {}
    /\ h' = Settle(h, Below, {Top.this})
    /\ frames' = Below
    /\ Forget(ran)

(* Its body keeps the object, in a variable that held nothing. *)
Keep ==
    /\ InDestructor /\ h.pending = {} /\ "keep" \in program.does
    /\ \E v \in Var :
         /\ h.var[v] = null
         /\ h' = [h EXCEPT !.var[v] = Top.this]
    /\ UNCHANGED <<frames, ran>>

(* Its body throws.  A collection below ends there, and so do the calls it
   had still to make; whatever is below that catches the exception, or
   throws in turn. *)
Throw ==
    /\ InDestructor /\ h.pending = {} /\ "throw" \in program.does
    /\ LET up   == Below # <<>> /\ Below[Len(Below)].call = "gc"
           rest == IF up THEN SubSeq(Below, 1, Len(Below) - 1) ELSE Below
           todo == IF up THEN Below[Len(Below)].todo ELSE {}
       IN /\ h' = Settle(h, rest, {Top.this} \cup todo)
          /\ frames' = rest
    /\ Forget(ran)

Step ==
    \/ \E v \in Var, c \in Class : New(v, c)
    \/ \E v \in Var, x \in Value : Assign(v, x)
    \/ \E s \in Slot, x \in Value : Store(s, x)
    \/ \E a \in Node, f \in Field, x \in Value : WriteInPlace(a, f, x)
    \/ \E v \in Var, f \in Field, x \in Value : WriteCopyInVar(v, f, x)
    \/ \E s \in Slot, f \in Field, x \in Value : WriteCopyInSlot(s, f, x)
    \/ Collect \/ RunPending \/ GcDestructor \/ GcAgain
    \/ EndDestructor \/ Keep \/ Throw

Next == Step /\ UNCHANGED program

Spec == Init /\ [][Next]_vars

-----------------------------------------------------------------------------
(* A heap is well formed: every handle leads to a live container, and a
   freed one holds nothing and is in no list. *)
WellFormed(g, fs) ==
    /\ g \in HeapType
    /\ \A v \in Var : g.var[v] # null => g.var[v] \in Live(g)
    /\ \A s \in Slot : g.slot[s] # null => s[1] \in Live(g) /\ g.slot[s] \in Live(g)
    /\ g.mc \cup g.called \cup g.buffered \cup Held(g, fs) \subseteq Live(g)

TypeOK ==
    /\ WellFormed(h, frames)
    /\ frames \in Seq(Frame)
    /\ ran \subseteq Live(h)

(* No garbage is out of the collector's sight: every live container is
   reachable from the script or the engine, or from a buffered root.  A
   container dropped from the buffer, an array copied on write without being
   recorded, or a collection cut short by an exception must never leave a
   cycle that no later collection can find. *)
NoLostGarbage ==
    Live(h) \subseteq Reach(h, Outside(h, frames) \cup h.buffered)

(* "An array cannot contain itself without a reference or an object in
   between" (gc.rs:26), which is why clearing objects and cells is enough. *)
ArraysAcyclic ==
    LET arrays == [h EXCEPT !.slot = [s \in Slot |->
            IF h.kind[s[1]] = "arr" THEN h.slot[s] ELSE null]]
    IN \A n \in Node : h.kind[n] = "arr" =>
            n \notin Reach(arrays, {h.slot[s] : s \in {n} \X Field} \ {null})

(* An object is in the hands of at most one call, collection or queue, and
   its destructor is marked as called in each of them. *)
OneOwner ==
    /\ h.pending \cap HeldBy(frames) = {}
    /\ \A i, j \in DOMAIN frames : i # j =>
         HeldBy(<<frames[i]>>) \cap HeldBy(<<frames[j]>>) = {}
    /\ Held(h, frames) \subseteq h.called

(* The collector never touches what the script can still reach: a collection
   leaves every container reachable from a variable, a queue or a call as it
   was. *)
Collecting == Collect \/ GcAgain
Intact(n) ==
    /\ h'.kind[n] = h.kind[n]
    /\ \A f \in Field : h'.slot[<<n, f>>] = h.slot[<<n, f>>]

CollectorIsSound ==
    [][Collecting => \A n \in Reach(h, Outside(h, frames)) : Intact(n)]_vars

(* A collection that finds no destructor to call leaves no garbage at all. *)
CollectorIsComplete ==
    [][Collecting /\ Len(frames') <= Len(frames) =>
         Live(h') \subseteq Reach(h', Outside(h', frames'))]_vars

(* A destructor is started at most once in the life of an object. *)
DestructedOnce ==
    [][Len(frames') > Len(frames) /\ frames'[Len(frames')].call = "dtor"
         => frames'[Len(frames')].this \notin ran]_vars

(* An object whose class has a destructor is freed only after it was called
   ("Garbage objects whose destructor has not run get it run first",
   gc.rs:21), as long as destructors do nothing but keep their object. *)
OwnDestructorFirst ==
    [][\A n \in Node :
         h.kind[n] = "dtor" /\ h'.kind[n] = "free" /\ program.does \subseteq {"keep"}
             => n \in ran]_vars

(* The same, whatever destructors do. *)
DestructedBeforeFreed ==
    [][\A n \in Node :
         h.kind[n] = "dtor" /\ h'.kind[n] = "free" => n \in ran]_vars
=============================================================================
