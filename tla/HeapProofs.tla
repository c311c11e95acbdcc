----------------------------- MODULE HeapProofs -----------------------------
(***************************************************************************)
(* Proofs about the heap of a request, for every number of containers,     *)
(* variables, fields and calls in progress: it stays well formed, arrays   *)
(* never form a cycle, all garbage can be found, a collection is sound and *)
(* complete, and destructors are called once and in time.                  *)
(*                                                                         *)
(* The inductive invariant, HeapInv, is that the heap is well formed, that *)
(* it is Shaped (arrays acyclic, and known to hold containers), and that   *)
(* every live container is Seen from outside or from a possible root.      *)
(* OwnInv and KeepInv, about the calls of destructors, are inductive       *)
(* relative to it.                                                         *)
(***************************************************************************)
EXTENDS Heap, FiniteSetTheorems, TLAPS

(* Reach(g, S) is the least closed set that contains S. *)
LEMMA ReachIsClosed ==
    ASSUME NEW g \in HeapType, NEW S \in SUBSET Node
    PROVE  /\ Reach(g, S) \in SUBSET Node
           /\ S \subseteq Reach(g, S)
           /\ Closed(g, Reach(g, S))
<1>1. Reach(g, S) \in SUBSET Node /\ S \subseteq Reach(g, S)
  BY DEF Reach
<1>2. ASSUME NEW s \in Slot, s[1] \in Reach(g, S), g.slot[s] # null
      PROVE  g.slot[s] \in Reach(g, S)
  <2>1. g.slot[s] \in Node
    BY <1>2 DEF HeapType
  <2>2. ASSUME NEW X \in SUBSET Node, S \subseteq X, Closed(g, X)
        PROVE  g.slot[s] \in X
    BY <1>2, <2>2 DEF Reach, Closed
  <2> QED
    BY <2>1, <2>2 DEF Reach
<1> QED
  BY <1>1, <1>2 DEF Closed

LEMMA ReachIsLeast ==
    ASSUME NEW g, NEW S, NEW X \in SUBSET Node, S \subseteq X, Closed(g, X)
    PROVE  Reach(g, S) \subseteq X
BY DEF Reach

(***************************************************************************)
(* Counting.  A handle from outside a set of scanned nodes shows as a      *)
(* reference count above the number of handles inside the set.             *)
(***************************************************************************)
LEMMA SlotIsFinite == IsFiniteSet(Slot)
BY FS_Product, NodeAssumption, VarAssumption DEF Slot

LEMMA CountedOutside ==
    ASSUME NEW g \in HeapType, NEW fs, NEW G \in SUBSET Node, NEW n \in Node,
           \/ n \in Outside(g, fs)
           \/ \E s \in Slot : s[1] \notin G /\ g.slot[s] = n
    PROVE  Strong(g, fs, n) > Cardinality(SlotsOf(g, G, n))
<1> DEFINE in  == SlotsOf(g, G, n)
           all == SlotsOf(g, Node, n)
           vs  == {v \in Var : g.var[v] = n}
           eng == IF n \in Held(g, fs) THEN 1 ELSE 0
<1>1. in \subseteq all /\ all \subseteq Slot
  BY DEF SlotsOf, Slot
<1>2. /\ IsFiniteSet(all) /\ Cardinality(all) \in Nat
      /\ IsFiniteSet(in) /\ Cardinality(in) \in Nat
      /\ Cardinality(in) <= Cardinality(all)
      /\ in # all => Cardinality(in) # Cardinality(all)
  BY <1>1, SlotIsFinite, FS_Subset, FS_CardinalityType
<1>3. /\ IsFiniteSet(vs) /\ Cardinality(vs) \in Nat
      /\ vs # {} => Cardinality(vs) # 0
  <2>1. vs \in SUBSET Var
    OBVIOUS
  <2>2. IsFiniteSet(vs)
    BY <2>1, VarAssumption, FS_Subset
  <2> HIDE DEF vs
  <2> QED
    BY <2>2, FS_CardinalityType, FS_EmptySet
<1>4. Strong(g, fs, n) = Cardinality(vs) + Cardinality(all) + eng
  BY DEF Strong
<1>5. \/ vs # {} \/ eng = 1 \/ in # all
  <2>1. CASE n \in Outside(g, fs)
    BY <2>1 DEF Outside, InVar
  <2>2. CASE \E s \in Slot : s[1] \notin G /\ g.slot[s] = n
    <3>1. PICK s \in Slot : s[1] \notin G /\ g.slot[s] = n
      BY <2>2
    <3>2. s \in all /\ s \notin in
      BY <3>1 DEF SlotsOf, Slot
    <3> QED
      BY <3>2
  <2> QED
    BY <2>1, <2>2
<1>6. eng \in {0, 1}
  OBVIOUS
<1> HIDE DEF in, all, vs, eng
<1> QED
  BY <1>2, <1>3, <1>4, <1>5, <1>6 DEF in

(* The garbage of a scan is out of the script's and the engine's reach. *)
LEMMA GarbageIsUnreachable ==
    ASSUME NEW g \in HeapType, NEW fs, NEW R \in SUBSET Node
    PROVE  Garbage(g, fs, R) \cap Reach(g, Outside(g, fs)) = {}
<1> DEFINE G   == Reach(g, R)
           ext == External(g, fs, G)
           A   == Reach(g, ext)
           X   == Node \ (G \ A)
<1>1. Garbage(g, fs, R) = G \ A
  BY DEF Garbage
<1>2. G \in SUBSET Node /\ ext \in SUBSET Node
  BY DEF Reach, External
<1>3. ext \subseteq A /\ Closed(g, A) /\ A \in SUBSET Node
  BY <1>2, ReachIsClosed
<1>4. ASSUME NEW n \in G,
             \/ n \in Outside(g, fs)
             \/ \E s \in Slot : s[1] \notin G /\ g.slot[s] = n
      PROVE  n \in A
  <2>1. Strong(g, fs, n) > Cardinality(SlotsOf(g, G, n))
    BY <1>2, <1>4, CountedOutside
  <2>2. n \in ext
    BY <2>1 DEF External
  <2> QED
    BY <1>3, <2>2
<1> HIDE DEF G, ext, A
<1>5. Outside(g, fs) \subseteq X
  <2>1. Outside(g, fs) \subseteq Node
    BY DEF Outside, Held, HeldBy, InVar, HeapType
  <2> QED
    BY <1>4, <2>1
<1>6. Closed(g, X)
  <2> SUFFICES ASSUME NEW s \in Slot, s[1] \in X, g.slot[s] # null
               PROVE  g.slot[s] \in X
    BY DEF Closed
  <2>1. g.slot[s] \in Node
    BY DEF HeapType
  <2>2. CASE s[1] \in A
    BY <1>3, <2>1, <2>2 DEF Closed
  <2>3. CASE s[1] \notin G
    BY <1>4, <2>1, <2>3
  <2> QED
    BY <2>2, <2>3
<1>7. Reach(g, Outside(g, fs)) \subseteq X
  BY <1>5, <1>6, ReachIsLeast
<1> QED
  BY <1>1, <1>7

(* Releasing handles frees nothing that is still reachable. *)
LEMMA FreedIsUnreachable ==
    ASSUME NEW g \in HeapType, NEW fs
    PROVE  Freed(g, fs) \cap Reach(g, Outside(g, fs)) = {}
<1> DEFINE O == Outside(g, fs)
           R == Reach(g, O)
           X == Node \ R
<1>1. O \in SUBSET Node
  BY DEF Outside, Held, HeldBy, InVar, HeapType
<1>2. R \in SUBSET Node /\ O \subseteq R /\ Closed(g, R)
  BY <1>1, ReachIsClosed
<1>3. ASSUME NEW m \in Node, Orphan(g, fs, X, m), m \in R
      PROVE  FALSE
  <2> DEFINE Y == R \ {m}
  <2> HIDE DEF R
  <2>1. O \subseteq Y
    BY <1>2, <1>3 DEF Orphan
  <2>2. ASSUME NEW s \in Slot, s[1] \in Y, g.slot[s] # null
        PROVE  g.slot[s] \in Y
    BY <1>2, <1>3, <2>2 DEF Closed, Orphan
  <2>3. Closed(g, Y)
    BY <2>2 DEF Closed
  <2>4. R \subseteq Y
    BY <1>2, <2>1, <2>3, ReachIsLeast DEF R
  <2> QED
    BY <1>3, <2>4
<1>4. Cascaded(g, fs, X)
  BY <1>3 DEF Cascaded
<1>5. X \in SUBSET Node
  OBVIOUS
<1> HIDE DEF X
<1>6. Freed(g, fs) \subseteq X
  BY <1>4, <1>5 DEF Freed
<1> QED
  BY <1>6 DEF X

(* So what is reachable is left as it was, and so are its slots. *)
Same(g, g1, n) ==
    /\ g1.kind[n] = g.kind[n]
    /\ \A f \in Field : g1.slot[<<n, f>>] = g.slot[<<n, f>>]

LEMMA SettleKeepsReachable ==
    ASSUME NEW g \in HeapType, NEW fs, NEW T, NEW n \in Reach(g, Outside(g, fs))
    PROVE  Same(g, Settle(g, fs, T), n)
<1>1. n \in Node /\ n \notin Freed(g, fs)
  BY FreedIsUnreachable DEF Reach
<1>2. \A f \in Field : <<n, f>> \in Slot /\ <<n, f>>[1] = n
  BY <1>1 DEF Slot
<1> QED
  BY <1>1, <1>2 DEF Settle, Same

(* Clearing garbage, then, leaves what is reachable as it was. *)
LEMMA ClearKeepsReachable ==
    ASSUME NEW g \in HeapType, NEW fs, NEW X \in SUBSET Node,
           X \cap Reach(g, Outside(g, fs)) = {},
           NEW n \in Reach(g, Outside(g, fs))
    PROVE  Same(g, Clear(g, fs, X), n)
<1> DEFINE cut == Emptied(g, X) \X Field
           T   == {m \in Node : \E s \in cut : g.slot[s] = m}
           gc  == [g EXCEPT !.slot =
                     [s \in Slot |-> IF s \in cut THEN null ELSE g.slot[s]]]
           O   == Outside(g, fs)
           R   == Reach(g, O)
           R1  == Reach(gc, O)
<1>1. Clear(g, fs, X) = Settle(gc, fs, T)
  BY DEF Clear
<1>2. gc \in HeapType
  BY DEF HeapType
<1>3. Outside(gc, fs) = O /\ O \in SUBSET Node
  BY DEF Outside, Held, HeldBy, InVar, HeapType
<1>4. \A s \in Slot : gc.slot[s] = IF s \in cut THEN null ELSE g.slot[s]
  BY DEF HeapType
<1>5. gc.kind = g.kind
  BY DEF HeapType
<1> HIDE DEF gc
<1>6. /\ R \in SUBSET Node /\ O \subseteq R /\ Closed(g, R)
      /\ R1 \in SUBSET Node /\ O \subseteq R1 /\ Closed(gc, R1)
  BY <1>2, <1>3, ReachIsClosed
<1>7. \A s \in Slot : s[1] \in R => s \notin cut
  BY DEF Emptied
<1> HIDE DEF R, R1, cut
<1>8. Closed(g, R \cap R1)
  BY <1>4, <1>6, <1>7 DEF Closed
<1>9. R \subseteq R1
  BY <1>6, <1>8, ReachIsLeast DEF R
<1>10. Same(gc, Settle(gc, fs, T), n)
  BY <1>2, <1>3, <1>9, SettleKeepsReachable DEF R, R1
<1>11. ASSUME NEW f \in Field
       PROVE  gc.slot[<<n, f>>] = g.slot[<<n, f>>]
  <2>1. <<n, f>> \in Slot /\ <<n, f>>[1] \in R
    BY <1>6 DEF R, Slot
  <2> QED
    BY <1>4, <1>7, <2>1
<1> QED
  BY <1>1, <1>5, <1>10, <1>11 DEF Same

LEMMA ScannedIsTyped ==
    ASSUME NEW g \in HeapType, NEW due \in SUBSET Node
    PROVE  /\ Scanned(g, due) \in HeapType
           /\ Scanned(g, due).kind = g.kind /\ Scanned(g, due).slot = g.slot
           /\ Scanned(g, due).var = g.var /\ Scanned(g, due).pending = g.pending
           /\ Scanned(g, due).mc = g.mc /\ Scanned(g, due).buffered = {}
           /\ Scanned(g, due).called = g.called \cup due
BY DEF Scanned, HeapType

(* Only the slots and the starting set matter to Reach, and it grows with
   the starting set. *)
LEMMA ReachGrows ==
    ASSUME NEW g \in HeapType, NEW g1 \in HeapType, g1.slot = g.slot,
           NEW S \in SUBSET Node, NEW S1 \in SUBSET Node, S \subseteq S1
    PROVE  Reach(g, S) \subseteq Reach(g1, S1)
<1>1. /\ Reach(g1, S1) \in SUBSET Node /\ S1 \subseteq Reach(g1, S1)
      /\ Closed(g1, Reach(g1, S1))
  BY ReachIsClosed
<1>2. Closed(g, Reach(g1, S1))
  BY <1>1 DEF Closed
<1> QED
  BY <1>1, <1>2, ReachIsLeast

(* A collection leaves what was reachable before it as it was: in the second
   round the objects to destroy are held as well, and so is what they hold. *)
LEMMA CollectedKeepsReachable ==
    ASSUME NEW g \in HeapType, NEW fs \in Seq(Frame), NEW n \in Reach(g, Outside(g, fs))
    PROVE  Same(g, Collected(g, fs), n)
<1> DEFINE first == Garbage(g, fs, g.buffered)
           due   == DueIn(g, first)
           g1    == Scanned(g, due)
           fs1   == Push(fs, due)
           X     == Garbage(g1, fs1, first)
<1>1. Collected(g, fs) = Clear(g1, fs1, X)
  BY DEF Collected
<1>2. first \in SUBSET Node
  BY DEF Garbage, Reach
<1>3. due \in SUBSET Node
  BY <1>2 DEF DueIn
<1> HIDE DEF first, due
<1>4. /\ g1 \in HeapType /\ g1.kind = g.kind /\ g1.slot = g.slot
      /\ g1.var = g.var /\ g1.pending = g.pending
  BY <1>3, ScannedIsTyped
<1>5. HeldBy(fs) \subseteq HeldBy(fs1)
  BY DEF HeldBy, Push
<1>6. /\ Outside(g, fs) \in SUBSET Node /\ Outside(g1, fs1) \in SUBSET Node
      /\ Outside(g, fs) \subseteq Outside(g1, fs1)
  BY <1>4, <1>5 DEF Outside, Held, HeldBy, InVar, HeapType
<1> HIDE DEF g1, fs1
<1>7. n \in Reach(g1, Outside(g1, fs1))
  BY <1>4, <1>6, ReachGrows
<1>8. X \in SUBSET Node
  BY DEF Garbage, Reach
<1>9. X \cap Reach(g1, Outside(g1, fs1)) = {}
  BY <1>2, <1>4, GarbageIsUnreachable
<1> HIDE DEF X
<1>10. Same(g1, Clear(g1, fs1, X), n)
  BY <1>4, <1>7, <1>8, <1>9, ClearKeepsReachable
<1> QED
  BY <1>1, <1>4, <1>10 DEF Same

-----------------------------------------------------------------------------
(***************************************************************************)
(* The heap stays well formed.  What a release frees is a fixed point:     *)
(* every freed container was held by freed ones only, and none of them is  *)
(* an object whose destructor is due.                                      *)
(***************************************************************************)
LEMMA FreedIsOrphan ==
    ASSUME NEW g \in HeapType, NEW fs, NEW n \in Freed(g, fs)
    PROVE  Orphan(g, fs, Freed(g, fs), n) /\ n \notin NeedsDestructor(g)
<1> DEFINE F == Freed(g, fs)
           X == {m \in F : Orphan(g, fs, F, m) /\ m \notin NeedsDestructor(g)}
<1>1. F \in SUBSET Node
  BY DEF Freed
<1>2. ASSUME NEW m \in Node \ NeedsDestructor(g), Orphan(g, fs, X, m)
      PROVE  m \in X
  <2>1. Orphan(g, fs, F, m)
    BY <1>2 DEF Orphan
  <2>2. ASSUME NEW Y \in SUBSET Node, Cascaded(g, fs, Y)
        PROVE  m \in Y
    <3>1. F \subseteq Y
      BY <2>2 DEF Freed
    <3>2. Orphan(g, fs, Y, m)
      BY <2>1, <3>1 DEF Orphan
    <3> QED
      BY <2>2, <3>2 DEF Cascaded
  <2>3. m \in F
    BY <2>2 DEF Freed
  <2> QED
    BY <2>1, <2>3
<1>3. X \in SUBSET Node
  BY <1>1
<1>4. Cascaded(g, fs, X)
  BY <1>2 DEF Cascaded
<1> HIDE DEF X
<1>5. F \subseteq X
  BY <1>3, <1>4 DEF Freed
<1> QED
  BY <1>5 DEF X

(* Releasing handles to live containers keeps a heap well formed. *)
LEMMA SettleIsWellFormed ==
    ASSUME NEW g, NEW fs \in Seq(Frame), WellFormed(g, fs), NEW T \in SUBSET Live(g)
    PROVE  WellFormed(Settle(g, fs, T), fs)
<1> DEFINE F == Freed(g, fs)
           queued == {n \in NeedsDestructor(g) : Orphan(g, fs, F, n)}
           lost == T \cup {n \in Node : SlotsOf(g, F, n) # {}}
           g1 == Settle(g, fs, T)
<1>1. g \in HeapType
  BY DEF WellFormed
<1>2. /\ F \in SUBSET Node
      /\ \A n \in F : Orphan(g, fs, F, n) /\ n \notin NeedsDestructor(g)
  BY <1>1, FreedIsOrphan DEF Freed
<1> HIDE DEF F
<1>3. queued \subseteq Live(g) \ F
  BY <1>1, <1>2 DEF NeedsDestructor, Live, HeapType
<1>4. lost \subseteq Live(g)
  <2>1. ASSUME NEW n \in Node, SlotsOf(g, F, n) # {}
        PROVE  n \in Live(g)
    <3>1. PICK s \in Slot : g.slot[s] = n
      BY <1>2, <2>1 DEF SlotsOf, Slot
    <3> QED
      BY <3>1, NodeAssumption DEF WellFormed
  <2> QED
    BY <2>1
<1> HIDE DEF queued, lost
<1>5. /\ g1.kind = [n \in Node |-> IF n \in F THEN "free" ELSE g.kind[n]]
      /\ g1.var = g.var
      /\ g1.slot = [s \in Slot |-> IF s[1] \in F THEN null ELSE g.slot[s]]
      /\ g1.mc = g.mc \ F
      /\ g1.called = (g.called \cup queued) \ F
      /\ g1.buffered = (g.buffered \cup Suspect(g, lost \ queued)) \ F
      /\ g1.pending = g.pending \cup queued
      /\ g1 = [kind |-> g1.kind, var |-> g1.var, slot |-> g1.slot, mc |-> g1.mc,
               called |-> g1.called, buffered |-> g1.buffered,
               pending |-> g1.pending]
  BY DEF Settle, F, queued, lost, TakeOut
<1>6. Suspect(g, lost \ queued) \subseteq Live(g)
  BY <1>4 DEF Suspect
<1>7. Live(g) \in SUBSET Node
  BY DEF Live
<1> HIDE DEF g1
<1>8. g1 \in HeapType
  <2>1. /\ g1.kind \in [Node -> Kinds \cup {"free"}]
        /\ g1.var \in [Var -> Node \cup {null}]
        /\ g1.slot \in [Slot -> Node \cup {null}]
    BY <1>1, <1>5 DEF HeapType
  <2>2. /\ g1.mc \in SUBSET Node /\ g1.called \in SUBSET Node
        /\ g1.buffered \in SUBSET Node /\ g1.pending \in SUBSET Node
    BY <1>1, <1>3, <1>5, <1>6, <1>7 DEF HeapType
  <2> QED
    BY <1>5, <2>1, <2>2 DEF HeapType
<1>9. Live(g1) = Live(g) \ F
  BY <1>2, <1>5 DEF Live
<1>10. \A n \in F : n \notin Outside(g, fs)
  BY <1>2 DEF Orphan
<1>11. Held(g1, fs) = Held(g, fs) \cup queued
  BY <1>5 DEF Held
<1>12. \A v \in Var : g1.var[v] # null => g1.var[v] \in Live(g1)
  BY <1>1, <1>5, <1>9, <1>10 DEF WellFormed, Outside, InVar, HeapType
<1>13. ASSUME NEW s \in Slot, g1.slot[s] # null
       PROVE  s[1] \in Live(g1) /\ g1.slot[s] \in Live(g1)
  <2>1. s[1] \notin F /\ g1.slot[s] = g.slot[s]
    BY <1>5, <1>13
  <2>2. s[1] \in Live(g) /\ g.slot[s] \in Live(g)
    BY <1>13, <2>1 DEF WellFormed
  <2>3. g.slot[s] \notin F
    BY <1>2, <2>1 DEF Orphan
  <2> QED
    BY <1>9, <2>1, <2>2, <2>3
<1>14. g1.mc \cup g1.called \cup g1.buffered \cup Held(g1, fs) \subseteq Live(g1)
  <2>1. g.mc \cup g.called \cup g.buffered \cup Held(g, fs) \subseteq Live(g)
    BY DEF WellFormed
  <2>2. Held(g, fs) \cap F = {}
    BY <1>10 DEF Outside
  <2> QED
    BY <1>3, <1>5, <1>6, <1>9, <1>11, <2>1, <2>2
<1> QED
  BY <1>8, <1>12, <1>13, <1>14 DEF WellFormed, g1

LEMMA ClearIsWellFormed ==
    ASSUME NEW g, NEW fs \in Seq(Frame), WellFormed(g, fs), NEW X \in SUBSET Node
    PROVE  WellFormed(Clear(g, fs, X), fs)
<1> DEFINE cut == Emptied(g, X) \X Field
           T   == {m \in Node : \E s \in cut : g.slot[s] = m}
           gc  == [g EXCEPT !.slot =
                     [s \in Slot |-> IF s \in cut THEN null ELSE g.slot[s]]]
<1>1. Clear(g, fs, X) = Settle(gc, fs, T)
  BY DEF Clear
<1>2. g \in HeapType
  BY DEF WellFormed
<1>3. /\ gc \in HeapType /\ gc.kind = g.kind /\ gc.var = g.var /\ gc.mc = g.mc
      /\ gc.called = g.called /\ gc.buffered = g.buffered
      /\ gc.pending = g.pending
      /\ \A s \in Slot : gc.slot[s] = IF s \in cut THEN null ELSE g.slot[s]
  BY <1>2 DEF HeapType
<1>4. T \subseteq Live(g)
  <2>1. ASSUME NEW m \in Node, NEW s \in cut, g.slot[s] = m
        PROVE  m \in Live(g)
    <3>1. s \in Slot
      BY DEF Emptied, Slot
    <3> QED
      BY <2>1, <3>1, NodeAssumption DEF WellFormed
  <2> QED
    BY <2>1
<1> HIDE DEF gc, cut, T
<1>5. Live(gc) = Live(g) /\ Held(gc, fs) = Held(g, fs)
  BY <1>3 DEF Live, Held
<1>6. WellFormed(gc, fs)
  BY <1>3, <1>5 DEF WellFormed
<1> QED
  BY <1>1, <1>4, <1>5, <1>6, SettleIsWellFormed

LEMMA CollectedIsWellFormed ==
    ASSUME NEW g, NEW fs \in Seq(Frame), WellFormed(g, fs)
    PROVE  LET due == DueIn(g, Garbage(g, fs, g.buffered))
           IN /\ Push(fs, due) \in Seq(Frame)
              /\ WellFormed(Collected(g, fs), Push(fs, due))
<1> DEFINE first == Garbage(g, fs, g.buffered)
           due   == DueIn(g, first)
           g1    == Scanned(g, due)
           fs1   == Push(fs, due)
<1>1. g \in HeapType
  BY DEF WellFormed
<1>2. due \in SUBSET Node /\ due \subseteq Live(g)
  BY <1>1 DEF DueIn, NeedsDestructor, Live, HeapType
<1> HIDE DEF due
<1>3. fs1 \in Seq(Frame)
  BY <1>2 DEF Push, Frame
<1>4. HeldBy(fs1) \subseteq HeldBy(fs) \cup due
  <2>1. CASE due = {}
    BY <2>1 DEF Push, HeldBy
  <2>2. CASE due # {}
    <3>1. fs1 = Append(fs, [call |-> "gc", todo |-> due])
      BY <2>2 DEF Push
    <3>2. /\ DOMAIN fs1 = 1 .. Len(fs) + 1
          /\ \A i \in DOMAIN fs : fs1[i] = fs[i]
          /\ fs1[Len(fs) + 1] = [call |-> "gc", todo |-> due]
          /\ DOMAIN fs = 1 .. Len(fs) /\ Len(fs) \in Nat
      BY <3>1
    <3> HIDE DEF fs1
    <3> QED
      BY <3>2 DEF HeldBy
  <2> QED
    BY <2>1, <2>2
<1> HIDE DEF fs1
<1>5. WellFormed(g1, fs1)
  <2>1. /\ g1 \in HeapType /\ g1.kind = g.kind /\ g1.slot = g.slot
        /\ g1.var = g.var /\ g1.pending = g.pending
        /\ g1.mc = g.mc /\ g1.buffered = {} /\ g1.called = g.called \cup due
    BY <1>1, <1>2, ScannedIsTyped
  <2> HIDE DEF g1
  <2>2. Live(g1) = Live(g)
    BY <2>1 DEF Live
  <2>3. Held(g1, fs1) \subseteq Held(g, fs) \cup due
    BY <1>4, <2>1 DEF Held
  <2> QED
    BY <1>2, <2>1, <2>2, <2>3 DEF WellFormed
<1>6. Garbage(g1, fs1, first) \in SUBSET Node
  BY DEF Garbage, Reach
<1>7. WellFormed(Clear(g1, fs1, Garbage(g1, fs1, first)), fs1)
  BY <1>3, <1>5, <1>6, ClearIsWellFormed
<1> QED
  BY <1>3, <1>7 DEF Collected, due, fs1

(* Stacks of calls.  What a shorter stack holds, a longer one held. *)
LEMMA AppendIs ==
    ASSUME NEW fs \in Seq(Frame), NEW fr \in Frame
    PROVE  LET fs1 == Append(fs, fr)
           IN /\ fs1 \in Seq(Frame) /\ DOMAIN fs1 = 1 .. Len(fs) + 1
              /\ \A i \in DOMAIN fs : fs1[i] = fs[i]
              /\ fs1[Len(fs) + 1] = fr /\ DOMAIN fs = 1 .. Len(fs)
OBVIOUS

LEMMA PopIsShorter ==
    ASSUME NEW fs \in Seq(Frame), fs # <<>>
    PROVE  LET below == SubSeq(fs, 1, Len(fs) - 1)
           IN /\ below \in Seq(Frame)
              /\ Len(fs) \in Nat /\ Len(below) = Len(fs) - 1
<1> DEFINE below == SubSeq(fs, 1, Len(fs) - 1)
<1>1. Len(fs) \in Nat /\ Len(fs) > 0 /\ DOMAIN fs = 1 .. Len(fs)
  OBVIOUS
<1>2. below \in Seq(Frame) /\ Len(below) = Len(fs) - 1
  BY <1>1
<1> QED
  BY <1>1, <1>2

LEMMA StackFacts ==
    ASSUME NEW fs \in Seq(Frame), fs # <<>>
    PROVE  LET below == SubSeq(fs, 1, Len(fs) - 1)
               top   == fs[Len(fs)]
           IN /\ below \in Seq(Frame) /\ top \in Frame
              /\ HeldBy(below) \subseteq HeldBy(fs)
              /\ top.call = "dtor" => top.this \in Node /\ top.this \in HeldBy(fs)
              /\ top.call = "gc" => top.todo \in SUBSET Node
                                    /\ top.todo \subseteq HeldBy(fs)
<1> DEFINE below == SubSeq(fs, 1, Len(fs) - 1)
           top   == fs[Len(fs)]
<1>1. Len(fs) \in Nat /\ Len(fs) > 0 /\ DOMAIN fs = 1 .. Len(fs)
  OBVIOUS
<1>2. below \in Seq(Frame) /\ Len(below) = Len(fs) - 1
  BY <1>1
<1>3. \A i \in 1 .. Len(fs) - 1 : below[i] = fs[i]
  BY <1>1
<1>4. top \in Frame
  BY <1>1
<1>5. DOMAIN below = 1 .. Len(fs) - 1
  BY <1>2
<1> HIDE DEF below
<1>6. HeldBy(below) \subseteq HeldBy(fs)
  BY <1>1, <1>3, <1>5 DEF HeldBy
<1>7. \/ top \in [call : {"dtor"}, this : Node]
      \/ top \in [call : {"gc"}, todo : SUBSET Node]
  BY <1>4 DEF Frame
<1>8. top.call = "dtor" => top.this \in Node
  BY <1>7
<1>9. top.call = "gc" => top.todo \in SUBSET Node
  BY <1>7
<1>10. Len(fs) \in DOMAIN fs
  BY <1>1
<1> QED
  BY <1>2, <1>4, <1>6, <1>8, <1>9, <1>10 DEF HeldBy, below

(***************************************************************************)
(* The shape of the heap: no array contains itself through arrays alone,   *)
(* an array that holds a container is known to (mc), a cell has one slot.  *)
(***************************************************************************)

(* X is closed under what the arrays in it hold. *)
ClosedForArrays(g, X) ==
    \A s \in Slot : g.kind[s[1]] = "arr" /\ s[1] \in X /\ g.slot[s] # null
                        => g.slot[s] \in X

(* Whatever the array n holds through arrays alone lies in a set without n. *)
Acyclic(g) ==
    \A n \in Node : g.kind[n] = "arr" =>
        \E X \in SUBSET Node :
            /\ n \notin X /\ ClosedForArrays(g, X)
            /\ \A s \in Slot : s[1] = n /\ g.slot[s] # null => g.slot[s] \in X

Shaped(g) ==
    /\ Acyclic(g)
    /\ \A s \in Slot : g.slot[s] # null =>
          /\ g.kind[s[1]] = "arr" => s[1] \in g.mc
          /\ g.kind[s[1]] = "ref" => s[2] = CellField

LEMMA AcyclicIsArraysAcyclic ==
    ASSUME TypeOK
    PROVE  Acyclic(h) <=> ArraysAcyclic
<1> DEFINE arrays == [h EXCEPT !.slot = [s \in Slot |->
                         IF h.kind[s[1]] = "arr" THEN h.slot[s] ELSE null]]
           held(n) == {h.slot[s] : s \in {n} \X Field} \ {null}
<1>1. h \in HeapType
  BY DEF TypeOK, WellFormed
<1>2. \A s \in Slot :
         arrays.slot[s] = IF h.kind[s[1]] = "arr" THEN h.slot[s] ELSE null
  BY <1>1 DEF HeapType
<1>3. ArraysAcyclic <=> \A n \in Node : h.kind[n] = "arr" => n \notin Reach(arrays, held(n))
  BY DEF ArraysAcyclic
<1> HIDE DEF arrays
<1>4. ASSUME NEW X \in SUBSET Node
      PROVE  Closed(arrays, X) <=> ClosedForArrays(h, X)
  BY <1>2 DEF Closed, ClosedForArrays
<1>5. ASSUME NEW n \in Node, NEW X \in SUBSET Node
      PROVE  held(n) \subseteq X <=>
             \A s \in Slot : s[1] = n /\ h.slot[s] # null => h.slot[s] \in X
  <2>1. {n} \X Field = {s \in Slot : s[1] = n}
    BY DEF Slot
  <2> QED
    BY <2>1
<1> HIDE DEF held
<1>6. ASSUME NEW n \in Node
      PROVE  n \notin Reach(arrays, held(n)) <=>
             \E X \in SUBSET Node :
                n \notin X /\ ClosedForArrays(h, X) /\ held(n) \subseteq X
  BY <1>4 DEF Reach
<1> QED
  BY <1>3, <1>5, <1>6 DEF Acyclic

(* Fewer slots, and no new array: nothing new can be part of a cycle. *)
LEMMA FewerSlots ==
    ASSUME NEW g, NEW g1, Shaped(g),
           \A n \in Node : g1.kind[n] # g.kind[n] => g1.kind[n] = "free",
           \A s \in Slot : g1.slot[s] # null =>
              /\ g1.slot[s] = g.slot[s] /\ g1.kind[s[1]] = g.kind[s[1]]
              /\ s[1] \in g.mc => s[1] \in g1.mc
    PROVE  Shaped(g1)
<1>1. ASSUME NEW X \in SUBSET Node, ClosedForArrays(g, X)
      PROVE  ClosedForArrays(g1, X)
  BY <1>1 DEF ClosedForArrays
<1>2. Acyclic(g1)
  <2> SUFFICES ASSUME NEW n \in Node, g1.kind[n] = "arr"
               PROVE  \E X \in SUBSET Node :
                         /\ n \notin X /\ ClosedForArrays(g1, X)
                         /\ \A s \in Slot : s[1] = n /\ g1.slot[s] # null
                                                => g1.slot[s] \in X
    BY DEF Acyclic
  <2>1. g.kind[n] = "arr"
    OBVIOUS
  <2>2. PICK X \in SUBSET Node :
            /\ n \notin X /\ ClosedForArrays(g, X)
            /\ \A s \in Slot : s[1] = n /\ g.slot[s] # null => g.slot[s] \in X
    BY <2>1 DEF Shaped, Acyclic
  <2> QED
    BY <1>1, <2>2
<1> QED
  BY <1>2 DEF Shaped

(* Between g and g1 only the slots of b and p changed among those of arrays;
   in g1 no array leads to p, and only p leads to b. *)
Detached(g, g1, b, p) ==
    /\ \A n \in Node \ {b, p} : g1.kind[n] = "arr" => g.kind[n] = "arr"
    /\ \A s \in Slot : g1.kind[s[1]] = "arr" /\ s[1] \notin {b, p} =>
          g1.slot[s] = g.slot[s]
    /\ \A s \in Slot : g1.kind[s[1]] = "arr" =>
          g1.slot[s] # p /\ (g1.slot[s] = b => s[1] = p)
    /\ \A s \in Slot : g1.slot[s] \in Node \cup {null}

LEMMA StaysAcyclic ==
    ASSUME NEW g, NEW g1, Acyclic(g), NEW b \in Node, NEW p \in Node,
           Detached(g, g1, b, p)
    PROVE  Acyclic(g1)
<1> USE DEF Detached
<1> SUFFICES ASSUME NEW n \in Node, g1.kind[n] = "arr"
             PROVE  \E X \in SUBSET Node :
                       /\ n \notin X /\ ClosedForArrays(g1, X)
                       /\ \A s \in Slot : s[1] = n /\ g1.slot[s] # null
                                              => g1.slot[s] \in X
  BY DEF Acyclic
<1>0. \A s \in Slot : s[1] \in Node
  BY DEF Slot
<1>1. CASE n \notin {b, p}
  <2>1. PICK X \in SUBSET Node :
            /\ n \notin X /\ ClosedForArrays(g, X)
            /\ \A s \in Slot : s[1] = n /\ g.slot[s] # null => g.slot[s] \in X
    BY <1>1 DEF Acyclic
  <2> DEFINE Y == X \ {b, p}
  <2>2. ClosedForArrays(g1, Y)
    BY <1>0, <2>1 DEF ClosedForArrays
  <2>3. ASSUME NEW s \in Slot, s[1] = n, g1.slot[s] # null
        PROVE  g1.slot[s] \in Y
    BY <1>1, <2>1, <2>3
  <2>4. Y \in SUBSET Node /\ n \notin Y
    BY <2>1
  <2> HIDE DEF Y
  <2> QED
    BY <2>2, <2>3, <2>4
<1>2. CASE n = p
  <2> DEFINE Y == Node \ {p}
  <2>1. Y \in SUBSET Node /\ n \notin Y /\ ClosedForArrays(g1, Y)
    BY <1>2 DEF ClosedForArrays
  <2>2. \A s \in Slot : s[1] = n /\ g1.slot[s] # null => g1.slot[s] \in Y
    OBVIOUS
  <2> HIDE DEF Y
  <2> QED
    BY <2>1, <2>2
<1>3. CASE n = b /\ n # p
  <2> DEFINE Y == Node \ {b, p}
  <2>1. Y \in SUBSET Node /\ n \notin Y /\ ClosedForArrays(g1, Y)
    BY <1>3 DEF ClosedForArrays
  <2>2. \A s \in Slot : s[1] = n /\ g1.slot[s] # null => g1.slot[s] \in Y
    BY <1>3
  <2> HIDE DEF Y
  <2> QED
    BY <2>1, <2>2
<1> QED
  BY <1>1, <1>2, <1>3

(* What Settle does to the fields, in terms of what it frees and queues. *)
Queued(g, fs) == {n \in NeedsDestructor(g) : Orphan(g, fs, Freed(g, fs), n)}

LEMMA SettleFacts ==
    ASSUME NEW g \in HeapType, NEW fs, NEW T
    PROVE  LET F  == Freed(g, fs)
               g1 == Settle(g, fs, T)
           IN /\ F \in SUBSET Node /\ F \cap Outside(g, fs) = {}
              /\ F \cap NeedsDestructor(g) = {}
              /\ \A n \in Node : g1.kind[n] = IF n \in F THEN "free" ELSE g.kind[n]
              /\ g1.var = g.var
              /\ \A s \in Slot : g1.slot[s] = IF s[1] \in F THEN null ELSE g.slot[s]
              /\ g1.mc = g.mc \ F
              /\ g1.called = (g.called \cup Queued(g, fs)) \ F
              /\ g1.pending = g.pending \cup Queued(g, fs)
              /\ \A n \in (T \cup {m \in Node : SlotsOf(g, F, m) # {}}) \ Queued(g, fs) :
                   n \notin F /\ (g.kind[n] = "arr" => n \in g.mc) => n \in g1.buffered
              /\ g.buffered \ F \subseteq g1.buffered
              /\ Outside(g, fs) \cup Queued(g, fs) \subseteq Outside(g1, fs)
<1> DEFINE F  == Freed(g, fs)
           g1 == Settle(g, fs, T)
<1>1. F \in SUBSET Node /\ F \cap Outside(g, fs) = {} /\ F \cap NeedsDestructor(g) = {}
  BY FreedIsOrphan DEF Freed, Orphan
<1> HIDE DEF F
<1>2. /\ g1.kind = [n \in Node |-> IF n \in F THEN "free" ELSE g.kind[n]]
      /\ g1.var = g.var
      /\ g1.slot = [s \in Slot |-> IF s[1] \in F THEN null ELSE g.slot[s]]
      /\ g1.mc = g.mc \ F
      /\ g1.called = (g.called \cup Queued(g, fs)) \ F
      /\ g1.pending = g.pending \cup Queued(g, fs)
      /\ g1.buffered = (g.buffered \cup
            Suspect(g, (T \cup {m \in Node : SlotsOf(g, F, m) # {}}) \ Queued(g, fs))) \ F
  BY DEF Settle, F, Queued, TakeOut
<1> HIDE DEF g1
<1>3. Outside(g, fs) \cup Queued(g, fs) \subseteq Outside(g1, fs)
  BY <1>2 DEF Outside, Held, InVar
<1> QED
  BY <1>1, <1>2, <1>3 DEF Suspect, F, g1

(* A container that no handle holds any more is freed, unless its destructor
   is due. *)
LEMMA OrphanIsFreed ==
    ASSUME NEW g, NEW fs, NEW n \in Node \ NeedsDestructor(g),
           Orphan(g, fs, Freed(g, fs), n)
    PROVE  n \in Freed(g, fs)
<1> SUFFICES ASSUME NEW X \in SUBSET Node, Cascaded(g, fs, X) PROVE n \in X
  BY DEF Freed
<1>1. Freed(g, fs) \subseteq X
  BY DEF Freed
<1>2. Orphan(g, fs, X, n)
  BY <1>1 DEF Orphan
<1> QED
  BY <1>2 DEF Cascaded

LEMMA SettleIsShaped ==
    ASSUME NEW g \in HeapType, NEW fs, NEW T, Shaped(g)
    PROVE  Shaped(Settle(g, fs, T))
<1> DEFINE g1 == Settle(g, fs, T)
           F  == Freed(g, fs)
<1>1. /\ \A n \in Node : g1.kind[n] = IF n \in F THEN "free" ELSE g.kind[n]
      /\ \A s \in Slot : g1.slot[s] = IF s[1] \in F THEN null ELSE g.slot[s]
      /\ g1.mc = g.mc \ F
  BY SettleFacts
<1>2. \A s \in Slot : s[1] \in Node
  BY DEF Slot
<1> HIDE DEF g1, F
<1> QED
  BY <1>1, <1>2, FewerSlots DEF g1

(* Every live container can be reached from the script, the engine, the
   possible roots, or what has just lost a handle. *)
Seen(g, fs, T) ==
    Live(g) \subseteq Reach(g, Outside(g, fs) \cup g.buffered \cup T)

LEMMA SettleIsSeen ==
    ASSUME NEW g, NEW fs \in Seq(Frame), WellFormed(g, fs), Shaped(g),
           NEW T \in SUBSET Live(g), Seen(g, fs, T)
    PROVE  Seen(Settle(g, fs, T), fs, {})
<1> DEFINE g1 == Settle(g, fs, T)
           F  == Freed(g, fs)
           Q  == Queued(g, fs)
           lost == T \cup {m \in Node : SlotsOf(g, F, m) # {}}
           S  == Outside(g, fs) \cup g.buffered \cup T
           S1 == Outside(g1, fs) \cup g1.buffered \cup {}
           U  == Reach(g1, S1)
           D  == {n \in lost \ F : g.kind[n] = "arr" /\ n \notin g.mc}
           Y  == U \cup F \cup D
<1>1. g \in HeapType
  BY DEF WellFormed
<1>2. /\ F \in SUBSET Node /\ F \cap Outside(g, fs) = {}
      /\ \A n \in Node : g1.kind[n] = IF n \in F THEN "free" ELSE g.kind[n]
      /\ \A s \in Slot : g1.slot[s] = IF s[1] \in F THEN null ELSE g.slot[s]
      /\ \A n \in lost \ Q :
           n \notin F /\ (g.kind[n] = "arr" => n \in g.mc) => n \in g1.buffered
      /\ g.buffered \ F \subseteq g1.buffered
      /\ Outside(g, fs) \cup Q \subseteq Outside(g1, fs)
  BY <1>1, SettleFacts
<1>3. WellFormed(g1, fs) /\ g1 \in HeapType
  BY SettleIsWellFormed DEF WellFormed
<1>4. S1 \in SUBSET Node /\ S \in SUBSET Node /\ lost \in SUBSET Node
  BY <1>1, <1>3 DEF HeapType, Outside, InVar, Held, HeldBy, Live
<1>5. U \in SUBSET Node /\ S1 \subseteq U /\ Closed(g1, U)
  BY <1>3, <1>4, ReachIsClosed
<1>6. \A n \in D : \A s \in Slot : s[1] = n => g.slot[s] = null
  BY DEF Shaped
<1>7. lost \subseteq Y
  BY <1>2, <1>5
<1>8. S \subseteq Y
  BY <1>2, <1>5, <1>7
<1>9. Closed(g, Y)
  <2> SUFFICES ASSUME NEW s \in Slot, s[1] \in Y, g.slot[s] # null
               PROVE  g.slot[s] \in Y
    BY DEF Closed
  <2>1. g.slot[s] \in Node
    BY <1>1 DEF HeapType
  <2>2. CASE s[1] \in F
    <3>1. s \in SlotsOf(g, F, g.slot[s])
      BY <2>2 DEF SlotsOf, Slot
    <3> QED
      BY <1>7, <2>1, <3>1
  <2>3. CASE s[1] \in U /\ s[1] \notin F
    BY <1>2, <1>5, <2>3 DEF Closed
  <2>4. CASE s[1] \in D
    BY <1>6, <2>4
  <2> QED
    BY <2>2, <2>3, <2>4
<1>10. Y \in SUBSET Node
  BY <1>2, <1>4, <1>5
<1>11. Live(g) \subseteq Y
  <2> HIDE DEF Y
  <2> QED
    BY <1>8, <1>9, <1>10, ReachIsLeast DEF Seen
<1>12. ASSUME NEW n \in D
       PROVE  n \in U
  <2>1. n \in Live(g) /\ n \notin F /\ n \in Node \ NeedsDestructor(g)
    <3>1. n \in Node /\ g.kind[n] = "arr" /\ n \notin F
      BY <1>4
    <3> QED
      BY <3>1 DEF Live, NeedsDestructor
  <2>2. ~Orphan(g, fs, F, n)
    BY <2>1, OrphanIsFreed
  <2>3. CASE n \in Outside(g, fs)
    BY <1>2, <1>5, <2>3
  <2>4. CASE \E s \in Slot : g.slot[s] = n /\ s[1] \notin F
    <3>1. PICK s \in Slot : g.slot[s] = n /\ s[1] \notin F
      BY <2>4
    <3>2. n # null
      BY <2>1, NodeAssumption
    <3>3. s[1] \in Live(g)
      BY <3>1, <3>2 DEF WellFormed
    <3>4. s[1] \in U
      BY <1>6, <1>11, <3>1, <3>2, <3>3
    <3> QED
      BY <1>2, <1>5, <3>1, <3>2, <3>4 DEF Closed
  <2> QED
    BY <2>1, <2>2, <2>3, <2>4 DEF Orphan
<1>13. Live(g1) \subseteq U
  <2>1. Live(g1) \subseteq Live(g) \ F
    BY <1>2 DEF Live
  <2> QED
    BY <1>11, <1>12, <2>1
<1> QED
  BY <1>13 DEF Seen

(* A container that only containers of G hold has as many handles as G has
   slots that lead to it. *)
LEMMA HeldInside ==
    ASSUME NEW g, NEW fs, NEW G \in SUBSET Node, NEW n \in Node,
           n \notin Outside(g, fs),
           \A s \in Slot : g.slot[s] = n => s[1] \in G
    PROVE  Strong(g, fs, n) = Cardinality(SlotsOf(g, G, n))
<1>1. {v \in Var : g.var[v] = n} = {} /\ n \notin Held(g, fs)
  BY DEF Outside, InVar
<1>2. SlotsOf(g, Node, n) = SlotsOf(g, G, n)
  BY DEF SlotsOf, Slot
<1>3. IsFiniteSet(SlotsOf(g, G, n))
  <2>1. SlotsOf(g, G, n) \in SUBSET Slot
    BY DEF SlotsOf, Slot
  <2> QED
    BY <2>1, SlotIsFinite, FS_Subset
<1>4. Cardinality(SlotsOf(g, G, n)) \in Nat
  BY <1>3, FS_CardinalityType
<1> DEFINE vs == {v \in Var : g.var[v] = n}
<1>5. Strong(g, fs, n) = Cardinality(vs) + Cardinality(SlotsOf(g, G, n))
                           + (IF n \in Held(g, fs) THEN 1 ELSE 0)
  BY <1>2 DEF Strong
<1>6. vs = {}
  BY <1>1
<1> HIDE DEF vs
<1>7. Cardinality(vs) = 0
  BY <1>6, FS_EmptySet
<1> QED
  BY <1>1, <1>4, <1>5, <1>7

(* A scan of what R reaches finds all the garbage, if whatever is live can be
   reached from R or from outside. *)
LEMMA GarbageIsAll ==
    ASSUME NEW g, NEW fs, WellFormed(g, fs), NEW R \in SUBSET Node,
           Live(g) \subseteq Reach(g, Outside(g, fs) \cup R)
    PROVE  Live(g) \subseteq Reach(g, Outside(g, fs)) \cup Garbage(g, fs, R)
<1> DEFINE O   == Outside(g, fs)
           V   == Reach(g, O)
           G   == Reach(g, R)
           ext == External(g, fs, G)
<1>1. g \in HeapType
  BY DEF WellFormed
<1>2. O \in SUBSET Node
  BY <1>1 DEF Outside, Held, HeldBy, InVar, HeapType
<1>3. V \in SUBSET Node /\ O \subseteq V /\ Closed(g, V)
  BY <1>1, <1>2, ReachIsClosed
<1>4. G \in SUBSET Node /\ R \subseteq G /\ Closed(g, G)
  BY <1>1, ReachIsClosed
<1> HIDE DEF V, G
<1>5. Live(g) \subseteq V \cup G
  <2>1. Closed(g, V \cup G)
    BY <1>3, <1>4 DEF Closed
  <2>2. Reach(g, O \cup R) \subseteq V \cup G
    BY <1>3, <1>4, <2>1, ReachIsLeast
  <2> QED
    BY <2>2
<1>6. ext \subseteq V
  <2> SUFFICES ASSUME NEW n \in ext PROVE n \in V
    OBVIOUS
  <2>1. n \in Node /\ n \in G /\ Strong(g, fs, n) > Cardinality(SlotsOf(g, G, n))
    BY <1>4 DEF External
  <2>2. IsFiniteSet(SlotsOf(g, G, n))
    <3>1. SlotsOf(g, G, n) \in SUBSET Slot
      BY <1>4 DEF SlotsOf, Slot
    <3> QED
      BY <3>1, SlotIsFinite, FS_Subset
  <2>3. Cardinality(SlotsOf(g, G, n)) \in Nat
    BY <2>2, FS_CardinalityType
  <2>4. Strong(g, fs, n) # Cardinality(SlotsOf(g, G, n))
    BY <2>1, <2>3
  <2>5. n \in O \/ \E s \in Slot : g.slot[s] = n /\ s[1] \notin G
    BY <1>4, <2>1, <2>4, HeldInside
  <2>6. CASE n \in O
    BY <1>3, <2>6
  <2>7. CASE \E s \in Slot : g.slot[s] = n /\ s[1] \notin G
    <3>1. PICK s \in Slot : g.slot[s] = n /\ s[1] \notin G
      BY <2>7
    <3>2. n # null
      BY <2>1, NodeAssumption
    <3>3. s[1] \in Live(g)
      BY <3>1, <3>2 DEF WellFormed
    <3> QED
      BY <1>3, <1>5, <3>1, <3>2, <3>3 DEF Closed
  <2> QED
    BY <2>5, <2>6, <2>7
<1>7. Reach(g, ext) \subseteq V
  <2> HIDE DEF ext
  <2> QED
    BY <1>3, <1>6, ReachIsLeast
<1>8. Garbage(g, fs, R) = G \ Reach(g, ext)
  BY DEF Garbage, G
<1> QED
  BY <1>5, <1>7, <1>8 DEF V

LEMMA GarbageIsLive ==
    ASSUME NEW g, NEW fs, WellFormed(g, fs), NEW R \in SUBSET Live(g)
    PROVE  Garbage(g, fs, R) \subseteq Live(g)
<1>1. Closed(g, Live(g)) /\ Live(g) \in SUBSET Node
  BY DEF WellFormed, Closed, Live
<1>2. Reach(g, R) \subseteq Live(g)
  BY <1>1, ReachIsLeast
<1> QED
  BY <1>2 DEF Garbage

(* Every set of containers has one that no array of the set holds. *)
LEMMA SomeIsNotHeld ==
    ASSUME NEW g, Acyclic(g), NEW Z \in SUBSET Node, Z # {},
           \A z \in Z : \E s \in Slot :
              s[1] \in Z /\ g.kind[s[1]] = "arr" /\ g.slot[s] = z
    PROVE  FALSE
<1> DEFINE Under(z) == {n \in Node : \A X \in SUBSET Node :
                            z \in X /\ ClosedForArrays(g, X) => n \in X}
           Rest(z)   == Node \ Under(z)
           all       == {Rest(z) : z \in Z}
           R         == StrictSubsetOrdering(Node)
<1>1. IsWellFoundedOn(R, SUBSET Node)
  BY NodeAssumption, FS_StrictSubsetOrderingWellFounded, FS_FiniteSubsetsOfFinite
<1>2. all \subseteq SUBSET Node /\ all # {}
  <2> HIDE DEF Under
  <2>1. \A z \in Z : Rest(z) \in SUBSET Node
    OBVIOUS
  <2> HIDE DEF Rest
  <2> QED
    BY <2>1
<1>3. \E x \in all : \A y \in all : ~(<<y, x>> \in R)
  <2> HIDE DEF all, R
  <2> QED
    BY <1>1, <1>2, WFMin
<1>4. PICK z \in Z : \A y \in Z : ~(<<Rest(y), Rest(z)>> \in R)
  <2> HIDE DEF Rest, R
  <2> QED
    BY <1>3
<1>5. PICK s \in Slot : s[1] \in Z /\ g.kind[s[1]] = "arr" /\ g.slot[s] = z
  OBVIOUS
<1> DEFINE y == s[1]
<1>6. y \in Node /\ z \in Node
  BY <1>5
<1>7. z # null
  BY <1>6, NodeAssumption
<1>8. Under(z) \subseteq Under(y)
  BY <1>5, <1>7 DEF ClosedForArrays
<1>9. y \in Under(y)
  BY <1>6
<1>10. y \notin Under(z)
  <2>1. PICK X \in SUBSET Node :
            /\ y \notin X /\ ClosedForArrays(g, X)
            /\ \A t \in Slot : t[1] = y /\ g.slot[t] # null => g.slot[t] \in X
    BY <1>5, <1>6 DEF Acyclic
  <2>2. z \in X
    BY <1>5, <1>7, <2>1
  <2> QED
    BY <2>1, <2>2
<1>11. Rest(y) \subseteq Rest(z) /\ Rest(y) # Rest(z)
  BY <1>6, <1>8, <1>9, <1>10
<1>12. <<Rest(y), Rest(z)>> \in R
  <2>1. Rest(y) \in SUBSET Node /\ Rest(z) \in SUBSET Node
    OBVIOUS
  <2> HIDE DEF Rest
  <2> QED
    BY <1>11, <2>1 DEF StrictSubsetOrdering
<1> QED
  BY <1>4, <1>5, <1>12

(* Emptying the objects and the cells of the garbage frees all of it: the
   arrays between them cannot keep each other. *)
LEMMA ClearIsComplete ==
    ASSUME NEW g, NEW fs \in Seq(Frame), WellFormed(g, fs), Shaped(g),
           NEW X \in SUBSET Live(g),
           Live(g) \subseteq Reach(g, Outside(g, fs)) \cup X,
           X \cap Reach(g, Outside(g, fs)) = {},
           X \cap NeedsDestructor(g) = {}
    PROVE  LET g1 == Clear(g, fs, X)
           IN /\ Shaped(g1)
              /\ Live(g1) \subseteq Reach(g1, Outside(g1, fs))
<1> DEFINE cut == Emptied(g, X) \X Field
           T   == {m \in Node : \E s \in cut : g.slot[s] = m}
           gc  == [g EXCEPT !.slot =
                     [s \in Slot |-> IF s \in cut THEN null ELSE g.slot[s]]]
           g1  == Settle(gc, fs, T)
           O   == Outside(g, fs)
           V   == Reach(g, O)
           F   == Freed(gc, fs)
<1>1. Clear(g, fs, X) = g1
  BY DEF Clear
<1>2. g \in HeapType
  BY DEF WellFormed
<1>3. /\ gc \in HeapType /\ gc.kind = g.kind /\ gc.var = g.var /\ gc.mc = g.mc
      /\ gc.called = g.called /\ gc.buffered = g.buffered
      /\ gc.pending = g.pending
      /\ \A s \in Slot : gc.slot[s] = IF s \in cut THEN null ELSE g.slot[s]
  BY <1>2 DEF HeapType
<1>4. \A s \in Slot : s \in cut <=> s[1] \in X /\ g.kind[s[1]] # "arr"
  BY DEF Emptied, Slot
<1> HIDE DEF gc, cut
<1>5. Shaped(gc)
  BY <1>3, FewerSlots
<1>6. Outside(gc, fs) = O /\ Live(gc) = Live(g) /\ NeedsDestructor(gc) = NeedsDestructor(g)
  BY <1>3 DEF Outside, InVar, Held, Live, NeedsDestructor
<1>7. O \in SUBSET Node
  BY <1>2 DEF Outside, Held, HeldBy, InVar, HeapType
<1>8. /\ V \in SUBSET Node /\ O \subseteq V /\ Closed(g, V)
  BY <1>2, <1>7, ReachIsClosed
<1>9. /\ F \in SUBSET Node /\ F \cap Reach(gc, O) = {}
      /\ \A n \in Node : g1.kind[n] = IF n \in F THEN "free" ELSE gc.kind[n]
      /\ \A s \in Slot : g1.slot[s] = IF s[1] \in F THEN null ELSE gc.slot[s]
      /\ O \subseteq Outside(g1, fs)
  <2>1. /\ F \in SUBSET Node
        /\ \A n \in Node : g1.kind[n] = IF n \in F THEN "free" ELSE gc.kind[n]
        /\ \A s \in Slot : g1.slot[s] = IF s[1] \in F THEN null ELSE gc.slot[s]
        /\ Outside(gc, fs) \subseteq Outside(g1, fs)
    BY <1>3, SettleFacts
  <2>2. F \cap Reach(gc, Outside(gc, fs)) = {}
    BY <1>3, FreedIsUnreachable
  <2> QED
    BY <1>6, <2>1, <2>2
<1>10. V \subseteq Reach(gc, O)
  <2>1. /\ Reach(gc, O) \in SUBSET Node /\ O \subseteq Reach(gc, O)
        /\ Closed(gc, Reach(gc, O))
    BY <1>3, <1>7, ReachIsClosed
  <2>2. Closed(g, V \cap Reach(gc, O))
    <3> HIDE DEF V
    <3> QED
      BY <1>3, <1>4, <1>8, <2>1 DEF Closed, V
  <2> QED
    BY <1>8, <2>1, <2>2, ReachIsLeast
<1>11. X \subseteq F
  <2> SUFFICES ASSUME NEW Y \in SUBSET Node, Cascaded(gc, fs, Y), X \ Y # {}
               PROVE  FALSE
    BY DEF Freed, Live
  <2> DEFINE Z == X \ Y
  <2>1. Z \in SUBSET Node
    BY DEF Live
  <2>2. ASSUME NEW z \in Z
        PROVE  \E s \in Slot : s[1] \in Z /\ g.kind[s[1]] = "arr" /\ g.slot[s] = z
    <3>1. z \in Node \ NeedsDestructor(gc) /\ z \in Live(gc) /\ z \notin O /\ z \notin Y
      BY <1>6, <1>8, <2>1
    <3>2. ~Orphan(gc, fs, Y, z)
      BY <3>1 DEF Cascaded
    <3>3. PICK s \in Slot : gc.slot[s] = z /\ s[1] \notin Y
      BY <1>6, <3>1, <3>2 DEF Orphan
    <3>4. z # null
      BY <3>1, NodeAssumption
    <3>5. s \notin cut /\ g.slot[s] = z
      BY <1>3, <3>3, <3>4
    <3>6. s[1] \in Live(g)
      BY <3>4, <3>5 DEF WellFormed
    <3>7. s[1] \notin V
      BY <1>8, <3>4, <3>5 DEF Closed
    <3>8. s[1] \in Z
      BY <3>3, <3>6, <3>7
    <3> QED
      BY <1>4, <3>5, <3>8
  <2>3. Acyclic(g) /\ Z # {}
    BY DEF Shaped
  <2> HIDE DEF Z
  <2> QED
    BY <2>1, <2>2, <2>3, SomeIsNotHeld
<1>12. Live(g1) \subseteq V
  <2>1. Live(g1) \subseteq Live(gc) \ F
    BY <1>9 DEF Live
  <2> QED
    BY <1>6, <1>11, <2>1
<1>13. g1 \in HeapType
  <2>1. T \subseteq Live(g)
    <3>1. ASSUME NEW m \in Node, NEW s \in cut, g.slot[s] = m
          PROVE  m \in Live(g)
      <4>1. s \in Slot
        BY DEF cut, Emptied, Slot, Live
      <4> QED
        BY <3>1, <4>1, NodeAssumption DEF WellFormed
    <3> QED
      BY <3>1
  <2>2. WellFormed(gc, fs)
    BY <1>3, <1>6 DEF WellFormed, Held
  <2> HIDE DEF T
  <2>3. T \in SUBSET Live(gc)
    BY <1>6, <2>1
  <2>4. WellFormed(g1, fs)
    BY <2>2, <2>3, SettleIsWellFormed
  <2> HIDE DEF g1
  <2> QED
    BY <2>4 DEF WellFormed
<1>14. V \subseteq Reach(g1, Outside(g1, fs))
  <2> HIDE DEF g1
  <2> DEFINE U == Reach(g1, Outside(g1, fs))
  <2>1. Outside(g1, fs) \in SUBSET Node
    BY <1>13 DEF Outside, Held, HeldBy, InVar, HeapType
  <2>2. U \in SUBSET Node /\ Outside(g1, fs) \subseteq U /\ Closed(g1, U)
    BY <1>13, <2>1, ReachIsClosed
  <2> HIDE DEF V, U, F
  <2>3. Closed(g, V \cap U)
    BY <1>3, <1>4, <1>8, <1>9, <1>10, <2>2 DEF Closed, V
  <2> QED
    BY <1>8, <1>9, <2>2, <2>3, ReachIsLeast DEF V, U
<1>15. Shaped(g1)
  BY <1>3, <1>5, SettleIsShaped
<1> QED
  BY <1>1, <1>12, <1>14, <1>15

LEMMA PushHolds ==
    ASSUME NEW fs \in Seq(Frame), NEW due \in SUBSET Node
    PROVE  /\ Push(fs, due) \in Seq(Frame)
           /\ HeldBy(Push(fs, due)) = HeldBy(fs) \cup due
<1>1. CASE due = {}
  BY <1>1 DEF Push
<1>2. CASE due # {}
  <2> DEFINE fs1 == Append(fs, [call |-> "gc", todo |-> due])
  <2>1. Push(fs, due) = fs1
    BY <1>2 DEF Push
  <2>2. [call |-> "gc", todo |-> due] \in Frame
    BY DEF Frame
  <2>3. /\ fs1 \in Seq(Frame)
        /\ DOMAIN fs1 = 1 .. Len(fs) + 1
        /\ \A i \in DOMAIN fs : fs1[i] = fs[i]
        /\ fs1[Len(fs) + 1] = [call |-> "gc", todo |-> due]
        /\ DOMAIN fs = 1 .. Len(fs) /\ Len(fs) \in Nat
    BY <2>2
  <2> HIDE DEF fs1
  <2> QED
    BY <2>1, <2>3 DEF HeldBy
<1> QED
  BY <1>1, <1>2

(* Right after a collection there is no garbage: everything live can be
   reached from the script, the engine, or the objects whose destructors the
   collection is going to call. *)
LEMMA CollectedIsComplete ==
    ASSUME NEW g, NEW fs \in Seq(Frame), WellFormed(g, fs), Shaped(g), Seen(g, fs, {})
    PROVE  LET fs1 == Push(fs, DueIn(g, Garbage(g, fs, g.buffered)))
               g1  == Collected(g, fs)
           IN /\ Shaped(g1)
              /\ Live(g1) \subseteq Reach(g1, Outside(g1, fs1))
<1> DEFINE first == Garbage(g, fs, g.buffered)
           due   == DueIn(g, first)
           g1    == Scanned(g, due)
           fs1   == Push(fs, due)
           X     == Garbage(g1, fs1, first)
           V     == Reach(g, Outside(g, fs))
           V1    == Reach(g1, Outside(g1, fs1))
<1>1. g \in HeapType /\ g.buffered \in SUBSET Live(g) /\ Live(g) \in SUBSET Node
  BY DEF WellFormed, Live
<1>2. first \in SUBSET Live(g)
  BY <1>1, GarbageIsLive
<1>3. Live(g) \subseteq V \cup first
  <2>1. Live(g) \subseteq Reach(g, Outside(g, fs) \cup g.buffered)
    <3>1. Outside(g, fs) \cup g.buffered \cup {} = Outside(g, fs) \cup g.buffered
      OBVIOUS
    <3> QED
      BY <3>1 DEF Seen
  <2> QED
    BY <1>1, <2>1, GarbageIsAll
<1> HIDE DEF first
<1>4. due \in SUBSET Node /\ due \subseteq Live(g) /\ due = first \cap NeedsDestructor(g)
  BY <1>1, <1>2 DEF DueIn
<1> HIDE DEF due
<1>5. fs1 \in Seq(Frame) /\ HeldBy(fs1) = HeldBy(fs) \cup due
  BY <1>4, PushHolds
<1> HIDE DEF fs1
<1>6. /\ g1 \in HeapType /\ g1.kind = g.kind /\ g1.slot = g.slot
      /\ g1.var = g.var /\ g1.pending = g.pending
      /\ g1.mc = g.mc /\ g1.buffered = {} /\ g1.called = g.called \cup due
  BY <1>1, <1>4, ScannedIsTyped
<1> HIDE DEF g1
<1>7. /\ Live(g1) = Live(g)
      /\ NeedsDestructor(g1) = NeedsDestructor(g) \ due
      /\ Outside(g1, fs1) = Outside(g, fs) \cup due
  BY <1>4, <1>5, <1>6 DEF Live, NeedsDestructor, Outside, InVar, Held
<1>8. WellFormed(g1, fs1)
  BY <1>4, <1>5, <1>6, <1>7 DEF WellFormed, Held
<1>9. Shaped(g1)
  BY <1>6, FewerSlots
<1>10. /\ Outside(g, fs) \in SUBSET Node /\ Outside(g1, fs1) \in SUBSET Node
       /\ first \in SUBSET Node
  BY <1>1, <1>2, <1>6 DEF Outside, Held, HeldBy, InVar, HeapType
<1>11. V \subseteq V1
  BY <1>1, <1>6, <1>7, <1>10, ReachGrows
<1>12. Live(g1) \subseteq Reach(g1, Outside(g1, fs1) \cup first)
  <2> DEFINE S == Outside(g1, fs1) \cup first
  <2>1. /\ Reach(g1, S) \in SUBSET Node /\ S \subseteq Reach(g1, S)
        /\ V1 \subseteq Reach(g1, S)
    BY <1>6, <1>10, ReachIsClosed, ReachGrows
  <2> QED
    BY <1>3, <1>7, <1>11, <2>1
<1>13. Live(g1) \subseteq V1 \cup X
  BY <1>8, <1>10, <1>12, GarbageIsAll
<1>14. X \in SUBSET Live(g1) /\ X \cap V1 = {}
  BY <1>2, <1>6, <1>7, <1>8, <1>10, GarbageIsLive, GarbageIsUnreachable
<1>15. X \cap NeedsDestructor(g1) = {}
  BY <1>3, <1>4, <1>7, <1>11, <1>14
<1> HIDE DEF X, V1
<1>16. /\ Shaped(Clear(g1, fs1, X))
       /\ Live(Clear(g1, fs1, X))
            \subseteq Reach(Clear(g1, fs1, X), Outside(Clear(g1, fs1, X), fs1))
  BY <1>5, <1>8, <1>9, <1>13, <1>14, <1>15, ClearIsComplete DEF V1
<1>17. Collected(g, fs) = Clear(g1, fs1, X)
  BY DEF Collected, X, g1, fs1, due, first
<1> QED
  BY <1>16, <1>17 DEF fs1, due, first

(* What a reference count of one says, and what another one says. *)
LEMMA CountParts ==
    ASSUME NEW g, NEW fs, NEW n
    PROVE  LET vs  == {v \in Var : g.var[v] = n}
               all == SlotsOf(g, Node, n)
               eng == IF n \in Held(g, fs) THEN 1 ELSE 0
           IN /\ Strong(g, fs, n) = Cardinality(vs) + Cardinality(all) + eng
              /\ IsFiniteSet(vs) /\ Cardinality(vs) \in Nat
              /\ IsFiniteSet(all) /\ Cardinality(all) \in Nat
              /\ \A s \in Slot : s \in all <=> g.slot[s] = n
              /\ all \subseteq Slot
<1> DEFINE vs  == {v \in Var : g.var[v] = n}
           all == SlotsOf(g, Node, n)
<1>1. all \in SUBSET Slot /\ \A s \in Slot : s \in all <=> g.slot[s] = n
  BY DEF SlotsOf, Slot
<1>2. vs \in SUBSET Var
  OBVIOUS
<1>3. Strong(g, fs, n) = Cardinality(vs) + Cardinality(all)
                            + (IF n \in Held(g, fs) THEN 1 ELSE 0)
  BY DEF Strong
<1> HIDE DEF vs, all
<1>4. IsFiniteSet(vs) /\ IsFiniteSet(all)
  BY <1>1, <1>2, VarAssumption, SlotIsFinite, FS_Subset
<1>5. Cardinality(vs) \in Nat /\ Cardinality(all) \in Nat
  BY <1>4, FS_CardinalityType
<1> QED
  BY <1>1, <1>3, <1>4, <1>5 DEF vs, all

LEMMA OneHandle ==
    ASSUME NEW g \in HeapType, NEW fs, NEW n \in Node, Strong(g, fs, n) = 1
    PROVE  /\ n \in Outside(g, fs) => \A s \in Slot : g.slot[s] # n
           /\ \A s, t \in Slot : g.slot[s] = n /\ g.slot[t] = n => s = t
<1> DEFINE all == SlotsOf(g, Node, n)
           vs  == {v \in Var : g.var[v] = n}
           eng == IF n \in Held(g, fs) THEN 1 ELSE 0
<1>1. /\ Strong(g, fs, n) = Cardinality(vs) + Cardinality(all) + eng
      /\ Cardinality(vs) \in Nat
      /\ IsFiniteSet(all) /\ Cardinality(all) \in Nat
      /\ \A s \in Slot : s \in all <=> g.slot[s] = n
  BY CountParts
<1>2. n \in Outside(g, fs) => Strong(g, fs, n) > Cardinality(all)
  BY CountedOutside
<1>3. eng \in {0, 1}
  OBVIOUS
<1> HIDE DEF all, vs, eng
<1>4. Cardinality(all) <= 1
  BY <1>1, <1>3
<1>5. n \in Outside(g, fs) => all = {}
  BY <1>1, <1>2, FS_EmptySet
<1>6. ASSUME NEW s \in all, NEW t \in all, s # t
      PROVE  FALSE
  <2>1. {s, t} \in SUBSET all
    OBVIOUS
  <2>2. Cardinality({s, t}) <= Cardinality(all)
    BY <1>1, <2>1, FS_Subset
  <2>3. Cardinality({s}) = 1 /\ IsFiniteSet({s})
    BY FS_Singleton
  <2>4. Cardinality({s} \cup {t}) = Cardinality({s}) + 1
    BY <1>6, <2>3, FS_AddElement
  <2>5. {s} \cup {t} = {s, t}
    OBVIOUS
  <2>6. Cardinality({s, t}) = 2
    BY <2>3, <2>4, <2>5
  <2> QED
    BY <1>1, <1>4, <2>2, <2>6
<1> QED
  BY <1>1, <1>5, <1>6

LEMMA AnotherHandle ==
    ASSUME NEW g \in HeapType, NEW fs, NEW n \in Node, Strong(g, fs, n) # 1
    PROVE  /\ \A v \in Var : g.var[v] = n =>
                \/ \E w \in Var \ {v} : g.var[w] = n
                \/ n \in Held(g, fs)
                \/ \E s \in Slot : g.slot[s] = n
           /\ \A s \in Slot : g.slot[s] = n =>
                n \in Outside(g, fs) \/ \E t \in Slot \ {s} : g.slot[t] = n
<1> DEFINE all == SlotsOf(g, Node, n)
           vs  == {v \in Var : g.var[v] = n}
           eng == IF n \in Held(g, fs) THEN 1 ELSE 0
<1>1. /\ Strong(g, fs, n) = Cardinality(vs) + Cardinality(all) + eng
      /\ \A s \in Slot : s \in all <=> g.slot[s] = n
      /\ all \subseteq Slot
  BY CountParts
<1>2. ASSUME NEW v \in Var, g.var[v] = n, n \notin Held(g, fs),
             \A w \in Var \ {v} : g.var[w] # n, \A s \in Slot : g.slot[s] # n
      PROVE  FALSE
  <2>1. vs = {v}
    BY <1>2
  <2>2. eng = 0
    BY <1>2
  <2> HIDE DEF all, vs, eng
  <2>3. all = {}
    BY <1>1, <1>2
  <2> QED
    BY <1>1, <2>1, <2>2, <2>3, FS_EmptySet, FS_Singleton
<1>3. ASSUME NEW s \in Slot, g.slot[s] = n, n \notin Outside(g, fs),
             \A t \in Slot \ {s} : g.slot[t] # n
      PROVE  FALSE
  <2>1. vs = {} /\ eng = 0
    BY <1>3 DEF Outside, InVar
  <2> HIDE DEF all, vs, eng
  <2>2. all = {s}
    BY <1>1, <1>3
  <2> QED
    BY <1>1, <2>1, <2>2, FS_EmptySet, FS_Singleton
<1> QED
  BY <1>2, <1>3

-----------------------------------------------------------------------------
(***************************************************************************)
(* The script.  Each of its steps makes a heap g from h and settles it      *)
(* after the release of the handles to T.                                   *)
(***************************************************************************)

(* The inductive invariant. *)
HeapInv == TypeOK /\ Shaped(h) /\ Seen(h, frames, {})

ScriptChanges(g, T) ==
    /\ ScriptActs
    /\ WellFormed(g, frames) /\ Shaped(g) /\ T \subseteq Live(g) /\ Seen(g, frames, T)
    /\ g.called = h.called /\ g.pending = h.pending
    /\ \A n \in Node : h.kind[n] = "dtor" => g.kind[n] = "dtor"
    /\ Change(g, T) /\ UNCHANGED frames /\ Forget(ran)

ScriptStep == \E g, T : ScriptChanges(g, T)

LEMMA ScriptKeepsInv ==
    ASSUME HeapInv, ScriptStep
    PROVE  HeapInv'
<1>1. PICK g, T : ScriptChanges(g, T)
  BY DEF ScriptStep
<1>2. /\ WellFormed(g, frames) /\ Shaped(g) /\ T \in SUBSET Live(g)
      /\ Seen(g, frames, T) /\ frames \in Seq(Frame) /\ g \in HeapType
      /\ h' = Settle(g, frames, T) /\ frames' = frames /\ Forget(ran)
  BY <1>1 DEF ScriptChanges, Change, HeapInv, TypeOK, WellFormed
<1>3. WellFormed(h', frames')
  BY <1>2, SettleIsWellFormed
<1>4. Shaped(h') /\ Seen(h', frames', {})
  BY <1>2, SettleIsShaped, SettleIsSeen
<1>5. ran' \subseteq Live(h')
  BY <1>2 DEF Forget, Live, HeapInv, TypeOK
<1>6. TypeOK'
  BY <1>2, <1>3, <1>5 DEF TypeOK, WellFormed, Live, Held, HeldBy
<1> QED
  BY <1>4, <1>6 DEF HeapInv, Shaped, Acyclic, ClosedForArrays, Seen, Reach, Closed,
                    Live, Outside, InVar, Held, HeldBy

(* What a value is, and what replacing one releases. *)
LEMMA ValueIsLive ==
    ASSUME TypeOK, NEW x \in Value
    PROVE  /\ Named \subseteq Live(h)
           /\ Named \subseteq Outside(h, frames)
           /\ x = null \/ x \in Live(h)
<1>1. InDestructor => Top.this \in HeldBy(frames)
  BY StackFacts DEF InDestructor, Top, TypeOK
<1>2. Named \subseteq Live(h)
  <2>1. InVar(h) \subseteq Live(h)
    BY NodeAssumption DEF InVar, TypeOK, WellFormed
  <2>2. HeldBy(frames) \subseteq Live(h)
    BY DEF TypeOK, WellFormed, Held
  <2> QED
    BY <1>1, <2>1, <2>2 DEF Named
<1>3. Live(h) \subseteq Node
  BY DEF Live
<1>4. ASSUME NEW s \in Named \X Field, x = h.slot[s]
      PROVE  x = null \/ x \in Live(h)
  BY <1>2, <1>3, <1>4 DEF TypeOK, WellFormed, Slot
<1>5. Named \subseteq Outside(h, frames)
  BY <1>1 DEF Named, Outside, Held
<1> QED
  BY <1>2, <1>4, <1>5 DEF Value

(* What could be reached still can, if the slots whose contents changed held
   something that can. *)
LEMMA StaysSeen ==
    ASSUME HeapInv, NEW g \in HeapType, NEW T \in SUBSET Node,
           LET S == Outside(g, frames) \cup g.buffered \cup T
           IN /\ Outside(h, frames) \cup h.buffered \subseteq S
              /\ \A s \in Slot : g.slot[s] = h.slot[s] \/ h.slot[s] \in S \cup {null}
              /\ Live(g) \subseteq Live(h) \cup S
    PROVE  Seen(g, frames, T)
<1> DEFINE S == Outside(g, frames) \cup g.buffered \cup T
           R == Reach(g, S)
<1>1. S \in SUBSET Node
  BY DEF Outside, InVar, Held, HeldBy, HeapType
<1>2. R \in SUBSET Node /\ S \subseteq R /\ Closed(g, R)
  BY <1>1, ReachIsClosed
<1>3. Closed(h, R)
  <2> HIDE DEF S, R
  <2> QED
    BY <1>2 DEF Closed, S
<1> HIDE DEF R
<1>4. Live(h) \subseteq R
  BY <1>2, <1>3, ReachIsLeast DEF HeapInv, Seen
<1> QED
  BY <1>2, <1>4 DEF Seen, R

LEMMA NewChanges ==
    ASSUME HeapInv, NEW v \in Var, NEW c \in Class, New(v, c)
    PROVE  ScriptStep
<1> USE NodeAssumption
<1>1. PICK n \in Node \ Live(h) :
         Change([h EXCEPT !.kind[n] = c, !.var[v] = n], Releasing(h.var[v]))
  BY DEF New
<1> DEFINE g == [h EXCEPT !.kind[n] = c, !.var[v] = n]
           T == Releasing(h.var[v])
<1>2. h \in HeapType /\ WellFormed(h, frames) /\ Shaped(h)
  BY DEF HeapInv, TypeOK, WellFormed
<1>3. /\ g.kind = [h.kind EXCEPT ![n] = c] /\ g.var = [h.var EXCEPT ![v] = n]
      /\ g.slot = h.slot /\ g.mc = h.mc /\ g.called = h.called
      /\ g.buffered = h.buffered /\ g.pending = h.pending
      /\ g \in HeapType
  BY <1>2, ClassAssumption DEF HeapType
<1>4. ScriptActs /\ UNCHANGED frames /\ Forget(ran) /\ Change(g, T)
  BY <1>1 DEF New
<1> HIDE DEF g
<1>5. c # "free"
  BY ClassAssumption DEF Kinds
<1>6. Live(g) = Live(h) \cup {n}
  BY <1>2, <1>3, <1>5 DEF Live, HeapType
<1>7. Held(g, frames) = Held(h, frames)
  BY <1>3 DEF Held
<1>8. WellFormed(g, frames)
  BY <1>2, <1>3, <1>6, <1>7 DEF WellFormed, HeapType
<1>9. T \subseteq Live(g) /\ T \in SUBSET Node
  BY <1>2, <1>6 DEF Releasing, WellFormed, Live
<1>10. \A s \in Slot : g.slot[s] # n /\ (s[1] = n => g.slot[s] = null)
  BY <1>2, <1>3 DEF WellFormed
<1>11. \A m \in Node : m # n => g.kind[m] = h.kind[m]
  BY <1>2, <1>3 DEF HeapType
<1>12. \A s \in Slot : s[1] \in Node /\ g.slot[s] \in Node \cup {null}
  BY <1>3 DEF HeapType, Slot
<1>13. Shaped(g)
  <2>1. Acyclic(g)
    <3>1. Detached(h, g, n, n)
      BY <1>3, <1>10, <1>11, <1>12 DEF Detached
    <3> QED
      BY <1>2, <3>1, StaysAcyclic DEF Shaped
  <2> QED
    BY <1>2, <1>3, <1>10, <1>11, <1>12, <2>1 DEF Shaped
<1>14. Seen(g, frames, T)
  <2>1. n \in InVar(g)
    BY <1>2, <1>3 DEF InVar, HeapType
  <2>2. InVar(h) \subseteq InVar(g) \cup T
    BY <1>2, <1>3 DEF InVar, HeapType, Releasing
  <2> QED
    BY <1>3, <1>6, <1>7, <1>9, <2>1, <2>2, StaysSeen DEF Outside
<1>15. \A m \in Node : h.kind[m] = "dtor" => g.kind[m] = "dtor"
  BY <1>1, <1>11 DEF Live
<1> QED
  BY <1>3, <1>4, <1>8, <1>9, <1>13, <1>14, <1>15 DEF ScriptStep, ScriptChanges

LEMMA AssignChanges ==
    ASSUME HeapInv, NEW v \in Var, NEW x \in Value, Assign(v, x)
    PROVE  ScriptStep
<1> DEFINE g == [h EXCEPT !.var[v] = x]
           T == Releasing(h.var[v])
<1>1. h \in HeapType /\ WellFormed(h, frames) /\ Shaped(h) /\ TypeOK
  BY DEF HeapInv, TypeOK, WellFormed
<1>2. x = null \/ x \in Live(h)
  BY <1>1, ValueIsLive
<1>3. x \in Node \cup {null}
  BY <1>2 DEF Live
<1>4. /\ g.kind = h.kind /\ g.var = [h.var EXCEPT ![v] = x]
      /\ g.slot = h.slot /\ g.mc = h.mc /\ g.called = h.called
      /\ g.buffered = h.buffered /\ g.pending = h.pending
      /\ g \in HeapType
  BY <1>1, <1>3 DEF HeapType
<1>5. ScriptActs /\ UNCHANGED frames /\ Forget(ran) /\ Change(g, T)
  BY DEF Assign
<1> HIDE DEF g
<1>6. Live(g) = Live(h) /\ Held(g, frames) = Held(h, frames)
  BY <1>4 DEF Live, Held
<1>7. WellFormed(g, frames)
  BY <1>1, <1>2, <1>4, <1>6 DEF WellFormed, HeapType
<1>8. T \subseteq Live(g) /\ T \in SUBSET Node
  BY <1>1, <1>6 DEF Releasing, WellFormed, Live
<1>9. Shaped(g)
  BY <1>1, <1>4, FewerSlots
<1>10. Seen(g, frames, T)
  <2>1. InVar(h) \subseteq InVar(g) \cup T
    BY <1>1, <1>4, NodeAssumption DEF InVar, HeapType, Releasing
  <2> QED
    BY <1>4, <1>6, <1>8, <2>1, StaysSeen DEF Outside
<1> QED
  BY <1>4, <1>5, <1>7, <1>8, <1>9, <1>10 DEF ScriptStep, ScriptChanges

LEMMA StoreChanges ==
    ASSUME HeapInv, NEW s \in Slot, NEW x \in Value, Store(s, x)
    PROVE  ScriptStep
<1> DEFINE g == [h EXCEPT !.slot[s] = x]
           T == Releasing(h.slot[s])
<1>1. h \in HeapType /\ WellFormed(h, frames) /\ Shaped(h) /\ TypeOK
  BY DEF HeapInv, TypeOK, WellFormed
<1>2. (x = null \/ x \in Live(h)) /\ s[1] \in Live(h)
  BY <1>1, ValueIsLive DEF Store
<1>3. x \in Node \cup {null}
  BY <1>2 DEF Live
<1>4. /\ g.kind = h.kind /\ g.slot = [h.slot EXCEPT ![s] = x]
      /\ g.var = h.var /\ g.mc = h.mc /\ g.called = h.called
      /\ g.buffered = h.buffered /\ g.pending = h.pending
      /\ g \in HeapType
  BY <1>1, <1>3 DEF HeapType
<1>5. ScriptActs /\ UNCHANGED frames /\ Forget(ran) /\ Change(g, T)
  BY DEF Store
<1> HIDE DEF g
<1>6. Live(g) = Live(h) /\ Held(g, frames) = Held(h, frames)
  BY <1>4 DEF Live, Held
<1>7. WellFormed(g, frames)
  BY <1>1, <1>2, <1>4, <1>6 DEF WellFormed, HeapType
<1>8. T \subseteq Live(g) /\ T \in SUBSET Node
  BY <1>1, <1>6 DEF Releasing, WellFormed, Live
<1>9. \A t \in Slot : g.slot[t] = IF t = s THEN x ELSE h.slot[t]
  BY <1>1, <1>4 DEF HeapType
<1>10. Shaped(g)
  <2>1. h.kind[s[1]] # "arr" /\ (h.kind[s[1]] = "ref" => s[2] = CellField)
    BY DEF Store
  <2>2. ASSUME NEW X \in SUBSET Node, ClosedForArrays(h, X)
        PROVE  ClosedForArrays(g, X)
    BY <1>4, <1>9, <2>1, <2>2 DEF ClosedForArrays
  <2>3. Acyclic(g)
    <3> SUFFICES ASSUME NEW n \in Node, g.kind[n] = "arr"
                 PROVE  \E X \in SUBSET Node :
                           /\ n \notin X /\ ClosedForArrays(g, X)
                           /\ \A t \in Slot : t[1] = n /\ g.slot[t] # null
                                                  => g.slot[t] \in X
      BY DEF Acyclic
    <3>1. PICK X \in SUBSET Node :
              /\ n \notin X /\ ClosedForArrays(h, X)
              /\ \A t \in Slot : t[1] = n /\ h.slot[t] # null => h.slot[t] \in X
      BY <1>1, <1>4 DEF Shaped, Acyclic
    <3> QED
      BY <1>4, <1>9, <2>1, <2>2, <3>1
  <2> QED
    BY <1>1, <1>4, <1>9, <2>1, <2>3 DEF Shaped
<1>11. Seen(g, frames, T)
  <2>1. InVar(h) = InVar(g)
    BY <1>4 DEF InVar
  <2>2. h.slot[s] \in T \cup {null}
    BY DEF Releasing
  <2> QED
    BY <1>4, <1>6, <1>8, <1>9, <2>1, <2>2, StaysSeen DEF Outside
<1> QED
  BY <1>4, <1>5, <1>7, <1>8, <1>10, <1>11 DEF ScriptStep, ScriptChanges

(* A write in place: whatever leads to the array leads to it from an array
   that nothing leads to. *)
LEMMA WriteInPlaceChanges ==
    ASSUME HeapInv, NEW a \in Node, NEW f \in Field, NEW x \in Value,
           WriteInPlace(a, f, x)
    PROVE  ScriptStep
<1> DEFINE g == [h EXCEPT !.slot[<<a, f>>] = x,
                          !.mc = IF x = null THEN @ ELSE @ \cup {a}]
           T == Releasing(h.slot[<<a, f>>])
<1>1. h \in HeapType /\ WellFormed(h, frames) /\ Shaped(h) /\ TypeOK
  BY DEF HeapInv, TypeOK, WellFormed
<1>2. (x = null \/ x \in Live(h)) /\ Named \subseteq Outside(h, frames)
  BY <1>1, ValueIsLive
<1>3. a \in Live(h)
  BY DEF WriteInPlace, Live, Kinds
<1>4. x \in Node \cup {null} /\ <<a, f>> \in Slot /\ <<a, f>>[1] = a
  BY <1>2 DEF Live, Slot
<1>5. /\ g.kind = h.kind /\ g.slot = [h.slot EXCEPT ![<<a, f>>] = x]
      /\ g.var = h.var /\ g.mc = IF x = null THEN h.mc ELSE h.mc \cup {a}
      /\ g.called = h.called /\ g.buffered = h.buffered
      /\ g.pending = h.pending /\ g \in HeapType
  BY <1>1, <1>4 DEF HeapType
<1>6. ScriptActs /\ UNCHANGED frames /\ Forget(ran) /\ Change(g, T)
  BY DEF WriteInPlace
<1> HIDE DEF g
<1>7. Live(g) = Live(h) /\ Held(g, frames) = Held(h, frames)
  BY <1>5 DEF Live, Held
<1>8. WellFormed(g, frames)
  BY <1>1, <1>2, <1>3, <1>4, <1>5, <1>7 DEF WellFormed, HeapType
<1>9. T \subseteq Live(g) /\ T \in SUBSET Node
  BY <1>1, <1>4, <1>7 DEF Releasing, WellFormed, Live
<1>10. \A t \in Slot : g.slot[t] = IF t = <<a, f>> THEN x ELSE h.slot[t]
  BY <1>1, <1>5 DEF HeapType
<1>11. /\ Strong(h, frames, a) = 1 /\ x # a /\ h.kind[a] = "arr"
       /\ a \in Value \ {null}
       /\ \A s \in Slot : h.slot[s] = a /\ h.kind[s[1]] = "arr" =>
             Strong(h, frames, s[1]) = 1 /\ x # s[1]
  BY DEF WriteInPlace, Unique
<1>12. \A s \in Slot : s[1] \in Node /\ g.slot[s] \in Node \cup {null}
  BY <1>5 DEF HeapType, Slot
<1>13. \A s \in Slot : s[1] # a => g.slot[s] = h.slot[s]
  BY <1>10
<1>14. Acyclic(g)
  <2>1. CASE \E s \in Slot : h.slot[s] = a /\ h.kind[s[1]] = "arr"
    <3>1. PICK s \in Slot : h.slot[s] = a /\ h.kind[s[1]] = "arr"
      BY <2>1
    <3> DEFINE p == s[1]
    <3>2. p \in Node /\ Strong(h, frames, p) = 1 /\ x # p
      BY <1>11, <1>12, <3>1
    <3>3. /\ a \notin Outside(h, frames)
          /\ \A t \in Slot : h.slot[t] = a => t = s
      BY <1>1, <1>11, <3>1, OneHandle
    <3>4. PICK t \in Named \X Field : a = h.slot[t]
      BY <1>2, <1>11, <3>3 DEF Value
    <3>5. t \in Slot
      BY <1>1, <3>4, ValueIsLive DEF Slot, Live
    <3>6. p \in Named
      BY <3>3, <3>4, <3>5
    <3>7. \A r \in Slot : h.slot[r] # p
      BY <1>1, <1>2, <3>2, <3>6, OneHandle
    <3>8. \A r \in Slot : g.slot[r] # p /\ (g.slot[r] = a => r[1] = p)
      BY <1>10, <1>11, <3>2, <3>3, <3>7
    <3> HIDE DEF p
    <3>9. Detached(h, g, a, p)
      BY <1>5, <1>12, <1>13, <3>8 DEF Detached
    <3> QED
      BY <1>1, <3>2, <3>9, StaysAcyclic DEF Shaped
  <2>2. CASE ~\E s \in Slot : h.slot[s] = a /\ h.kind[s[1]] = "arr"
    <3>1. \A s \in Slot : g.kind[s[1]] = "arr" => g.slot[s] # a
      BY <1>5, <1>10, <1>11, <2>2
    <3>2. Detached(h, g, a, a)
      BY <1>5, <1>12, <1>13, <3>1 DEF Detached
    <3> QED
      BY <1>1, <3>2, StaysAcyclic DEF Shaped
  <2> QED
    BY <2>1, <2>2
<1>15. Shaped(g)
  BY <1>1, <1>4, <1>5, <1>10, <1>11, <1>14 DEF Shaped
<1>16. Seen(g, frames, T)
  <2>1. InVar(h) = InVar(g)
    BY <1>5 DEF InVar
  <2>2. h.slot[<<a, f>>] \in T \cup {null}
    BY DEF Releasing
  <2> QED
    BY <1>5, <1>7, <1>9, <1>10, <2>1, <2>2, StaysSeen DEF Outside
<1> QED
  BY <1>5, <1>6, <1>8, <1>9, <1>15, <1>16 DEF ScriptStep, ScriptChanges

(* A copy on write: the new array b holds what the copied one held, with x at
   the written key. *)
LEMMA CopyIsLive ==
    ASSUME TypeOK, NEW a \in Node, NEW f \in Field
    PROVE  LET y == CopyOf(h.slot[<<a, f>>])
           IN /\ y = null \/ y \in Live(h)
              /\ y = null \/ \E s \in Slot : y = h.slot[s]
<1> DEFINE x == h.slot[<<a, f>>]
<1>1. \A s \in Slot : h.slot[s] = null \/ h.slot[s] \in Live(h)
  BY DEF TypeOK, WellFormed
<1>2. <<a, f>> \in Slot
  BY DEF Slot
<1>3. x = null \/ x \in Live(h)
  BY <1>1, <1>2
<1>4. CellField \in Field
  BY VarAssumption DEF CellField
<1>5. x # null => <<x, CellField>> \in Slot
  BY <1>3, <1>4 DEF Slot, Live
<1>6. CopyOf(x) = x \/ (x # null /\ CopyOf(x) = h.slot[<<x, CellField>>])
  BY DEF CopyOf
<1> HIDE DEF x
<1>7. CopyOf(x) = null \/ \E s \in Slot : CopyOf(x) = h.slot[s]
  BY <1>2, <1>5, <1>6 DEF x
<1> QED
  BY <1>1, <1>7 DEF x

LEMMA CopiedFacts ==
    ASSUME TypeOK, NEW a \in Node, NEW b \in Node \ Live(h), NEW f \in Field,
           NEW x \in Value
    PROVE  LET g == Copied(a, b, f, x)
           IN /\ WellFormed(g, frames) /\ Live(g) = Live(h) \cup {b}
              /\ g.var = h.var /\ g.kind = [h.kind EXCEPT ![b] = "arr"]
              /\ g.called = h.called /\ g.pending = h.pending
              /\ g.buffered = h.buffered
              /\ g.mc = h.mc \cup (IF a \in h.mc \/ x # null THEN {b} ELSE {})
              /\ g.slot[<<b, f>>] = x
              /\ \A k \in Field : k # f =>
                    g.slot[<<b, k>>] = CopyOf(h.slot[<<a, k>>])
              /\ \A s \in Slot : s[1] # b => g.slot[s] = h.slot[s]
              /\ \A s \in Slot : g.slot[s] = null \/ g.slot[s] \in Live(h)
<1> DEFINE g == Copied(a, b, f, x)
<1>1. h \in HeapType /\ WellFormed(h, frames)
  BY DEF TypeOK, WellFormed
<1>2. x = null \/ x \in Live(h)
  BY ValueIsLive
<1>3. /\ Live(h) \subseteq Node
      /\ \A k \in Field : LET y == CopyOf(h.slot[<<a, k>>])
                          IN y = null \/ y \in Live(h)
  BY CopyIsLive DEF Live
<1>4. \A s \in Slot : s[2] \in Field
  BY DEF Slot
<1> DEFINE sl == [s \in Slot |->
                   IF s = <<b, f>> THEN x
                   ELSE IF s[1] = b THEN CopyOf(h.slot[<<a, s[2]>>])
                   ELSE h.slot[s]]
<1>5. g = [h EXCEPT !.kind[b] = "arr", !.slot = sl,
                    !.mc = @ \cup (IF a \in h.mc \/ x # null THEN {b} ELSE {})]
  BY DEF Copied
<1>6. ASSUME NEW s \in Slot
      PROVE  /\ sl[s] = null \/ sl[s] \in Live(h)
             /\ s[1] # b => sl[s] = h.slot[s]
  <2>1. sl[s] = IF s = <<b, f>> THEN x
                ELSE IF s[1] = b THEN CopyOf(h.slot[<<a, s[2]>>])
                ELSE h.slot[s]
    OBVIOUS
  <2> HIDE DEF sl
  <2>2. s = <<b, f>> => s[1] = b
    OBVIOUS
  <2>3. h.slot[s] = null \/ h.slot[s] \in Live(h)
    BY <1>1 DEF WellFormed
  <2>4. CopyOf(h.slot[<<a, s[2]>>]) = null \/ CopyOf(h.slot[<<a, s[2]>>]) \in Live(h)
    BY <1>3, <1>4
  <2> QED
    BY <1>2, <2>1, <2>2, <2>3, <2>4
<1>7. sl \in [Slot -> Node \cup {null}]
  <2>1. sl = [s \in Slot |-> sl[s]]
    OBVIOUS
  <2> HIDE DEF sl
  <2> QED
    BY <1>3, <1>6, <2>1
<1>8. /\ sl[<<b, f>>] = x
      /\ \A k \in Field : k # f => sl[<<b, k>>] = CopyOf(h.slot[<<a, k>>])
  BY DEF Slot
<1> HIDE DEF sl, g
<1>9. /\ g.kind = [h.kind EXCEPT ![b] = "arr"] /\ g.var = h.var
      /\ g.slot = sl
      /\ g.mc = h.mc \cup (IF a \in h.mc \/ x # null THEN {b} ELSE {})
      /\ g.called = h.called /\ g.buffered = h.buffered
      /\ g.pending = h.pending /\ g \in HeapType
  BY <1>1, <1>5, <1>7 DEF HeapType, Kinds
<1>10. Live(g) = Live(h) \cup {b}
  BY <1>1, <1>9 DEF Live, HeapType
<1>11. Held(g, frames) = Held(h, frames)
  BY <1>9 DEF Held
<1>12. ASSUME NEW s \in Slot, g.slot[s] # null
       PROVE  s[1] \in Live(g) /\ g.slot[s] \in Live(g)
  <2>1. s[1] # b => s[1] \in Live(h)
    BY <1>1, <1>6, <1>9, <1>12 DEF WellFormed
  <2> QED
    BY <1>6, <1>9, <1>10, <1>12, <2>1
<1>13. WellFormed(g, frames)
  <2>1. \A v \in Var : g.var[v] # null => g.var[v] \in Live(g)
    BY <1>1, <1>9, <1>10 DEF WellFormed
  <2>2. g.mc \cup g.called \cup g.buffered \cup Held(g, frames) \subseteq Live(g)
    BY <1>1, <1>9, <1>10, <1>11 DEF WellFormed
  <2> QED
    BY <1>9, <1>12, <2>1, <2>2 DEF WellFormed
<1> QED
  BY <1>6, <1>8, <1>9, <1>10, <1>13 DEF g

(* A copy that holds a container is marked as one that may be part of a
   cycle, as the copied array was. *)
LEMMA CopiedIsMarked ==
    ASSUME TypeOK, Shaped(h), NEW a \in Node, h.kind[a] = "arr",
           NEW b \in Node \ Live(h), NEW f \in Field, NEW x \in Value
    PROVE  LET g == Copied(a, b, f, x)
           IN \A s \in Slot : g.slot[s] # null =>
                 /\ g.kind[s[1]] = "arr" => s[1] \in g.mc
                 /\ g.kind[s[1]] = "ref" => s[2] = CellField
<1> DEFINE g == Copied(a, b, f, x)
<1> SUFFICES ASSUME NEW s \in Slot, g.slot[s] # null
             PROVE  /\ g.kind[s[1]] = "arr" => s[1] \in g.mc
                    /\ g.kind[s[1]] = "ref" => s[2] = CellField
  OBVIOUS
<1>1. h \in HeapType /\ s[1] \in Node /\ s[2] \in Field /\ s = <<s[1], s[2]>>
  BY DEF TypeOK, WellFormed, Slot
<1>2. /\ g.kind = [h.kind EXCEPT ![b] = "arr"]
      /\ g.mc = h.mc \cup (IF a \in h.mc \/ x # null THEN {b} ELSE {})
      /\ g.slot[<<b, f>>] = x
      /\ \A k \in Field : k # f => g.slot[<<b, k>>] = CopyOf(h.slot[<<a, k>>])
      /\ \A t \in Slot : t[1] # b => g.slot[t] = h.slot[t]
  BY CopiedFacts
<1> HIDE DEF g
<1>3. \A n \in Node : g.kind[n] = IF n = b THEN "arr" ELSE h.kind[n]
  BY <1>1, <1>2 DEF HeapType
<1>4. CASE s[1] # b
  BY <1>1, <1>2, <1>3, <1>4 DEF Shaped
<1>5. CASE s[1] = b
  <2>1. CASE s[2] = f
    BY <1>1, <1>2, <1>3, <1>5, <2>1
  <2>2. CASE s[2] # f
    <3>1. CopyOf(h.slot[<<a, s[2]>>]) # null
      BY <1>1, <1>2, <1>5, <2>2
    <3>2. h.slot[<<a, s[2]>>] # null
      BY <3>1 DEF CopyOf
    <3>3. <<a, s[2]>> \in Slot /\ <<a, s[2]>>[1] = a
      BY <1>1 DEF Slot
    <3>4. a \in h.mc
      BY <3>2, <3>3 DEF Shaped
    <3> QED
      BY <1>2, <1>3, <1>5, <3>4
  <2> QED
    BY <2>1, <2>2
<1> QED
  BY <1>4, <1>5

(* The copied array is recorded nowhere, but it can still be reached: it has
   another handle, or the copy leads to it. *)
Separates(g, a, b, f, x) ==
    LET T == Overwritten(a, f)
        S == Outside(g, frames) \cup g.buffered \cup T
    IN /\ T \in SUBSET Node /\ g.buffered = h.buffered
       /\ Outside(h, frames) \subseteq Outside(g, frames) \cup {a}
       /\ b \in Reach(g, S)
       /\ Live(g) = Live(h) \cup {b}
       /\ \A s \in Slot : s[1] # b => g.slot[s] = h.slot[s] \/ h.slot[s] = a
       /\ g.slot[<<b, f>>] = x
       /\ \A k \in Field : k # f => g.slot[<<b, k>>] = CopyOf(h.slot[<<a, k>>])
       /\ \/ x = a
          \/ a \in Outside(g, frames)
          \/ \E s \in Slot : h.slot[s] = a /\ g.slot[s] = a

LEMMA CopyIsSeen ==
    ASSUME HeapInv, NEW a \in Live(h), h.kind[a] = "arr", NEW b \in Node \ Live(h),
           NEW f \in Field, NEW x, NEW g \in HeapType, Separates(g, a, b, f, x)
    PROVE  Seen(g, frames, Overwritten(a, f))
<1> USE DEF Separates
<1> DEFINE T == Overwritten(a, f)
           S == Outside(g, frames) \cup g.buffered \cup T
           R == Reach(g, S)
           C == {y \in Node : /\ \E k \in Field : h.slot[<<a, k>>] = y
                              /\ h.kind[y] = "ref"
                              /\ CopyOf(y) = h.slot[<<y, CellField>>]}
           Y == R \cup {a} \cup C
<1>1. /\ h \in HeapType /\ WellFormed(h, frames) /\ Shaped(h)
      /\ a \in Node /\ a # null
  BY NodeAssumption DEF HeapInv, TypeOK, WellFormed, Live
<1>2. S \in SUBSET Node
  BY DEF Outside, InVar, Held, HeldBy, HeapType
<1>3. R \in SUBSET Node /\ S \subseteq R /\ Closed(g, R) /\ b \in R
  BY <1>2, ReachIsClosed
<1>4. \A s \in Slot : s[1] \in Node /\ s[2] \in Field /\ s = <<s[1], s[2]>>
  BY DEF Slot
<1>5. \A n \in Node, k \in Field : <<n, k>> \in Slot
  BY DEF Slot
<1> HIDE DEF R
<1>6. ASSUME NEW k \in Field, CopyOf(h.slot[<<a, k>>]) # null
      PROVE  CopyOf(h.slot[<<a, k>>]) \in R
  <2>1. CASE k = f
    BY <1>3, <1>6, <2>1 DEF Overwritten, Releasing
  <2>2. CASE k # f
    <3>1. g.slot[<<b, k>>] = CopyOf(h.slot[<<a, k>>]) /\ <<b, k>> \in Slot
      BY <1>5, <2>2
    <3> QED
      BY <1>3, <1>6, <3>1 DEF Closed
  <2> QED
    BY <2>1, <2>2
<1>7. \A s \in Slot : s[1] \in C /\ h.slot[s] # null => h.slot[s] \in R
  <2> SUFFICES ASSUME NEW s \in Slot, s[1] \in C, h.slot[s] # null
               PROVE  h.slot[s] \in R
    OBVIOUS
  <2>1. s[2] = CellField
    BY <1>1 DEF Shaped
  <2>2. h.slot[s] = CopyOf(s[1])
    BY <1>4, <2>1
  <2> QED
    BY <1>6, <2>2
<1>8. ASSUME NEW s \in Slot, s[1] = a, h.slot[s] # null
      PROVE  h.slot[s] \in R \cup C
  <2> DEFINE y == h.slot[s]
  <2>1. s[2] \in Field /\ h.slot[<<a, s[2]>>] = y /\ y \in Node
    BY <1>1, <1>4, <1>8 DEF HeapType
  <2>2. CASE CopyOf(y) = y
    BY <1>6, <1>8, <2>1, <2>2
  <2>3. CASE CopyOf(y) # y
    BY <2>1, <2>3 DEF CopyOf
  <2> QED
    BY <2>2, <2>3
<1>9. Outside(h, frames) \cup h.buffered \cup {} \subseteq Y
  BY <1>3
<1>10. Closed(h, Y)
  <2> SUFFICES ASSUME NEW s \in Slot, s[1] \in Y, h.slot[s] # null
               PROVE  h.slot[s] \in Y
    BY DEF Closed
  <2>1. CASE s[1] = a
    BY <1>8, <2>1
  <2>2. CASE s[1] \in C
    BY <1>7, <2>2
  <2>3. CASE s[1] \in R
    <3>1. s[1] # b
      BY <1>1 DEF WellFormed
    <3> QED
      BY <1>3, <2>3, <3>1 DEF Closed
  <2> QED
    BY <2>1, <2>2, <2>3
<1>11. Live(h) \subseteq Y
  <2>1. Y \in SUBSET Node
    BY <1>1, <1>3
  <2> HIDE DEF Y
  <2> QED
    BY <1>9, <1>10, <2>1, ReachIsLeast DEF HeapInv, Seen
<1>12. a \in R
  <2>1. CASE x = a
    <3>1. <<b, f>> \in Slot /\ g.slot[<<b, f>>] = a
      BY <1>5, <2>1
    <3> QED
      BY <1>1, <1>3, <3>1 DEF Closed
  <2>2. CASE a \in Outside(g, frames)
    BY <1>3, <2>2
  <2>3. CASE \E s \in Slot : h.slot[s] = a /\ g.slot[s] = a
    <3>1. PICK s \in Slot : h.slot[s] = a /\ g.slot[s] = a
      BY <2>3
    <3>2. s[1] \in Y
      BY <1>1, <1>11, <3>1 DEF WellFormed
    <3>3. CASE s[1] \in R
      BY <1>1, <1>3, <3>1, <3>3 DEF Closed
    <3>4. CASE s[1] = a
      <4>1. h.slot[<<a, s[2]>>] = a /\ s[2] \in Field /\ CopyOf(a) = a
        BY <1>4, <3>1, <3>4 DEF CopyOf
      <4> QED
        BY <1>1, <1>6, <4>1
    <3>5. CASE s[1] \in C
      BY <1>1, <1>7, <3>1, <3>5
    <3> QED
      BY <3>2, <3>3, <3>4, <3>5
  <2> QED
    BY <2>1, <2>2, <2>3
<1>13. C \subseteq R
  <2> SUFFICES ASSUME NEW y \in C PROVE y \in R
    OBVIOUS
  <2>1. PICK k \in Field : h.slot[<<a, k>>] = y
    OBVIOUS
  <2>2. <<a, k>> \in Slot /\ a # b /\ y # null
    BY <1>1, <1>5, NodeAssumption
  <2>3. g.slot[<<a, k>>] = y \/ y = a
    BY <2>1, <2>2
  <2> QED
    BY <1>3, <1>12, <2>2, <2>3 DEF Closed
<1>14. Live(g) \subseteq R
  BY <1>3, <1>11, <1>12, <1>13
<1> QED
  BY <1>14 DEF Seen, R

LEMMA WriteCopyInVarChanges ==
    ASSUME HeapInv, NEW v \in Var, NEW f \in Field, NEW x \in Value,
           WriteCopyInVar(v, f, x)
    PROVE  ScriptStep
<1> DEFINE a == h.var[v]
           T == Overwritten(a, f)
<1>1. /\ h \in HeapType /\ WellFormed(h, frames) /\ Shaped(h) /\ TypeOK
      /\ a # null /\ a \in Live(h) /\ a \in Node /\ h.kind[a] = "arr"
  BY DEF WriteCopyInVar, HeapInv, TypeOK, WellFormed, Live
<1>2. PICK b \in Node \ Live(h) :
         Change([Copied(a, b, f, x) EXCEPT !.var[v] = b], T)
  BY DEF WriteCopyInVar
<1> DEFINE g1 == Copied(a, b, f, x)
           g  == [g1 EXCEPT !.var[v] = b]
<1>3. x = a \/ Strong(h, frames, a) # 1
  BY DEF WriteCopyInVar, Unique
<1>4. \/ \E w \in Var \ {v} : h.var[w] = a
      \/ a \in Held(h, frames)
      \/ \E s \in Slot : h.slot[s] = a
      \/ x = a
  BY <1>1, <1>3, AnotherHandle
<1> HIDE DEF a
<1>5. /\ WellFormed(g1, frames) /\ Live(g1) = Live(h) \cup {b}
      /\ g1.var = h.var /\ g1.kind = [h.kind EXCEPT ![b] = "arr"]
      /\ g1.called = h.called /\ g1.pending = h.pending
      /\ g1.buffered = h.buffered
      /\ g1.mc = h.mc \cup (IF a \in h.mc \/ x # null THEN {b} ELSE {})
      /\ g1.slot[<<b, f>>] = x
      /\ \A k \in Field : k # f => g1.slot[<<b, k>>] = CopyOf(h.slot[<<a, k>>])
      /\ \A s \in Slot : s[1] # b => g1.slot[s] = h.slot[s]
      /\ \A s \in Slot : g1.slot[s] = null \/ g1.slot[s] \in Live(h)
  BY <1>1, CopiedFacts
<1>6. T \subseteq Live(h) /\ T \in SUBSET Node
  BY <1>1, CopyIsLive DEF Overwritten, Releasing, Live
<1>7. ScriptActs /\ UNCHANGED frames /\ Forget(ran) /\ Change(g, T)
  BY <1>2 DEF WriteCopyInVar, a
<1> HIDE DEF g1, T
<1>8. g1 \in HeapType
  BY <1>5 DEF WellFormed
<1>9. /\ g.kind = g1.kind /\ g.slot = g1.slot
      /\ g.var = [g1.var EXCEPT ![v] = b] /\ g.mc = g1.mc
      /\ g.called = g1.called /\ g.buffered = g1.buffered
      /\ g.pending = g1.pending /\ g \in HeapType
  BY <1>8 DEF HeapType
<1> HIDE DEF g
<1>10. Live(g) = Live(g1) /\ Held(g, frames) = Held(g1, frames)
  BY <1>9 DEF Live, Held
<1>11. WellFormed(g, frames)
  BY <1>5, <1>9, <1>10 DEF WellFormed, HeapType
<1>12. \A m \in Node : m # b => g.kind[m] = h.kind[m]
  BY <1>1, <1>5, <1>9 DEF HeapType
<1>13. Shaped(g)
  <2>1. \A s \in Slot : s[1] \in Node /\ g.slot[s] \in Node \cup {null}
    BY <1>9 DEF HeapType, Slot
  <2>2. Detached(h, g, b, b)
    BY <1>5, <1>9, <1>12, <2>1, NodeAssumption DEF Detached
  <2>3. Acyclic(g)
    BY <1>1, <2>2, StaysAcyclic DEF Shaped
  <2>4. \A s \in Slot : g1.slot[s] # null =>
           /\ g1.kind[s[1]] = "arr" => s[1] \in g1.mc
           /\ g1.kind[s[1]] = "ref" => s[2] = CellField
    BY <1>1, CopiedIsMarked DEF g1
  <2> QED
    BY <1>9, <2>3, <2>4 DEF Shaped
<1>14. Seen(g, frames, T)
  <2>1. InVar(h) \subseteq InVar(g) \cup {a} /\ b \in InVar(g)
    BY <1>1, <1>5, <1>9 DEF InVar, HeapType, a
  <2>2. (\E w \in Var \ {v} : h.var[w] = a) => a \in InVar(g)
    BY <1>1, <1>5, <1>9 DEF InVar, HeapType
  <2> DEFINE S == Outside(g, frames) \cup g.buffered \cup T
  <2>3. S \in SUBSET Node
    BY <1>6, <1>9 DEF Outside, InVar, Held, HeldBy, HeapType
  <2>4. b \in Reach(g, S)
    BY <1>9, <2>1, <2>3, ReachIsClosed DEF Outside
  <2>5. Outside(h, frames) \subseteq Outside(g, frames) \cup {a}
    BY <1>5, <1>9, <2>1 DEF Outside, Held
  <2>6. \A s \in Slot : h.slot[s] # null => s[1] # b
    BY <1>1 DEF WellFormed
  <2>7. x = a \/ a \in Outside(g, frames) \/ \E s \in Slot : h.slot[s] = a /\ g.slot[s] = a
    BY <1>1, <1>4, <1>5, <1>9, <2>2, <2>6 DEF Outside, Held
  <2>8. Separates(g, a, b, f, x)
    BY <1>1, <1>5, <1>6, <1>9, <1>10, <2>4, <2>5, <2>7 DEF Separates, T
  <2> QED
    BY <1>1, <1>9, <2>8, CopyIsSeen DEF T
<1>15. \A m \in Node : h.kind[m] = "dtor" => g.kind[m] = "dtor"
  BY <1>2, <1>12 DEF Live
<1>16. T \subseteq Live(g)
  BY <1>5, <1>6, <1>10
<1> QED
  BY <1>5, <1>7, <1>9, <1>11, <1>13, <1>14, <1>15, <1>16 DEF ScriptStep, ScriptChanges

LEMMA WriteCopyInSlotChanges ==
    ASSUME HeapInv, NEW s \in Slot, NEW f \in Field, NEW x \in Value,
           WriteCopyInSlot(s, f, x)
    PROVE  ScriptStep
<1> DEFINE a == h.slot[s]
           T == Overwritten(a, f)
           p == s[1]
<1>1. /\ h \in HeapType /\ WellFormed(h, frames) /\ Shaped(h) /\ TypeOK
      /\ a # null /\ a \in Live(h) /\ a \in Node /\ h.kind[a] = "arr"
      /\ p \in Live(h) /\ p \in Node /\ p \in Named
  BY DEF WriteCopyInSlot, HeapInv, TypeOK, WellFormed, Live
<1>2. PICK b \in Node \ Live(h) :
         Change([Copied(a, b, f, x) EXCEPT !.slot[s] = b], T)
  BY DEF WriteCopyInSlot
<1> DEFINE g1 == Copied(a, b, f, x)
           g  == [g1 EXCEPT !.slot[s] = b]
<1>3. /\ x = a \/ Strong(h, frames, a) # 1
      /\ h.kind[p] = "arr" => Strong(h, frames, p) = 1 /\ x # p
  BY DEF WriteCopyInSlot, Unique
<1>4. x = a \/ a \in Outside(h, frames) \/ \E t \in Slot \ {s} : h.slot[t] = a
  BY <1>1, <1>3, AnotherHandle
<1> HIDE DEF a
<1>5. /\ WellFormed(g1, frames) /\ Live(g1) = Live(h) \cup {b}
      /\ g1.var = h.var /\ g1.kind = [h.kind EXCEPT ![b] = "arr"]
      /\ g1.called = h.called /\ g1.pending = h.pending
      /\ g1.buffered = h.buffered
      /\ g1.mc = h.mc \cup (IF a \in h.mc \/ x # null THEN {b} ELSE {})
      /\ g1.slot[<<b, f>>] = x
      /\ \A k \in Field : k # f => g1.slot[<<b, k>>] = CopyOf(h.slot[<<a, k>>])
      /\ \A t \in Slot : t[1] # b => g1.slot[t] = h.slot[t]
      /\ \A t \in Slot : g1.slot[t] = null \/ g1.slot[t] \in Live(h)
  BY <1>1, CopiedFacts
<1>6. T \subseteq Live(h) /\ T \in SUBSET Node
  BY <1>1, CopyIsLive DEF Overwritten, Releasing, Live
<1>7. ScriptActs /\ UNCHANGED frames /\ Forget(ran) /\ Change(g, T)
  BY <1>2 DEF WriteCopyInSlot, a
<1> HIDE DEF g1, T
<1>8. g1 \in HeapType
  BY <1>5 DEF WellFormed
<1>9. /\ g.kind = g1.kind /\ g.var = g1.var
      /\ g.slot = [g1.slot EXCEPT ![s] = b] /\ g.mc = g1.mc
      /\ g.called = g1.called /\ g.buffered = g1.buffered
      /\ g.pending = g1.pending /\ g \in HeapType
  BY <1>8 DEF HeapType
<1> HIDE DEF g
<1>10. Live(g) = Live(g1) /\ Held(g, frames) = Held(g1, frames)
  BY <1>9 DEF Live, Held
<1>11. \A t \in Slot : g.slot[t] = IF t = s THEN b ELSE g1.slot[t]
  BY <1>8, <1>9 DEF HeapType
<1>12. WellFormed(g, frames)
  <2>1. \A t \in Slot : g.slot[t] # null => t[1] \in Live(g) /\ g.slot[t] \in Live(g)
    BY <1>1, <1>5, <1>10, <1>11 DEF WellFormed
  <2> QED
    BY <1>5, <1>9, <1>10, <2>1 DEF WellFormed
<1>13. \A m \in Node : m # b => g.kind[m] = h.kind[m]
  BY <1>1, <1>5, <1>9 DEF HeapType
<1>14. p # b
  BY <1>1
<1>15. Acyclic(g)
  <2>1. \A t \in Slot : t[1] \in Node /\ g.slot[t] \in Node \cup {null}
    BY <1>9 DEF HeapType, Slot
  <2>2. \A t \in Slot : g.slot[t] = b => t = s
    BY <1>5, <1>11, NodeAssumption
  <2>3. CASE h.kind[p] # "arr"
    <3>1. Detached(h, g, b, b)
      BY <1>5, <1>11, <1>13, <1>14, <2>1, <2>2, <2>3 DEF Detached
    <3> QED
      BY <1>1, <3>1, StaysAcyclic DEF Shaped
  <2>4. CASE h.kind[p] = "arr"
    <3>1. Strong(h, frames, p) = 1 /\ x # p
      BY <1>3, <2>4
    <3>2. p \in Outside(h, frames)
      BY <1>1, ValueIsLive DEF Value
    <3>3. \A t \in Slot : h.slot[t] # p
      BY <1>1, <3>1, <3>2, OneHandle
    <3>4. ASSUME NEW t \in Slot
          PROVE  g.slot[t] # p
      <4>1. CASE t = s
        BY <1>11, <1>14, <4>1
      <4>2. CASE t # s /\ t[1] # b
        BY <1>5, <1>11, <3>3, <4>2
      <4>3. CASE t # s /\ t[1] = b
        <5>1. t[2] \in Field /\ t = <<b, t[2]>>
          BY <4>3 DEF Slot
        <5>2. CASE t[2] = f
          BY <1>5, <1>11, <3>1, <4>3, <5>1, <5>2
        <5>3. CASE t[2] # f
          <6>1. g.slot[t] = CopyOf(h.slot[<<a, t[2]>>])
            BY <1>5, <1>11, <4>3, <5>1, <5>3
          <6>2. g.slot[t] = null \/ \E r \in Slot : g.slot[t] = h.slot[r]
            BY <1>1, <5>1, <6>1, CopyIsLive
          <6> QED
            BY <1>1, <3>3, <6>2, NodeAssumption
        <5> QED
          BY <5>2, <5>3
      <4> QED
        BY <4>1, <4>2, <4>3
    <3>5. Detached(h, g, b, p)
      <4>1. \A t \in Slot : t[1] \notin {b, p} => g.slot[t] = h.slot[t]
        BY <1>5, <1>11
      <4> QED
        BY <1>13, <2>1, <2>2, <3>4, <4>1 DEF Detached
    <3> QED
      BY <1>1, <3>5, StaysAcyclic DEF Shaped
  <2> QED
    BY <2>3, <2>4
<1>16. Shaped(g)
  <2>1. \A t \in Slot : g1.slot[t] # null =>
           /\ g1.kind[t[1]] = "arr" => t[1] \in g1.mc
           /\ g1.kind[t[1]] = "ref" => t[2] = CellField
    BY <1>1, CopiedIsMarked DEF g1
  <2>2. g1.slot[s] # null
    BY <1>1, <1>5, <1>14 DEF a
  <2> QED
    BY <1>9, <1>11, <1>15, <2>1, <2>2 DEF Shaped
<1>17. Seen(g, frames, T)
  <2>1. Outside(g, frames) = Outside(h, frames)
    BY <1>5, <1>9 DEF Outside, InVar, Held
  <2> DEFINE S == Outside(g, frames) \cup g.buffered \cup T
  <2>2. S \in SUBSET Node
    BY <1>6, <1>9 DEF Outside, InVar, Held, HeldBy, HeapType
  <2>3. b \in Reach(g, S)
    <3>1. p \in S
      BY <1>1, <2>1, ValueIsLive DEF Value
    <3>2. S \subseteq Reach(g, S) /\ Closed(g, Reach(g, S))
      BY <1>9, <2>2, ReachIsClosed
    <3>3. g.slot[s] = b /\ b # null
      BY <1>11, NodeAssumption
    <3> QED
      BY <3>1, <3>2, <3>3 DEF Closed
  <2>4. \A t \in Slot : h.slot[t] # null => t[1] # b
    BY <1>1 DEF WellFormed
  <2>5. x = a \/ a \in Outside(g, frames) \/ \E t \in Slot : h.slot[t] = a /\ g.slot[t] = a
    BY <1>1, <1>4, <1>5, <1>11, <2>1, <2>4
  <2>6. \A t \in Slot : t[1] # b => g.slot[t] = h.slot[t] \/ h.slot[t] = a
    BY <1>5, <1>11 DEF a
  <2>7. /\ g.slot[<<b, f>>] = x
        /\ \A k \in Field : k # f => g.slot[<<b, k>>] = CopyOf(h.slot[<<a, k>>])
    <3>1. \A k \in Field : <<b, k>> \in Slot /\ <<b, k>> # s
      BY <1>14 DEF Slot
    <3> QED
      BY <1>5, <1>11, <3>1
  <2>8. Separates(g, a, b, f, x)
    BY <1>1, <1>5, <1>6, <1>9, <1>10, <2>1, <2>3, <2>5, <2>6, <2>7 DEF Separates, T
  <2> QED
    BY <1>1, <1>9, <2>8, CopyIsSeen DEF T
<1>18. \A m \in Node : h.kind[m] = "dtor" => g.kind[m] = "dtor"
  BY <1>2, <1>13 DEF Live
<1>19. T \subseteq Live(g)
  BY <1>5, <1>6, <1>10
<1> QED
  BY <1>5, <1>7, <1>9, <1>12, <1>16, <1>17, <1>18, <1>19 DEF ScriptStep, ScriptChanges

-----------------------------------------------------------------------------
(***************************************************************************)
(* The engine.                                                             *)
(***************************************************************************)

(* What a stack of calls holds is what its frames hold. *)
LEMMA HeldByFrame ==
    ASSUME NEW fr
    PROVE  HeldBy(<<fr>>) = {n \in Node : \/ fr.call = "dtor" /\ fr.this = n
                                          \/ fr.call = "gc" /\ n \in fr.todo}
BY DEF HeldBy

LEMMA HeldByAppend ==
    ASSUME NEW fs \in Seq(Frame), NEW fr \in Frame
    PROVE  /\ Append(fs, fr) \in Seq(Frame)
           /\ HeldBy(Append(fs, fr)) = HeldBy(fs) \cup HeldBy(<<fr>>)
<1> DEFINE fs1 == Append(fs, fr)
<1>1. /\ fs1 \in Seq(Frame)
      /\ DOMAIN fs1 = 1 .. Len(fs) + 1 /\ DOMAIN fs = 1 .. Len(fs)
      /\ \A i \in DOMAIN fs : fs1[i] = fs[i]
      /\ fs1[Len(fs) + 1] = fr
  BY AppendIs
<1> HIDE DEF fs1
<1>2. HeldBy(fs1) = HeldBy(fs) \cup
        {n \in Node : \/ fr.call = "dtor" /\ fr.this = n
                      \/ fr.call = "gc" /\ n \in fr.todo}
  BY <1>1 DEF HeldBy
<1> QED
  BY <1>1, <1>2, HeldByFrame DEF fs1

LEMMA HeldByPop ==
    ASSUME NEW fs \in Seq(Frame), fs # <<>>
    PROVE  LET below == SubSeq(fs, 1, Len(fs) - 1)
               top   == fs[Len(fs)]
           IN /\ below \in Seq(Frame) /\ top \in Frame
              /\ fs = Append(below, top)
              /\ HeldBy(fs) = HeldBy(below) \cup HeldBy(<<top>>)
<1> DEFINE below == SubSeq(fs, 1, Len(fs) - 1)
           top   == fs[Len(fs)]
<1>1. below \in Seq(Frame) /\ top \in Frame /\ fs = Append(below, top)
  OBVIOUS
<1> HIDE DEF below, top
<1>2. HeldBy(fs) = HeldBy(below) \cup HeldBy(<<top>>)
  BY <1>1, HeldByAppend
<1> QED
  BY <1>1, <1>2 DEF below, top

LEMMA CallHolds ==
    ASSUME NEW n \in Node
    PROVE  Call(n) \in Frame /\ HeldBy(<<Call(n)>>) = {n}
<1>1. Call(n) \in Frame /\ Call(n).call = "dtor" /\ Call(n).this = n
  BY DEF Call, Frame
<1> QED
  BY <1>1, HeldByFrame

LEMMA TopHolds ==
    ASSUME NEW fr \in Frame
    PROVE  /\ fr.call = "dtor" => fr.this \in Node /\ HeldBy(<<fr>>) = {fr.this}
           /\ fr.call = "gc" => fr.todo \in SUBSET Node /\ HeldBy(<<fr>>) = fr.todo
<1>1. \/ fr \in [call : {"dtor"}, this : Node]
      \/ fr \in [call : {"gc"}, todo : SUBSET Node]
  BY DEF Frame
<1>2. fr.call = "dtor" => fr.this \in Node
  BY <1>1
<1>3. fr.call = "gc" => fr.todo \in SUBSET Node
  BY <1>1
<1> QED
  BY <1>2, <1>3, HeldByFrame

(* How every step of the engine ends. *)
LEMMA InvHolds ==
    ASSUME WellFormed(h', frames'), frames' \in Seq(Frame), ran' \subseteq Live(h'),
           Shaped(h'), Seen(h', frames', {})
    PROVE  HeapInv'
BY DEF HeapInv, TypeOK, WellFormed, Shaped, Acyclic, ClosedForArrays, Seen, Reach,
       Closed, Live, Outside, InVar, Held, HeldBy

(* What was seen with some calls is seen with others that hold as much. *)
LEMMA StillSeen ==
    ASSUME NEW g \in HeapType, NEW g1 \in HeapType, g1.kind = g.kind,
           g1.slot = g.slot, NEW fs, NEW fs1, NEW T1 \in SUBSET Node,
           Seen(g, fs, {}),
           Outside(g, fs) \cup g.buffered
             \subseteq Outside(g1, fs1) \cup g1.buffered \cup T1
    PROVE  Seen(g1, fs1, T1)
<1> DEFINE S  == Outside(g, fs) \cup g.buffered \cup {}
           S1 == Outside(g1, fs1) \cup g1.buffered \cup T1
<1>1. S \in SUBSET Node /\ S1 \in SUBSET Node /\ S \subseteq S1
  BY DEF Outside, InVar, Held, HeldBy, HeapType
<1>2. Reach(g, S) \subseteq Reach(g1, S1)
  BY <1>1, ReachGrows
<1> QED
  BY <1>2 DEF Seen, Live

LEMMA CompleteIsSeen ==
    ASSUME NEW g \in HeapType, NEW fs, Live(g) \subseteq Reach(g, Outside(g, fs))
    PROVE  Seen(g, fs, {})
<1> DEFINE S  == Outside(g, fs)
           S1 == Outside(g, fs) \cup g.buffered \cup {}
<1>1. S \in SUBSET Node /\ S1 \in SUBSET Node /\ S \subseteq S1
  BY DEF Outside, InVar, Held, HeldBy, HeapType
<1>2. Reach(g, S) \subseteq Reach(g, S1)
  BY <1>1, ReachGrows
<1> QED
  BY <1>2 DEF Seen

(* There is no garbage. *)
NoGarbage(g, fs) == Live(g) \subseteq Reach(g, Outside(g, fs))

LEMMA CollectKeepsInv ==
    ASSUME HeapInv, Collect
    PROVE  HeapInv' /\ NoGarbage(h', frames')
<1>1. /\ WellFormed(h, frames) /\ frames \in Seq(Frame) /\ Shaped(h)
      /\ Seen(h, frames, {})
  BY DEF HeapInv, TypeOK
<1>2. /\ h' = Collected(h, frames)
      /\ frames' = Push(frames, DueIn(h, Garbage(h, frames, h.buffered)))
      /\ Forget(ran)
  BY DEF Collect
<1>3. frames' \in Seq(Frame) /\ WellFormed(h', frames')
  BY <1>1, <1>2, CollectedIsWellFormed
<1>4. Shaped(h') /\ Live(h') \subseteq Reach(h', Outside(h', frames'))
  BY <1>1, <1>2, CollectedIsComplete
<1>5. ran' \subseteq Live(h')
  BY <1>2 DEF Forget, Live, HeapInv, TypeOK
<1>6. Seen(h', frames', {})
  BY <1>3, <1>4, CompleteIsSeen DEF WellFormed
<1> QED
  BY <1>3, <1>4, <1>5, <1>6, InvHolds DEF NoGarbage

LEMMA RunPendingKeepsInv ==
    ASSUME HeapInv, RunPending
    PROVE  HeapInv'
<1>1. PICK n \in h.pending :
         /\ h' = [h EXCEPT !.pending = @ \ {n}]
         /\ frames' = Append(frames, Call(n))
         /\ ran' = ran \cup {n}
  BY DEF RunPending
<1>2. /\ h \in HeapType /\ WellFormed(h, frames) /\ frames \in Seq(Frame)
      /\ ran \subseteq Live(h) /\ Shaped(h) /\ Seen(h, frames, {})
  BY DEF HeapInv, TypeOK, WellFormed
<1>3. n \in Node /\ n \in Live(h)
  BY <1>2 DEF WellFormed, Held, Live
<1>4. /\ h'.kind = h.kind /\ h'.var = h.var /\ h'.slot = h.slot
      /\ h'.mc = h.mc /\ h'.called = h.called /\ h'.buffered = h.buffered
      /\ h'.pending = h.pending \ {n} /\ h' \in HeapType
  BY <1>1, <1>2 DEF HeapType
<1>5. frames' \in Seq(Frame) /\ HeldBy(frames') = HeldBy(frames) \cup {n}
  BY <1>1, <1>2, <1>3, CallHolds, HeldByAppend
<1>6. Live(h') = Live(h) /\ Held(h', frames') = Held(h, frames)
  BY <1>1, <1>4, <1>5 DEF Live, Held
<1>7. WellFormed(h', frames')
  BY <1>2, <1>4, <1>6 DEF WellFormed
<1>8. ran' \subseteq Live(h')
  BY <1>1, <1>2, <1>3, <1>6
<1>9. Shaped(h')
  BY <1>2, <1>4, FewerSlots
<1>10. Outside(h', frames') = Outside(h, frames)
  BY <1>4, <1>6 DEF Outside, InVar
<1>11. Seen(h', frames', {})
  BY <1>2, <1>4, <1>10, StillSeen
<1> QED
  BY <1>5, <1>7, <1>8, <1>9, <1>11, InvHolds

(* The frames a collection leaves when it calls the destructor of n. *)
LEMMA GcDestructorHolds ==
    ASSUME TypeOK, GcDestructor
    PROVE  \E n \in Top.todo : LET fr == [Top EXCEPT !.todo = @ \ {n}]
           IN /\ n \in Node /\ ran' = ran \cup {n}
              /\ fr \in Frame /\ fr.call = "gc" /\ fr.todo = Top.todo \ {n}
              /\ frames = Append(Below, Top)
              /\ Top \in Frame /\ Top.call = "gc" /\ Top.todo \in SUBSET Node
              /\ Below \in Seq(Frame) /\ Append(Below, fr) \in Seq(Frame)
              /\ frames' = Append(Append(Below, fr), Call(n))
              /\ frames' \in Seq(Frame)
              /\ HeldBy(frames) = HeldBy(Below) \cup Top.todo
              /\ HeldBy(frames') = HeldBy(frames)
<1>1. PICK n \in Top.todo :
         /\ frames' = Append(Append(Below, [Top EXCEPT !.todo = @ \ {n}]), Call(n))
         /\ ran' = ran \cup {n}
  BY DEF GcDestructor
<1>2. frames \in Seq(Frame) /\ frames # <<>> /\ Top.call = "gc"
  BY DEF TypeOK, GcDestructor, InCollection
<1>3. /\ Below \in Seq(Frame) /\ Top \in Frame /\ frames = Append(Below, Top)
      /\ HeldBy(frames) = HeldBy(Below) \cup HeldBy(<<Top>>)
  BY <1>2, HeldByPop DEF Below, Top
<1>4. Top.todo \in SUBSET Node /\ HeldBy(<<Top>>) = Top.todo
  BY <1>2, <1>3, TopHolds
<1> DEFINE fr  == [Top EXCEPT !.todo = @ \ {n}]
           mid == Append(Below, fr)
<1>5. fr \in Frame /\ fr.call = "gc" /\ fr.todo = Top.todo \ {n}
  <2>1. Top \in [call : {"gc"}, todo : SUBSET Node]
    BY <1>2, <1>3 DEF Frame
  <2> HIDE DEF Top
  <2>2. fr \in [call : {"gc"}, todo : SUBSET Node] /\ fr.todo = Top.todo \ {n}
    BY <2>1
  <2> QED
    BY <2>2 DEF Frame
<1> HIDE DEF fr
<1>6. mid \in Seq(Frame) /\ HeldBy(mid) = HeldBy(Below) \cup (Top.todo \ {n})
  <2>1. HeldBy(<<fr>>) = Top.todo \ {n}
    BY <1>5, TopHolds
  <2> QED
    BY <1>3, <1>5, <2>1, HeldByAppend
<1> HIDE DEF mid
<1>7. n \in Node
  BY <1>4
<1>8. frames' = Append(mid, Call(n))
  BY <1>1 DEF mid, fr
<1>9. frames' \in Seq(Frame) /\ HeldBy(frames') = HeldBy(mid) \cup {n}
  BY <1>6, <1>7, <1>8, CallHolds, HeldByAppend
<1>10. HeldBy(frames') = HeldBy(frames) /\ HeldBy(frames) = HeldBy(Below) \cup Top.todo
  BY <1>3, <1>4, <1>6, <1>9
<1> QED
  BY <1>1, <1>2, <1>3, <1>4, <1>5, <1>6, <1>7, <1>8, <1>9, <1>10 DEF mid, fr

LEMMA GcDestructorKeepsInv ==
    ASSUME HeapInv, GcDestructor
    PROVE  HeapInv'
<1>1. /\ WellFormed(h, frames) /\ frames \in Seq(Frame) /\ ran \subseteq Live(h)
      /\ h' = h /\ Shaped(h) /\ Seen(h, frames, {}) /\ TypeOK /\ h \in HeapType
  BY DEF HeapInv, TypeOK, WellFormed, GcDestructor
<1>2. PICK n \in Top.todo :
         /\ n \in Node /\ ran' = ran \cup {n} /\ frames' \in Seq(Frame)
         /\ HeldBy(frames') = HeldBy(frames)
         /\ HeldBy(frames) = HeldBy(Below) \cup Top.todo
  BY <1>1, GcDestructorHolds
<1>3. Held(h, frames') = Held(h, frames) /\ n \in Live(h)
  BY <1>1, <1>2 DEF WellFormed, Held
<1>4. WellFormed(h, frames')
  BY <1>1, <1>3 DEF WellFormed
<1>5. Seen(h, frames', {})
  BY <1>1, <1>3, StillSeen DEF Outside
<1>6. ran' \subseteq Live(h)
  BY <1>1, <1>2, <1>3
<1> QED
  BY <1>1, <1>2, <1>4, <1>5, <1>6, InvHolds

(* A heap stays well formed with fewer calls in progress. *)
LEMMA FewerCalls ==
    ASSUME NEW g, NEW fs, NEW fs1, WellFormed(g, fs), HeldBy(fs1) \subseteq HeldBy(fs)
    PROVE  WellFormed(g, fs1)
BY DEF WellFormed, Held

(* The end of a collection. *)
LEMMA GcAgainFacts ==
    ASSUME HeapInv, GcAgain
    PROVE  LET X == StillGarbage(h, Below)
               g == Scanned(h, DueIn(h, X))
           IN /\ h' = Clear(g, Below, X) /\ frames' = Below /\ Forget(ran)
              /\ Below \in Seq(Frame) /\ HeldBy(Below) = HeldBy(frames)
              /\ Outside(h, Below) = Outside(h, frames)
              /\ X \in SUBSET Live(h) /\ X \cap Reach(h, Outside(h, frames)) = {}
              /\ Live(h) \subseteq Reach(h, Outside(h, frames)) \cup X
              /\ DueIn(h, X) \subseteq Live(h) /\ DueIn(h, X) \in SUBSET Node
              /\ g \in HeapType /\ g.kind = h.kind /\ g.slot = h.slot
              /\ g.var = h.var /\ g.pending = h.pending /\ g.mc = h.mc
              /\ g.buffered = {} /\ g.called = h.called \cup DueIn(h, X)
              /\ WellFormed(g, Below)
<1> DEFINE X == StillGarbage(h, Below)
           g == Scanned(h, DueIn(h, X))
<1>1. /\ WellFormed(h, frames) /\ frames \in Seq(Frame) /\ frames # <<>>
      /\ h' = Clear(g, Below, X) /\ frames' = Below /\ Forget(ran)
      /\ Top.call = "gc" /\ Top.todo = {} /\ h \in HeapType /\ Shaped(h)
      /\ Seen(h, frames, {})
  BY DEF HeapInv, TypeOK, WellFormed, GcAgain, InCollection
<1>2. Below \in Seq(Frame) /\ HeldBy(Below) = HeldBy(frames)
  <2>1. /\ Below \in Seq(Frame) /\ Top \in Frame
        /\ HeldBy(frames) = HeldBy(Below) \cup HeldBy(<<Top>>)
    BY <1>1, HeldByPop DEF Below, Top
  <2>2. HeldBy(<<Top>>) = {}
    <3> HIDE DEF Top
    <3> QED
      BY <1>1, <2>1, TopHolds
  <2> QED
    BY <2>1, <2>2
<1>3. WellFormed(h, Below) /\ Outside(h, Below) = Outside(h, frames)
  BY <1>1, <1>2 DEF WellFormed, Held, Outside
<1>4. h.buffered \in SUBSET Live(h) /\ Live(h) \in SUBSET Node
  BY <1>1 DEF WellFormed, Live
<1>5. Live(h) \subseteq Reach(h, Outside(h, Below) \cup h.buffered)
  <2>1. Outside(h, Below) \cup h.buffered = Outside(h, frames) \cup h.buffered \cup {}
    BY <1>3
  <2> QED
    BY <1>1, <2>1 DEF Seen
<1>6. /\ X \in SUBSET Live(h) /\ X \cap Reach(h, Outside(h, Below)) = {}
      /\ Live(h) \subseteq Reach(h, Outside(h, Below)) \cup X
  BY <1>1, <1>3, <1>4, <1>5, GarbageIsLive, GarbageIsUnreachable, GarbageIsAll
     DEF StillGarbage
<1> HIDE DEF X
<1>7. DueIn(h, X) \in SUBSET Node /\ DueIn(h, X) \subseteq Live(h)
  BY <1>4, <1>6 DEF DueIn
<1>8. /\ g \in HeapType /\ g.kind = h.kind /\ g.slot = h.slot /\ g.var = h.var
      /\ g.pending = h.pending /\ g.mc = h.mc /\ g.buffered = {}
      /\ g.called = h.called \cup DueIn(h, X)
  BY <1>1, <1>7, ScannedIsTyped
<1> HIDE DEF g
<1>9. Live(g) = Live(h) /\ Held(g, Below) = Held(h, Below)
  BY <1>8 DEF Live, Held
<1>10. WellFormed(g, Below)
  BY <1>3, <1>7, <1>8, <1>9 DEF WellFormed
<1> QED
  BY <1>1, <1>2, <1>3, <1>6, <1>7, <1>8, <1>10 DEF X, g

LEMMA GcAgainReach ==
    ASSUME HeapInv, GcAgain
    PROVE  LET g == Scanned(h, DueIn(h, StillGarbage(h, Below)))
           IN /\ Outside(g, Below) = Outside(h, frames)
              /\ Reach(g, Outside(g, Below)) = Reach(h, Outside(h, frames))
<1> DEFINE g == Scanned(h, DueIn(h, StillGarbage(h, Below)))
<1>1. /\ Outside(h, Below) = Outside(h, frames)
      /\ g \in HeapType /\ g.slot = h.slot /\ g.var = h.var /\ g.pending = h.pending
  BY GcAgainFacts
<1>2. h \in HeapType
  BY DEF HeapInv, TypeOK, WellFormed
<1> HIDE DEF g
<1>3. /\ Outside(g, Below) = Outside(h, frames)
      /\ Outside(h, frames) \in SUBSET Node
  BY <1>1, <1>2 DEF Outside, InVar, Held, HeldBy, HeapType
<1>4. Reach(g, Outside(g, Below)) \subseteq Reach(h, Outside(h, frames))
  BY <1>1, <1>2, <1>3, ReachGrows
<1>5. Reach(h, Outside(h, frames)) \subseteq Reach(g, Outside(g, Below))
  BY <1>1, <1>2, <1>3, ReachGrows
<1> QED
  BY <1>3, <1>4, <1>5 DEF g

LEMMA GcAgainKeepsInv ==
    ASSUME HeapInv, GcAgain
    PROVE  HeapInv' /\ NoGarbage(h', frames')
<1> DEFINE X == StillGarbage(h, Below)
           g == Scanned(h, DueIn(h, X))
<1>1. /\ h' = Clear(g, Below, X) /\ frames' = Below /\ Forget(ran)
      /\ Below \in Seq(Frame) /\ Outside(h, Below) = Outside(h, frames)
      /\ X \in SUBSET Live(h) /\ X \cap Reach(h, Outside(h, frames)) = {}
      /\ Live(h) \subseteq Reach(h, Outside(h, frames)) \cup X
      /\ g \in HeapType /\ g.kind = h.kind /\ g.slot = h.slot
      /\ g.var = h.var /\ g.pending = h.pending /\ g.mc = h.mc
      /\ g.called = h.called \cup DueIn(h, X) /\ WellFormed(g, Below)
  BY GcAgainFacts
<1>2. h \in HeapType /\ Shaped(h) /\ ran \subseteq Live(h)
  BY DEF HeapInv, TypeOK, WellFormed
<1>3. X \cap NeedsDestructor(g) = {}
  BY <1>1 DEF NeedsDestructor, DueIn
<1> HIDE DEF X, g
<1>4. Live(g) = Live(h)
  BY <1>1 DEF Live
<1>5. Reach(g, Outside(g, Below)) = Reach(h, Outside(h, frames))
  BY GcAgainReach DEF X, g
<1>6. Shaped(g)
  BY <1>1, <1>2, FewerSlots
<1>7. X \in SUBSET Live(g) /\ X \cap Reach(g, Outside(g, Below)) = {}
      /\ Live(g) \subseteq Reach(g, Outside(g, Below)) \cup X
  BY <1>1, <1>4, <1>5
<1>8. Shaped(h') /\ Live(h') \subseteq Reach(h', Outside(h', frames'))
  BY <1>1, <1>3, <1>6, <1>7, ClearIsComplete
<1>9. WellFormed(h', frames')
  <2>1. X \in SUBSET Node
    BY <1>1 DEF Live
  <2> QED
    BY <1>1, <2>1, ClearIsWellFormed
<1>10. ran' \subseteq Live(h')
  BY <1>1, <1>2 DEF Forget, Live
<1>11. Seen(h', frames', {})
  BY <1>8, <1>9, CompleteIsSeen DEF WellFormed
<1> QED
  BY <1>1, <1>8, <1>9, <1>10, <1>11, InvHolds DEF NoGarbage

(* A call ends: what it held is released. *)
LEMMA ReleaseKeepsInv ==
    ASSUME HeapInv, NEW fs \in Seq(Frame), NEW T \in SUBSET Node,
           HeldBy(frames) = HeldBy(fs) \cup T,
           h' = Settle(h, fs, T), frames' = fs, Forget(ran)
    PROVE  HeapInv'
<1>1. /\ h \in HeapType /\ WellFormed(h, frames) /\ Shaped(h)
      /\ Seen(h, frames, {}) /\ ran \subseteq Live(h)
  BY DEF HeapInv, TypeOK, WellFormed
<1>2. WellFormed(h, fs) /\ T \in SUBSET Live(h)
  BY <1>1 DEF WellFormed, Held
<1>3. Seen(h, fs, T)
  BY <1>1, StillSeen DEF Outside, Held
<1>4. /\ WellFormed(h', frames') /\ Shaped(h') /\ Seen(h', frames', {})
  BY <1>1, <1>2, <1>3, SettleIsWellFormed, SettleIsShaped, SettleIsSeen
<1>5. ran' \subseteq Live(h')
  BY <1>1 DEF Forget, Live
<1> QED
  BY <1>4, <1>5, InvHolds

LEMMA EndDestructorHolds ==
    ASSUME TypeOK, InDestructor
    PROVE  /\ Below \in Seq(Frame) /\ Top.this \in Node
           /\ frames = Append(Below, Top) /\ Top \in Frame /\ Top.call = "dtor"
           /\ HeldBy(frames) = HeldBy(Below) \cup {Top.this}
BY HeldByPop, TopHolds DEF TypeOK, InDestructor, Below, Top

LEMMA EndDestructorKeepsInv ==
    ASSUME HeapInv, EndDestructor
    PROVE  HeapInv'
<1>1. TypeOK /\ InDestructor
  BY DEF HeapInv, EndDestructor
<1>2. /\ Below \in Seq(Frame) /\ {Top.this} \in SUBSET Node
      /\ HeldBy(frames) = HeldBy(Below) \cup {Top.this}
  BY <1>1, EndDestructorHolds
<1>3. h' = Settle(h, Below, {Top.this}) /\ frames' = Below /\ Forget(ran)
  BY DEF EndDestructor
<1> QED
  BY <1>2, <1>3, ReleaseKeepsInv

LEMMA KeepKeepsInv ==
    ASSUME HeapInv, Keep
    PROVE  HeapInv'
<1>1. PICK v \in Var : h.var[v] = null /\ h' = [h EXCEPT !.var[v] = Top.this]
  BY DEF Keep
<1>2. /\ WellFormed(h, frames) /\ h \in HeapType /\ frames \in Seq(Frame)
      /\ ran' = ran /\ frames' = frames /\ ran \subseteq Live(h) /\ Shaped(h)
      /\ Seen(h, frames, {}) /\ TypeOK /\ InDestructor
  BY DEF HeapInv, TypeOK, WellFormed, Keep
<1> DEFINE n == Top.this
<1>3. n \in Node /\ n \in HeldBy(frames)
  BY <1>2, EndDestructorHolds
<1>4. n \in Live(h)
  BY <1>2, <1>3 DEF WellFormed, Held
<1> HIDE DEF n
<1>5. /\ h'.kind = h.kind /\ h'.var = [h.var EXCEPT ![v] = n] /\ h'.slot = h.slot
      /\ h'.mc = h.mc /\ h'.called = h.called /\ h'.buffered = h.buffered
      /\ h'.pending = h.pending /\ h' \in HeapType
  BY <1>1, <1>2, <1>3 DEF HeapType, n
<1>6. Live(h') = Live(h) /\ Held(h', frames') = Held(h, frames)
  BY <1>2, <1>5 DEF Live, Held
<1>7. WellFormed(h', frames')
  BY <1>2, <1>4, <1>5, <1>6 DEF WellFormed, HeapType
<1>8. Shaped(h')
  BY <1>2, <1>5, FewerSlots
<1>9. Outside(h, frames) \subseteq Outside(h', frames')
  BY <1>1, <1>2, <1>5, <1>6, NodeAssumption DEF Outside, InVar, HeapType
<1>10. Seen(h', frames', {})
  BY <1>2, <1>5, <1>9, StillSeen
<1> QED
  BY <1>2, <1>6, <1>7, <1>8, <1>10, InvHolds

(* The frames an exception leaves. *)
Caught == Below # <<>> /\ Below[Len(Below)].call = "gc"
CaughtAt == IF Caught THEN SubSeq(Below, 1, Len(Below) - 1) ELSE Below
LostCalls == IF Caught THEN Below[Len(Below)].todo ELSE {}

LEMMA ThrowHolds ==
    ASSUME TypeOK, Throw
    PROVE  /\ h' = Settle(h, CaughtAt, {Top.this} \cup LostCalls)
           /\ frames' = CaughtAt /\ Forget(ran)
           /\ CaughtAt \in Seq(Frame) /\ {Top.this} \cup LostCalls \in SUBSET Node
           /\ HeldBy(frames) = HeldBy(CaughtAt) \cup ({Top.this} \cup LostCalls)
<1>1. /\ h' = Settle(h, CaughtAt, {Top.this} \cup LostCalls)
      /\ frames' = CaughtAt /\ Forget(ran) /\ InDestructor
  BY DEF Throw, Caught, CaughtAt, LostCalls
<1>2. /\ Below \in Seq(Frame) /\ Top.this \in Node
      /\ HeldBy(frames) = HeldBy(Below) \cup {Top.this}
  BY <1>1, EndDestructorHolds
<1> HIDE DEF Below, Top
<1>3. CASE Caught
  <2>1. /\ CaughtAt \in Seq(Frame) /\ Below[Len(Below)] \in Frame
        /\ HeldBy(Below) = HeldBy(CaughtAt) \cup HeldBy(<<Below[Len(Below)]>>)
    BY <1>2, <1>3, HeldByPop DEF Caught, CaughtAt
  <2>2. LostCalls \in SUBSET Node /\ HeldBy(<<Below[Len(Below)]>>) = LostCalls
    BY <1>3, <2>1, TopHolds DEF Caught, LostCalls
  <2> QED
    BY <1>1, <1>2, <2>1, <2>2
<1>4. CASE ~Caught
  BY <1>1, <1>2, <1>4 DEF CaughtAt, LostCalls
<1> QED
  BY <1>3, <1>4

LEMMA ThrowKeepsInv ==
    ASSUME HeapInv, Throw
    PROVE  HeapInv'
<1>1. TypeOK
  BY DEF HeapInv
<1> QED
  BY <1>1, ThrowHolds, ReleaseKeepsInv

-----------------------------------------------------------------------------
(***************************************************************************)
(* The invariant holds.                                                    *)
(***************************************************************************)
LEMMA InitInv == Init => HeapInv
<1> SUFFICES ASSUME Init PROVE HeapInv
  OBVIOUS
<1>1. h \in HeapType
  BY DEF Init, HeapType
<1>2. \A i \in DOMAIN frames : FALSE
  BY DEF Init
<1>3. Held(h, frames) = {}
  BY <1>2 DEF Init, Held, HeldBy
<1>4. /\ \A v \in Var : h.var[v] = null
      /\ \A s \in Slot : h.slot[s] = null
      /\ \A n \in Node : h.kind[n] = "free"
      /\ h.mc = {} /\ h.called = {} /\ h.buffered = {}
      /\ frames \in Seq(Frame) /\ ran = {}
  BY DEF Init
<1>5. TypeOK
  BY <1>1, <1>3, <1>4 DEF TypeOK, WellFormed
<1>6. Shaped(h)
  BY <1>4 DEF Shaped, Acyclic
<1>7. Seen(h, frames, {})
  BY <1>4 DEF Seen, Live
<1> QED
  BY <1>5, <1>6, <1>7 DEF HeapInv

LEMMA StepInv == HeapInv /\ [Next]_vars => HeapInv'
<1> SUFFICES ASSUME HeapInv, [Next]_vars PROVE HeapInv'
  OBVIOUS
<1>1. ASSUME NEW v \in Var, NEW c \in Class, New(v, c) PROVE HeapInv'
  BY <1>1, NewChanges, ScriptKeepsInv
<1>2. ASSUME NEW v \in Var, NEW x \in Value, Assign(v, x) PROVE HeapInv'
  BY <1>2, AssignChanges, ScriptKeepsInv
<1>3. ASSUME NEW s \in Slot, NEW x \in Value, Store(s, x) PROVE HeapInv'
  BY <1>3, StoreChanges, ScriptKeepsInv
<1>4. ASSUME NEW a \in Node, NEW f \in Field, NEW x \in Value, WriteInPlace(a, f, x)
      PROVE  HeapInv'
  BY <1>4, WriteInPlaceChanges, ScriptKeepsInv
<1>5. ASSUME NEW v \in Var, NEW f \in Field, NEW x \in Value, WriteCopyInVar(v, f, x)
      PROVE  HeapInv'
  BY <1>5, WriteCopyInVarChanges, ScriptKeepsInv
<1>6. ASSUME NEW s \in Slot, NEW f \in Field, NEW x \in Value, WriteCopyInSlot(s, f, x)
      PROVE  HeapInv'
  BY <1>6, WriteCopyInSlotChanges, ScriptKeepsInv
<1>7. CASE UNCHANGED vars
  BY <1>7 DEF vars, HeapInv, TypeOK, WellFormed, Shaped, Acyclic, ClosedForArrays,
              Seen, Reach, Closed, Live, Outside, InVar, Held, HeldBy
<1> QED
  BY <1>1, <1>2, <1>3, <1>4, <1>5, <1>6, <1>7, CollectKeepsInv, RunPendingKeepsInv,
     GcDestructorKeepsInv, GcAgainKeepsInv, EndDestructorKeepsInv, KeepKeepsInv,
     ThrowKeepsInv DEF Next, Step

LEMMA SpecInv == Spec => []HeapInv
<1> QED
  BY InitInv, StepInv, PTL DEF Spec

LEMMA InvSays == HeapInv => TypeOK /\ ArraysAcyclic /\ NoLostGarbage
<1> SUFFICES ASSUME HeapInv PROVE TypeOK /\ ArraysAcyclic /\ NoLostGarbage
  OBVIOUS
<1>1. TypeOK /\ Acyclic(h) /\ Seen(h, frames, {})
  BY DEF HeapInv, Shaped
<1>2. Outside(h, frames) \cup h.buffered \cup {} = Outside(h, frames) \cup h.buffered
  OBVIOUS
<1>3. NoLostGarbage
  BY <1>1, <1>2 DEF Seen, NoLostGarbage
<1> QED
  BY <1>1, <1>3, AcyclicIsArraysAcyclic

(* The heap of a request stays well formed: no handle of the script, of the
   engine or of a container leads to a freed container (gc.rs, object.rs,
   array.rs, reference.rs). *)
THEOREM TypeCorrect == Spec => []TypeOK
<1> QED
  BY SpecInv, InvSays, PTL

(* No array ever contains itself through arrays alone: a write in place only
   touches arrays with one handle, and a copied array's copy is held by
   nothing that its elements reach (PhpArray::make_mut, copy_elem). *)
THEOREM NoArrayCycle == Spec => []ArraysAcyclic
<1> QED
  BY SpecInv, InvSays, PTL

(* Whatever becomes garbage can be reached from a buffered root, so a later
   collection finds it: each release, copy on write, exception and collection
   buffers what it may leave behind (gc::possible_root and its callers). *)
THEOREM GarbageIsFound == Spec => []NoLostGarbage
<1> QED
  BY SpecInv, InvSays, PTL

(* A collection that calls no destructor leaves no garbage (gc::collect_cycles,
   Vm::collect_cycles). *)
THEOREM CollectorComplete == Spec => CollectorIsComplete
<1>1. HeapInv /\ [Next]_vars =>
        [Collecting /\ Len(frames') <= Len(frames) =>
            Live(h') \subseteq Reach(h', Outside(h', frames'))]_vars
  BY CollectKeepsInv, GcAgainKeepsInv DEF Collecting, NoGarbage
<1> QED
  BY <1>1, SpecInv, PTL DEF Spec, CollectorIsComplete

LEMMA CollectionIsSound ==
    ASSUME HeapInv, Collecting, NEW n \in Reach(h, Outside(h, frames))
    PROVE  Intact(n)
<1>1. h \in HeapType /\ frames \in Seq(Frame)
  BY DEF HeapInv, TypeOK, WellFormed
<1>2. CASE Collect
  <2>1. Same(h, Collected(h, frames), n)
    BY <1>1, CollectedKeepsReachable
  <2> QED
    BY <1>2, <2>1 DEF Collect, Same, Intact
<1>3. CASE GcAgain
  <2> DEFINE X == StillGarbage(h, Below)
             g == Scanned(h, DueIn(h, X))
  <2>1. /\ h' = Clear(g, Below, X)
        /\ g \in HeapType /\ g.kind = h.kind /\ g.slot = h.slot
        /\ X \in SUBSET Live(h) /\ X \cap Reach(h, Outside(h, frames)) = {}
    BY <1>3, GcAgainFacts
  <2>2. Reach(g, Outside(g, Below)) = Reach(h, Outside(h, frames))
    BY <1>3, GcAgainReach
  <2> HIDE DEF X, g
  <2>3. X \in SUBSET Node
    BY <2>1 DEF Live
  <2>4. Same(g, Clear(g, Below, X), n)
    BY <2>1, <2>2, <2>3, ClearKeepsReachable
  <2> QED
    BY <2>1, <2>4 DEF Same, Intact
<1> QED
  BY <1>2, <1>3 DEF Collecting

(* The cycle collector never changes or frees a container that the script,
   the queue of destructors or a call in progress can still reach
   (gc::collect_cycles, Vm::collect_cycles), however many containers there are. *)
THEOREM CollectorSound == Spec => CollectorIsSound
<1>1. HeapInv /\ [Next]_vars =>
        [Collecting => \A n \in Reach(h, Outside(h, frames)) : Intact(n)]_vars
  BY CollectionIsSound
<1> QED
  BY <1>1, SpecInv, PTL DEF Spec, CollectorIsSound

-----------------------------------------------------------------------------
(***************************************************************************)
(* Who calls a destructor.  An object whose destructor was marked as called *)
(* is in one place at most: the queue, one collection, or one call.  It     *)
(* leaves the first two only to be called, so none is called twice.         *)
(***************************************************************************)

(* The objects that collections in progress have still to call. *)
ToCall(fs) ==
    {n \in Node : \E i \in DOMAIN fs : fs[i].call = "gc" /\ n \in fs[i].todo}

Apart(fs) ==
    \A i, j \in DOMAIN fs : i # j => HeldBy(<<fs[i]>>) \cap HeldBy(<<fs[j]>>) = {}

Owned(g, fs, r) ==
    /\ g.pending \cap HeldBy(fs) = {} /\ Apart(fs)
    /\ Held(g, fs) \subseteq g.called /\ r \subseteq g.called
    /\ (g.pending \cup ToCall(fs)) \cap r = {}

LEMMA AppendOwns ==
    ASSUME NEW fs \in Seq(Frame), NEW fr \in Frame
    PROVE  /\ Apart(Append(fs, fr)) <=>
                Apart(fs) /\ HeldBy(fs) \cap HeldBy(<<fr>>) = {}
           /\ fr.call = "gc" => ToCall(Append(fs, fr)) = ToCall(fs) \cup fr.todo
           /\ fr.call = "dtor" => ToCall(Append(fs, fr)) = ToCall(fs)
           /\ ToCall(fs) \subseteq HeldBy(fs)
<1> DEFINE fs1 == Append(fs, fr)
           k   == Len(fs) + 1
<1>1. /\ DOMAIN fs1 = DOMAIN fs \cup {k} /\ k \notin DOMAIN fs
      /\ \A i \in DOMAIN fs : fs1[i] = fs[i]
      /\ fs1[k] = fr
  BY AppendIs
<1> HIDE DEF fs1, k
<1>2. HeldBy(fs) = {n \in Node : \E i \in DOMAIN fs : n \in HeldBy(<<fs[i]>>)}
  <2>1. \A i \in DOMAIN fs, n \in Node : n \in HeldBy(<<fs[i]>>) <=>
            \/ fs[i].call = "dtor" /\ fs[i].this = n
            \/ fs[i].call = "gc" /\ n \in fs[i].todo
    BY HeldByFrame
  <2> QED
    BY <2>1 DEF HeldBy
<1>3. Apart(fs1) <=> Apart(fs) /\ HeldBy(fs) \cap HeldBy(<<fr>>) = {}
  <2> DEFINE H(x) == HeldBy(<<x>>)
  <2>1. \A x : H(x) \subseteq Node
    BY DEF HeldBy
  <2>2. HeldBy(fs) = {n \in Node : \E i \in DOMAIN fs : n \in H(fs[i])}
    BY <1>2
  <2>3. Apart(fs1) <=> \A i, j \in DOMAIN fs1 : i # j => H(fs1[i]) \cap H(fs1[j]) = {}
    BY DEF Apart
  <2>4. Apart(fs) <=> \A i, j \in DOMAIN fs : i # j => H(fs[i]) \cap H(fs[j]) = {}
    BY DEF Apart
  <2> HIDE DEF H
  <2>5. ASSUME Apart(fs1) PROVE Apart(fs) /\ HeldBy(fs) \cap H(fr) = {}
    <3>1. \A i, j \in DOMAIN fs1 : i # j => H(fs1[i]) \cap H(fs1[j]) = {}
      BY <2>3, <2>5
    <3>2. Apart(fs)
      BY <1>1, <2>4, <3>1
    <3>3. ASSUME NEW i \in DOMAIN fs PROVE H(fs[i]) \cap H(fr) = {}
      <4>1. i \in DOMAIN fs1 /\ k \in DOMAIN fs1 /\ i # k
        BY <1>1
      <4>2. fs1[i] = fs[i] /\ fs1[k] = fr
        BY <1>1
      <4> QED
        BY <3>1, <4>1, <4>2
    <3> QED
      BY <2>2, <3>2, <3>3
  <2>6. ASSUME Apart(fs), HeldBy(fs) \cap H(fr) = {} PROVE Apart(fs1)
    BY <1>1, <2>1, <2>2, <2>3, <2>4, <2>6
  <2> QED
    BY <2>5, <2>6 DEF H
<1>4. fr.call = "gc" => fr.todo \subseteq Node
  BY TopHolds
<1>5. fr.call = "gc" => ToCall(fs1) = ToCall(fs) \cup fr.todo
  BY <1>1, <1>4 DEF ToCall
<1>6. fr.call = "dtor" => ToCall(fs1) = ToCall(fs)
  BY <1>1 DEF ToCall
<1>7. ToCall(fs) \subseteq HeldBy(fs)
  BY DEF ToCall, HeldBy
<1> QED
  BY <1>3, <1>5, <1>6, <1>7 DEF fs1

(* What a release does to an owner: it frees the containers of F and queues
   the objects of Q, none of them reachable. *)
Released(g, fs, g1, F, Q) ==
    /\ F \in SUBSET Node /\ Q \subseteq NeedsDestructor(g)
    /\ F \cap NeedsDestructor(g) = {} /\ F \cap Q = {}
    /\ (F \cup Q) \cap Reach(g, Outside(g, fs)) = {}
    /\ (F \cup Q) \cap Held(g, fs) = {}
    /\ \A n \in Node : g1.kind[n] = IF n \in F THEN "free" ELSE g.kind[n]
    /\ g1.var = g.var
    /\ g1.called = (g.called \cup Q) \ F /\ g1.pending = g.pending \cup Q

LEMMA OrphanIsUnreachable ==
    ASSUME NEW g \in HeapType, NEW fs, NEW n \in Node,
           Orphan(g, fs, Freed(g, fs), n)
    PROVE  n \notin Reach(g, Outside(g, fs))
<1> DEFINE O == Outside(g, fs)
           R == Reach(g, O)
           Y == R \ {n}
<1>1. O \in SUBSET Node
  BY DEF Outside, Held, HeldBy, InVar, HeapType
<1>2. R \in SUBSET Node /\ O \subseteq R /\ Closed(g, R)
  BY <1>1, ReachIsClosed
<1>3. Freed(g, fs) \cap R = {}
  BY FreedIsUnreachable
<1>4. O \subseteq Y
  BY <1>2 DEF Orphan
<1> HIDE DEF R
<1>5. Closed(g, Y)
  BY <1>2, <1>3 DEF Closed, Orphan
<1>6. R \subseteq Y
  BY <1>2, <1>4, <1>5, ReachIsLeast DEF R
<1> QED
  BY <1>6 DEF R

LEMMA SettleReleases ==
    ASSUME NEW g \in HeapType, NEW fs, NEW T
    PROVE  Released(g, fs, Settle(g, fs, T), Freed(g, fs), Queued(g, fs))
<1> DEFINE F == Freed(g, fs)
           Q == Queued(g, fs)
           g1 == Settle(g, fs, T)
<1>1. /\ F \in SUBSET Node /\ F \cap Outside(g, fs) = {}
      /\ F \cap NeedsDestructor(g) = {}
      /\ \A n \in Node : g1.kind[n] = IF n \in F THEN "free" ELSE g.kind[n]
      /\ g1.var = g.var
      /\ g1.called = (g.called \cup Q) \ F /\ g1.pending = g.pending \cup Q
  BY SettleFacts
<1>2. Q \subseteq NeedsDestructor(g) /\ Q \cap Outside(g, fs) = {}
  BY DEF Queued, Orphan
<1>3. Q \cap Reach(g, Outside(g, fs)) = {}
  BY OrphanIsUnreachable DEF Queued, NeedsDestructor
<1>4. F \cap Reach(g, Outside(g, fs)) = {}
  BY FreedIsUnreachable
<1>5. Held(g, fs) \subseteq Outside(g, fs)
  BY DEF Outside
<1> HIDE DEF F, Q, g1
<1>6. F \cap Q = {}
  BY <1>1, <1>2
<1> QED
  BY <1>1, <1>2, <1>3, <1>4, <1>5, <1>6 DEF Released, F, Q, g1

(* Reach depends only on the slots of what is reached. *)
LEMMA ReachIsKept ==
    ASSUME NEW g \in HeapType, NEW g1 \in HeapType, NEW S \in SUBSET Node,
           \A n \in Reach(g, S), f \in Field : g1.slot[<<n, f>>] = g.slot[<<n, f>>]
    PROVE  Reach(g, S) \subseteq Reach(g1, S)
<1> DEFINE R  == Reach(g, S)
           R1 == Reach(g1, S)
<1>1. /\ R \in SUBSET Node /\ S \subseteq R /\ Closed(g, R)
      /\ R1 \in SUBSET Node /\ S \subseteq R1 /\ Closed(g1, R1)
  BY ReachIsClosed
<1>2. \A s \in Slot : s[1] \in R => g1.slot[s] = g.slot[s]
  BY DEF Slot
<1> HIDE DEF R, R1
<1>3. Closed(g, R \cap R1)
  BY <1>1, <1>2 DEF Closed
<1> QED
  BY <1>1, <1>3, ReachIsLeast DEF R, R1

LEMMA ClearReleases ==
    ASSUME NEW g \in HeapType, NEW fs, NEW X \in SUBSET Node,
           X \cap Reach(g, Outside(g, fs)) = {}
    PROVE  \E F, Q : Released(g, fs, Clear(g, fs, X), F, Q)
<1> DEFINE cut == Emptied(g, X) \X Field
           T   == {m \in Node : \E s \in cut : g.slot[s] = m}
           gc  == [g EXCEPT !.slot =
                     [s \in Slot |-> IF s \in cut THEN null ELSE g.slot[s]]]
           O   == Outside(g, fs)
           F   == Freed(gc, fs)
           Q   == Queued(gc, fs)
<1>1. Clear(g, fs, X) = Settle(gc, fs, T)
  BY DEF Clear
<1>2. /\ gc \in HeapType /\ gc.kind = g.kind /\ gc.var = g.var
      /\ gc.called = g.called /\ gc.pending = g.pending
      /\ \A s \in Slot : gc.slot[s] = IF s \in cut THEN null ELSE g.slot[s]
  BY DEF HeapType
<1>3. \A s \in cut : s[1] \in X
  BY DEF Emptied
<1> HIDE DEF gc, cut, T
<1>4. /\ Outside(gc, fs) = O /\ Held(gc, fs) = Held(g, fs)
      /\ NeedsDestructor(gc) = NeedsDestructor(g)
  BY <1>2 DEF Outside, InVar, Held, NeedsDestructor
<1>5. O \in SUBSET Node
  BY DEF Outside, Held, HeldBy, InVar, HeapType
<1>6. \A n \in Reach(g, O), f \in Field : gc.slot[<<n, f>>] = g.slot[<<n, f>>]
  <2> SUFFICES ASSUME NEW n \in Reach(g, O), NEW f \in Field
               PROVE  gc.slot[<<n, f>>] = g.slot[<<n, f>>]
    OBVIOUS
  <2>1. <<n, f>> \in Slot /\ <<n, f>>[1] = n
    BY DEF Slot, Reach
  <2>2. <<n, f>> \notin cut
    BY <1>3, <2>1
  <2> QED
    BY <1>2, <2>1, <2>2
<1>7. Reach(g, O) \subseteq Reach(gc, O)
  BY <1>2, <1>5, <1>6, ReachIsKept
<1>8. Released(gc, fs, Settle(gc, fs, T), F, Q)
  BY <1>2, SettleReleases
<1> HIDE DEF F, Q, O
<1>9. Released(g, fs, Settle(gc, fs, T), F, Q)
  BY <1>2, <1>4, <1>7, <1>8 DEF Released, O
<1> QED
  BY <1>1, <1>9

LEMMA ReleasedIsOwned ==
    ASSUME NEW g, NEW fs, NEW g1, NEW F, NEW Q, NEW r,
           Released(g, fs, g1, F, Q), Owned(g, fs, r), g.called \subseteq Node
    PROVE  Owned(g1, fs, {n \in r : g1.kind[n] # "free"})
<1>1. Q \cap (g.called \cup HeldBy(fs)) = {} /\ HeldBy(fs) \cap F = {}
  BY DEF Released, NeedsDestructor, Held
<1>2. Held(g1, fs) = Held(g, fs) \cup Q
  BY DEF Released, Held
<1>3. \A n \in r : n \in Node
  BY DEF Owned
<1> QED
  BY <1>1, <1>2, <1>3 DEF Released, Owned

(* The calls of destructors are owned. *)
OwnInv == Owned(h, frames, ran)

LEMMA OwnHolds ==
    ASSUME Owned(h', frames', ran')
    PROVE  OwnInv'
BY DEF OwnInv, Owned, Apart, Held, HeldBy, ToCall

LEMMA PopOwns ==
    ASSUME NEW g, NEW fs \in Seq(Frame), NEW fr \in Frame, NEW r,
           Owned(g, Append(fs, fr), r)
    PROVE  Owned(g, fs, r)
<1> DEFINE fs1 == Append(fs, fr)
<1>1. HeldBy(fs1) = HeldBy(fs) \cup HeldBy(<<fr>>)
  BY HeldByAppend
<1>2. /\ Apart(fs1) => Apart(fs)
      /\ fr.call = "gc" => ToCall(fs1) = ToCall(fs) \cup fr.todo
      /\ fr.call = "dtor" => ToCall(fs1) = ToCall(fs)
  BY AppendOwns
<1>3. fr.call \in {"gc", "dtor"}
  BY DEF Frame
<1> HIDE DEF fs1
<1> QED
  BY <1>1, <1>2, <1>3 DEF Owned, Held, fs1

LEMMA PushOwns ==
    ASSUME NEW g \in HeapType, NEW fs \in Seq(Frame), NEW r, Owned(g, fs, r),
           NEW due \in SUBSET Node, due \cap g.called = {}
    PROVE  /\ Owned(Scanned(g, due), Push(fs, due), r)
           /\ ToCall(Push(fs, due)) = ToCall(fs) \cup due
<1> DEFINE fs1 == Push(fs, due)
           g1  == Scanned(g, due)
<1>1. HeldBy(fs1) = HeldBy(fs) \cup due
  BY PushHolds
<1>2. g1.called = g.called \cup due /\ g1.pending = g.pending
  BY ScannedIsTyped
<1>3. HeldBy(fs) \cap due = {} /\ due \cap r = {} /\ due \cap g.pending = {}
  BY DEF Owned, Held
<1>4. Apart(fs1) /\ ToCall(fs1) = ToCall(fs) \cup due
  <2>1. CASE due = {}
    BY <2>1 DEF Push, Owned
  <2>2. CASE due # {}
    <3> DEFINE fr == [call |-> "gc", todo |-> due]
    <3>1. fs1 = Append(fs, fr)
      BY <2>2 DEF Push
    <3>2. fr \in Frame /\ fr.call = "gc" /\ fr.todo = due
      BY DEF Frame
    <3> HIDE DEF fr, fs1
    <3>3. HeldBy(<<fr>>) = due
      BY <3>2, TopHolds
    <3> QED
      BY <1>3, <3>1, <3>2, <3>3, AppendOwns DEF Owned
  <2> QED
    BY <2>1, <2>2
<1> HIDE DEF fs1, g1
<1> QED
  BY <1>1, <1>2, <1>3, <1>4 DEF Owned, Held, fs1, g1

(* The two collections, as releases. *)
LEMMA CollectReleases ==
    ASSUME HeapInv, Collect
    PROVE  LET first == Garbage(h, frames, h.buffered)
               due   == DueIn(h, first)
           IN /\ due \in SUBSET Node /\ due \cap h.called = {}
              /\ Live(h) \subseteq Reach(h, Outside(h, frames)) \cup first
              /\ frames' = Push(frames, due)
              /\ \E F, Q : Released(Scanned(h, due), Push(frames, due), h', F, Q)
<1> DEFINE first == Garbage(h, frames, h.buffered)
           due   == DueIn(h, first)
           g1    == Scanned(h, due)
           fs1   == Push(frames, due)
           X     == Garbage(g1, fs1, first)
<1>1. h \in HeapType /\ WellFormed(h, frames) /\ Seen(h, frames, {})
  BY DEF HeapInv, TypeOK, WellFormed
<1>2. h' = Clear(g1, fs1, X) /\ frames' = fs1
  BY DEF Collect, Collected
<1>3. first \in SUBSET Node /\ X \in SUBSET Node /\ h.buffered \in SUBSET Node
  BY <1>1 DEF Garbage, Reach, HeapType
<1>4. Live(h) \subseteq Reach(h, Outside(h, frames)) \cup first
  <2>1. Outside(h, frames) \cup h.buffered \cup {} = Outside(h, frames) \cup h.buffered
    OBVIOUS
  <2>2. Live(h) \subseteq Reach(h, Outside(h, frames) \cup h.buffered)
    BY <1>1, <2>1 DEF Seen
  <2> QED
    BY <1>1, <1>3, <2>2, GarbageIsAll
<1> HIDE DEF first
<1>5. due \in SUBSET Node /\ due \cap h.called = {}
  BY <1>3 DEF DueIn, NeedsDestructor
<1> HIDE DEF due
<1>6. g1 \in HeapType
  BY <1>1, <1>5, ScannedIsTyped
<1> HIDE DEF g1, fs1
<1>7. X \cap Reach(g1, Outside(g1, fs1)) = {}
  BY <1>3, <1>6, GarbageIsUnreachable
<1> HIDE DEF X
<1>8. \E F, Q : Released(g1, fs1, h', F, Q)
  BY <1>2, <1>3, <1>6, <1>7, ClearReleases
<1> QED
  BY <1>2, <1>4, <1>5, <1>8 DEF first, due, g1, fs1

LEMMA GcAgainReleases ==
    ASSUME HeapInv, GcAgain
    PROVE  LET g == Scanned(h, DueIn(h, StillGarbage(h, Below)))
           IN \E F, Q : Released(g, Below, h', F, Q)
<1> DEFINE X == StillGarbage(h, Below)
           g == Scanned(h, DueIn(h, X))
<1>1. /\ h' = Clear(g, Below, X) /\ g \in HeapType
      /\ X \in SUBSET Live(h) /\ X \cap Reach(h, Outside(h, frames)) = {}
  BY GcAgainFacts
<1>2. Reach(g, Outside(g, Below)) = Reach(h, Outside(h, frames))
  BY GcAgainReach
<1> HIDE DEF X, g
<1>3. X \in SUBSET Node /\ X \cap Reach(g, Outside(g, Below)) = {}
  BY <1>1, <1>2 DEF Live
<1>4. \E F, Q : Released(g, Below, h', F, Q)
  BY <1>1, <1>3, ClearReleases
<1> QED
  BY <1>4 DEF g, X

LEMMA ReleaseKeepsOwn ==
    ASSUME HeapInv, NEW g \in HeapType, NEW fs, Owned(g, fs, ran),
           \E F, Q : Released(g, fs, h', F, Q), frames' = fs, Forget(ran)
    PROVE  OwnInv'
<1>1. PICK F, Q : Released(g, fs, h', F, Q)
  OBVIOUS
<1>2. g.called \subseteq Node
  BY DEF HeapType
<1>3. Owned(h', fs, {n \in ran : h'.kind[n] # "free"})
  BY <1>1, <1>2, ReleasedIsOwned
<1> QED
  BY <1>3, OwnHolds DEF Forget

LEMMA ScriptKeepsOwn ==
    ASSUME HeapInv, OwnInv, ScriptStep
    PROVE  OwnInv'
<1>1. PICK g, T : ScriptChanges(g, T)
  BY DEF ScriptStep
<1>2. /\ g \in HeapType /\ g.called = h.called /\ g.pending = h.pending
      /\ h' = Settle(g, frames, T) /\ frames' = frames /\ Forget(ran)
  BY <1>1 DEF ScriptChanges, Change, WellFormed
<1>3. Owned(g, frames, ran)
  BY <1>2 DEF OwnInv, Owned, Held
<1>4. \E F, Q : Released(g, frames, h', F, Q)
  BY <1>2, SettleReleases
<1> QED
  BY <1>2, <1>3, <1>4, ReleaseKeepsOwn

LEMMA CollectKeepsOwn ==
    ASSUME HeapInv, OwnInv, Collect
    PROVE  OwnInv'
<1> DEFINE due == DueIn(h, Garbage(h, frames, h.buffered))
<1>1. h \in HeapType /\ frames \in Seq(Frame)
  BY DEF HeapInv, TypeOK, WellFormed
<1>2. /\ due \in SUBSET Node /\ due \cap h.called = {}
      /\ frames' = Push(frames, due)
      /\ \E F, Q : Released(Scanned(h, due), Push(frames, due), h', F, Q)
  BY CollectReleases
<1>3. Forget(ran)
  BY DEF Collect
<1> HIDE DEF due
<1>4. Owned(Scanned(h, due), Push(frames, due), ran)
  BY <1>1, <1>2, PushOwns DEF OwnInv
<1>5. Scanned(h, due) \in HeapType
  BY <1>1, <1>2, ScannedIsTyped
<1> QED
  BY <1>2, <1>3, <1>4, <1>5, ReleaseKeepsOwn

LEMMA RunPendingKeepsOwn ==
    ASSUME HeapInv, OwnInv, RunPending
    PROVE  OwnInv' /\ frames'[Len(frames')].this \notin ran
<1>1. PICK n \in h.pending :
         /\ h' = [h EXCEPT !.pending = @ \ {n}]
         /\ frames' = Append(frames, Call(n))
         /\ ran' = ran \cup {n}
  BY DEF RunPending
<1>2. h \in HeapType /\ frames \in Seq(Frame)
  BY DEF HeapInv, TypeOK, WellFormed
<1>3. n \in Node
  BY <1>2 DEF HeapType
<1>4. h'.called = h.called /\ h'.pending = h.pending \ {n}
  BY <1>1, <1>2 DEF HeapType
<1>5. /\ Call(n) \in Frame /\ Call(n).call = "dtor" /\ Call(n).this = n
      /\ HeldBy(<<Call(n)>>) = {n}
  BY <1>3, CallHolds DEF Call
<1>6. /\ HeldBy(frames') = HeldBy(frames) \cup {n}
      /\ ToCall(frames') = ToCall(frames)
      /\ ToCall(frames) \subseteq HeldBy(frames)
      /\ Apart(frames') <=> Apart(frames) /\ HeldBy(frames) \cap {n} = {}
  BY <1>1, <1>2, <1>5, HeldByAppend, AppendOwns
<1>7. Owned(h', frames', ran')
  BY <1>1, <1>4, <1>6 DEF OwnInv, Owned, Held
<1>8. frames'[Len(frames')] = Call(n)
  BY <1>1, <1>2, <1>5
<1>9. n \notin ran
  BY DEF OwnInv, Owned
<1> QED
  BY <1>5, <1>7, <1>8, <1>9, OwnHolds

LEMMA GcDestructorKeepsOwn ==
    ASSUME HeapInv, OwnInv, GcDestructor
    PROVE  OwnInv' /\ frames'[Len(frames')].this \notin ran
<1>1. TypeOK /\ h' = h
  BY DEF HeapInv, GcDestructor
<1>2. PICK n \in Top.todo : LET fr == [Top EXCEPT !.todo = @ \ {n}]
           IN /\ n \in Node /\ ran' = ran \cup {n}
              /\ fr \in Frame /\ fr.call = "gc" /\ fr.todo = Top.todo \ {n}
              /\ frames = Append(Below, Top)
              /\ Top \in Frame /\ Top.call = "gc" /\ Top.todo \in SUBSET Node
              /\ Below \in Seq(Frame) /\ Append(Below, fr) \in Seq(Frame)
              /\ frames' = Append(Append(Below, fr), Call(n))
              /\ frames' \in Seq(Frame)
              /\ HeldBy(frames) = HeldBy(Below) \cup Top.todo
              /\ HeldBy(frames') = HeldBy(frames)
  BY <1>1, GcDestructorHolds
<1> DEFINE fr  == [Top EXCEPT !.todo = @ \ {n}]
           mid == Append(Below, fr)
<1>3. /\ Call(n) \in Frame /\ Call(n).call = "dtor" /\ Call(n).this = n
      /\ HeldBy(<<Call(n)>>) = {n}
  BY <1>2, CallHolds DEF Call
<1>4. /\ fr \in Frame /\ fr.call = "gc" /\ fr.todo = Top.todo \ {n}
      /\ mid \in Seq(Frame) /\ frames' = Append(mid, Call(n))
  BY <1>2
<1> HIDE DEF fr
<1>5. HeldBy(<<fr>>) = Top.todo \ {n}
  BY <1>4, TopHolds
<1>6. HeldBy(mid) = HeldBy(Below) \cup (Top.todo \ {n})
  BY <1>2, <1>4, <1>5, HeldByAppend
<1>7. /\ ToCall(mid) = ToCall(Below) \cup (Top.todo \ {n})
      /\ Apart(mid) <=> Apart(Below) /\ HeldBy(Below) \cap (Top.todo \ {n}) = {}
  BY <1>2, <1>4, <1>5, AppendOwns
<1> HIDE DEF mid
<1>8. /\ ToCall(frames') = ToCall(mid)
      /\ Apart(frames') <=> Apart(mid) /\ HeldBy(mid) \cap {n} = {}
      /\ frames'[Len(frames')] = Call(n)
  BY <1>3, <1>4, AppendOwns
<1> DEFINE top   == Top
           below == Below
<1>9. /\ top \in Frame /\ top.call = "gc" /\ below \in Seq(Frame)
      /\ frames = Append(below, top)
  BY <1>2
<1> HIDE DEF top, below
<1>10. HeldBy(<<top>>) = top.todo
  BY <1>9, TopHolds
<1>11. /\ Apart(frames) <=> Apart(below) /\ HeldBy(below) \cap top.todo = {}
       /\ ToCall(frames) = ToCall(below) \cup top.todo
       /\ ToCall(below) \subseteq HeldBy(below)
  BY <1>9, <1>10, AppendOwns
<1>12. n \in top.todo /\ n \notin HeldBy(below) /\ Apart(below)
  BY <1>11 DEF OwnInv, Owned, top
<1>13. Apart(frames')
  BY <1>6, <1>7, <1>8, <1>11, <1>12 DEF OwnInv, Owned, below, top
<1>14. ToCall(frames') \cup {n} = ToCall(frames) /\ n \notin ToCall(frames')
  BY <1>7, <1>8, <1>11, <1>12 DEF top, below
<1>15. n \in HeldBy(frames) /\ HeldBy(frames') = HeldBy(frames) /\ ran' = ran \cup {n}
  BY <1>2
<1>16. Owned(h', frames', ran')
  BY <1>1, <1>13, <1>14, <1>15 DEF OwnInv, Owned, Held
<1>17. n \notin ran
  BY <1>14 DEF OwnInv, Owned
<1> QED
  BY <1>3, <1>8, <1>16, <1>17, OwnHolds

LEMMA GcAgainKeepsOwn ==
    ASSUME HeapInv, OwnInv, GcAgain
    PROVE  OwnInv'
<1> DEFINE g == Scanned(h, DueIn(h, StillGarbage(h, Below)))
<1>1. TypeOK /\ frames \in Seq(Frame) /\ frames # <<>>
  BY DEF HeapInv, TypeOK, GcAgain, InCollection
<1>2. Below \in Seq(Frame) /\ Top \in Frame /\ frames = Append(Below, Top)
  BY <1>1, HeldByPop DEF Below, Top
<1>3. Owned(h, Below, ran)
  <2> HIDE DEF Below, Top
  <2> QED
    BY <1>2, PopOwns DEF OwnInv
<1>4. /\ g \in HeapType /\ g.pending = h.pending /\ h.called \subseteq g.called
      /\ frames' = Below /\ Forget(ran)
  BY GcAgainFacts
<1>5. \E F, Q : Released(g, Below, h', F, Q)
  BY GcAgainReleases
<1> HIDE DEF g
<1>6. Owned(g, Below, ran)
  BY <1>3, <1>4 DEF Owned, Held
<1> QED
  BY <1>4, <1>5, <1>6, ReleaseKeepsOwn

LEMMA EndDestructorKeepsOwn ==
    ASSUME HeapInv, OwnInv, EndDestructor
    PROVE  OwnInv'
<1>1. /\ TypeOK /\ InDestructor /\ h \in HeapType
      /\ h' = Settle(h, Below, {Top.this}) /\ frames' = Below /\ Forget(ran)
  BY DEF HeapInv, TypeOK, WellFormed, EndDestructor
<1>2. Below \in Seq(Frame) /\ Top \in Frame /\ frames = Append(Below, Top)
  BY <1>1, EndDestructorHolds
<1>3. Owned(h, Below, ran)
  <2> HIDE DEF Below, Top
  <2> QED
    BY <1>2, PopOwns DEF OwnInv
<1>4. \E F, Q : Released(h, Below, h', F, Q)
  BY <1>1, SettleReleases
<1> QED
  BY <1>1, <1>3, <1>4, ReleaseKeepsOwn

LEMMA ThrowKeepsOwn ==
    ASSUME HeapInv, OwnInv, Throw
    PROVE  OwnInv'
<1>1. TypeOK /\ InDestructor /\ h \in HeapType
  BY DEF HeapInv, TypeOK, WellFormed, Throw
<1>2. /\ h' = Settle(h, CaughtAt, {Top.this} \cup LostCalls)
      /\ frames' = CaughtAt /\ Forget(ran)
  BY <1>1, ThrowHolds
<1>3. Below \in Seq(Frame) /\ Top \in Frame /\ frames = Append(Below, Top)
  BY <1>1, EndDestructorHolds
<1>4. Owned(h, Below, ran)
  <2> HIDE DEF Below, Top
  <2> QED
    BY <1>3, PopOwns DEF OwnInv
<1>5. Owned(h, CaughtAt, ran)
  <2>1. CASE Caught
    <3> HIDE DEF Below
    <3> DEFINE low == SubSeq(Below, 1, Len(Below) - 1)
               top == Below[Len(Below)]
    <3>1. low \in Seq(Frame) /\ top \in Frame /\ Below = Append(low, top)
      BY <1>3, <2>1, HeldByPop DEF Caught
    <3>2. CaughtAt = low
      BY <2>1 DEF CaughtAt
    <3> HIDE DEF low, top
    <3> QED
      BY <1>4, <3>1, <3>2, PopOwns
  <2>2. CASE ~Caught
    BY <1>4, <2>2 DEF CaughtAt
  <2> QED
    BY <2>1, <2>2
<1>6. \E F, Q : Released(h, CaughtAt, h', F, Q)
  BY <1>1, <1>2, SettleReleases
<1> QED
  BY <1>1, <1>2, <1>5, <1>6, ReleaseKeepsOwn

LEMMA KeepKeepsOwn ==
    ASSUME HeapInv, OwnInv, Keep
    PROVE  OwnInv'
<1>1. h \in HeapType /\ UNCHANGED <<frames, ran>>
  BY DEF HeapInv, TypeOK, WellFormed, Keep
<1>2. h'.called = h.called /\ h'.pending = h.pending
  BY <1>1 DEF HeapType, Keep
<1>3. Owned(h', frames', ran')
  BY <1>1, <1>2 DEF OwnInv, Owned, Held
<1> QED
  BY <1>3, OwnHolds

ScriptActions ==
    \/ \E v \in Var, c \in Class : New(v, c)
    \/ \E v \in Var, x \in Value : Assign(v, x)
    \/ \E s \in Slot, x \in Value : Store(s, x)
    \/ \E a \in Node, f \in Field, x \in Value : WriteInPlace(a, f, x)
    \/ \E v \in Var, f \in Field, x \in Value : WriteCopyInVar(v, f, x)
    \/ \E s \in Slot, f \in Field, x \in Value : WriteCopyInSlot(s, f, x)

LEMMA EachStep ==
    ASSUME HeapInv, Next
    PROVE  ScriptStep \/ Collect \/ RunPending \/ GcDestructor \/ GcAgain
             \/ EndDestructor \/ Keep \/ Throw
<1>1. ScriptActions => ScriptStep
  BY NewChanges, AssignChanges, StoreChanges, WriteInPlaceChanges,
     WriteCopyInVarChanges, WriteCopyInSlotChanges DEF ScriptActions
<1> QED
  BY <1>1 DEF Next, Step, ScriptActions

LEMMA InitOwn == Init => OwnInv
<1> SUFFICES ASSUME Init PROVE OwnInv
  OBVIOUS
<1>1. frames = <<>> /\ h.pending = {} /\ h.called = {} /\ ran = {}
  BY DEF Init
<1>2. HeldBy(frames) = {} /\ ToCall(frames) = {} /\ Apart(frames)
  BY <1>1 DEF HeldBy, ToCall, Apart
<1> QED
  BY <1>1, <1>2 DEF OwnInv, Owned, Held

LEMMA StepOwn == HeapInv /\ OwnInv /\ [Next]_vars => OwnInv'
<1> SUFFICES ASSUME HeapInv, OwnInv, [Next]_vars PROVE OwnInv'
  OBVIOUS
<1>1. CASE UNCHANGED vars
  BY <1>1 DEF vars, OwnInv, Owned, Apart, Held, HeldBy, ToCall
<1> QED
  BY <1>1, EachStep, ScriptKeepsOwn, CollectKeepsOwn, RunPendingKeepsOwn,
     GcDestructorKeepsOwn, GcAgainKeepsOwn, EndDestructorKeepsOwn, KeepKeepsOwn,
     ThrowKeepsOwn

LEMMA SpecOwn == Spec => [](HeapInv /\ OwnInv)
<1> QED
  BY InitInv, StepInv, InitOwn, StepOwn, PTL DEF Spec

LEMMA OwnedOnce == OwnInv => OneOwner
BY DEF OwnInv, Owned, OneOwner, Apart

(* An object that waits for its destructor, or whose destructor runs, is in
   one place only, and marked: a collection never queues an object that the
   release of its last handle has queued, nor the other way round
   (object.rs release, gc.rs collect, Vm::run_pending_destructors). *)
THEOREM EachOwnedOnce == Spec => []OneOwner
<1> QED
  BY SpecOwn, OwnedOnce, PTL

(* The only steps that start a call of a destructor. *)
LEMMA LongerStack ==
    ASSUME HeapInv, OwnInv, Next, Len(frames') > Len(frames),
           frames'[Len(frames')].call = "dtor"
    PROVE  frames'[Len(frames')].this \notin ran
<1>1. frames \in Seq(Frame) /\ TypeOK
  BY DEF HeapInv, TypeOK
<1>2. CASE ScriptStep
  BY <1>2 DEF ScriptStep, ScriptChanges
<1>3. CASE Collect
  <2> DEFINE due == DueIn(h, Garbage(h, frames, h.buffered))
             fr  == [call |-> "gc", todo |-> due]
  <2>1. frames' = Push(frames, due)
    BY <1>3 DEF Collect
  <2> HIDE DEF due
  <2>2. due # {} /\ frames' = Append(frames, fr)
    BY <2>1 DEF Push
  <2>3. frames'[Len(frames')] = fr
    BY <1>1, <2>2
  <2> QED
    BY <2>3
<1>4. CASE RunPending
  BY <1>4, RunPendingKeepsOwn
<1>5. CASE GcDestructor
  BY <1>5, GcDestructorKeepsOwn
<1>6. CASE GcAgain
  BY <1>1, <1>6 DEF GcAgain, Below, InCollection
<1>7. CASE EndDestructor
  BY <1>1, <1>7 DEF EndDestructor, Below, InDestructor
<1>8. CASE Keep
  BY <1>8 DEF Keep
<1>9. CASE Throw
  <2>1. frames' = CaughtAt /\ InDestructor
    BY <1>1, <1>9, ThrowHolds DEF Throw
  <2>2. Below \in Seq(Frame) /\ Len(Below) = Len(frames) - 1 /\ Len(frames) \in Nat
    BY <1>1, <2>1, PopIsShorter DEF Below, InDestructor
  <2> HIDE DEF Below
  <2>3. Len(CaughtAt) <= Len(Below)
    BY <2>2 DEF CaughtAt, Caught
  <2>4. Len(CaughtAt) \in Nat
    BY <2>2 DEF CaughtAt, Caught
  <2> QED
    BY <2>1, <2>2, <2>3, <2>4
<1> QED
  BY <1>2, <1>3, <1>4, <1>5, <1>6, <1>7, <1>8, <1>9, EachStep

(* No destructor is started twice in the life of an object: neither by the
   queue and a collection, nor by two collections, nor again after the first
   call kept the object alive (F_DTOR_CALLED, object.rs). *)
THEOREM CalledOnce == Spec => DestructedOnce
<1>1. HeapInv /\ OwnInv /\ [Next]_vars =>
        [Len(frames') > Len(frames) /\ frames'[Len(frames')].call = "dtor"
           => frames'[Len(frames')].this \notin ran]_vars
  BY LongerStack
<1> QED
  BY <1>1, SpecOwn, PTL DEF Spec, DestructedOnce

-----------------------------------------------------------------------------
(***************************************************************************)
(* Destructors that do nothing but keep their object.  Then the script is   *)
(* stopped while a destructor runs, a collection is at the bottom of the    *)
(* stack, and the objects it did not mark stay reachable from variables.    *)
(***************************************************************************)
KeepsOnly == program.does \subseteq {"keep"}

(* The objects still to be called are reachable from variables. *)
DueInVar(g) == NeedsDestructor(g) \subseteq Reach(g, InVar(g))

HasCollection(fs) == \E i \in DOMAIN fs : fs[i].call = "gc"

Quiet(g, fs, r) ==
    /\ g.called \subseteq r \cup g.pending \cup ToCall(fs)
    /\ \A i \in DOMAIN fs : fs[i].call = "gc" => i = 1
    /\ HasCollection(fs) => g.pending = {} /\ DueInVar(g)

KeepInv == KeepsOnly => Quiet(h, frames, ran)

LEMMA QuietHolds ==
    ASSUME Quiet(h', frames', ran')
    PROVE  KeepInv'
BY DEF KeepInv, Quiet, ToCall, HasCollection, DueInVar, NeedsDestructor, Reach, Closed,
       InVar

(* What is freed was called. *)
LEMMA FreedWasCalled ==
    ASSUME NEW g, NEW fs, NEW g1, NEW F, NEW Q, NEW r,
           Released(g, fs, g1, F, Q), g.called \subseteq r \cup g.pending \cup ToCall(fs),
           NEW n \in Node, g.kind[n] = "dtor", g1.kind[n] = "free"
    PROVE  n \in r
<1>1. n \in F
  BY DEF Released
<1>2. n \in g.called /\ n \notin Held(g, fs)
  BY <1>1 DEF Released, NeedsDestructor
<1>3. ToCall(fs) \subseteq HeldBy(fs)
  BY DEF ToCall, HeldBy
<1> QED
  BY <1>2, <1>3 DEF Held

Accounted(g, fs, r) ==
    /\ g.called \subseteq Live(g)
    /\ g.called \subseteq r \cup g.pending \cup ToCall(fs)
    /\ \A i \in DOMAIN fs : fs[i].call = "gc" => i = 1

LEMMA ReleaseStaysQuiet ==
    ASSUME NEW g, NEW fs, NEW g1, NEW F, NEW Q, NEW r,
           Released(g, fs, g1, F, Q), Accounted(g, fs, r),
           HasCollection(fs) => g1.pending = {} /\ DueInVar(g1)
    PROVE  Quiet(g1, fs, {n \in r : g1.kind[n] # "free"})
<1>1. \A n \in g.called \ F : g1.kind[n] # "free"
  BY DEF Released, Live, Accounted
<1>2. Q \subseteq g1.pending
  BY DEF Released
<1>3. g1.called \subseteq {n \in r : g1.kind[n] # "free"} \cup g1.pending \cup ToCall(fs)
  BY <1>1, <1>2 DEF Released, Accounted
<1> QED
  BY <1>3 DEF Quiet, Accounted

LEMMA ReleaseKeepsQuiet ==
    ASSUME KeepsOnly, UNCHANGED program, NEW g \in HeapType, NEW fs,
           Accounted(g, fs, ran), \E F, Q : Released(g, fs, h', F, Q),
           HasCollection(fs) => h'.pending = {} /\ DueInVar(h'),
           frames' = fs, Forget(ran),
           \A n \in Node : h.kind[n] = "dtor" => g.kind[n] = "dtor"
    PROVE  /\ KeepInv'
           /\ \A n \in Node : h.kind[n] = "dtor" /\ h'.kind[n] = "free" => n \in ran
<1>1. PICK F, Q : Released(g, fs, h', F, Q)
  OBVIOUS
<1>2. Quiet(h', fs, {n \in ran : h'.kind[n] # "free"})
  BY <1>1, ReleaseStaysQuiet
<1>3. Quiet(h', frames', ran')
  BY <1>2 DEF Forget
<1>4. \A n \in Node : h.kind[n] = "dtor" /\ h'.kind[n] = "free" => n \in ran
  BY <1>1, FreedWasCalled DEF Accounted
<1> QED
  BY <1>3, <1>4, QuietHolds

(* While a collection is in progress nothing is queued. *)
LEMMA NothingQueued ==
    ASSUME NEW g \in HeapType, NEW fs, NEW g1 \in HeapType,
           DueInVar(g), g.pending = {},
           \A n \in Reach(g, Outside(g, fs)) : Same(g, g1, n),
           \E F, Q : Released(g, fs, g1, F, Q)
    PROVE  g1.pending = {} /\ DueInVar(g1)
<1>1. PICK F, Q : Released(g, fs, g1, F, Q)
  OBVIOUS
<1>2. InVar(g) \in SUBSET Node /\ Outside(g, fs) \in SUBSET Node
      /\ InVar(g) \subseteq Outside(g, fs)
  BY DEF Outside, Held, HeldBy, InVar, HeapType
<1>3. Reach(g, InVar(g)) \subseteq Reach(g, Outside(g, fs))
  BY <1>2, ReachGrows
<1>4. Q = {}
  BY <1>1, <1>3 DEF Released, DueInVar
<1>5. g1.pending = {}
  BY <1>1, <1>4 DEF Released
<1>6. NeedsDestructor(g1) \subseteq NeedsDestructor(g)
  BY <1>1 DEF Released, NeedsDestructor
<1>7. Reach(g, InVar(g)) \subseteq Reach(g1, InVar(g))
  BY <1>2, <1>3, ReachIsKept DEF Same
<1>8. InVar(g1) = InVar(g)
  BY <1>1 DEF Released, InVar
<1> QED
  BY <1>5, <1>6, <1>7, <1>8 DEF DueInVar

(* Every step, when destructors only keep their object, frees only objects
   that were called. *)
FreesCalled == \A n \in Node : h.kind[n] = "dtor" /\ h'.kind[n] = "free" => n \in ran

LEMMA ScriptKeepsQuiet ==
    ASSUME HeapInv, KeepInv, KeepsOnly, UNCHANGED program, ScriptStep
    PROVE  KeepInv' /\ FreesCalled
<1>1. PICK g, T : ScriptChanges(g, T)
  BY DEF ScriptStep
<1>2. /\ g \in HeapType /\ g.called = h.called /\ g.pending = h.pending
      /\ h' = Settle(g, frames, T) /\ frames' = frames /\ Forget(ran)
      /\ g.called \subseteq Live(g) /\ ScriptActs
      /\ \A n \in Node : h.kind[n] = "dtor" => g.kind[n] = "dtor"
  BY <1>1 DEF ScriptChanges, Change, WellFormed
<1>3. frames = <<>>
  BY <1>2 DEF ScriptActs, KeepsOnly
<1>4. ~HasCollection(frames)
  BY <1>3 DEF HasCollection
<1>5. \E F, Q : Released(g, frames, h', F, Q)
  BY <1>2, SettleReleases
<1>6. Accounted(g, frames, ran)
  BY <1>2 DEF KeepInv, Quiet, Accounted
<1> QED
  BY <1>2, <1>4, <1>5, <1>6, ReleaseKeepsQuiet DEF FreesCalled

LEMMA CollectKeepsQuiet ==
    ASSUME HeapInv, OwnInv, KeepInv, KeepsOnly, UNCHANGED program, Collect
    PROVE  KeepInv' /\ FreesCalled
<1> DEFINE first == Garbage(h, frames, h.buffered)
           due   == DueIn(h, first)
           g     == Scanned(h, due)
           fs    == Push(frames, due)
<1>1. /\ h \in HeapType /\ frames \in Seq(Frame) /\ h.called \subseteq Live(h)
      /\ HeapInv' /\ h' = Collected(h, frames) /\ Forget(ran)
  BY CollectKeepsInv DEF HeapInv, TypeOK, WellFormed, Collect
<1>2. frames = <<>> /\ h.pending = {}
  BY DEF Collect, ScriptActs, ScriptRuns, KeepsOnly
<1>3. /\ due \in SUBSET Node /\ due \cap h.called = {}
      /\ Live(h) \subseteq Reach(h, Outside(h, frames)) \cup first
      /\ frames' = fs
      /\ \E F, Q : Released(g, fs, h', F, Q)
  BY CollectReleases
<1>4. due = first \cap NeedsDestructor(h)
  BY DEF DueIn
<1> HIDE DEF first, due
<1>5. /\ g \in HeapType /\ g.kind = h.kind /\ g.slot = h.slot /\ g.var = h.var
      /\ g.pending = h.pending /\ g.called = h.called \cup due
  BY <1>1, <1>3, ScannedIsTyped
<1>6. Owned(g, fs, ran) /\ ToCall(fs) = ToCall(frames) \cup due
  BY <1>1, <1>3, PushOwns DEF OwnInv
<1>7. \A i \in DOMAIN fs : i = 1
  BY <1>2 DEF Push
<1> HIDE DEF g, fs
<1>8. g.called \subseteq ran \cup g.pending \cup ToCall(fs)
  BY <1>5, <1>6 DEF KeepInv, Quiet
<1>9. Live(g) = Live(h) /\ due \subseteq Live(h)
  BY <1>4, <1>5 DEF Live, NeedsDestructor
<1>10. Outside(h, frames) = InVar(h) /\ InVar(g) = InVar(h)
  BY <1>2, <1>5 DEF Outside, Held, HeldBy, InVar
<1>11. DueInVar(g)
  <2>1. NeedsDestructor(g) \subseteq NeedsDestructor(h) \ due
    BY <1>5 DEF NeedsDestructor
  <2>2. NeedsDestructor(h) \subseteq Live(h)
    BY DEF NeedsDestructor, Live
  <2>3. NeedsDestructor(g) \subseteq Reach(h, InVar(h))
    BY <1>3, <1>4, <1>10, <2>1, <2>2
  <2>4. Reach(h, InVar(h)) \subseteq Reach(g, InVar(g))
    <3>1. InVar(h) \in SUBSET Node
      BY DEF InVar
    <3> QED
      BY <1>1, <1>5, <1>10, <3>1, ReachGrows
  <2> QED
    BY <2>3, <2>4 DEF DueInVar
<1>12. h'.pending = {} /\ DueInVar(h')
  <2>1. PICK F, Q : Released(g, fs, h', F, Q)
    BY <1>3
  <2>2. /\ InVar(g) \in SUBSET Node /\ Outside(g, fs) \in SUBSET Node
        /\ InVar(g) \subseteq Outside(g, fs)
    BY <1>5 DEF Outside, Held, HeldBy, InVar, HeapType
  <2>3. Reach(g, InVar(g)) \subseteq Reach(g, Outside(g, fs))
    BY <1>5, <2>2, ReachGrows
  <2>4. Q = {} /\ h'.pending = {}
    BY <1>2, <1>5, <1>11, <2>1, <2>3 DEF Released, DueInVar
  <2>5. NeedsDestructor(h') \subseteq NeedsDestructor(g)
    BY <2>1 DEF Released, NeedsDestructor
  <2>6. h' \in HeapType
    BY <1>1 DEF HeapInv, TypeOK, WellFormed
  <2>7. \A n \in Reach(h, InVar(h)), f \in Field : h'.slot[<<n, f>>] = h.slot[<<n, f>>]
    BY <1>1, <1>10, CollectedKeepsReachable DEF Same
  <2>8. Reach(h, InVar(h)) \subseteq Reach(h', InVar(h))
    BY <1>1, <1>10, <2>2, <2>6, <2>7, ReachIsKept
  <2>9. InVar(h') = InVar(h)
    BY <1>10, <2>1 DEF Released, InVar
  <2>10. Reach(g, InVar(g)) \subseteq Reach(h, InVar(h))
    BY <1>1, <1>5, <1>10, <2>2, ReachGrows
  <2> QED
    BY <1>11, <2>4, <2>5, <2>8, <2>9, <2>10 DEF DueInVar
<1>13. Accounted(g, fs, ran)
  BY <1>1, <1>5, <1>7, <1>8, <1>9 DEF Accounted
<1> QED
  BY <1>1, <1>3, <1>5, <1>12, <1>13, ReleaseKeepsQuiet DEF FreesCalled

LEMMA RunPendingKeepsQuiet ==
    ASSUME HeapInv, KeepInv, KeepsOnly, UNCHANGED program, RunPending
    PROVE  KeepInv' /\ FreesCalled
<1>1. PICK n \in h.pending :
         /\ h' = [h EXCEPT !.pending = @ \ {n}]
         /\ frames' = Append(frames, Call(n))
         /\ ran' = ran \cup {n}
  BY DEF RunPending
<1>2. h \in HeapType /\ frames \in Seq(Frame) /\ Quiet(h, frames, ran)
  BY DEF HeapInv, TypeOK, WellFormed, KeepInv
<1>3. n \in Node
  BY <1>2 DEF HeapType
<1>4. h'.called = h.called /\ h'.pending = h.pending \ {n} /\ h'.kind = h.kind
  BY <1>1, <1>2 DEF HeapType
<1>5. Call(n) \in Frame /\ Call(n).call = "dtor"
  BY <1>3, CallHolds DEF Call
<1>6. ToCall(frames') = ToCall(frames)
  BY <1>1, <1>2, <1>5, AppendOwns
<1>7. ~HasCollection(frames)
  BY <1>2 DEF Quiet
<1>8. \A i \in DOMAIN frames' : frames'[i].call # "gc"
  <2> SUFFICES ASSUME NEW i \in DOMAIN frames' PROVE frames'[i].call # "gc"
    OBVIOUS
  <2>1. (i \in DOMAIN frames /\ frames'[i] = frames[i]) \/ frames'[i] = Call(n)
    BY <1>1, <1>2, <1>5
  <2> QED
    BY <1>5, <1>7, <2>1 DEF HasCollection
<1>9. Quiet(h', frames', ran')
  BY <1>1, <1>2, <1>4, <1>6, <1>8 DEF Quiet, HasCollection
<1>10. FreesCalled
  BY <1>4 DEF FreesCalled
<1> QED
  BY <1>9, <1>10, QuietHolds

(* A collection in progress is alone on the stack. *)
LEMMA CollectionAlone ==
    ASSUME HeapInv, KeepInv, KeepsOnly, InCollection
    PROVE  /\ Below = <<>> /\ h.pending = {} /\ DueInVar(h)
           /\ h.called \subseteq ran \cup Top.todo
           /\ frames = <<Top>> /\ ToCall(<<>>) = {} /\ ~HasCollection(<<>>)
<1>1. frames \in Seq(Frame) /\ frames # <<>> /\ Quiet(h, frames, ran)
  BY DEF HeapInv, TypeOK, KeepInv, InCollection
<1>2. Len(frames) \in Nat /\ Len(frames) > 0 /\ DOMAIN frames = 1 .. Len(frames)
  BY <1>1
<1>3. frames[Len(frames)].call = "gc" /\ Len(frames) \in DOMAIN frames
  BY <1>2 DEF InCollection, Top
<1>4. Len(frames) = 1 /\ HasCollection(frames)
  BY <1>1, <1>3 DEF Quiet, HasCollection
<1>5. /\ Below = <<>> /\ frames = <<Top>>
  BY <1>1, <1>4 DEF Below, Top
<1>6. ToCall(frames) \subseteq Top.todo
  BY <1>2, <1>4 DEF ToCall, Top
<1>7. ToCall(<<>>) = {} /\ ~HasCollection(<<>>)
  BY DEF ToCall, HasCollection
<1> QED
  BY <1>1, <1>4, <1>5, <1>6, <1>7 DEF Quiet

LEMMA TwoFrames ==
    ASSUME NEW fr \in Frame, NEW call \in Frame
    PROVE  LET fs == Append(Append(<<>>, fr), call)
           IN DOMAIN fs = {1, 2} /\ fs[1] = fr /\ fs[2] = call
<1> DEFINE one == Append(<<>>, fr)
           fs  == Append(one, call)
<1>1. one \in Seq(Frame) /\ Len(one) = 1 /\ one[1] = fr
  OBVIOUS
<1> HIDE DEF one
<1>2. /\ DOMAIN fs = 1 .. Len(one) + 1
      /\ \A i \in DOMAIN one : fs[i] = one[i]
      /\ fs[Len(one) + 1] = call /\ DOMAIN one = 1 .. Len(one)
  BY <1>1, AppendIs
<1> HIDE DEF fs
<1> QED
  BY <1>1, <1>2 DEF fs, one

LEMMA GcDestructorKeepsQuiet ==
    ASSUME HeapInv, KeepInv, KeepsOnly, UNCHANGED program, GcDestructor
    PROVE  KeepInv' /\ FreesCalled
<1>1. TypeOK /\ h' = h /\ InCollection
  BY DEF HeapInv, GcDestructor
<1>2. PICK n \in Top.todo : LET fr == [Top EXCEPT !.todo = @ \ {n}]
           IN /\ n \in Node /\ ran' = ran \cup {n}
              /\ fr \in Frame /\ fr.call = "gc" /\ fr.todo = Top.todo \ {n}
              /\ Below \in Seq(Frame) /\ Append(Below, fr) \in Seq(Frame)
              /\ frames' = Append(Append(Below, fr), Call(n))
  BY <1>1, GcDestructorHolds
<1> DEFINE fr == [Top EXCEPT !.todo = @ \ {n}]
<1>3. /\ Below = <<>> /\ h.pending = {} /\ DueInVar(h)
      /\ h.called \subseteq ran \cup Top.todo
  BY <1>1, CollectionAlone
<1>4. /\ fr \in Frame /\ fr.call = "gc" /\ fr.todo = Top.todo \ {n}
      /\ DOMAIN frames' = {1, 2} /\ frames'[1] = fr /\ frames'[2] = Call(n)
      /\ Top.todo \ {n} \subseteq Node
  <2>1. /\ fr \in Frame /\ fr.call = "gc" /\ fr.todo = Top.todo \ {n}
        /\ frames' = Append(Append(Below, fr), Call(n))
    BY <1>2
  <2> HIDE DEF fr
  <2>2. fr.todo \subseteq Node
    BY <2>1, TopHolds
  <2>3. frames' = Append(Append(<<>>, fr), Call(n)) /\ Call(n) \in Frame
    BY <1>2, <1>3, <2>1, CallHolds
  <2>4. DOMAIN frames' = {1, 2} /\ frames'[1] = fr /\ frames'[2] = Call(n)
    BY <2>1, <2>3, TwoFrames
  <2> QED
    BY <2>1, <2>2, <2>4
<1> HIDE DEF fr
<1>5. Call(n).call = "dtor"
  BY DEF Call
<1>6. ToCall(frames') = Top.todo \ {n}
  BY <1>4, <1>5 DEF ToCall
<1>7. \A i \in DOMAIN frames' : frames'[i].call = "gc" => i = 1
  BY <1>4, <1>5
<1>8. ran' = ran \cup {n}
  BY <1>2
<1>9. Quiet(h', frames', ran')
  BY <1>1, <1>3, <1>6, <1>7, <1>8 DEF Quiet
<1>10. FreesCalled
  BY <1>1 DEF FreesCalled
<1> QED
  BY <1>9, <1>10, QuietHolds

LEMMA GcAgainKeepsQuiet ==
    ASSUME HeapInv, KeepInv, KeepsOnly, UNCHANGED program, GcAgain
    PROVE  KeepInv' /\ FreesCalled
<1> DEFINE X == StillGarbage(h, Below)
           due == DueIn(h, X)
           g == Scanned(h, due)
<1>1. /\ h \in HeapType /\ h.called \subseteq Live(h) /\ InCollection /\ Top.todo = {}
  BY DEF HeapInv, TypeOK, WellFormed, GcAgain
<1>2. /\ Below = <<>> /\ h.pending = {} /\ DueInVar(h)
      /\ h.called \subseteq ran
      /\ ToCall(<<>>) = {} /\ ~HasCollection(<<>>)
  BY <1>1, CollectionAlone
<1>3. /\ frames' = Below /\ Forget(ran) /\ X \cap Reach(h, Outside(h, frames)) = {}
      /\ g \in HeapType /\ g.kind = h.kind /\ g.called = h.called \cup due
  BY GcAgainFacts
<1>4. \E F, Q : Released(g, Below, h', F, Q)
  BY GcAgainReleases
<1> HIDE DEF X, g
<1>5. due = {}
  <2>1. InVar(h) \in SUBSET Node /\ Outside(h, frames) \in SUBSET Node
        /\ InVar(h) \subseteq Outside(h, frames)
    BY <1>1 DEF Outside, Held, HeldBy, InVar, HeapType
  <2>2. Reach(h, InVar(h)) \subseteq Reach(h, Outside(h, frames))
    BY <1>1, <2>1, ReachGrows
  <2> QED
    BY <1>2, <1>3, <2>2 DEF DueIn, DueInVar
<1>6. Accounted(g, <<>>, ran)
  BY <1>1, <1>2, <1>3, <1>5 DEF Accounted, Live
<1> HIDE DEF due
<1> QED
  BY <1>2, <1>3, <1>4, <1>6, ReleaseKeepsQuiet DEF FreesCalled

LEMMA EndDestructorKeepsQuiet ==
    ASSUME HeapInv, KeepInv, KeepsOnly, UNCHANGED program, EndDestructor
    PROVE  KeepInv' /\ FreesCalled
<1>1. /\ TypeOK /\ InDestructor /\ h \in HeapType /\ h.called \subseteq Live(h)
      /\ h' = Settle(h, Below, {Top.this}) /\ frames' = Below /\ Forget(ran)
      /\ h.pending = {} /\ Quiet(h, frames, ran) /\ HeapInv'
  BY EndDestructorKeepsInv DEF HeapInv, TypeOK, WellFormed, EndDestructor, KeepInv
<1>2. /\ Below \in Seq(Frame) /\ Top \in Frame /\ frames = Append(Below, Top)
      /\ Top.call = "dtor"
  BY <1>1, EndDestructorHolds
<1> HIDE DEF Below, Top
<1>3. ToCall(frames) = ToCall(Below)
  BY <1>2, AppendOwns
<1>4. \A i \in DOMAIN Below : i \in DOMAIN frames /\ frames[i] = Below[i]
  BY <1>2
<1>5. Accounted(h, Below, ran)
  BY <1>1, <1>3, <1>4 DEF Accounted, Quiet
<1>6. \E F, Q : Released(h, Below, h', F, Q)
  BY <1>1, SettleReleases
<1>7. HasCollection(Below) => h'.pending = {} /\ DueInVar(h')
  <2> SUFFICES ASSUME HasCollection(Below) PROVE h'.pending = {} /\ DueInVar(h')
    OBVIOUS
  <2>1. DueInVar(h)
    BY <1>1, <1>4 DEF Quiet, HasCollection
  <2>2. h' \in HeapType
    BY <1>1 DEF HeapInv, TypeOK, WellFormed
  <2>3. \A n \in Reach(h, Outside(h, Below)) : Same(h, h', n)
    BY <1>1, SettleKeepsReachable
  <2> QED
    BY <1>1, <1>6, <2>1, <2>2, <2>3, NothingQueued
<1> QED
  BY <1>1, <1>5, <1>6, <1>7, ReleaseKeepsQuiet DEF FreesCalled

LEMMA KeepKeepsQuiet ==
    ASSUME HeapInv, KeepInv, KeepsOnly, UNCHANGED program, Keep
    PROVE  KeepInv' /\ FreesCalled
<1>1. PICK v \in Var : h.var[v] = null /\ h' = [h EXCEPT !.var[v] = Top.this]
  BY DEF Keep
<1>2. /\ TypeOK /\ InDestructor /\ h \in HeapType /\ UNCHANGED <<frames, ran>>
      /\ Quiet(h, frames, ran)
  BY DEF HeapInv, TypeOK, WellFormed, Keep, KeepInv
<1> DEFINE n == Top.this
<1>3. n \in Node
  BY <1>2, EndDestructorHolds
<1> HIDE DEF n
<1>4. /\ h'.kind = h.kind /\ h'.var = [h.var EXCEPT ![v] = n] /\ h'.slot = h.slot
      /\ h'.called = h.called /\ h'.pending = h.pending /\ h' \in HeapType
  BY <1>1, <1>2, <1>3 DEF HeapType, n
<1>5. InVar(h) \in SUBSET Node /\ InVar(h') \in SUBSET Node /\ InVar(h) \subseteq InVar(h')
  BY <1>1, <1>2, <1>4, NodeAssumption DEF InVar, HeapType
<1>6. Reach(h, InVar(h)) \subseteq Reach(h', InVar(h'))
  BY <1>2, <1>4, <1>5, ReachGrows
<1>7. NeedsDestructor(h') = NeedsDestructor(h)
  BY <1>4 DEF NeedsDestructor
<1>8. Quiet(h', frames', ran')
  BY <1>2, <1>4, <1>6, <1>7 DEF Quiet, DueInVar
<1>9. FreesCalled
  BY <1>4 DEF FreesCalled
<1> QED
  BY <1>8, <1>9, QuietHolds

LEMMA InitKeep == Init => KeepInv
<1> SUFFICES ASSUME Init PROVE KeepInv
  OBVIOUS
<1>1. frames = <<>> /\ h.called = {}
  BY DEF Init
<1> QED
  BY <1>1 DEF KeepInv, Quiet, HasCollection

LEMMA StepKeep ==
    HeapInv /\ OwnInv /\ KeepInv /\ [Next]_vars
      => KeepInv' /\ (KeepsOnly => FreesCalled)
<1> SUFFICES ASSUME HeapInv, OwnInv, KeepInv, [Next]_vars
             PROVE  KeepInv' /\ (KeepsOnly => FreesCalled)
  OBVIOUS
<1>1. CASE UNCHANGED vars
  <2>1. KeepInv'
    BY <1>1 DEF vars, KeepInv, KeepsOnly, Quiet, ToCall, HasCollection, DueInVar,
                NeedsDestructor, Reach, Closed, InVar
  <2>2. FreesCalled
    BY <1>1 DEF vars, FreesCalled
  <2> QED
    BY <2>1, <2>2
<1>2. CASE Next /\ ~KeepsOnly
  BY <1>2 DEF Next, KeepInv, KeepsOnly
<1>3. CASE Next /\ KeepsOnly
  <2>1. UNCHANGED program /\ ~Throw
    BY <1>3 DEF Next, Throw, KeepsOnly
  <2> QED
    BY <1>3, <2>1, EachStep, ScriptKeepsQuiet, CollectKeepsQuiet, RunPendingKeepsQuiet,
       GcDestructorKeepsQuiet, GcAgainKeepsQuiet, EndDestructorKeepsQuiet,
       KeepKeepsQuiet
<1> QED
  BY <1>1, <1>2, <1>3

LEMMA SpecKeep == Spec => [](HeapInv /\ OwnInv /\ KeepInv)
<1> QED
  BY InitInv, StepInv, InitOwn, StepOwn, InitKeep, StepKeep, PTL DEF Spec

(* When destructors do nothing but keep their object, an object that has one
   is freed only after its destructor was started: by the queue, or by the
   collection that found it ("Garbage objects whose destructor has not run
   get it run first", gc.rs:21). *)
THEOREM DestructorFirst == Spec => OwnDestructorFirst
<1> DEFINE Kept == \A n \in Node :
         h.kind[n] = "dtor" /\ h'.kind[n] = "free" /\ program.does \subseteq {"keep"}
             => n \in ran
<1>1. HeapInv /\ OwnInv /\ KeepInv /\ [Next]_vars => [Kept]_vars
  BY StepKeep DEF KeepsOnly, FreesCalled
<1>2. OwnDestructorFirst <=> [][Kept]_vars
  BY DEF OwnDestructorFirst
<1> HIDE DEF Kept
<1> QED
  BY <1>1, <1>2, SpecKeep, PTL DEF Spec
=============================================================================
