-------------------------- MODULE CoroutineProofs ---------------------------
(***************************************************************************)
(* Proofs about generators and fibers (Coroutine), for any number of them, *)
(* any depth of delegation and of calls, and any set of programs.          *)
(*                                                                         *)
(* One invariant, Inv, says where every generator that runs is (Stacks),   *)
(* what state each generator can be in (Gens), and the same of the fibers, *)
(* of exceptions, and of a call of gen_resume whose second half is to come.*)
(***************************************************************************)
EXTENDS Coroutine, FiniteSetTheorems, TLAPS

(* The generators of an activation. *)
Members(a) == ToSet(a.up) \cup {a.cur}

(* The generators of an activation run, each there once.  The ones that wait
   have their frame, and are not being destroyed.  G is gen, or gen'. *)
Sound(G, a) ==
    /\ IsInjective(a.up) /\ a.cur \notin ToSet(a.up)
    /\ \A u \in ToSet(a.up) : G[u].st = "running" /\ G[u].frame /\ ~G[u].forced
    /\ G[a.cur].st = "running" /\ ~G[a.cur].frame

(* The activations on all the stacks share no generator, and have every
   generator that runs. *)
Stacks(G, E) ==
    /\ E \in [Context -> Seq(ActivationType)]
    /\ \A c \in Context : \A i \in DOMAIN E[c] : Sound(G, E[c][i])
    /\ \A c, d \in Context : \A i \in DOMAIN E[c], j \in DOMAIN E[d] :
         Members(E[c][i]) \cap Members(E[d][j]) # {} => c = d /\ i = j
    /\ \A g \in Gen : G[g].st = "running" =>
         \E c \in Context : \E i \in DOMAIN E[c] : g \in Members(E[c][i])

(* A generator that does not run has its frame until it ends; one being
   destroyed runs to its end; only one that has begun and not ended can be
   inside its try statement; and one that delegates waits, for one that has
   begun.  P is pos, or pos'. *)
Gens(G, P) ==
    /\ G \in [Gen -> GenType]
    /\ \A g \in Gen :
         /\ G[g].st # "running" => (G[g].frame <=> G[g].st \in {"created", "suspended"})
         /\ G[g].forced => G[g].st \in {"running", "returned", "aborted", "gone"}
         /\ P[g] # "plain" => G[g].st \in {"running", "suspended"}
         /\ G[g].del # none =>
              G[g].st = "suspended" /\ G[G[g].del].st \notin {"none", "created", "gone"}

(* The second half of a call is for a generator that has just paused. *)
AgainInv ==
    again # <<>> =>
        \E g \in Gen : \E x \in {"none", "error"} :
            again = <<g, x>> /\ gen[g].st = "suspended"

(* The fibers that run are on the list of the fibers; the others have ended, or
   not begun and nothing on their stack, or are suspended. *)
FiberInv ==
    /\ fiber \in [Fiber -> FiberType]
    /\ \A f \in Fiber : fiber[f].closing => fiber[f].st # "suspended"
    /\ fibers \in Seq(Fiber) /\ IsInjective(fibers)
    /\ ToSet(fibers) = {f \in Fiber : fiber[f].st = "running"}
    /\ \A f \in Fiber : fiber[f].st \in {"init", "terminated"} => ex[f] = <<>>

CodeInv ==
    /\ pos \in [Body -> {"plain", "try", "finally"}]
    /\ pend \in [Body -> Exception] /\ flying \in Exception
    /\ \A b \in Body : pend[b] # "none" => pos[b] = "finally"
    /\ Thrown => again = <<>>
    /\ careful \in Programs

Inv == Stacks(gen, ex) /\ Gens(gen, pos) /\ FiberInv /\ CodeInv /\ AgainInv

(***************************************************************************)
(* Sequences.                                                              *)
(***************************************************************************)

(* What Front and Last of a sequence that is not empty are. *)
LEMMA FrontIs ==
    ASSUME NEW S, NEW s \in Seq(S), s # <<>>
    PROVE  /\ Len(s) \in Nat \ {0}
           /\ Front(s) \in Seq(S)
           /\ Len(Front(s)) = Len(s) - 1
           /\ \A i \in 1 .. Len(s) - 1 : Front(s)[i] = s[i]
           /\ Last(s) = s[Len(s)] /\ Last(s) \in S
<1>1. Len(s) \in Nat \ {0}
  OBVIOUS
<1>2. Last(s) = s[Len(s)] /\ Last(s) \in S
  BY <1>1 DEF Last
<1> DEFINE m == Len(s) - 1
           f == SubSeq(s, 1, m)
<1>3. m \in Nat /\ m <= Len(s)
  BY <1>1
<1>4. f \in Seq(S) /\ Len(f) = m /\ \A i \in 1 .. m : f[i] = s[i]
  <2> HIDE DEF m
  <2> QED
    BY <1>3
<1>5. Front(s) = f
  BY DEF Front
<1> QED
  BY <1>1, <1>2, <1>4, <1>5

(* What Append gives. *)
LEMMA AppendIs ==
    ASSUME NEW S, NEW s \in Seq(S), NEW x \in S
    PROVE  /\ Append(s, x) \in Seq(S)
           /\ Len(Append(s, x)) = Len(s) + 1
           /\ DOMAIN Append(s, x) = 1 .. Len(s) + 1
           /\ \A i \in 1 .. Len(s) : Append(s, x)[i] = s[i]
           /\ Append(s, x)[Len(s) + 1] = x
           /\ Append(s, x) # <<>>
  OBVIOUS

(* The elements of a sequence with one more. *)
LEMMA AppendSet ==
    ASSUME NEW S, NEW s \in Seq(S), NEW x \in S
    PROVE  /\ ToSet(Append(s, x)) = ToSet(s) \cup {x}
           /\ IsInjective(s) /\ x \notin ToSet(s) => IsInjective(Append(s, x))
<1>1. /\ Len(s) \in Nat /\ DOMAIN s = 1 .. Len(s)
      /\ DOMAIN Append(s, x) = 1 .. Len(s) + 1
      /\ \A i \in 1 .. Len(s) : Append(s, x)[i] = s[i]
      /\ Append(s, x)[Len(s) + 1] = x
  BY AppendIs
<1>2. 1 .. Len(s) + 1 = (1 .. Len(s)) \cup {Len(s) + 1} /\ Len(s) + 1 \notin 1 .. Len(s)
  BY <1>1
<1>3. ToSet(Append(s, x)) = ToSet(s) \cup {x}
  BY <1>1, <1>2, Zenon DEF ToSet
<1>4. ASSUME IsInjective(s), x \notin ToSet(s)
      PROVE  IsInjective(Append(s, x))
  <2>1. \A i \in 1 .. Len(s) : s[i] # x
    BY <1>1, <1>4 DEF ToSet
  <2> QED
    BY <1>1, <1>2, <1>4, <2>1 DEF IsInjective
<1> QED
  BY <1>3, <1>4

(* The elements of a sequence without its last. *)
LEMMA FrontSet ==
    ASSUME NEW S, NEW s \in Seq(S), s # <<>>
    PROVE  /\ ToSet(s) = ToSet(Front(s)) \cup {Last(s)}
           /\ IsInjective(s) => IsInjective(Front(s)) /\ Last(s) \notin ToSet(Front(s))
<1>1. /\ Len(s) \in Nat \ {0} /\ DOMAIN s = 1 .. Len(s)
      /\ Len(Front(s)) = Len(s) - 1 /\ DOMAIN Front(s) = 1 .. Len(s) - 1
      /\ \A i \in 1 .. Len(s) - 1 : Front(s)[i] = s[i]
      /\ Last(s) = s[Len(s)]
  BY FrontIs
<1>2. 1 .. Len(s) = (1 .. Len(s) - 1) \cup {Len(s)} /\ Len(s) \notin 1 .. Len(s) - 1
  BY <1>1
<1>3. ToSet(s) = ToSet(Front(s)) \cup {Last(s)}
  BY <1>1, <1>2, Zenon DEF ToSet
<1>4. ASSUME IsInjective(s)
      PROVE  IsInjective(Front(s)) /\ Last(s) \notin ToSet(Front(s))
  BY <1>1, <1>2, <1>4 DEF IsInjective, ToSet
<1> QED
  BY <1>3, <1>4

(***************************************************************************)
(* The stacks.                                                             *)
(***************************************************************************)

(* Every step that changes a stack changes its last activation: of E[c], with
   G, S has the first k activations and T are the generators in the one after
   them, if any; U are those in the last one of S, with H. *)
TopStep(G, H, E, c, S, k, T, U) ==
    /\ Stacks(G, E) /\ c \in Context /\ S \in Seq(ActivationType) /\ k \in Nat
    /\ Len(S) \in {k, k + 1} /\ Len(E[c]) \in {k, k + 1}
    /\ \A i \in 1 .. k : S[i] = E[c][i]
    /\ T = IF Len(E[c]) = k + 1 THEN Members(E[c][k + 1]) ELSE {}
    /\ U = IF Len(S) = k + 1 THEN Members(S[k + 1]) ELSE {}
    /\ \A g \in Gen \ (T \cup U) :
         G[g].st = "running" \/ H[g].st = "running" => H[g] = G[g]
    /\ \A g \in T \ U : H[g].st # "running"
    /\ \A g \in U \ T : G[g].st # "running"
    /\ Len(S) = k + 1 => Sound(H, S[k + 1])

LEMMA TopChanges ==
    ASSUME NEW G, NEW H, NEW E, NEW c, NEW S, NEW k, NEW T, NEW U,
           TopStep(G, H, E, c, S, k, T, U)
    PROVE  Stacks(H, [E EXCEPT ![c] = S])
<1> USE DEF TopStep
<1> DEFINE F == [E EXCEPT ![c] = S]
<1>0. F = [E EXCEPT ![c] = S]
  OBVIOUS
<1> HIDE DEF F
<1> DEFINE Kept(d, i) == d \in Context /\ i \in DOMAIN E[d] /\ (d # c \/ i <= k)
           Fresh(d, i) == d = c /\ i = k + 1 /\ Len(S) = k + 1
<1>1. /\ E \in [Context -> Seq(ActivationType)]
      /\ F \in [Context -> Seq(ActivationType)]
      /\ F[c] = S /\ \A d \in Context : d # c => F[d] = E[d]
      /\ \A d \in Context : DOMAIN E[d] = 1 .. Len(E[d]) /\ Len(E[d]) \in Nat
      /\ \A d \in Context : DOMAIN F[d] = 1 .. Len(F[d]) /\ Len(F[d]) \in Nat
  BY <1>0 DEF Stacks
<1>2. \A d \in Context : \A i \in DOMAIN F[d] :
        \/ Fresh(d, i) /\ F[d][i] = S[k + 1] /\ U = Members(S[k + 1]) /\ Sound(H, S[k + 1])
        \/ Kept(d, i) /\ F[d][i] = E[d][i]
  BY <1>1
<1>3. \A d, i : Kept(d, i) => i \in DOMAIN F[d] /\ F[d][i] = E[d][i]
  BY <1>1
<1>4. \A d, i : Kept(d, i) => /\ Sound(G, E[d][i])
                             /\ E[d][i].cur \in Gen /\ E[d][i].up \in Seq(Gen)
  <2> SUFFICES ASSUME NEW d, NEW i, Kept(d, i)
               PROVE  Sound(G, E[d][i]) /\ E[d][i].cur \in Gen /\ E[d][i].up \in Seq(Gen)
    OBVIOUS
  <2>1. Sound(G, E[d][i])
    BY DEF Stacks
  <2>2. E[d] \in Seq(ActivationType) /\ i \in DOMAIN E[d]
    BY <1>1
  <2>3. E[d][i] \in ActivationType
    BY <2>2
  <2> QED
    BY <2>1, <2>3 DEF ActivationType
<1>5. \A d, i : Kept(d, i) => Members(E[d][i]) \cap T = {}
  BY <1>1 DEF Stacks
<1>6. \A d, i : Kept(d, i) => \A g \in Members(E[d][i]) :
                                 g \in Gen /\ G[g].st = "running"
  BY <1>4 DEF Members, Sound, ToSet
<1>7. \A d, i : Kept(d, i) => \A g \in Members(E[d][i]) : g \notin U /\ H[g] = G[g]
  <2> HIDE DEF Kept
  <2> QED
    BY <1>5, <1>6
<1>8. \A d, i : Kept(d, i) => Sound(H, E[d][i])
  <2> HIDE DEF Kept
  <2> QED
    BY <1>4, <1>7 DEF Sound, Members
<1>9. \A d \in Context : \A i \in DOMAIN F[d] : Sound(H, F[d][i])
  <2> HIDE DEF Kept, Fresh
  <2> QED
    BY <1>2, <1>8
<1>10. ASSUME NEW d \in Context, NEW e \in Context, NEW i \in DOMAIN F[d], NEW j \in DOMAIN F[e],
              Members(F[d][i]) \cap Members(F[e][j]) # {}
       PROVE  d = e /\ i = j
  <2>1. CASE Fresh(d, i) /\ Fresh(e, j)
    BY <2>1
  <2>2. CASE Kept(d, i) /\ F[d][i] = E[d][i] /\ Kept(e, j) /\ F[e][j] = E[e][j]
    BY <1>10, <2>2 DEF Stacks
  <2>3. CASE Kept(d, i) /\ F[d][i] = E[d][i] /\ F[e][j] = S[k + 1] /\ U = Members(S[k + 1])
    <3> HIDE DEF Kept
    <3> QED
      BY <1>7, <1>10, <2>3
  <2>4. CASE Kept(e, j) /\ F[e][j] = E[e][j] /\ F[d][i] = S[k + 1] /\ U = Members(S[k + 1])
    <3> HIDE DEF Kept
    <3> QED
      BY <1>7, <1>10, <2>4
  <2> HIDE DEF Kept, Fresh
  <2> QED
    BY <1>2, <2>1, <2>2, <2>3, <2>4
<1>11. ASSUME NEW g \in Gen, H[g].st = "running"
       PROVE  \E d \in Context : \E i \in DOMAIN F[d] : g \in Members(F[d][i])
  <2>1. CASE g \in U
    <3>1. Len(S) = k + 1 /\ k + 1 \in DOMAIN F[c] /\ F[c][k + 1] = S[k + 1]
      BY <1>1, <2>1
    <3> QED
      BY <2>1, <3>1
  <2>2. CASE g \notin U
    <3>1. g \notin T /\ G[g].st = "running"
      BY <1>11, <2>2
    <3>2. PICK d \in Context : \E i \in DOMAIN E[d] : g \in Members(E[d][i])
      BY <3>1 DEF Stacks
    <3>3. PICK i \in DOMAIN E[d] : g \in Members(E[d][i])
      BY <3>2
    <3>4. Kept(d, i)
      BY <1>1, <3>1, <3>3
    <3> QED
      BY <1>3, <3>3, <3>4
  <2> QED
    BY <2>1, <2>2
<1> HIDE DEF Kept, Fresh, TopStep
<1>12. Stacks(H, F)
  BY <1>1, <1>9, <1>10, <1>11 DEF Stacks
<1> QED
  BY <1>0, <1>12

(* The last activation of a stack. *)
LEMMA TopOf ==
    ASSUME NEW G, NEW E, Stacks(G, E), NEW c \in Context, E[c] # <<>>
    PROVE  /\ E[c] \in Seq(ActivationType) /\ Len(E[c]) \in Nat \ {0}
           /\ Last(E[c]) = E[c][Len(E[c])]
           /\ Last(E[c]) \in ActivationType /\ Sound(G, Last(E[c]))
           /\ Last(E[c]).up \in Seq(Gen) /\ Last(E[c]).cur \in Gen
           /\ \A g \in Members(Last(E[c])) : g \in Gen /\ G[g].st = "running"
<1>1. E[c] \in Seq(ActivationType)
  BY DEF Stacks
<1>2. /\ Len(E[c]) \in Nat \ {0} /\ Last(E[c]) = E[c][Len(E[c])]
      /\ Last(E[c]) \in ActivationType
  BY <1>1, FrontIs
<1>3. Sound(G, Last(E[c]))
  <2>1. Len(E[c]) \in DOMAIN E[c]
    BY <1>1, <1>2
  <2> QED
    BY <1>2, <2>1 DEF Stacks
<1>4. Last(E[c]).up \in Seq(Gen) /\ Last(E[c]).cur \in Gen
  BY <1>2 DEF ActivationType
<1>5. \A g \in Members(Last(E[c])) : g \in Gen /\ G[g].st = "running"
  BY <1>3, <1>4 DEF Members, Sound, ToSet
<1> QED
  BY <1>1, <1>2, <1>3, <1>4, <1>5

(* A call of gen_resume begins: nobody in it was running. *)
LEMMA Pushed ==
    ASSUME NEW G, NEW H, NEW E, Stacks(G, E), NEW c \in Context, NEW a \in ActivationType,
           \A g \in Members(a) : G[g].st # "running",
           \A g \in Gen \ Members(a) : H[g] = G[g],
           Sound(H, a)
    PROVE  Stacks(H, [E EXCEPT ![c] = Append(@, a)])
<1> DEFINE k == Len(E[c])
           S == Append(E[c], a)
<1>1. E[c] \in Seq(ActivationType) /\ k \in Nat
  BY DEF Stacks
<1>2. /\ S \in Seq(ActivationType) /\ Len(S) = k + 1 /\ S[k + 1] = a
      /\ \A i \in 1 .. k : S[i] = E[c][i]
  BY <1>1, AppendIs
<1>3. [E EXCEPT ![c] = Append(@, a)] = [E EXCEPT ![c] = S]
  OBVIOUS
<1>4. k # k + 1
  BY <1>1
<1> HIDE DEF S
<1>5. {} = IF Len(E[c]) = k + 1 THEN Members(E[c][k + 1]) ELSE {}
  BY <1>4
<1>6. Members(a) = IF Len(S) = k + 1 THEN Members(S[k + 1]) ELSE {}
  BY <1>2
<1>7. Len(S) \in {k, k + 1} /\ Len(E[c]) \in {k, k + 1}
  BY <1>2
<1>8. Stacks(H, [E EXCEPT ![c] = S])
  <2> DEFINE T == {}
             U == Members(a)
  <2>1. /\ \A g \in Gen \ (T \cup U) : G[g].st = "running" \/ H[g].st = "running" => H[g] = G[g]
        /\ \A g \in T \ U : H[g].st # "running"
        /\ \A g \in U \ T : G[g].st # "running"
        /\ Len(S) = k + 1 => Sound(H, S[k + 1])
    BY <1>2
  <2>2. T = IF Len(E[c]) = k + 1 THEN Members(E[c][k + 1]) ELSE {}
    BY <1>5
  <2>3. U = IF Len(S) = k + 1 THEN Members(S[k + 1]) ELSE {}
    BY <1>6
  <2> HIDE DEF T, U, k
  <2>4. TopStep(G, H, E, c, S, k, T, U)
    BY <1>1, <1>2, <1>7, <2>1, <2>2, <2>3 DEF TopStep
  <2> QED
    BY <2>4, TopChanges
<1> QED
  BY <1>3, <1>8

(* It ends: nobody in it runs any more. *)
LEMMA Popped ==
    ASSUME NEW G, NEW H, NEW E, Stacks(G, E), NEW c \in Context, E[c] # <<>>,
           \A g \in Members(Last(E[c])) : H[g].st # "running",
           \A g \in Gen \ Members(Last(E[c])) : H[g] = G[g]
    PROVE  Stacks(H, [E EXCEPT ![c] = Front(@)])
<1> DEFINE k == Len(E[c]) - 1
           S == Front(E[c])
           T == Members(Last(E[c]))
           U == {}
<1>1. E[c] \in Seq(ActivationType) /\ Len(E[c]) \in Nat \ {0} /\ Last(E[c]) = E[c][Len(E[c])]
  BY TopOf
<1>2. /\ S \in Seq(ActivationType) /\ Len(S) = k
      /\ \A i \in 1 .. k : S[i] = E[c][i]
  BY <1>1, FrontIs
<1>3. k \in Nat /\ k # k + 1 /\ Len(E[c]) = k + 1
  BY <1>1
<1>4. [E EXCEPT ![c] = S] = [E EXCEPT ![c] = Front(@)]
  OBVIOUS
<1> HIDE DEF k, S
<1>5. T = IF Len(E[c]) = k + 1 THEN Members(E[c][k + 1]) ELSE {}
  BY <1>1, <1>3
<1>6. U = IF Len(S) = k + 1 THEN Members(S[k + 1]) ELSE {}
  BY <1>2, <1>3
<1>7. Len(S) \in {k, k + 1} /\ Len(E[c]) \in {k, k + 1} /\ (Len(S) = k + 1 => Sound(H, S[k + 1]))
  BY <1>2, <1>3
<1>8. /\ \A g \in Gen \ (T \cup U) : G[g].st = "running" \/ H[g].st = "running" => H[g] = G[g]
      /\ \A g \in T \ U : H[g].st # "running"
      /\ \A g \in U \ T : G[g].st # "running"
  OBVIOUS
<1> HIDE DEF T, U
<1>9. TopStep(G, H, E, c, S, k, T, U)
  BY <1>2, <1>3, <1>5, <1>6, <1>7, <1>8 DEF TopStep
<1> QED
  BY <1>4, <1>9, TopChanges

(* Control passes to a delegate that starts, or back to a delegator. *)
LEMMA Replaced ==
    ASSUME NEW G, NEW H, NEW E, Stacks(G, E), NEW c \in Context, E[c] # <<>>,
           NEW b \in ActivationType, Sound(H, b),
           \A g \in Members(Last(E[c])) \ Members(b) : H[g].st # "running",
           \A g \in Members(b) \ Members(Last(E[c])) : G[g].st # "running",
           \A g \in Gen \ (Members(Last(E[c])) \cup Members(b)) : H[g] = G[g]
    PROVE  Stacks(H, [E EXCEPT ![c] = Append(Front(@), b)])
<1> DEFINE k == Len(E[c]) - 1
           S == Append(Front(E[c]), b)
           T == Members(Last(E[c]))
           U == Members(b)
<1>1. E[c] \in Seq(ActivationType) /\ Len(E[c]) \in Nat \ {0} /\ Last(E[c]) = E[c][Len(E[c])]
  BY TopOf
<1>2. /\ Front(E[c]) \in Seq(ActivationType) /\ Len(Front(E[c])) = k
      /\ \A i \in 1 .. k : Front(E[c])[i] = E[c][i]
  BY <1>1, FrontIs
<1>3. k \in Nat /\ k # k + 1 /\ Len(E[c]) = k + 1
  BY <1>1
<1>4. [E EXCEPT ![c] = S] = [E EXCEPT ![c] = Append(Front(@), b)]
  OBVIOUS
<1> HIDE DEF k
<1>5. /\ S \in Seq(ActivationType) /\ Len(S) = k + 1 /\ S[k + 1] = b
      /\ \A i \in 1 .. k : S[i] = E[c][i]
  BY <1>2, AppendIs
<1> HIDE DEF S
<1>6. T = IF Len(E[c]) = k + 1 THEN Members(E[c][k + 1]) ELSE {}
  BY <1>1, <1>3
<1>7. U = IF Len(S) = k + 1 THEN Members(S[k + 1]) ELSE {}
  BY <1>5
<1>8. Len(S) \in {k, k + 1} /\ Len(E[c]) \in {k, k + 1} /\ (Len(S) = k + 1 => Sound(H, S[k + 1]))
  BY <1>3, <1>5
<1>9. /\ \A g \in Gen \ (T \cup U) : G[g].st = "running" \/ H[g].st = "running" => H[g] = G[g]
      /\ \A g \in T \ U : H[g].st # "running"
      /\ \A g \in U \ T : G[g].st # "running"
  OBVIOUS
<1> HIDE DEF T, U
<1>10. TopStep(G, H, E, c, S, k, T, U)
  BY <1>3, <1>5, <1>6, <1>7, <1>8, <1>9 DEF TopStep
<1> QED
  BY <1>4, <1>10, TopChanges

(* No stack changes, nor anything of a generator that runs. *)
LEMMA SameStacks ==
    ASSUME NEW G, NEW H, NEW E, Stacks(G, E),
           \A g \in Gen : G[g].st = "running" \/ H[g].st = "running" => H[g] = G[g]
    PROVE  Stacks(H, E)
<1>1. ASSUME NEW c \in Context, NEW i \in DOMAIN E[c]
      PROVE  Sound(H, E[c][i])
  <2>1. E[c] \in Seq(ActivationType) /\ Sound(G, E[c][i])
    BY DEF Stacks
  <2>2. E[c][i] \in ActivationType
    BY <2>1
  <2>3. E[c][i].cur \in Gen /\ \A u \in ToSet(E[c][i].up) : u \in Gen
    BY <2>2 DEF ActivationType, ToSet
  <2> QED
    BY <2>1, <2>3 DEF Sound
<1> QED
  BY <1>1 DEF Stacks

(***************************************************************************)
(* What the invariant says of the body that runs.                          *)
(***************************************************************************)
LEMMA HereIs ==
    ASSUME FiberInv
    PROVE  /\ Here \in Context
           /\ fibers = <<>> => Here = main
           /\ fibers # <<>> => /\ Here = Last(fibers) /\ Here \in Fiber
                               /\ fiber[Here].st = "running" /\ Here # main
<1>1. CASE fibers = <<>>
  BY <1>1 DEF Here, Context
<1>2. CASE fibers # <<>>
  <2>1. Here = Last(fibers) /\ Last(fibers) \in ToSet(fibers)
    BY <1>2, FrontSet DEF Here, FiberInv
  <2>2. Here \in Fiber /\ fiber[Here].st = "running"
    BY <2>1 DEF FiberInv
  <2> QED
    BY <1>2, <2>1, <2>2, BodyAssumption DEF Context
<1> QED
  BY <1>1, <1>2

LEMMA CurIs ==
    ASSUME Stacks(gen, ex), FiberInv
    PROVE  /\ Here \in Context /\ Cur \in Body
           /\ Stack = <<>> => Cur = Here /\ Cur \notin Gen
           /\ Stack # <<>> =>
                /\ Cur = Last(Stack).cur /\ Cur \in Gen
                /\ gen[Cur].st = "running" /\ ~gen[Cur].frame
                /\ Last(Stack) \in ActivationType /\ Sound(gen, Last(Stack))
                /\ Last(Stack).up \in Seq(Gen)
                /\ \A g \in Members(Last(Stack)) : g \in Gen /\ gen[g].st = "running"
<1>1. Here \in Context
  BY HereIs
<1>2. CASE Stack = <<>>
  BY <1>1, <1>2, BodyAssumption DEF Cur, Body, Context
<1>3. CASE Stack # <<>>
  <2>1. /\ Last(Stack) \in ActivationType /\ Sound(gen, Last(Stack))
        /\ Last(Stack).up \in Seq(Gen) /\ Last(Stack).cur \in Gen
        /\ \A g \in Members(Last(Stack)) : g \in Gen /\ gen[g].st = "running"
    BY <1>1, <1>3, TopOf DEF Stack
  <2>2. Cur = Last(Stack).cur
    BY <1>3 DEF Cur
  <2> QED
    BY <1>1, <1>3, <2>1, <2>2 DEF Sound, Body
<1> QED
  BY <1>1, <1>2, <1>3

(* A stack is the one of the script or of a fiber that runs; the fibers are as
   they were. *)
LEMMA FibersKept ==
    ASSUME FiberInv, UNCHANGED <<fiber, fibers>>,
           \A c \in Context : c # Here => ex'[c] = ex[c]
    PROVE  FiberInv'
<1>1. ASSUME NEW f \in Fiber, fiber[f].st \in {"init", "terminated"}
      PROVE  ex'[f] = <<>>
  <2>1. f # Here
    BY <1>1, HereIs, BodyAssumption
  <2> QED
    BY <1>1, <2>1 DEF FiberInv, Context
<1> QED
  BY <1>1 DEF FiberInv

(* What the steps do to the code of a body. *)
LEMMA CodeKept ==
    ASSUME CodeInv, UNCHANGED <<code, careful>>, flying' \in Exception,
           flying' = "none" \/ again' = <<>>
    PROVE  CodeInv'
  BY DEF CodeInv, code, Thrown

LEMMA CodeAt ==
    ASSUME CodeInv, UNCHANGED careful, NEW b \in Body,
           NEW p \in {"plain", "try", "finally"}, NEW x \in Exception,
           x # "none" => p = "finally",
           At(b, p, x), flying' \in Exception, flying' = "none" \/ again' = <<>>
    PROVE  CodeInv'
  BY DEF CodeInv, At, Thrown

LEMMA AgainKept ==
    ASSUME again' = <<>>
    PROVE  AgainInv'
  BY DEF AgainInv

(* pos of one body changes. *)
LEMMA GensAt ==
    ASSUME NEW G, NEW P, NEW Q, NEW b, Gens(G, P),
           \A g \in Gen : Q[g] # P[g] => Q[g] = "plain" \/ G[g].st = "running"
    PROVE  Gens(G, Q)
  BY DEF Gens

(***************************************************************************)
(* Resuming a generator.                                                   *)
(***************************************************************************)
LEMMA RunningIs ==
    ASSUME Gens(gen, pos), NEW ch \in Seq(Gen), ch # <<>>,
           \A u \in ToSet(Front(ch)) : gen[u].st \in {"suspended", "running"},
           gen[Last(ch)].st \in {"created", "suspended"}
    PROVE  /\ Gens(Running(ch), pos)
           /\ \A u \in ToSet(Front(ch)) :
                /\ Running(ch)[u].st = "running" /\ Running(ch)[u].forced = gen[u].forced
                /\ u # Last(ch) => Running(ch)[u].frame = gen[u].frame
           /\ Running(ch)[Last(ch)].st = "running" /\ ~Running(ch)[Last(ch)].frame
           /\ \A g \in Gen \ ToSet(ch) : Running(ch)[g] = gen[g]
<1> DEFINE G == Running(ch)
<1>1. /\ gen \in [Gen -> GenType] /\ Last(ch) \in Gen /\ Front(ch) \in Seq(Gen)
      /\ ToSet(ch) = ToSet(Front(ch)) \cup {Last(ch)}
      /\ \A u \in ToSet(Front(ch)) : u \in Gen
  BY FrontIs, FrontSet DEF Gens, ToSet
<1>2. ASSUME NEW g \in Gen
      PROVE  /\ G[g] \in GenType /\ G[g].forced = gen[g].forced
             /\ g \in ToSet(ch) => G[g].st = "running" /\ G[g].del = none
             /\ g = Last(ch) => ~G[g].frame
             /\ g # Last(ch) => G[g].frame = gen[g].frame
             /\ g \notin ToSet(ch) => G[g] = gen[g]
  <2>1. gen[g] \in GenType
    BY <1>1
  <2>2. CASE g = Last(ch)
    <3>1. G[g] = [gen[g] EXCEPT !.st = "running", !.frame = FALSE, !.del = none]
      BY <2>2 DEF Running
    <3> QED
      BY <1>1, <2>1, <2>2, <3>1 DEF GenType
  <2>3. CASE g # Last(ch) /\ g \in ToSet(ch)
    <3>1. G[g] = [gen[g] EXCEPT !.st = "running", !.del = none]
      BY <2>3 DEF Running
    <3> QED
      BY <2>1, <2>3, <3>1 DEF GenType
  <2>4. CASE g \notin ToSet(ch)
    <3>1. G[g] = gen[g] /\ g # Last(ch)
      BY <1>1, <2>4 DEF Running
    <3> QED
      BY <2>1, <2>4, <3>1
  <2> QED
    BY <2>2, <2>3, <2>4
<1>3. G \in [Gen -> GenType]
  <2>1. G = [g \in Gen |-> G[g]]
    BY DEF Running
  <2> QED
    BY <1>2, <2>1, Zenon
<1> HIDE DEF G
<1>4. ASSUME NEW g \in Gen
      PROVE  /\ G[g].st # "running" => (G[g].frame <=> G[g].st \in {"created", "suspended"})
             /\ G[g].forced => G[g].st \in {"running", "returned", "aborted", "gone"}
             /\ pos[g] # "plain" => G[g].st \in {"running", "suspended"}
             /\ G[g].del # none =>
                  G[g].st = "suspended" /\ G[G[g].del].st \notin {"none", "created", "gone"}
  <2>1. CASE g \in ToSet(ch)
    BY <1>2, <2>1
  <2>2. CASE g \notin ToSet(ch)
    <3>1. G[g] = gen[g]
      BY <1>2, <2>2
    <3>2. G[g].del # none =>
            G[g].st = "suspended" /\ G[G[g].del].st \notin {"none", "created", "gone"}
      <4> SUFFICES ASSUME gen[g].del # none
                   PROVE  G[gen[g].del].st \notin {"none", "created", "gone"} /\ gen[g].st = "suspended"
        BY <3>1
      <4>1. gen[g].st = "suspended" /\ gen[gen[g].del].st \notin {"none", "created", "gone"}
        BY DEF Gens
      <4>2. gen[g].del \in Gen
        BY <1>1 DEF GenType
      <4> QED
        BY <1>2, <4>1, <4>2
    <3> QED
      BY <3>1, <3>2 DEF Gens
  <2> QED
    BY <2>1, <2>2
<1>5. Gens(G, pos)
  BY <1>3, <1>4 DEF Gens
<1> USE DEF G
<1> QED
  BY <1>1, <1>2, <1>5

(* The way down goes by generators that are suspended, each there once, to one
   that has begun, or is the one that is resumed. *)
LEMMA FollowIs ==
    ASSUME Gens(gen, pos), NEW g \in Gen, gen[g].st \notin {"none", "gone"}, NEW p \in Follow(g)
    PROVE  /\ p \in Seq(Gen) /\ p # <<>>
           /\ Front(p) \in Seq(Gen) /\ Last(p) \in Gen
           /\ IsInjective(Front(p))
           /\ \A u \in ToSet(Front(p)) : u \in Gen /\ gen[u].st = "suspended"
           /\ gen[Last(p)].st \notin {"none", "gone"}
<1>1. p \in BoundedSeq(Gen, Cardinality(Gen) + 1)
  BY DEF Follow
<1>2. PICK m \in 0 .. Cardinality(Gen) + 1 : p \in [1 .. m -> Gen]
  BY <1>1 DEF BoundedSeq, SeqOf
<1>3. m \in Nat
  BY <1>2, FS_CardinalityType, BodyAssumption
<1>4. p \in Seq(Gen) /\ p # <<>> /\ p[1] = g
  BY <1>2, <1>3 DEF Follow
<1>5. /\ Len(p) \in Nat \ {0} /\ Front(p) \in Seq(Gen) /\ Last(p) = p[Len(p)] /\ Last(p) \in Gen
      /\ Len(Front(p)) = Len(p) - 1
      /\ \A i \in 1 .. Len(p) - 1 : Front(p)[i] = p[i]
  BY <1>4, FrontIs
<1>6. \A n \in 1 .. Len(p) - 1 : Delegates(p[n]) /\ p[n + 1] = gen[p[n]].del
  BY DEF Follow
<1>7. ASSUME NEW u \in ToSet(Front(p))
      PROVE  u \in Gen /\ gen[u].st = "suspended"
  <2>1. PICK i \in 1 .. Len(p) - 1 : u = p[i]
    BY <1>5 DEF ToSet
  <2> QED
    BY <1>4, <1>6, <2>1 DEF Delegates
<1>8. gen[Last(p)].st \notin {"none", "gone"}
  <2>1. CASE Len(p) = 1
    BY <1>4, <1>5, <2>1
  <2>2. CASE Len(p) # 1
    <3> DEFINE n == Len(p) - 1
    <3>1. n \in 1 .. Len(p) - 1 /\ n + 1 = Len(p)
      BY <1>5, <2>2
    <3> HIDE DEF n
    <3>2. Delegates(p[n]) /\ Last(p) = gen[p[n]].del /\ p[n] \in Gen
      BY <1>4, <1>5, <1>6, <3>1
    <3> QED
      BY <3>2 DEF Delegates, Gens
  <2> QED
    BY <2>1, <2>2
<1> QED
  BY <1>4, <1>5, <1>7, <1>8 DEF Follow

(* A call of gen_resume: a generator takes its frame and runs, below the ones
   that delegate to it, or nobody does. *)
LEMMA ResumeIs ==
    ASSUME Stacks(gen, ex), Gens(gen, pos), FiberInv,
           NEW g \in Gen, gen[g].st \notin {"none", "gone"},
           NEW x \in {"none", "error"}, NEW then \in {"done", "resume", "throw"},
           Resume(g, x, then)
    PROVE  /\ Stacks(gen', ex') /\ Gens(gen', pos)
           /\ flying' \in {"none", "error"}
           /\ \A c \in Context : c # Here => ex'[c] = ex[c]
<1>1. PICK p \in Follow(g) :
        LET ready == ~Busy(p) /\ ~Done(Last(p))
            ch == IF ready THEN p ELSE Front(p)
        IN  /\ flying' = IF Busy(p) THEN "error" ELSE x
            /\ IF ch = <<>> THEN UNCHANGED <<gen, ex>>
               ELSE /\ gen' = Running(ch)
                    /\ ex' = Push([up |-> Front(ch), cur |-> Last(ch), then |-> then])
  BY DEF Resume
<1> DEFINE ready == ~Busy(p) /\ ~Done(Last(p))
           ch == IF ready THEN p ELSE Front(p)
           a == [up |-> Front(ch), cur |-> Last(ch), then |-> then]
<1>2. /\ p \in Seq(Gen) /\ p # <<>> /\ Front(p) \in Seq(Gen) /\ Last(p) \in Gen
      /\ IsInjective(Front(p))
      /\ \A u \in ToSet(Front(p)) : u \in Gen /\ gen[u].st = "suspended"
      /\ gen[Last(p)].st \notin {"none", "gone"}
  BY FollowIs
<1>3. Here \in Context
  BY HereIs
<1>4. flying' \in {"none", "error"}
  BY <1>1
<1>5. CASE ch = <<>>
  BY <1>1, <1>4, <1>5
<1>6. CASE ch # <<>>
  <2>1. gen' = Running(ch) /\ ex' = Push(a)
    BY <1>1, <1>6
  <2>2. /\ ch \in Seq(Gen) /\ IsInjective(Front(ch)) /\ Last(ch) \notin ToSet(Front(ch))
        /\ \A u \in ToSet(Front(ch)) : u \in Gen /\ gen[u].st = "suspended"
        /\ gen[Last(ch)].st \in {"created", "suspended"}
    <3>1. CASE ready
      <4>1. ch = p /\ Last(p) \notin ToSet(Front(p))
        BY <3>1 DEF Busy
      <4>2. gen[Last(p)] \in GenType
        BY <1>2 DEF Gens
      <4> QED
        BY <1>2, <3>1, <4>1, <4>2 DEF Busy, Done, GenType
    <3>2. CASE ~ready
      <4>1. ch = Front(p)
        BY <3>2
      <4> HIDE DEF ch, ready
      <4>2. IsInjective(ch) /\ \A u \in ToSet(ch) : u \in Gen /\ gen[u].st = "suspended"
        BY <1>2, <4>1
      <4>3. /\ ToSet(ch) = ToSet(Front(ch)) \cup {Last(ch)}
            /\ IsInjective(Front(ch)) /\ Last(ch) \notin ToSet(Front(ch))
        BY <1>2, <1>6, <4>1, <4>2, FrontSet
      <4> QED
        BY <1>2, <4>1, <4>2, <4>3
    <3> QED
      BY <3>1, <3>2
  <2> HIDE DEF ready, ch
  <2>3. /\ Gens(gen', pos)
        /\ \A u \in ToSet(Front(ch)) :
             /\ gen'[u].st = "running" /\ gen'[u].forced = gen[u].forced
             /\ u # Last(ch) => gen'[u].frame = gen[u].frame
        /\ gen'[Last(ch)].st = "running" /\ ~gen'[Last(ch)].frame
        /\ \A h \in Gen \ ToSet(ch) : gen'[h] = gen[h]
    BY <1>6, <2>1, <2>2, RunningIs
  <2>4. /\ a \in ActivationType /\ Members(a) = ToSet(ch)
    BY <1>6, <2>2, FrontIs, FrontSet DEF ActivationType, Members
  <2>5. \A u \in ToSet(Front(ch)) : gen[u].frame /\ ~gen[u].forced
    BY <2>2 DEF Gens
  <2>6. Sound(gen', a)
    BY <2>2, <2>3, <2>5 DEF Sound
  <2>7. \A u \in Members(a) : gen[u].st # "running"
    BY <2>2 DEF Members
  <2> HIDE DEF a
  <2>8. Stacks(gen', [ex EXCEPT ![Here] = Append(@, a)])
    BY <1>3, <2>3, <2>4, <2>6, <2>7, Pushed
  <2>9. ex' = [ex EXCEPT ![Here] = Append(@, a)] /\ ex \in [Context -> Seq(ActivationType)]
    BY <2>1 DEF Push, Stacks
  <2> QED
    BY <1>4, <2>3, <2>8, <2>9
<1> QED
  BY <1>5, <1>6

(***************************************************************************)
(* Every step keeps the invariant.                                         *)
(***************************************************************************)
LEMMA Parts ==
    ASSUME Stacks(gen', ex'), Gens(gen', pos'), FiberInv', CodeInv', AgainInv'
    PROVE  Inv'
  BY DEF Inv, Stacks, Gens

LEMMA ResumingKeeps ==
    ASSUME Inv, UNCHANGED careful, UNCHANGED <<fiber, fibers, code>>, again' = <<>>,
           NEW g \in Gen, gen[g].st \notin {"none", "gone"},
           NEW x \in {"none", "error"}, NEW then \in {"done", "resume", "throw"},
           Resume(g, x, then)
    PROVE  Inv'
<1>1. /\ Stacks(gen', ex') /\ Gens(gen', pos)
      /\ flying' \in {"none", "error"}
      /\ \A c \in Context : c # Here => ex'[c] = ex[c]
  BY ResumeIs DEF Inv
<1>2. Gens(gen', pos')
  BY <1>1 DEF code
<1>3. FiberInv'
  BY <1>1, FibersKept DEF Inv
<1>4. CodeInv'
  BY <1>1, CodeKept DEF Inv, Exception
<1>5. AgainInv'
  BY AgainKept
<1> QED
  BY <1>1, <1>2, <1>3, <1>4, <1>5, Parts

LEMMA TouchKeeps ==
    ASSUME Inv, UNCHANGED careful, NEW g \in Gen, Touch(g)
    PROVE  Inv'
<1>1. /\ UNCHANGED <<fiber, fibers, code>> /\ again' = <<>>
      /\ gen[g].st \notin {"none", "gone"} /\ Resume(g, "none", "done")
  BY DEF Touch, Calm
<1> QED
  BY <1>1, ResumingKeeps

LEMMA AdvanceKeeps ==
    ASSUME Inv, UNCHANGED careful, NEW g \in Gen, Advance(g)
    PROVE  Inv'
<1> DEFINE then == IF gen[g].st = "created" THEN "resume" ELSE "done"
<1>1. /\ UNCHANGED <<fiber, fibers, code>> /\ again' = <<>>
      /\ gen[g].st \notin {"none", "gone"} /\ Resume(g, "none", then)
      /\ then \in {"done", "resume", "throw"}
  BY DEF Advance, Calm, Exists
<1> HIDE DEF then
<1> QED
  BY <1>1, ResumingKeeps

LEMMA ThrowIntoKeeps ==
    ASSUME Inv, UNCHANGED careful, NEW g \in Gen, ThrowInto(g)
    PROVE  Inv'
<1>1. /\ UNCHANGED <<fiber, fibers, code>> /\ again' = <<>>
      /\ gen[g].st \notin {"none", "gone"}
      /\ Resume(g, "none", "throw") \/ Resume(g, "error", "done")
  BY DEF ThrowInto, Calm, Exists
<1> QED
  BY <1>1, ResumingKeeps

LEMMA SecondHalfKeeps ==
    ASSUME Inv, UNCHANGED careful, SecondHalf
    PROVE  Inv'
<1>1. PICK g \in Gen, x \in {"none", "error"} : again = <<g, x>> /\ gen[g].st = "suspended"
  BY DEF Inv, AgainInv, SecondHalf
<1>2. /\ UNCHANGED <<fiber, fibers, code>> /\ again' = <<>>
      /\ gen[g].st \notin {"none", "gone"} /\ Resume(g, x, "done")
  BY <1>1 DEF SecondHalf
<1> QED
  BY <1>2, ResumingKeeps

(* One generator changes, which delegates to nobody. *)
LEMMA OneChanges ==
    ASSUME NEW G, NEW P, NEW Q, NEW g \in Gen, NEW r \in GenType, Gens(G, P),
           r.del = none,
           r.st # "running" => (r.frame <=> r.st \in {"created", "suspended"}),
           r.forced => r.st \in {"running", "returned", "aborted", "gone"},
           Q[g] # "plain" => r.st \in {"running", "suspended"},
           r.st \in {"none", "created", "gone"} => \A h \in Gen : G[h].del # g,
           \A h \in Gen : h # g => Q[h] = P[h]
    PROVE  Gens([G EXCEPT ![g] = r], Q)
<1> DEFINE H == [G EXCEPT ![g] = r]
<1>1. /\ G \in [Gen -> GenType] /\ H \in [Gen -> GenType] /\ H[g] = r
      /\ \A h \in Gen : h # g => H[h] = G[h]
  BY DEF Gens
<1> HIDE DEF H
<1>2. ASSUME NEW h \in Gen, H[h].del # none
      PROVE  H[h].st = "suspended" /\ H[H[h].del].st \notin {"none", "created", "gone"}
  <2>1. h # g /\ H[h] = G[h]
    BY <1>1, <1>2
  <2>2. G[h].st = "suspended" /\ G[G[h].del].st \notin {"none", "created", "gone"}
    BY <1>2, <2>1 DEF Gens
  <2>3. G[h].del \in Gen
    BY <1>1, <1>2, <2>1 DEF GenType
  <2> QED
    BY <1>1, <2>1, <2>2, <2>3
<1>3. ASSUME NEW h \in Gen
      PROVE  /\ H[h].st # "running" => (H[h].frame <=> H[h].st \in {"created", "suspended"})
             /\ H[h].forced => H[h].st \in {"running", "returned", "aborted", "gone"}
             /\ Q[h] # "plain" => H[h].st \in {"running", "suspended"}
  <2>1. CASE h = g
    BY <1>1, <2>1
  <2>2. CASE h # g
    BY <1>1, <2>2 DEF Gens
  <2> QED
    BY <2>1, <2>2
<1>4. Gens(H, Q)
  BY <1>1, <1>2, <1>3 DEF Gens
<1> USE DEF H
<1> QED
  BY <1>4

LEMMA CreateKeeps ==
    ASSUME Inv, UNCHANGED careful, NEW g \in Gen, Create(g)
    PROVE  Inv'
<1> DEFINE r == [gen[g] EXCEPT !.st = "created", !.frame = TRUE]
<1>1. /\ gen' = [gen EXCEPT ![g].st = "created", ![g].frame = TRUE] /\ gen[g].st = "none"
      /\ UNCHANGED <<fiber, ex, fibers, code, flying, again>> /\ Calm
  BY DEF Create
<1>2. gen \in [Gen -> GenType] /\ gen[g] \in GenType
  BY DEF Inv, Gens
<1>3. /\ r \in GenType /\ r.st = "created" /\ r.frame
      /\ r.del = gen[g].del /\ r.forced = gen[g].forced
  BY <1>2 DEF GenType
<1>4. gen' = [gen EXCEPT ![g] = r]
  BY <1>1, <1>2 DEF GenType
<1> HIDE DEF r
<1>5. /\ gen[g].del = none /\ ~gen[g].forced /\ pos[g] = "plain"
      /\ \A h \in Gen : gen[h].del # g
  BY <1>1, <1>2, BodyAssumption DEF Inv, Gens
<1>6. Gens(gen', pos)
  BY <1>3, <1>4, <1>5, OneChanges DEF Inv
<1>7. \A h \in Gen : gen[h].st = "running" \/ gen'[h].st = "running" => gen'[h] = gen[h]
  BY <1>1, <1>2, <1>3, <1>4
<1>8. Stacks(gen', ex)
  BY <1>7, SameStacks DEF Inv
<1>9. Stacks(gen', ex') /\ Gens(gen', pos')
  BY <1>1, <1>6, <1>8 DEF code
<1>10. FiberInv'
  BY <1>1, FibersKept DEF Inv
<1>11. CodeInv'
  BY <1>1, CodeKept DEF Inv, Calm, CodeInv
<1>12. AgainInv'
  BY <1>1, AgainKept DEF Calm
<1> QED
  BY <1>9, <1>10, <1>11, <1>12, Parts

(* The chain of an activation: its generators from the one resumed down. *)
LEMMA ChainIs ==
    ASSUME NEW a \in ActivationType, IsInjective(a.up), a.cur \notin ToSet(a.up)
    PROVE  /\ Chain(a) \in Seq(Gen) /\ Chain(a) # <<>> /\ IsInjective(Chain(a))
           /\ ToSet(Chain(a)) = Members(a) /\ Members(a) \subseteq Gen
           /\ Len(Chain(a)) \in Nat \ {0} /\ DOMAIN Chain(a) = 1 .. Len(Chain(a))
           /\ Last(Chain(a)) = a.cur
           /\ Chain(a)[1] \in Members(a)
<1>1. a.up \in Seq(Gen) /\ a.cur \in Gen
  BY DEF ActivationType
<1>2. /\ Chain(a) \in Seq(Gen) /\ Chain(a) # <<>> /\ Len(Chain(a)) = Len(a.up) + 1
      /\ Chain(a)[Len(a.up) + 1] = a.cur /\ DOMAIN Chain(a) = 1 .. Len(a.up) + 1
  BY <1>1, AppendIs DEF Chain
<1>3. ToSet(Chain(a)) = Members(a) /\ IsInjective(Chain(a))
  BY <1>1, AppendSet DEF Chain, Members
<1>4. Last(Chain(a)) = a.cur
  BY <1>2 DEF Last
<1>5. Chain(a)[1] \in ToSet(Chain(a)) /\ ToSet(Chain(a)) \subseteq Gen
  BY <1>1, <1>2 DEF ToSet
<1> QED
  BY <1>1, <1>2, <1>3, <1>4, <1>5

(* A pause: the whole chain comes to rest, with its frames. *)
LEMMA SuspendedIs ==
    ASSUME Gens(gen, pos), NEW ch \in Seq(Gen), ch # <<>>,
           NEW d \in Gen \cup {none}, d # none => gen[d].st = "suspended",
           \A u \in ToSet(ch) : gen[u].st = "running" /\ ~gen[u].forced
    PROVE  /\ Gens(Suspended(ch, d), pos)
           /\ \A u \in ToSet(ch) : Suspended(ch, d)[u].st = "suspended"
           /\ \A g \in Gen \ ToSet(ch) : Suspended(ch, d)[g] = gen[g]
<1> DEFINE G == Suspended(ch, d)
           k(g) == CHOOSE n \in DOMAIN ch : ch[n] = g
           del(g) == IF g = Last(ch) THEN d ELSE ch[k(g) + 1]
<1>1. /\ gen \in [Gen -> GenType] /\ ToSet(ch) \subseteq Gen
      /\ Len(ch) \in Nat \ {0} /\ DOMAIN ch = 1 .. Len(ch) /\ Last(ch) = ch[Len(ch)]
  <2>1. gen \in [Gen -> GenType]
    BY DEF Gens
  <2>2. Len(ch) \in Nat \ {0} /\ Last(ch) = ch[Len(ch)]
    BY FrontIs
  <2>3. DOMAIN ch = 1 .. Len(ch) /\ \A i \in DOMAIN ch : ch[i] \in Gen
    OBVIOUS
  <2> QED
    BY <2>1, <2>2, <2>3 DEF ToSet
<1>2. ASSUME NEW g \in ToSet(ch)
      PROVE  /\ G[g] = [gen[g] EXCEPT !.st = "suspended", !.frame = TRUE, !.del = del(g)]
             /\ g \in Gen
  BY <1>1, <1>2 DEF Suspended
<1>3. ASSUME NEW g \in ToSet(ch)
      PROVE  del(g) = d \/ del(g) \in ToSet(ch)
  <2>1. PICK n \in DOMAIN ch : ch[n] = g
    BY <1>3 DEF ToSet
  <2>2. k(g) \in DOMAIN ch /\ ch[k(g)] = g
    BY <2>1
  <2> HIDE DEF k
  <2>3. CASE g # Last(ch)
    <3>1. k(g) + 1 \in DOMAIN ch
      BY <1>1, <2>2, <2>3
    <3> QED
      BY <2>3, <3>1 DEF ToSet
  <2> QED
    BY <2>3
<1> HIDE DEF k, del
<1>4. ASSUME NEW g \in ToSet(ch)
      PROVE  /\ G[g] \in GenType /\ G[g].st = "suspended" /\ G[g].frame
             /\ G[g].del = del(g) /\ G[g].forced = gen[g].forced /\ g \in Gen
  <2>1. gen[g] \in GenType /\ del(g) \in Gen \cup {none} /\ g \in Gen
    BY <1>1, <1>2, <1>3
  <2>2. G[g] = [gen[g] EXCEPT !.st = "suspended", !.frame = TRUE, !.del = del(g)]
    BY <1>2
  <2> HIDE DEF G
  <2>3. G[g] \in GenType
    BY <2>1, <2>2 DEF GenType
  <2>4. /\ G[g].st = "suspended" /\ G[g].frame
        /\ G[g].del = del(g) /\ G[g].forced = gen[g].forced
    BY <2>1, <2>2 DEF GenType
  <2> QED
    BY <2>1, <2>3, <2>4
<1>5. \A g \in Gen \ ToSet(ch) : G[g] = gen[g]
  BY DEF Suspended
<1>6. G \in [Gen -> GenType]
  <2>1. G = [g \in Gen |-> G[g]]
    BY DEF Suspended
  <2> HIDE DEF G
  <2>2. \A g \in Gen : G[g] \in GenType
    BY <1>1, <1>4, <1>5
  <2> QED
    BY <2>1, <2>2, Zenon
<1> HIDE DEF G
<1>7. ASSUME NEW g \in Gen, G[g].del # none
      PROVE  G[g].st = "suspended" /\ G[G[g].del].st \notin {"none", "created", "gone"}
  <2>1. CASE g \in ToSet(ch)
    <3>1. G[g].st = "suspended" /\ G[g].del = del(g) /\ (del(g) = d \/ del(g) \in ToSet(ch))
      BY <1>3, <1>4, <2>1
    <3>2. CASE del(g) \in ToSet(ch)
      BY <1>4, <3>1, <3>2
    <3>3. CASE del(g) = d
      <4>1. d \in Gen /\ gen[d].st = "suspended" /\ d \notin ToSet(ch)
        BY <1>7, <3>1, <3>3
      <4> QED
        BY <1>5, <3>1, <3>3, <4>1
    <3> QED
      BY <3>1, <3>2, <3>3
  <2>2. CASE g \notin ToSet(ch)
    <3>1. /\ G[g] = gen[g] /\ gen[g].st = "suspended" /\ gen[g].del \in Gen
          /\ gen[gen[g].del].st \notin {"none", "created", "gone"}
      BY <1>1, <1>5, <1>7, <2>2 DEF Gens, GenType
    <3> QED
      BY <1>4, <1>5, <3>1
  <2> QED
    BY <2>1, <2>2
<1>8. ASSUME NEW g \in Gen
      PROVE  /\ G[g].st # "running" => (G[g].frame <=> G[g].st \in {"created", "suspended"})
             /\ G[g].forced => G[g].st \in {"running", "returned", "aborted", "gone"}
             /\ pos[g] # "plain" => G[g].st \in {"running", "suspended"}
  <2>1. CASE g \in ToSet(ch)
    BY <1>4, <2>1
  <2>2. CASE g \notin ToSet(ch)
    BY <1>5, <2>2 DEF Gens
  <2> QED
    BY <2>1, <2>2
<1>9. Gens(G, pos)
  BY <1>6, <1>7, <1>8 DEF Gens
<1> USE DEF G
<1> QED
  BY <1>4, <1>5, <1>9

LEMMA SuspendKeeps ==
    ASSUME Inv, UNCHANGED careful, Calm, Cur \in Gen, MayPause(Cur),
           NEW d \in Gen \cup {none}, d # none => gen[d].st = "suspended", Suspend(d)
    PROVE  Inv'
<1> DEFINE a == Last(Stack)
           ch == Chain(a)
<1>1. /\ gen' = Suspended(ch, d) /\ ex' = Pop /\ UNCHANGED <<fiber, fibers, code, flying>>
      /\ again' \in {<<ch[1], "none">>, <<ch[1], "error">>, <<>>}
  BY DEF Suspend
<1>2. /\ Stack # <<>> /\ Here \in Context /\ Cur = a.cur
      /\ a \in ActivationType /\ Sound(gen, a)
      /\ \A g \in Members(a) : g \in Gen /\ gen[g].st = "running"
  BY CurIs DEF Inv
<1>3. /\ ch \in Seq(Gen) /\ ch # <<>>
      /\ ToSet(ch) = Members(a) /\ Members(a) \subseteq Gen
      /\ ch[1] \in Members(a)
  BY <1>2, ChainIs DEF Sound
<1>4. \A u \in ToSet(ch) : gen[u].st = "running" /\ ~gen[u].forced
  BY <1>2, <1>3 DEF Sound, Members, MayPause
<1> HIDE DEF ch
<1>5. /\ Gens(gen', pos)
      /\ \A u \in Members(a) : gen'[u].st = "suspended"
      /\ \A g \in Gen \ Members(a) : gen'[g] = gen[g]
  BY <1>1, <1>3, <1>4, SuspendedIs DEF Inv
<1>6. /\ ex[Here] # <<>> /\ a = Last(ex[Here])
  BY <1>2 DEF Stack
<1>7. Stacks(gen', [ex EXCEPT ![Here] = Front(@)])
  <2>1. /\ \A g \in Members(Last(ex[Here])) : gen'[g].st # "running"
        /\ \A g \in Gen \ Members(Last(ex[Here])) : gen'[g] = gen[g]
    BY <1>5, <1>6
  <2> QED
    BY <1>2, <1>6, <2>1, Popped DEF Inv
<1>8. Stacks(gen', ex') /\ \A c \in Context : c # Here => ex'[c] = ex[c]
  <2>1. ex' = [ex EXCEPT ![Here] = Front(@)]
    BY <1>1 DEF Pop
  <2>2. ex \in [Context -> Seq(ActivationType)]
    BY DEF Inv, Stacks
  <2> QED
    BY <1>7, <2>1, <2>2
<1>9. Gens(gen', pos')
  BY <1>1, <1>5 DEF code
<1>10. FiberInv'
  BY <1>1, <1>8, FibersKept DEF Inv
<1>11. CodeInv'
  BY <1>1, CodeKept DEF Inv, CodeInv, Calm
<1>12. AgainInv'
  BY <1>1, <1>3, <1>5 DEF AgainInv
<1> QED
  BY <1>8, <1>9, <1>10, <1>11, <1>12, Parts

(* Steps that change no generator, stack or fiber. *)
LEMMA StillKeeps ==
    ASSUME Inv, UNCHANGED <<careful, gen, fiber, ex, fibers, code>>,
           flying' \in Exception, again' = <<>>
    PROVE  Inv'
<1>1. Stacks(gen', ex') /\ Gens(gen', pos')
  BY DEF Inv, code
<1>2. FiberInv'
  BY FibersKept DEF Inv
<1>3. CodeInv'
  BY CodeKept DEF Inv
<1>4. AgainInv'
  BY AgainKept
<1> QED
  BY <1>1, <1>2, <1>3, <1>4, Parts

LEMMA AtKeeps ==
    ASSUME Inv, UNCHANGED <<careful, gen, fiber, ex, fibers>>,
           NEW p \in {"plain", "try", "finally"}, NEW x \in Exception,
           x # "none" => p = "finally", At(Cur, p, x),
           flying' \in Exception, again' = <<>>
    PROVE  Inv'
<1>1. Cur \in Body /\ (Cur \in Gen => gen[Cur].st = "running")
  BY CurIs DEF Inv
<1>2. \A g \in Gen : pos'[g] # pos[g] => gen[g].st = "running"
  BY <1>1 DEF At, Inv, CodeInv, Body
<1>3. Gens(gen, pos')
  BY <1>2, GensAt DEF Inv
<1>4. Stacks(gen', ex') /\ Gens(gen', pos')
  BY <1>3 DEF Inv
<1>5. FiberInv'
  BY FibersKept DEF Inv
<1>6. CodeInv'
  BY <1>1, CodeAt DEF Inv
<1>7. AgainInv'
  BY AgainKept
<1> QED
  BY <1>4, <1>5, <1>6, <1>7, Parts

LEMMA FailsKeeps ==
    ASSUME Inv, UNCHANGED careful, Calm, Fails
    PROVE  Inv'
  BY StillKeeps DEF Fails, Calm, Exception

LEMMA YieldKeeps ==
    ASSUME Inv, UNCHANGED careful, Yield
    PROVE  Inv'
<1>1. Calm /\ Cur \in Gen
  BY DEF Yield
<1>2. CASE MayPause(Cur)
  <2>1. Suspend(none)
    BY <1>2 DEF Yield
  <2> QED
    BY <1>1, <1>2, <2>1, SuspendKeeps
<1>3. CASE ~MayPause(Cur)
  BY <1>1, <1>3, FailsKeeps DEF Yield
<1> QED
  BY <1>2, <1>3

(* Front undoes Append. *)
LEMMA FrontAppend ==
    ASSUME NEW S, NEW s \in Seq(S), NEW x \in S
    PROVE  Front(Append(s, x)) = s /\ Last(Append(s, x)) = x
<1>1. /\ Append(s, x) \in Seq(S) /\ Append(s, x) # <<>> /\ Len(Append(s, x)) = Len(s) + 1
      /\ \A i \in 1 .. Len(s) : Append(s, x)[i] = s[i]
      /\ Append(s, x)[Len(s) + 1] = x /\ Len(s) \in Nat
  BY AppendIs
<1> DEFINE t == Append(s, x)
<1> HIDE DEF t
<1>2. /\ Front(t) \in Seq(S) /\ Len(Front(t)) = Len(s) /\ Last(t) = x
      /\ \A i \in 1 .. Len(s) : Front(t)[i] = s[i]
  <2>1. t \in Seq(S) /\ t # <<>> /\ Len(t) - 1 = Len(s) /\ t[Len(t)] = x
    BY <1>1 DEF t
  <2> QED
    BY <1>1, <2>1, FrontIs DEF t
<1>3. Front(t) = s
  BY <1>2
<1> USE DEF t
<1> QED
  BY <1>2, <1>3

(* A delegate that has not begun begins, below the chain. *)
LEMMA BeginKeeps ==
    ASSUME Inv, UNCHANGED <<careful, fiber, fibers, code, flying, again>>, Calm, Cur \in Gen,
           MayPause(Cur), NEW h \in Gen, gen[h].st = "created",
           gen' = [Running(Append(Chain(Last(Stack)), h)) EXCEPT ![Cur].frame = TRUE],
           ex' = Replace([Last(Stack) EXCEPT !.up = Front(Append(Chain(Last(Stack)), h)),
                                             !.cur = h])
    PROVE  Inv'
<1> DEFINE a == Last(Stack)
           ch == Append(Chain(a), h)
           b == [a EXCEPT !.up = Front(ch), !.cur = h]
           G == Running(ch)
           r == [G[Cur] EXCEPT !.frame = TRUE]
<1>1. /\ Stack # <<>> /\ Here \in Context /\ Cur = a.cur
      /\ a \in ActivationType /\ Sound(gen, a)
      /\ \A g \in Members(a) : g \in Gen /\ gen[g].st = "running"
  BY CurIs DEF Inv
<1>2. /\ Chain(a) \in Seq(Gen) /\ IsInjective(Chain(a)) /\ ToSet(Chain(a)) = Members(a)
      /\ Cur \in Members(a)
  BY <1>1, ChainIs DEF Sound, Members
<1>3. h \notin Members(a) /\ h # Cur
  BY <1>1, <1>2
<1>4. gen' = [G EXCEPT ![Cur].frame = TRUE] /\ ex' = Replace(b)
  OBVIOUS
<1> HIDE DEF a
<1>5. /\ ch \in Seq(Gen) /\ ch # <<>> /\ Front(ch) = Chain(a) /\ Last(ch) = h
      /\ ToSet(ch) = Members(a) \cup {h}
  BY <1>2, AppendIs, AppendSet, FrontAppend
<1> HIDE DEF ch
<1>6. /\ Gens(G, pos)
      /\ \A u \in Members(a) : G[u].st = "running" /\ G[u].forced = gen[u].forced
      /\ \A u \in Members(a) : G[u].frame = gen[u].frame
      /\ G[h].st = "running" /\ ~G[h].frame
      /\ \A g \in Gen \ (Members(a) \cup {h}) : G[g] = gen[g]
  BY <1>1, <1>2, <1>3, <1>5, RunningIs DEF Inv
<1> HIDE DEF G
<1>7. /\ G \in [Gen -> GenType] /\ G[Cur] \in GenType /\ G[Cur].st = "running"
      /\ G[Cur].del = none
  BY <1>1, <1>2, <1>6 DEF Gens
<1>8. /\ gen' = [G EXCEPT ![Cur] = r] /\ r \in GenType
      /\ r.st = "running" /\ r.frame /\ r.forced = G[Cur].forced /\ r.del = none
  BY <1>4, <1>7 DEF GenType
<1> HIDE DEF r
<1>9. Gens(gen', pos)
  <2>1. Gens(G, pos)
    BY <1>6
  <2>2. /\ r \in GenType /\ r.del = none
        /\ r.st # "running" => (r.frame <=> r.st \in {"created", "suspended"})
        /\ r.forced => r.st \in {"running", "returned", "aborted", "gone"}
        /\ pos[Cur] # "plain" => r.st \in {"running", "suspended"}
        /\ r.st \in {"none", "created", "gone"} => \A g \in Gen : G[g].del # Cur
    BY <1>8
  <2>3. Gens([G EXCEPT ![Cur] = r], pos)
    BY <2>1, <2>2, OneChanges
  <2> QED
    BY <1>8, <2>3
<1>10. gen'[Cur] = r /\ \A g \in Gen : g # Cur => gen'[g] = G[g]
  BY <1>7, <1>8
<1>11. /\ b \in ActivationType /\ b.up = Chain(a) /\ b.cur = h
       /\ Members(b) = Members(a) \cup {h}
  BY <1>1, <1>2, <1>5 DEF ActivationType, Members
<1>12. Sound(gen', b)
  <2>1. \A u \in Members(a) : gen'[u].st = "running" /\ gen'[u].frame /\ ~gen'[u].forced
    <3>1. ASSUME NEW u \in ToSet(a.up)
          PROVE  gen'[u].st = "running" /\ gen'[u].frame /\ ~gen'[u].forced
      <4>1. u \in Members(a) /\ u \in Gen /\ u # Cur /\ gen[u].frame /\ ~gen[u].forced
        BY <1>1 DEF Sound, Members
      <4> QED
        BY <1>6, <1>10, <4>1
    <3>2. gen'[Cur].st = "running" /\ gen'[Cur].frame /\ ~gen'[Cur].forced
      BY <1>2, <1>6, <1>8, <1>10 DEF MayPause
    <3> QED
      BY <1>1, <3>1, <3>2 DEF Members
  <2>2. gen'[h].st = "running" /\ ~gen'[h].frame
    BY <1>3, <1>6, <1>10
  <2> HIDE DEF b
  <2> QED
    BY <1>2, <1>3, <1>11, <2>1, <2>2 DEF Sound
<1> HIDE DEF b
<1>13. /\ ex[Here] # <<>> /\ a = Last(ex[Here])
  BY <1>1 DEF Stack, a
<1>14. Stacks(gen', [ex EXCEPT ![Here] = Append(Front(@), b)])
  <2>1. /\ \A g \in Members(Last(ex[Here])) \ Members(b) : gen'[g].st # "running"
        /\ \A g \in Members(b) \ Members(Last(ex[Here])) : gen[g].st # "running"
        /\ \A g \in Gen \ (Members(Last(ex[Here])) \cup Members(b)) : gen'[g] = gen[g]
    BY <1>2, <1>6, <1>10, <1>11, <1>13
  <2> QED
    BY <1>1, <1>11, <1>12, <1>13, <2>1, Replaced DEF Inv
<1>15. Stacks(gen', ex') /\ \A c \in Context : c # Here => ex'[c] = ex[c]
  <2>1. ex' = [ex EXCEPT ![Here] = Append(Front(@), b)]
    BY <1>4 DEF Replace, Stack
  <2>2. ex \in [Context -> Seq(ActivationType)]
    BY DEF Inv, Stacks
  <2> QED
    BY <1>14, <2>1, <2>2
<1>16. Gens(gen', pos')
  BY <1>9 DEF code
<1>17. FiberInv'
  BY <1>15, FibersKept DEF Inv
<1>18. CodeInv'
  BY CodeKept DEF Inv, CodeInv, Calm
<1>19. AgainInv'
  BY AgainKept DEF Calm
<1> QED
  BY <1>15, <1>16, <1>17, <1>18, <1>19, Parts

LEMMA YieldFromKeeps ==
    ASSUME Inv, UNCHANGED careful, NEW h \in Gen, YieldFrom(h)
    PROVE  Inv'
<1>1. Calm /\ Cur \in Gen
  BY DEF YieldFrom
<1>2. CASE Fails
  BY <1>1, <1>2, FailsKeeps
<1>3. CASE MayPause(Cur) /\ NotStarted(h) /\ ~Fails
  <2>1. /\ gen' = [Running(Append(Chain(Last(Stack)), h)) EXCEPT ![Cur].frame = TRUE]
        /\ ex' = Replace([Last(Stack) EXCEPT !.up = Front(Append(Chain(Last(Stack)), h)),
                                             !.cur = h])
        /\ UNCHANGED <<fiber, fibers, code, flying, again>>
    BY <1>3 DEF YieldFrom
  <2>2. gen[h].st = "created"
    BY <1>3 DEF NotStarted
  <2> QED
    BY <1>1, <1>3, <2>1, <2>2, BeginKeeps
<1>4. CASE MayPause(Cur) /\ gen[h].st = "suspended" /\ Suspend(h)
  BY <1>1, <1>4, SuspendKeeps
<1> QED
  BY <1>2, <1>3, <1>4 DEF YieldFrom, NotStarted

(* A generator ends: its frame is gone, and its try statement behind it. *)
Ended(g, st) == [gen EXCEPT ![g].st = st, ![g].frame = FALSE]

LEMMA EndedIs ==
    ASSUME Gens(gen, pos), NEW g \in Gen, gen[g].st = "running",
           NEW P, P[g] = "plain", \A h \in Gen : h # g => P[h] = pos[h],
           NEW st \in {"returned", "aborted"}
    PROVE  /\ Gens(Ended(g, st), P) /\ Ended(g, st)[g].st = st
           /\ \A h \in Gen : h # g => Ended(g, st)[h] = gen[h]
<1> DEFINE r == [gen[g] EXCEPT !.st = st, !.frame = FALSE]
<1>1. gen \in [Gen -> GenType] /\ gen[g] \in GenType /\ gen[g].del = none
  BY DEF Gens
<1>2. r \in GenType /\ r.st = st /\ ~r.frame /\ r.del = none
  BY <1>1 DEF GenType
<1>3. /\ Ended(g, st) = [gen EXCEPT ![g] = r] /\ Ended(g, st)[g] = r
      /\ \A h \in Gen : h # g => Ended(g, st)[h] = gen[h]
  BY <1>1 DEF GenType, Ended
<1> HIDE DEF r
<1>4. Gens([gen EXCEPT ![g] = r], P)
  <2>1. /\ r.st # "running" => (r.frame <=> r.st \in {"created", "suspended"})
        /\ r.forced => r.st \in {"running", "returned", "aborted", "gone"}
        /\ P[g] # "plain" => r.st \in {"running", "suspended"}
        /\ r.st \in {"none", "created", "gone"} => \A h \in Gen : gen[h].del # g
    BY <1>2
  <2> QED
    BY <1>2, <2>1, OneChanges
<1> QED
  BY <1>2, <1>3, <1>4

LEMMA EndKeeps ==
    ASSUME Inv, UNCHANGED careful, Cur \in Gen, again = <<>>,
           NEW st \in {"returned", "aborted"}, EndGenerator(st)
    PROVE  Inv'
<1> DEFINE a == Last(Stack)
           g == a.cur
           ended == Ended(g, st)
<1>1. /\ Stack # <<>> /\ Here \in Context /\ Cur = g
      /\ g \in Gen /\ gen[g].st = "running"
      /\ a \in ActivationType /\ a.up \in Seq(Gen) /\ Sound(gen, a)
      /\ \A h \in Members(a) : h \in Gen /\ gen[h].st = "running"
  BY CurIs DEF Inv
<1>2. /\ At(g, "plain", "none") /\ UNCHANGED <<fiber, fibers, again>>
      /\ flying' \in Exception
  BY DEF EndGenerator, Inv, CodeInv, Exception
<1>3. ex \in [Context -> Seq(ActivationType)] /\ ex[Here] # <<>> /\ a = Last(ex[Here])
  BY <1>1 DEF Inv, Stacks, Stack
<1>4. /\ Gens(ended, pos') /\ ended[g].st = st
      /\ \A h \in Gen : h # g => ended[h] = gen[h]
  <2>1. pos \in [Body -> {"plain", "try", "finally"}]
    BY DEF Inv, CodeInv
  <2>2. /\ g \in Gen /\ gen[g].st = "running" /\ Gens(gen, pos)
        /\ pos'[g] = "plain" /\ \A h \in Gen : h # g => pos'[h] = pos[h]
    BY <1>1, <1>2, <2>1 DEF Inv, At, Body
  <2> HIDE DEF g
  <2> QED
    BY <2>2, EndedIs
<1>5. ASSUME a.up = <<>>
      PROVE  Stacks(gen', ex') /\ Gens(gen', pos')
  <2>1. gen' = ended /\ ex' = Pop
    BY <1>5 DEF EndGenerator, Ended
  <2>2. Members(a) = {g}
    BY <1>5 DEF Members, ToSet
  <2> HIDE DEF ended, a
  <2>3. Stacks(gen', [ex EXCEPT ![Here] = Front(@)])
    <3>1. /\ \A h \in Members(Last(ex[Here])) : gen'[h].st # "running"
          /\ \A h \in Gen \ Members(Last(ex[Here])) : gen'[h] = gen[h]
      BY <1>3, <1>4, <2>1, <2>2
    <3> QED
      BY <1>1, <1>3, <3>1, Popped DEF Inv
  <2> QED
    BY <1>3, <1>4, <2>1, <2>3 DEF Pop
<1>6. ASSUME a.up # <<>>
      PROVE  Stacks(gen', ex') /\ Gens(gen', pos')
  <2> DEFINE u == Last(a.up)
             b == [a EXCEPT !.up = Front(@), !.cur = u]
             r == [ended[u] EXCEPT !.frame = FALSE]
  <2>1. gen' = [ended EXCEPT ![u].frame = FALSE] /\ ex' = Replace(b)
    BY <1>6 DEF EndGenerator, Ended
  <2>2. /\ u \in Gen /\ Front(a.up) \in Seq(Gen) /\ ToSet(a.up) = ToSet(Front(a.up)) \cup {u}
        /\ IsInjective(Front(a.up)) /\ u \notin ToSet(Front(a.up))
    BY <1>1, <1>6, FrontIs, FrontSet DEF Sound
  <2>3. /\ b \in ActivationType /\ b.up = Front(a.up) /\ b.cur = u
        /\ Members(b) = ToSet(a.up) /\ Members(a) = ToSet(a.up) \cup {g} /\ g \notin ToSet(a.up)
    BY <1>1, <2>2 DEF ActivationType, Members, Sound
  <2> HIDE DEF u, b
  <2>4. u # g /\ gen[u].st = "running" /\ ended[u] = gen[u] /\ gen[u].del = none
    BY <1>1, <1>4, <2>2, <2>3 DEF Inv, Gens
  <2>5. /\ ended \in [Gen -> GenType] /\ gen' = [ended EXCEPT ![u] = r]
        /\ r \in GenType /\ r.st = "running" /\ ~r.frame /\ r.del = none
    <3>1. ended \in [Gen -> GenType] /\ ended[u] \in GenType
      BY <1>4, <2>2 DEF Gens
    <3> HIDE DEF ended
    <3> QED
      BY <2>1, <2>2, <2>4, <3>1 DEF GenType
  <2> HIDE DEF r, ended, a
  <2>6. gen'[u] = r /\ \A h \in Gen : h # u => gen'[h] = ended[h]
    BY <2>2, <2>5
  <2>7. Gens(gen', pos')
    <3>1. /\ r.st # "running" => (r.frame <=> r.st \in {"created", "suspended"})
          /\ r.forced => r.st \in {"running", "returned", "aborted", "gone"}
          /\ pos'[u] # "plain" => r.st \in {"running", "suspended"}
          /\ r.st \in {"none", "created", "gone"} => \A h \in Gen : ended[h].del # u
      BY <2>5
    <3>2. Gens([ended EXCEPT ![u] = r], pos')
      BY <1>4, <2>2, <2>5, <3>1, OneChanges
    <3> QED
      BY <2>5, <3>2
  <2>8. Sound(gen', b)
    <3>1. ASSUME NEW v \in ToSet(Front(a.up))
          PROVE  gen'[v].st = "running" /\ gen'[v].frame /\ ~gen'[v].forced
      <4>1. v \in ToSet(a.up) /\ v \in Gen /\ v # u /\ v # g
        BY <1>1, <2>2, <2>3
      <4> QED
        BY <1>1, <1>4, <2>6, <4>1 DEF Sound
    <3> QED
      BY <2>2, <2>3, <2>5, <2>6, <3>1 DEF Sound
  <2>9. Stacks(gen', [ex EXCEPT ![Here] = Append(Front(@), b)])
    <3>1. /\ \A h \in Members(Last(ex[Here])) \ Members(b) : gen'[h].st # "running"
          /\ \A h \in Members(b) \ Members(Last(ex[Here])) : gen[h].st # "running"
          /\ \A h \in Gen \ (Members(Last(ex[Here])) \cup Members(b)) : gen'[h] = gen[h]
      BY <1>1, <1>3, <1>4, <2>2, <2>3, <2>4, <2>6
    <3>2. Stacks(gen, ex) /\ Here \in Context /\ ex[Here] # <<>>
      BY <1>1, <1>3 DEF Inv
    <3> QED
      BY <2>3, <2>8, <3>1, <3>2, Replaced
  <2>10. ex' = [ex EXCEPT ![Here] = Append(Front(@), b)]
    BY <2>1 DEF Replace
  <2> QED
    BY <1>3, <2>7, <2>9, <2>10
<1>7. Stacks(gen', ex') /\ Gens(gen', pos')
  BY <1>5, <1>6
<1>8. \A c \in Context : c # Here => ex'[c] = ex[c]
  <2>1. ex' = Pop \/ ex' = Replace([a EXCEPT !.up = Front(@), !.cur = Last(a.up)])
    BY DEF EndGenerator
  <2> DEFINE b == [a EXCEPT !.up = Front(@), !.cur = Last(a.up)]
  <2> HIDE DEF b
  <2>2. ex' = [ex EXCEPT ![Here] = Front(@)] \/ ex' = [ex EXCEPT ![Here] = Append(Front(@), b)]
    BY <2>1 DEF Pop, Replace, b
  <2> QED
    BY <1>3, <2>2
<1>9. FiberInv'
  BY <1>2, <1>8, FibersKept DEF Inv
<1>10. CodeInv'
  <2>1. g \in Body /\ again' = <<>> /\ CodeInv
    BY <1>1, <1>2 DEF Body, Inv
  <2> HIDE DEF g
  <2> QED
    BY <1>2, <2>1, CodeAt DEF Exception
<1>11. AgainInv'
  BY <1>2, AgainKept
<1> QED
  BY <1>7, <1>9, <1>10, <1>11, Parts

LEMMA ReturnKeeps ==
    ASSUME Inv, UNCHANGED careful, Return
    PROVE  Inv'
  BY EndKeeps DEF Return, Calm

LEMMA UncaughtKeeps ==
    ASSUME Inv, UNCHANGED careful, Uncaught
    PROVE  Inv'
<1>1. Cur \in Gen /\ again = <<>> /\ EndGenerator("aborted")
  BY DEF Uncaught, Inv, CodeInv
<1> QED
  BY <1>1, EndKeeps

(* A generator goes away, or runs once more, to its end. *)
LEMMA ReleaseKeeps ==
    ASSUME Inv, UNCHANGED careful, NEW g \in Gen, Release(g)
    PROVE  Inv'
<1>1. /\ Calm /\ gen[g].st \notin {"none", "gone", "running"}
      /\ \A h \in Gen : gen[h].del # g
      /\ UNCHANGED <<fiber, fibers, again>>
  BY DEF Release, Exists
<1>2. /\ gen \in [Gen -> GenType] /\ ex \in [Context -> Seq(ActivationType)]
      /\ gen[g] \in GenType /\ pos \in [Body -> {"plain", "try", "finally"}]
      /\ Here \in Context
  BY CurIs DEF Inv, Gens, Stacks, CodeInv
<1>3. ASSUME MustUnwind(g)
      PROVE  /\ Stacks(gen', ex') /\ Gens(gen', pos') /\ CodeInv'
             /\ \A c \in Context : c # Here => ex'[c] = ex[c]
  <2> DEFINE a == [up |-> <<>>, cur |-> g, then |-> "destroy"]
             r == [st |-> "running", frame |-> FALSE, del |-> none, forced |-> TRUE]
  <2>1. /\ gen' = [gen EXCEPT ![g] = r] /\ ex' = Push(a)
        /\ flying' = "gexit" /\ UNCHANGED code
    BY <1>3 DEF Release
  <2>2. r \in GenType /\ r.del = none /\ r.st = "running" /\ ~r.frame
    BY DEF GenType
  <2>3. a \in ActivationType /\ Members(a) = {g} /\ a.cur = g /\ a.up = <<>>
    BY DEF ActivationType, Members, ToSet
  <2> HIDE DEF a, r
  <2>4. gen'[g] = r /\ \A h \in Gen : h # g => gen'[h] = gen[h]
    BY <1>2, <2>1
  <2>5. Gens(gen', pos)
    <3>1. /\ r.st # "running" => (r.frame <=> r.st \in {"created", "suspended"})
          /\ r.forced => r.st \in {"running", "returned", "aborted", "gone"}
          /\ pos[g] # "plain" => r.st \in {"running", "suspended"}
          /\ r.st \in {"none", "created", "gone"} => \A h \in Gen : gen[h].del # g
      BY <2>2
    <3>2. Gens([gen EXCEPT ![g] = r], pos)
      BY <2>2, <3>1, OneChanges DEF Inv
    <3> QED
      BY <2>1, <3>2
  <2>6. Sound(gen', a)
    BY <2>2, <2>3, <2>4 DEF Sound, IsInjective, ToSet
  <2>7. Stacks(gen', [ex EXCEPT ![Here] = Append(@, a)])
    <3>1. /\ \A h \in Members(a) : gen[h].st # "running"
          /\ \A h \in Gen \ Members(a) : gen'[h] = gen[h]
      BY <1>1, <2>3, <2>4
    <3> QED
      BY <1>2, <2>3, <2>6, <3>1, Pushed DEF Inv
  <2>8. ex' = [ex EXCEPT ![Here] = Append(@, a)]
    BY <2>1 DEF Push
  <2>9. Stacks(gen', ex') /\ \A c \in Context : c # Here => ex'[c] = ex[c]
    BY <1>2, <2>7, <2>8
  <2>10. Gens(gen', pos')
    BY <2>1, <2>5 DEF code
  <2>11. CodeInv'
    BY <1>1, <2>1, CodeKept DEF Inv, Exception, Calm
  <2> QED
    BY <2>9, <2>10, <2>11
<1>4. ASSUME ~MustUnwind(g)
      PROVE  /\ Stacks(gen', ex') /\ Gens(gen', pos') /\ CodeInv'
             /\ \A c \in Context : c # Here => ex'[c] = ex[c]
  <2> DEFINE r == [gen[g] EXCEPT !.st = "gone", !.frame = FALSE, !.del = none]
  <2>1. /\ gen' = [gen EXCEPT ![g] = r] /\ UNCHANGED <<ex, flying>>
        /\ At(g, "plain", "none")
    BY <1>4 DEF Release
  <2>2. r \in GenType /\ r.del = none /\ r.st = "gone" /\ ~r.frame
    BY <1>2 DEF GenType
  <2> HIDE DEF r
  <2>3. gen'[g] = r /\ \A h \in Gen : h # g => gen'[h] = gen[h]
    BY <1>2, <2>1
  <2>4. pos'[g] = "plain" /\ \A h \in Gen : h # g => pos'[h] = pos[h]
    BY <1>2, <2>1 DEF At, Body
  <2>5. Gens(gen', pos')
    <3>1. /\ r.st # "running" => (r.frame <=> r.st \in {"created", "suspended"})
          /\ r.forced => r.st \in {"running", "returned", "aborted", "gone"}
          /\ pos'[g] # "plain" => r.st \in {"running", "suspended"}
          /\ r.st \in {"none", "created", "gone"} => \A h \in Gen : gen[h].del # g
      BY <1>1, <2>2, <2>4
    <3>2. Gens([gen EXCEPT ![g] = r], pos')
      BY <2>2, <2>4, <3>1, OneChanges DEF Inv
    <3> QED
      BY <2>1, <3>2
  <2>6. Stacks(gen', ex)
    <3>1. \A h \in Gen : gen[h].st = "running" \/ gen'[h].st = "running" => gen'[h] = gen[h]
      BY <1>1, <2>2, <2>3
    <3> QED
      BY <3>1, SameStacks DEF Inv
  <2>7. CodeInv'
    <3>1. g \in Body /\ flying' \in Exception /\ again' = <<>> /\ CodeInv
      BY <1>1, <2>1 DEF Body, Inv, CodeInv, Calm
    <3> QED
      BY <2>1, <3>1, CodeAt DEF Exception
  <2> QED
    BY <2>1, <2>5, <2>6, <2>7
<1>5. /\ Stacks(gen', ex') /\ Gens(gen', pos') /\ CodeInv'
      /\ \A c \in Context : c # Here => ex'[c] = ex[c]
  BY <1>3, <1>4
<1>6. FiberInv'
  BY <1>1, <1>5, FibersKept DEF Inv
<1>7. AgainInv'
  BY <1>1, AgainKept DEF Calm
<1> QED
  BY <1>5, <1>6, <1>7, Parts

(* A body's own control flow. *)
LEMMA ControlKeeps ==
    ASSUME Inv, UNCHANGED careful,
           \/ EnterTry \/ LeaveTry \/ EndFinally \/ Raise \/ Catch \/ ToFinally \/ ScriptFails
    PROVE  Inv'
<1>1. /\ CodeInv /\ flying \in Exception
      /\ {"none", "error"} \subseteq Exception
      /\ Cur \in Body /\ pend[Cur] \in Exception /\ (Thrown => again = <<>>)
  BY CurIs DEF Inv, CodeInv, Exception
<1>2. CASE EnterTry
  BY <1>1, <1>2, AtKeeps DEF EnterTry, Calm
<1>3. CASE LeaveTry
  BY <1>1, <1>3, AtKeeps DEF LeaveTry, Calm
<1>4. CASE EndFinally
  BY <1>1, <1>4, AtKeeps DEF EndFinally, Calm
<1>5. CASE Raise
  BY <1>5, FailsKeeps DEF Raise
<1>6. CASE Catch
  <2>1. /\ UNCHANGED <<gen, fiber, ex, fibers>> /\ flying' = "none" /\ again' = <<>>
        /\ UNCHANGED code \/ At(Cur, "plain", "none")
    BY <1>1, <1>6 DEF Catch, Catchable, Thrown
  <2> QED
    BY <1>1, <2>1, AtKeeps, StillKeeps
<1>7. CASE ToFinally
  BY <1>1, <1>7, AtKeeps DEF ToFinally
<1>8. CASE ScriptFails
  <2>1. /\ UNCHANGED <<gen, fiber, ex, fibers>> /\ flying' = "none" /\ again' = <<>>
        /\ At(Cur, "plain", "none")
    BY <1>1, <1>8 DEF ScriptFails
  <2> QED
    BY <1>1, <2>1, AtKeeps
<1> QED
  BY <1>2, <1>3, <1>4, <1>5, <1>6, <1>7, <1>8

(* A fiber that does not run starts or goes on. *)
LEMMA SwitchKeeps ==
    ASSUME Inv, UNCHANGED careful, Calm, NEW f \in Fiber, fiber[f].st \in {"init", "suspended"},
           NEW r \in FiberType, r.st = "running", fiber' = [fiber EXCEPT ![f] = r],
           NEW x \in Exception, SwitchTo(f, x)
    PROVE  Inv'
<1>1. /\ fibers' = Append(fibers, f) /\ flying' = x
      /\ UNCHANGED <<gen, ex, code, again>> /\ again' = <<>>
  BY DEF SwitchTo, Calm
<1>2. /\ fiber \in [Fiber -> FiberType] /\ fibers \in Seq(Fiber) /\ IsInjective(fibers)
      /\ ToSet(fibers) = {h \in Fiber : fiber[h].st = "running"}
  BY DEF Inv, FiberInv
<1>3. /\ fiber' \in [Fiber -> FiberType] /\ fiber'[f] = r
      /\ \A h \in Fiber : h # f => fiber'[h] = fiber[h]
  BY <1>2
<1>4. /\ fibers' \in Seq(Fiber) /\ IsInjective(fibers')
      /\ ToSet(fibers') = ToSet(fibers) \cup {f}
  BY <1>1, <1>2, AppendIs, AppendSet
<1>5. ToSet(fibers') = {h \in Fiber : fiber'[h].st = "running"}
  BY <1>2, <1>3, <1>4
<1>6. FiberInv'
  BY <1>1, <1>3, <1>4, <1>5 DEF Inv, FiberInv
<1>7. Stacks(gen', ex') /\ Gens(gen', pos')
  BY <1>1 DEF Inv, code
<1>8. CodeInv'
  BY <1>1, CodeKept DEF Inv
<1>9. AgainInv'
  BY <1>1, AgainKept
<1> QED
  BY <1>6, <1>7, <1>8, <1>9, Parts

(* The fiber that runs stops. *)
LEMMA StopFiber ==
    ASSUME FiberInv, NEW s \in {"suspended", "terminated"}, Here \in Fiber,
           s = "suspended" => ~fiber[Here].closing,
           s = "terminated" => ex[Here] = <<>>,
           fiber' = [fiber EXCEPT ![Here].st = s], fibers' = Front(fibers), UNCHANGED ex
    PROVE  FiberInv'
<1> DEFINE r == [fiber[Here] EXCEPT !.st = s]
<1>1. /\ fiber \in [Fiber -> FiberType] /\ fibers \in Seq(Fiber) /\ IsInjective(fibers)
      /\ ToSet(fibers) = {h \in Fiber : fiber[h].st = "running"}
      /\ fibers # <<>> /\ Here = Last(fibers)
  BY HereIs, BodyAssumption DEF FiberInv
<1>2. r \in FiberType /\ r.st = s /\ r.closing = fiber[Here].closing
  BY <1>1 DEF FiberType
<1>3. /\ fiber' \in [Fiber -> FiberType] /\ fiber'[Here] = r
      /\ \A h \in Fiber : h # Here => fiber'[h] = fiber[h]
  BY <1>1, <1>2 DEF FiberType
<1> HIDE DEF r
<1>4. /\ fibers' \in Seq(Fiber) /\ IsInjective(fibers')
      /\ ToSet(fibers) = ToSet(fibers') \cup {Here} /\ Here \notin ToSet(fibers')
  BY <1>1, FrontIs, FrontSet
<1>5. ToSet(fibers') = {h \in Fiber : fiber'[h].st = "running"}
  BY <1>1, <1>2, <1>3, <1>4
<1> QED
  BY <1>2, <1>3, <1>4, <1>5 DEF FiberInv

LEMMA FiberSuspendKeeps ==
    ASSUME Inv, UNCHANGED careful, FiberSuspend
    PROVE  Inv'
<1>1. Calm /\ Here \in Fiber
  BY HereIs DEF FiberSuspend, Inv, Context
<1>2. CASE MaySuspend(Here)
  <2>1. /\ fiber' = [fiber EXCEPT ![Here].st = "suspended"]
        /\ fibers' = Front(fibers) /\ UNCHANGED <<gen, ex, code, again, flying>>
        /\ again' = <<>> /\ ~fiber[Here].closing
    BY <1>1, <1>2 DEF FiberSuspend, Calm, MaySuspend
  <2>2. FiberInv'
    BY <1>1, <2>1, StopFiber DEF Inv
  <2>3. Stacks(gen', ex') /\ Gens(gen', pos')
    BY <2>1 DEF Inv, code
  <2>4. CodeInv'
    BY <2>1, CodeKept DEF Inv, CodeInv
  <2>5. AgainInv'
    BY <2>1, AgainKept
  <2> QED
    BY <2>2, <2>3, <2>4, <2>5, Parts
<1>3. CASE ~MaySuspend(Here)
  BY <1>1, <1>3, FailsKeeps DEF FiberSuspend
<1> QED
  BY <1>2, <1>3

LEMMA FiberEndsKeeps ==
    ASSUME Inv, UNCHANGED careful, FiberEnds
    PROVE  Inv'
<1>1. /\ again = <<>> /\ Cur \in Fiber
      /\ fiber' = [fiber EXCEPT ![Cur].st = "terminated"] /\ fibers' = Front(fibers)
      /\ At(Cur, "plain", "none") /\ UNCHANGED <<gen, ex, again>>
      /\ flying' \in Exception
  BY DEF FiberEnds, Inv, CodeInv, Exception
<1>2. Stack = <<>> /\ Cur = Here /\ Cur \in Body /\ Cur \notin Gen
  BY <1>1, CurIs, BodyAssumption DEF Inv
<1>3. FiberInv'
  <2>1. /\ Here \in Fiber /\ ex[Here] = <<>>
        /\ fiber' = [fiber EXCEPT ![Here].st = "terminated"]
    BY <1>1, <1>2 DEF Stack
  <2> QED
    BY <1>1, <2>1, StopFiber DEF Inv
<1>4. \A g \in Gen : pos'[g] = pos[g]
  BY <1>1, <1>2 DEF At, Inv, CodeInv, Body
<1>5. Gens(gen, pos')
  BY <1>4, GensAt DEF Inv
<1>6. Stacks(gen', ex') /\ Gens(gen', pos')
  BY <1>1, <1>5 DEF Inv
<1>7. CodeInv'
  BY <1>1, <1>2, CodeAt DEF Inv, Exception
<1>8. AgainInv'
  BY <1>1, AgainKept
<1> QED
  BY <1>3, <1>6, <1>7, <1>8, Parts

LEMMA FiberKeeps ==
    ASSUME Inv, UNCHANGED careful, NEW f \in Fiber,
           \/ FiberStart(f) \/ FiberDestroy(f)
           \/ \E x \in {"none", "error"} : FiberResume(f, x)
    PROVE  Inv'
<1>1. fiber \in [Fiber -> FiberType] /\ fiber[f] \in FiberType
  BY DEF Inv, FiberInv
<1> DEFINE r == [fiber[f] EXCEPT !.st = "running"]
<1>2. /\ r \in FiberType /\ r.st = "running"
      /\ [fiber EXCEPT ![f].st = "running"] = [fiber EXCEPT ![f] = r]
  BY <1>1 DEF FiberType
<1> HIDE DEF r
<1>3. CASE FiberStart(f)
  <2>1. /\ Calm /\ fiber[f].st \in {"init", "suspended"} /\ fiber' = [fiber EXCEPT ![f] = r]
        /\ SwitchTo(f, "none") /\ "none" \in Exception
    BY <1>2, <1>3 DEF FiberStart, Exception
  <2> QED
    BY <1>2, <2>1, SwitchKeeps
<1>4. ASSUME NEW x \in {"none", "error"}, FiberResume(f, x)
      PROVE  Inv'
  <2>1. /\ Calm /\ fiber[f].st \in {"init", "suspended"} /\ fiber' = [fiber EXCEPT ![f] = r]
        /\ SwitchTo(f, x) /\ x \in Exception
    BY <1>2, <1>4 DEF FiberResume, Exception
  <2> QED
    BY <1>2, <2>1, SwitchKeeps
<1>5. CASE FiberDestroy(f)
  <2> DEFINE q == [st |-> "running", closing |-> TRUE]
  <2>1. /\ Calm /\ fiber[f].st \in {"init", "suspended"} /\ fiber' = [fiber EXCEPT ![f] = q]
        /\ SwitchTo(f, "fexit") /\ "fexit" \in Exception
    BY <1>5 DEF FiberDestroy, Exception
  <2>2. q \in FiberType /\ q.st = "running"
    BY DEF FiberType
  <2> HIDE DEF q
  <2> QED
    BY <2>1, <2>2, SwitchKeeps
<1> QED
  BY <1>3, <1>4, <1>5

LEMMA InitInv == Init => Inv
<1> SUFFICES ASSUME Init PROVE Inv
  OBVIOUS
<1>1. Stacks(gen, ex)
  <2>1. ex = [c \in Context |-> <<>>] /\ <<>> \in Seq(ActivationType)
    BY DEF Init
  <2>2. /\ ex \in [Context -> Seq(ActivationType)]
        /\ \A c \in Context : ex[c] = <<>> /\ DOMAIN ex[c] = {}
    BY <2>1
  <2>3. \A g \in Gen : gen[g].st = "none"
    BY DEF Init
  <2> QED
    BY <2>2, <2>3 DEF Stacks
<1>2. Gens(gen, pos)
  BY DEF Init, Gens, GenType, Body
<1>3. FiberInv
  <2>1. /\ fibers = <<>> /\ fiber = [f \in Fiber |-> [st |-> "init", closing |-> FALSE]]
        /\ \A f \in Fiber : ex[f] = <<>>
    BY DEF Init, Context
  <2>2. fibers \in Seq(Fiber) /\ IsInjective(fibers) /\ ToSet(fibers) = {}
    BY <2>1 DEF IsInjective, ToSet
  <2> QED
    BY <2>1, <2>2 DEF FiberInv, FiberType
<1>4. CodeInv
  BY DEF Init, CodeInv, Exception, Thrown
<1>5. AgainInv
  BY DEF Init, AgainInv
<1> QED
  BY <1>1, <1>2, <1>3, <1>4, <1>5 DEF Inv

LEMMA NextInv == Inv /\ [Next]_vars => Inv'
<1> SUFFICES ASSUME Inv, [Next]_vars PROVE Inv'
  OBVIOUS
<1>1. CASE UNCHANGED vars
  BY <1>1 DEF vars, Inv, Stacks, Gens, FiberInv, CodeInv, AgainInv, Thrown
<1>2. CASE Next
  <2>1. UNCHANGED careful /\ Step
    BY <1>2 DEF Next
  <2>2. ASSUME NEW g \in Gen,
               Create(g) \/ Touch(g) \/ Advance(g) \/ ThrowInto(g) \/ YieldFrom(g) \/ Release(g)
        PROVE  Inv'
    BY <2>1, <2>2, CreateKeeps, TouchKeeps, AdvanceKeeps, ThrowIntoKeeps, YieldFromKeeps,
       ReleaseKeeps
  <2>3. CASE SecondHalf \/ Yield \/ Return \/ Uncaught
    BY <2>1, <2>3, SecondHalfKeeps, YieldKeeps, ReturnKeeps, UncaughtKeeps
  <2>4. CASE EnterTry \/ LeaveTry \/ EndFinally \/ Raise \/ Catch \/ ToFinally \/ ScriptFails
    BY <2>1, <2>4, ControlKeeps
  <2>5. ASSUME NEW f \in Fiber,
               \/ FiberStart(f) \/ FiberDestroy(f)
               \/ \E x \in {"none", "error"} : FiberResume(f, x)
        PROVE  Inv'
    BY <2>1, <2>5, FiberKeeps
  <2>6. CASE FiberSuspend \/ FiberEnds
    BY <2>1, <2>6, FiberSuspendKeeps, FiberEndsKeeps
  <2> QED
    BY <2>1, <2>2, <2>3, <2>4, <2>5, <2>6 DEF Step
<1> QED
  BY <1>1, <1>2

LEMMA SpecInv == Spec => []Inv
  BY InitInv, NextInv, PTL DEF Spec

(***************************************************************************)
(* The theorems.                                                           *)
(***************************************************************************)

(* Every variable has the type the code gives it; and a generator or a fiber
   that is being destroyed is not found paused again. *)
THEOREM TypeCorrect == Spec => []TypeOK
<1>1. Inv => TypeOK
  BY DEF Inv, TypeOK, Stacks, Gens, FiberInv, CodeInv
<1> QED
  BY <1>1, SpecInv, PTL

(* No call to a generator goes to one that has not begun by way of one that
   delegates to it: op_yield_from starts a delegate at once. *)
THEOREM DelegatesHaveBegun == Spec => []DelegateIsStarted
<1>1. Inv => DelegateIsStarted
  BY DEF Inv, DelegateIsStarted, Gens
<1> QED
  BY <1>1, SpecInv, PTL

(* The places of a generator on the stacks. *)
LEMMA PlacesAre ==
    ASSUME NEW g, NEW e \in Places(g)
    PROVE  \E c \in Context : \E i \in DOMAIN ex[c] : \E n \in DOMAIN Chain(ex[c][i]) :
             Chain(ex[c][i])[n] = g /\ e = <<c, i, n>>
<1>1. PICK c \in Context :
        e \in UNION {{<<c, i, n>> : n \in {m \in DOMAIN Chain(ex[c][i]) : Chain(ex[c][i])[m] = g}}
                       : i \in DOMAIN ex[c]}
  BY DEF Places
<1>2. PICK i \in DOMAIN ex[c] :
        e \in {<<c, i, n>> : n \in {m \in DOMAIN Chain(ex[c][i]) : Chain(ex[c][i])[m] = g}}
  BY <1>1
<1> QED
  BY <1>2

LEMMA ActivationIs ==
    ASSUME Stacks(gen, ex), NEW c \in Context, NEW i \in DOMAIN ex[c]
    PROVE  /\ ex[c][i] \in ActivationType /\ Sound(gen, ex[c][i])
           /\ ToSet(Chain(ex[c][i])) = Members(ex[c][i]) /\ IsInjective(Chain(ex[c][i]))
           /\ \A g \in Members(ex[c][i]) : gen[g].st = "running"
<1>1. ex[c] \in Seq(ActivationType) /\ Sound(gen, ex[c][i])
  BY DEF Stacks
<1>2. ex[c][i] \in ActivationType
  BY <1>1
<1> QED
  BY <1>1, <1>2, ChainIs DEF Sound, Members

(* A generator that runs is in one place, one that does not in none; and it
   has its frame with it whenever it is resumed: nothing in gen_resume, in a
   switch of fibers or in a destruction takes a frame twice, or loses it. *)
THEOREM FrameInOnePlace == Spec => []OneFrame
<1>1. ASSUME Inv, NEW g \in Gen
      PROVE  /\ Cardinality(Places(g)) = IF gen[g].st = "running" THEN 1 ELSE 0
             /\ gen[g].frame <=>
                  \/ gen[g].st \in {"created", "suspended"}
                  \/ \E c \in Context : \E a \in Activation(c) : g \in ToSet(a.up)
  <2>1. Stacks(gen, ex) /\ Gens(gen, pos)
    BY <1>1 DEF Inv
  <2>2. CASE gen[g].st = "running"
    <3>1. PICK c \in Context : \E i \in DOMAIN ex[c] : g \in Members(ex[c][i])
      BY <2>1, <2>2 DEF Stacks
    <3>2. PICK i \in DOMAIN ex[c] : g \in Members(ex[c][i])
      BY <3>1
    <3>3. PICK n \in DOMAIN Chain(ex[c][i]) : Chain(ex[c][i])[n] = g
      BY <2>1, <3>2, ActivationIs DEF ToSet
    <3>4. ASSUME NEW e \in Places(g)
          PROVE  e = <<c, i, n>>
      <4>1. PICK d \in Context : \E j \in DOMAIN ex[d] : \E m \in DOMAIN Chain(ex[d][j]) :
                                   Chain(ex[d][j])[m] = g /\ e = <<d, j, m>>
        BY <3>4, PlacesAre
      <4>2. PICK j \in DOMAIN ex[d] : \E m \in DOMAIN Chain(ex[d][j]) :
                                        Chain(ex[d][j])[m] = g /\ e = <<d, j, m>>
        BY <4>1
      <4>3. PICK m \in DOMAIN Chain(ex[d][j]) : Chain(ex[d][j])[m] = g /\ e = <<d, j, m>>
        BY <4>2
      <4>4. g \in Members(ex[d][j])
        BY <2>1, <4>3, ActivationIs DEF ToSet
      <4>5. d = c /\ j = i
        BY <2>1, <3>2, <4>4 DEF Stacks
      <4>6. m = n
        BY <2>1, <3>3, <4>3, <4>5, ActivationIs DEF IsInjective
      <4> QED
        BY <4>3, <4>5, <4>6
    <3>5. <<c, i, n>> \in Places(g)
      BY <3>3 DEF Places
    <3>6. Places(g) = {<<c, i, n>>}
      BY <3>4, <3>5
    <3>7. Cardinality(Places(g)) = 1
      BY <3>6, FS_Singleton
    <3>8. Sound(gen, ex[c][i]) /\ ex[c][i] \in Activation(c)
      BY <2>1, ActivationIs DEF Activation
    <3>9. gen[g].frame => g \in ToSet(ex[c][i].up)
      BY <3>2, <3>8 DEF Sound, Members
    <3>10. ASSUME NEW d \in Context, NEW a \in Activation(d), g \in ToSet(a.up)
           PROVE  gen[g].frame
      BY <2>1, <3>10, ActivationIs DEF Activation, Sound
    <3> QED
      BY <2>2, <3>7, <3>8, <3>9, <3>10
  <2>3. CASE gen[g].st # "running"
    <3>1. \A c \in Context : \A i \in DOMAIN ex[c] : g \notin Members(ex[c][i])
      BY <2>1, <2>3, ActivationIs
    <3>2. Places(g) = {}
      <4> SUFFICES ASSUME NEW e \in Places(g) PROVE FALSE
        OBVIOUS
      <4>1. PICK d \in Context : \E j \in DOMAIN ex[d] : \E m \in DOMAIN Chain(ex[d][j]) :
                                   Chain(ex[d][j])[m] = g
        BY PlacesAre
      <4> QED
        BY <2>1, <3>1, <4>1, ActivationIs DEF ToSet
    <3>3. Cardinality(Places(g)) = 0
      BY <3>2, FS_EmptySet
    <3>4. \A c \in Context : \A a \in Activation(c) : g \notin ToSet(a.up)
      BY <3>1 DEF Activation, Members
    <3> QED
      BY <2>1, <2>3, <3>3, <3>4 DEF Gens
  <2> QED
    BY <2>2, <2>3
<1>2. Inv => OneFrame
  BY <1>1 DEF OneFrame
<1> QED
  BY <1>2, SpecInv, PTL

(* A body leaves its try block by its finally block alone, whatever ends the
   body: an exception, or the destruction of the generator or fiber it is in. *)
THEOREM FinallyIsRun == Spec => FinallyRuns
<1> DEFINE Leaves == \A b \in Body : pos[b] = "try" => pos'[b] \in {"try", "finally"}
<1>1. ASSUME Inv, [Next]_vars
      PROVE  [Leaves]_vars
  <2>1. pos \in [Body -> {"plain", "try", "finally"}] /\ Cur \in Body
    BY <1>1, CurIs DEF Inv, CodeInv
  <2>2. CASE UNCHANGED code
    BY <2>2 DEF code
  <2>3. ASSUME NEW b \in Body, NEW p, NEW x, At(b, p, x), pos[b] # "try" \/ p \in {"try", "finally"}
        PROVE  Leaves
    BY <2>1, <2>3 DEF At
  <2>4. ASSUME Next
        PROVE  \/ UNCHANGED code
               \/ \E b \in Body : \E p \in {"plain", "try", "finally"} : \E x \in Exception :
                    At(b, p, x) /\ (pos[b] # "try" \/ p \in {"try", "finally"})
    <3> DEFINE Goes == \E b \in Body : \E p \in {"plain", "try", "finally"} : \E x \in Exception :
                         At(b, p, x) /\ (pos[b] # "try" \/ p \in {"try", "finally"})
    <3> SUFFICES UNCHANGED code \/ Goes
      OBVIOUS
    <3>1. /\ {"none", "error"} \subseteq Exception /\ flying \in Exception
          /\ Step
      BY <1>1, <2>4 DEF Next, Inv, CodeInv, Exception
    <3>2. ASSUME NEW st, Cur \in Gen, pos[Cur] # "try", EndGenerator(st)
          PROVE  Goes
      <4>1. Cur = Last(Stack).cur
        BY <1>1, <3>2, CurIs DEF Inv
      <4> QED
        BY <2>1, <3>1, <3>2, <4>1 DEF EndGenerator
    <3>3. ASSUME NEW g \in Gen, Release(g)
          PROVE  UNCHANGED code \/ Goes
      <4>1. CASE MustUnwind(g)
        BY <3>3, <4>1 DEF Release
      <4>2. CASE ~MustUnwind(g)
        <5>1. pos[g] # "try" /\ At(g, "plain", "none") /\ g \in Body
          BY <1>1, <3>3, <4>2 DEF Release, MustUnwind, Inv, Gens, Body
        <5> QED
          BY <3>1, <5>1
      <4> QED
        BY <4>1, <4>2
    <3>4. ASSUME NEW g \in Gen,
                 Create(g) \/ Touch(g) \/ Advance(g) \/ ThrowInto(g) \/ YieldFrom(g)
          PROVE  UNCHANGED code
      BY <3>4 DEF Create, Touch, Advance, ThrowInto, YieldFrom, Fails, Suspend
    <3>5. CASE SecondHalf \/ Yield \/ Raise
      BY <3>5 DEF SecondHalf, Yield, Raise, Fails, Suspend
    <3>6. CASE Return \/ Uncaught
      BY <3>2, <3>6 DEF Return, Uncaught
    <3>7. CASE EnterTry \/ LeaveTry
      BY <2>1, <3>1, <3>7 DEF EnterTry, LeaveTry
    <3>8. CASE EndFinally \/ Catch \/ ToFinally
      BY <2>1, <3>1, <3>8 DEF EndFinally, Catch, ToFinally
    <3>9. CASE ScriptFails
      BY <2>1, <3>1, <3>9 DEF ScriptFails
    <3>10. CASE FiberEnds
      BY <2>1, <3>1, <3>10 DEF FiberEnds
    <3>11. ASSUME NEW f \in Fiber,
                  \/ FiberStart(f) \/ FiberDestroy(f)
                  \/ \E x \in {"none", "error"} : FiberResume(f, x)
           PROVE  UNCHANGED code
      BY <3>11 DEF FiberStart, FiberDestroy, FiberResume, SwitchTo
    <3>12. CASE FiberSuspend
      BY <3>12 DEF FiberSuspend, Fails
    <3> HIDE DEF Goes
    <3> QED
      BY <3>1, <3>3, <3>4, <3>5, <3>6, <3>7, <3>8, <3>9, <3>10, <3>11, <3>12 DEF Step
  <2>5. CASE Next
    <3> HIDE DEF Leaves
    <3> QED
      BY <2>2, <2>3, <2>4, <2>5
  <2> QED
    BY <1>1, <2>5
<1> QED
  BY <1>1, SpecInv, PTL DEF Spec, FinallyRuns
=============================================================================
