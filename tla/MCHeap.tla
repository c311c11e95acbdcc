------------------------------- MODULE MCHeap -------------------------------
EXTENDS Heap, TLC

(* Destructors that may do anything, over objects and arrays; and over all four
   kinds, destructors that may keep their object. *)
Script(kinds, ops) == [creates |-> kinds, does |-> ops]
MCPrograms ==
    {Script({"dtor", "arr"}, {"script", "keep", "throw"}),
     Script({"plain", "dtor", "ref", "arr"}, {"keep"})}
Throwing == {Script({"dtor"}, {"throw"})}

Symmetry == Permutations(Node) \cup Permutations(Var)
=============================================================================
