CONSTANTS
    Node = {n1, n2, n3}
    Var = {x, y}
    Field = {f}
    Class = {"plain", "dtor", "ref", "arr"}
    Programs <- MCPrograms
    MaxDepth = 4
    null = null
SYMMETRY Symmetry
SPECIFICATION Spec
INVARIANTS TypeOK NoLostGarbage ArraysAcyclic OneOwner
PROPERTIES CollectorIsSound CollectorIsComplete DestructedOnce OwnDestructorFirst
