CONSTANTS
    Node = {n1, n2, n3}
    Var = {x, y}
    Field = {f}
    Class = {"dtor"}
    Programs <- Throwing
    MaxDepth = 3
    null = null
SYMMETRY Symmetry
SPECIFICATION Spec
PROPERTIES DestructedBeforeFreed
