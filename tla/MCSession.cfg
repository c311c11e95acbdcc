CONSTANTS
    Request = {r1, r2}
    Id = {a, b}
    Data = {"", "x"}
    Empty = ""
    Inode = {n1, n2, n3}
    none = none
SYMMETRY Alike
SPECIFICATION Spec
INVARIANTS TypeOK
PROPERTIES KeepsItsLock 
