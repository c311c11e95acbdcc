CONSTANTS
    g1 = g1
    g2 = g2
    g3 = g3
    f1 = f1
    f2 = f2
    Gen = {g1, g2}
    Fiber = {f1}
    Programs <- MCPrograms
    main = main
    none = none
SPECIFICATION Spec
INVARIANTS ExitUnwindsItsFiber
