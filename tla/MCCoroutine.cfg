CONSTANTS
    g1 = g1
    g2 = g2
    g3 = g3
    f1 = f1
    f2 = f2
    Gen = {g1, g2, g3}
    Fiber = {f1, f2}
    Programs <- MCPrograms
    main = main
    none = none
SYMMETRY Alike
SPECIFICATION Spec
INVARIANTS TypeOK OneFrame DelegateIsStarted
PROPERTIES FinallyRuns
