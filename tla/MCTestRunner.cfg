CONSTANTS
    a = a
    w1 = w1
    w2 = w2
    main = main
    Job <- MCJob
    Key = {a}
    Conflicts <- MCConflicts
    Exclusive = {3}
    Worker <- MCWorker
    Thread <- MCThread
    Pid = {1, 2}
    MaxGroups = 3
    WireRoom = 2
SPECIFICATION RunnerSpec
INVARIANTS NoOverlap ExclusiveAlone RunOnce SleepersAreWoken
           SignalsReachTheirOwn 
PROPERTIES NobodyOutlives EveryJobEnds
