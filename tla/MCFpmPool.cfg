CONSTANTS
    Slot = {s1, s2}
    Pools <- Small
    Prompt = TRUE
    Backlog = 1
    MaxFaults = 1
SPECIFICATION FairSpec
INVARIANTS TypeOK StaticKeepsItsWorkers
PROPERTIES ConnectionsAreTaken SpareSettles QuittingEnds OndemandEmpties
