CONSTANTS
    Slot = {s1, s2}
    Pools <- OnlyOndemand
    Prompt = TRUE
    Backlog = 1
    MaxFaults = 0
SPECIFICATION Spec
PROPERTIES QuitsOnlyTheLongIdle
