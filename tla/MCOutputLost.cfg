CONSTANTS
    MaxLevel = 3
    MaxBytes = 3
    Chunk = {0}
    Flags <- All
    ErrorHandlers <- Buffering
SPECIFICATION Spec
INVARIANTS ContentsArePassedOn
