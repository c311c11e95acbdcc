CONSTANTS
    MaxLevel = 2
    MaxBytes = 3
    Chunk = {0, 2}
    Flags <- AllOrNothing
    ErrorHandlers <- Every
SPECIFICATION FairSpec
INVARIANTS TypeOK InOrder NothingLost HandlersKeepLevels
PROPERTIES FinalIsLast RequestEnds
