CONSTANTS
    Worker = {w1, w2}
    Sent = {"INT", "QUIT", "USR1", "USR2", "TERM"}
SPECIFICATION FairSpec
INVARIANTS GracefulFinishesRequests
PROPERTIES NobodyIsLeft NoRefillWhileStopping EndIsHonoured StopEnds
