CONSTANTS
    Worker = {w1, w2}
    Sent = {"QUIT", "TERM"}
SPECIFICATION HearingSpec
PROPERTIES TermIsHonoured
