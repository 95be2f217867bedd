CONSTANTS
    None = None
    Proc = {o1, o2}
    Launch = {l1}
    ShortIdle = FALSE
    MaxSignals = 1
    MaxRuns = 2
SPECIFICATION FairSpec
INVARIANTS
    SocketIsItsOwn
PROPERTIES
    RevokedIsFinal
    IdleEvictsNobody
    EndsWithItsSession
    LaunchFilesCleared
CHECK_DEADLOCK FALSE
