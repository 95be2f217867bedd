CONSTANTS
    None = None
    Damaged = Damaged
    Unit = {u1, u2, u3}
    Commands = {"start", "run", "stop", "stop_app", "pause", "resume", "recover"}
    MaxFaults = 1
    MaxEdits = 1
    MaxWaiting = 1
SPECIFICATION FairSpec
INVARIANTS
    LifecycleInv
    CleanedMeansGone
    OneSession
PROPERTIES
    OthersKeepRecords
    ImplementsRealmSession
    ClearedAgain
