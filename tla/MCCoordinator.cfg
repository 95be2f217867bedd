\* Windows that enter and leave fullscreen twice, a restart with a mutation in
\* flight, a lost connection or answer and a restart after it.  Rules without a
\* cooldown.
CONSTANTS
    None = None
    Me = me
    Session = {me}
    Hysteresis = 1
    Cooldown = 0
    TTL = 1
    Override = 0
    Pauses = {}
    Ages = {}
    Faults = {"crash"}
    MaxFaults = 1
    MaxClock = 4
    MaxEvents = 12
    MaxAsks = 1
    QueueSize = 1
    MaxFlips = 2
    MaxDrops = 1
    LastInput = 2
    Prompt = TRUE
SPECIFICATION CoordinatorSpec
INVARIANTS CoordinatorInv Undisturbed
PROPERTIES DndFollowsFullscreen
CHECK_DEADLOCK FALSE
