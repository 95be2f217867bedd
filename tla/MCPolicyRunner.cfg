\* Two sessions, a process that outlives its coordinator, any two failures.
\* The clock moves once, enough for a pause to run out; hysteresis and cooldown
\* are 0, which the catalog allows.
CONSTANTS
    None = None
    Session = {s1, s2}
    Hysteresis = 0
    Cooldown = 0
    TTL = 0
    Override = 0
    Pauses = {0, 1}
    Ages = {0}
    Faults = {"config", "owner", "audit", "reply", "crash"}
    MaxFaults = 2
    MaxClock = 2
    MaxEvents = 2
    MaxAsks = 2
SYMMETRY SessionSymmetry
SPECIFICATION Spec
INVARIANTS LedgerHolds OneInFlight
CHECK_DEADLOCK FALSE
