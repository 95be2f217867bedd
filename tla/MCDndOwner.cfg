CONSTANTS
    None = None
    a1 = a1
    m1 = m1
    AutoKey = {a1}
    ManualKey = {m1}
    MaxRevision = 3
    MaxRecords = 1
    Override = 1
    Retention = 0
    MaxClock = 1
    MaxFaults = 2
    MaxEdits = 1
    \* All but the points between a read of the status and its replacement.
    EditInside = {"recover", "abort", "dropJournal", "ensureFile", "observe",
                  "readback", "anchor", "dropOwn", "forget"}
SPECIFICATION FairSpec
INVARIANTS
    DndInv
    UserChoiceHolds
PROPERTIES
    ToldNeverContradicted
    KeyActsOnce
    JournalCleared
