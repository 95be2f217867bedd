CONSTANTS
    None = None
    lab = lab
    library = library
    Ssid = {lab, library}
    Scenario <- MCScenario
    MaxCalls = 3
    MaxControls = 2
    MaxFaults = 1
SPECIFICATION FairSpec
INVARIANTS
    NothingUnpublished
    LatestActivationWins
PROPERTIES
    SeenStaysSaved
    Settles
    AudioComesBack
\* Calls and controls are bounded.
CHECK_DEADLOCK FALSE
