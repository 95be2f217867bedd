CONSTANTS
    None = None
    s1 = s1
    s2 = s2
    s0 = s0
    sh1 = sh1
    sh2 = sh2
    d1 = d1
    h1 = h1
    h2 = h2
    System = {s1, s2, s0}
    Shell = {sh1, sh2}
    Dotfiles = {d1}
    Helpers = {h1, h2}
    Manifest <- MCManifest
    Initial <- MCInitial
    Proc = {p1, p2}
    MaxFaults = 2
    MaxDamaged = 1
SPECIFICATION FairSpec
INVARIANTS
    MixedOnlyUnderJournal
    JournalCoversPointers
    CommitMarkerLast
PROPERTIES
    CommittedNeverUndone
    ImplementsAtomicRollback
    RecoveryTerminates
