CONSTANTS
    None = None
    p1 = p1
    p2 = p2
    sh1 = sh1
    sh2 = sh2
    d1 = d1
    d2 = d2
    d3 = d3
    h1 = h1
    h2 = h2
    resealed = resealed
    legacySystem = legacySystem
    legacyCheckpoint = legacyCheckpoint
    System <- MCLegacySystem
    Shell = {sh1, sh2}
    Dotfiles = {d1, d2}
    Helpers = {h1, h2}
    Manifest <- MCLegacyManifest
    Installed <- MCLegacy
    Proc = {p1}
    Commands = {"install", "recover", "rollback", "build", "promote"}
    MaxFaults = 2
    MaxDamaged = 1
SPECIFICATION FairSpec
INVARIANTS
    InstallInv
PROPERTIES
    CommitKeepsRollback
    InstallEnds
