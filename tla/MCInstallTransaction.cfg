CONSTANTS
    None = None
    p1 = p1
    p2 = p2
    sh1 = sh1
    sh2 = sh2
    d1 = d1
    d2 = d2
    d3 = d3
    h1 = h1
    h2 = h2
    resealed = resealed
    legacySystem = legacySystem
    legacyCheckpoint = legacyCheckpoint
    System <- MCSystem
    Shell = {sh1, sh2}
    Dotfiles = {d1, d2, d3}
    Helpers = {h1, h2}
    Manifest <- MCManifest
    Installed <- MCUpgrade
    Proc = {p1, p2}
    Commands = {"install", "recover", "apply", "promote", "recoverDotfiles"}
    MaxFaults = 2
    MaxDamaged = 0
SPECIFICATION Spec
SYMMETRY Interchangeable
PROPERTIES
    InstallBlocksOthers
    RecoveredIsBefore
    ImplementsDotfilesSelection
