CONSTANTS
    None = None
    s0 = s0
    sc = sc
    s1 = s1
    sOld = sOld
    sh1 = sh1
    sh2 = sh2
    shx = shx
    shy = shy
    d1 = d1
    h1 = h1
    h2 = h2
    System = {s0, sc, s1, sOld}
    Shell = {sh1, sh2, shx, shy}
    Dotfiles = {d1}
    Helpers = {h1, h2}
    Manifest <- MCManifest
    Initial <- MCInitial
    Newest <- MCNewest
    Pins = {}
    Keep = {0, 1}
    Proc = {p1}
    MaxFaults = 2
    MaxDamaged = 0
SPECIFICATION GCSpec
INVARIANTS
    JournalStaysLoadable
