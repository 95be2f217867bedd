------------------------ MODULE MCInstallTransaction ------------------------
(* A system id is the tuple of what it seals, so every selection can be    *)
(* sealed once; resealed seals the first one of its instance again, and    *)
(* legacyCheckpoint is the schema-2 copy of legacySystem.                  *)
EXTENDS InstallTransaction, TLC

CONSTANTS p1, p2, sh1, sh2, d1, d2, d3, h1, h2, resealed, legacySystem, legacyCheckpoint

MCSealed == Shell \X Dotfiles \X Helpers

MCSystem == MCSealed \cup {resealed}

MCManifest ==
    [s \in MCSealed |-> [shell |-> s[1], dotfiles |-> s[2], helpers |-> s[3], legacy |-> None]] @@
    resealed :> [shell |-> sh1, dotfiles |-> d1, helpers |-> h1, legacy |-> None]

MCLegacySystem == MCSealed \cup {legacySystem, legacyCheckpoint, resealed}

MCLegacyManifest ==
    [s \in MCSealed |-> [shell |-> s[1], dotfiles |-> s[2], helpers |-> s[3], legacy |-> None]] @@
    legacySystem :> [shell |-> sh1, dotfiles |-> d1, helpers |-> None, legacy |-> None] @@
    legacyCheckpoint :> [shell |-> sh1, dotfiles |-> d1, helpers |-> h1, legacy |-> legacySystem] @@
    resealed :> [shell |-> sh1, dotfiles |-> d1, helpers |-> None, legacy |-> None]

Links(system, shell, dotfiles, helpers) ==
    [l \in Link |-> CASE l = "system/current"   -> system
                      [] l = "shell/current"    -> shell
                      [] l = "dotfiles/current" -> dotfiles
                      [] l = "helpers/current"  -> helpers
                      [] OTHER                  -> None]

\* A schema-2 installation.
MCUpgrade == {Links(<<sh1, d1, h1>>, sh1, d1, h1)}

\* A schema-1 installation, and an empty machine.
MCLegacy == {Links(legacySystem, sh1, d1, None), Links(None, None, None, None)}

\* Processes, and dotfiles ids not given out yet, are interchangeable.
Interchangeable == Permutations({p1, p2}) \cup Permutations({d2, d3})

SameProcesses == Permutations({p1, p2})
=============================================================================
