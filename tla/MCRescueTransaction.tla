------------------------ MODULE MCRescueTransaction ------------------------
(* Two schema-2 systems that share their dotfiles and one schema-1 system. *)
EXTENDS RescueTransaction, TLC

CONSTANTS s1, s2, s0, sh1, sh2, d1, h1, h2

MCManifest ==
    s1 :> [shell |-> sh1, dotfiles |-> d1, helpers |-> h1, legacy |-> None] @@
    s2 :> [shell |-> sh2, dotfiles |-> d1, helpers |-> h2, legacy |-> None] @@
    s0 :> [shell |-> sh1, dotfiles |-> d1, helpers |-> None, legacy |-> None]

Selecting(s, previous) ==
    [l \in Link |->
        CASE l = "system/current"   -> s
          [] l = "shell/current"    -> Manifest[s].shell
          [] l = "dotfiles/current" -> Manifest[s].dotfiles
          [] l = "helpers/current"  -> Manifest[s].helpers
          [] OTHER                  -> previous[l]]

PreviousOf(sys, sh, d, h) ==
    [l \in Link |->
        CASE l = "system/previous"   -> sys
          [] l = "shell/previous"    -> sh
          [] l = "dotfiles/previous" -> d
          [] l = "helpers/previous"  -> h
          [] OTHER                   -> None]

\* An upgrade from s1 to s2, a first schema-2 install over s0, a fresh install.
MCInitial ==
    {Selecting(s2, PreviousOf(s1, sh1, None, h1)),
     Selecting(s2, PreviousOf(s1, sh2, d1, None)),
     Selecting(s1, PreviousOf(s0, sh1, d1, None)),
     Selecting(s1, PreviousOf(None, None, None, None))}
=============================================================================
