--------------------------- MODULE MCGenerationGC ---------------------------
(* A checkpoint of the schema-1 system s0 is previous, an older system and  *)
(* an unlinked shell are garbage, shell/previous is a generation of neither.*)
EXTENDS GenerationGC, TLC

CONSTANTS s0, sc, s1, sOld, sh1, sh2, shx, shy, d1, h1, h2

MCManifest ==
    s0   :> [shell |-> sh1, dotfiles |-> d1, helpers |-> None, legacy |-> None] @@
    sc   :> [shell |-> sh1, dotfiles |-> d1, helpers |-> h1, legacy |-> s0] @@
    s1   :> [shell |-> sh2, dotfiles |-> d1, helpers |-> h2, legacy |-> None] @@
    sOld :> [shell |-> shy, dotfiles |-> d1, helpers |-> h1, legacy |-> None]

MCNewest == <<s1, sc, s0, sOld>>

MCInitial ==
    {[l \in Link |-> CASE l = "system/current"   -> s1
                       [] l = "system/previous"  -> sc
                       [] l = "shell/current"    -> sh2
                       [] l = "shell/previous"   -> shx
                       [] l = "dotfiles/current" -> d1
                       [] l = "helpers/current"  -> h2
                       [] l = "helpers/previous" -> h1
                       [] OTHER                  -> None]}
=============================================================================
