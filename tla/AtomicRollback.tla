--------------------------- MODULE AtomicRollback ---------------------------
(***************************************************************************)
(* What `cortetsu-rescue rollback` promises, without links, journals,      *)
(* locks or crashes: the selected generation and the previous one change   *)
(* places in a single step, together with their components.                *)
(***************************************************************************)
EXTENDS GenerationStore

CONSTANT Initial

VARIABLE selection

Init == selection \in Initial

\* The previous system becomes current with exactly the components its
\* manifest names, and what was running becomes the way back.
SwapGenerations ==
    /\ selection["system/previous"] \in System
    /\ selection["system/previous"] # selection["system/current"]
    /\ SameSchema(selection["system/current"], selection["system/previous"])
    /\ selection' = RollbackTarget(selection)

Next == SwapGenerations

Spec == Init /\ [][Next]_selection
=============================================================================
