----------------------------- MODULE MCDndOwner -----------------------------
EXTENDS DndOwner

CONSTANTS a1, m1
=============================================================================
