--------------------------- MODULE MCPolicyRunner ---------------------------
\* Instances of PolicyRunner for TLC.
EXTENDS PolicyRunner, TLC

\* Sessions are interchangeable: no definition names one.
SessionSymmetry == Permutations(Session)
=============================================================================
