---------------------------- MODULE MCStageGates ----------------------------
EXTENDS StageGates, TLC

Symmetry == Permutations(Node) \cup Permutations(Content)
=============================================================================
