--------------------------- MODULE MCModelLifecycle ---------------------------
(* One version, two terminals, a held-out pair and one that may be labelled. *)
EXTENDS ModelLifecycle, TLC

CONSTANTS t1, t2, v1, b, n

Symmetry == Permutations(Terminal)
=============================================================================
