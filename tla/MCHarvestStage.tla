--------------------------- MODULE MCHarvestStage ---------------------------
(* Small instances of HarvestStage: a listing of two pages, two rows and    *)
(* one row long.                                                            *)
EXTENDS HarvestStage, TLC

CONSTANTS n1, n2, n3

MCNode == {n1, n2, n3}
MCSite == (0 :> {n1, n2}) @@ (1 :> {n3})
=============================================================================
