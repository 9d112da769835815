--------------------------- MODULE MCMergeReview ---------------------------
(* Small instances of MergeReview: three names, the second the most       *)
(* frequent, and one pair that the acronym blocker finds.                 *)
EXTENDS MergeReview, TLC

CONSTANTS s1, s2

MCRecords == (1 :> 1) @@ (2 :> 3) @@ (3 :> 2)
MCAcronym == {<<1, 3>>}
NoAcronym == {}
OneSession == {s1}
TwoSessions == {s1, s2}

\* Nothing tells two reviewers apart.
SessionsAlike == Permutations(TwoSessions)
=============================================================================
