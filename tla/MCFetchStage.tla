---------------------------- MODULE MCFetchStage ----------------------------
(* Small instances of FetchStage for TLC. *)
EXTENDS FetchStage, TLC

CONSTANTS r1, r2, w1, w2, w3

\* Rows, bodies and the workers of one run are interchangeable; sound, for the
\* run that uses it checks safety properties only.
Symmetry == Permutations(Node) \cup Permutations(Content) \cup Permutations({w1, w2})

\* Two terminals; the first one's run has two workers, the second one's one.
MCRun == {r1, r2}
MCWorker == {w1, w2, w3}
MCRunOf == (w1 :> r1) @@ (w2 :> r1) @@ (w3 :> r2)

\* One terminal with two workers, for the liveness run.
OneRun == {r1}
OneTeam == {w1, w2}
OneRunOf == (w1 :> r1) @@ (w2 :> r1)
=============================================================================
