-------------------------- MODULE MCEvidenceBuild --------------------------
(* Small instance of EvidenceBuild: two subjects whose searches share a     *)
(* page, a mirror of it, and a page that names only one of the subjects.    *)
EXTENDS EvidenceBuild, TLC

CONSTANTS o, p, u1, u2, u3, t1, t2

MCHits == (o :> {u1, u2}) @@ (p :> {u2, u3})
MCBodies == (u1 :> {t1}) @@ (u2 :> {t1, t2}) @@ (u3 :> {t2})
MCMentions == {<<o, u1>>, <<o, u2>>, <<p, u2>>}
=============================================================================
