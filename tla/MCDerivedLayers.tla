---------------------------- MODULE MCDerivedLayers ----------------------------
(* Three records of two nodes, one incomplete; two organizations of one      *)
(* display name and a category that has it too, a merge decided on the way,  *)
(* an award for a person by two companies.  --keep meets nodes it has seen.  *)
EXTENDS DerivedLayers, TLC

CONSTANTS ra, rb, rc, na, nb, acme, acme2, gold, ann, post

MCRec == {ra, rb, rc}
MCNodeOf == (ra :> na) @@ (rb :> nb) @@ (rc :> na)
MCBatches == {MCRec}
MCTableOf == (acme :> "organizations") @@ (acme2 :> "organizations") @@ (gold :> "category_definitions")

Says(k, n) == [key |-> k, name |-> n]
MCMentions ==
  (ra :> <<Says(gold, "gold"), Says(acme, "acme inc")>>) @@
  (rb :> <<Says(acme2, "acme"), Says(acme, "acme")>>) @@
  (rc :> <<>>)

MCEntrant == (ra :> 2) @@ (rb :> 1) @@ (rc :> 0)

MCClosures == << (acme :> acme) @@ (acme2 :> acme2), (acme :> acme2) @@ (acme2 :> acme2) >>
MCPersonOf == (ra :> ann) @@ (rb :> ann) @@ (rc :> NoPerson)

MCWords ==
  ("acme" :> <<"acme", "labs">>) @@ ("acme inc" :> <<"acme", "labs", "inc">>) @@
  ("gold" :> <<"acme", "labs">>)
MCLetters == ("acme" :> 9) @@ ("acme inc" :> 13) @@ ("gold" :> 9)
MCText == post :> <<"acme", "labs", "inc", "acme", "labs">>

(* Two builds of the people; two links of a post that is extracted meanwhile;*)
(* the blog crawled from nothing, with two extracts.                         *)
Plan(archived, built, crawled, extracted, linked) ==
  [archived |-> archived,
   commands |-> ("people" :> built) @@ ("blog_discover" :> crawled) @@ ("blog_fetch" :> crawled) @@
                ("blog_extract" :> extracted) @@ ("blog_link" :> linked)]
MCPlans == {Plan({}, 2, 0, 0, 0), Plan({post}, 0, 0, 1, 2), Plan({}, 0, 1, 2, 0)}
================================================================================
