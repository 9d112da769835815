---------------------------- MODULE NodeArchive ----------------------------
(***************************************************************************)
(* What the acquisition layer promises about one nomination, with claims,  *)
(* workers, retries and crashes left out: once discovered it is open until *)
(* a page of it is in the archive (then it may be closed as archived) or   *)
(* until the crawl gives up on it.  Neither verdict is ever taken back and *)
(* the archive only grows.  Of a row that was let go of by nobody when it  *)
(* was given to another, nothing is promised any more; only a row that is  *)
(* open can get there.                                                     *)
(***************************************************************************)
CONSTANTS Node, Content

VARIABLES
  fate,     \* "unknown", "open", "archived", "abandoned" or "contested"
  archive   \* pages kept: pairs of a node and a content

avars == <<fate, archive>>

Init ==
  /\ fate = [n \in Node |-> "unknown"]
  /\ archive = {}

Discover(S) ==
  /\ fate' = [n \in Node |-> IF n \in S /\ fate[n] = "unknown" THEN "open" ELSE fate[n]]
  /\ UNCHANGED archive

Keep(n, c) ==
  /\ fate[n] \in {"open", "contested"}
  /\ archive' = archive \cup {<<n, c>>}
  /\ UNCHANGED fate

Archived(n) ==
  /\ fate[n] = "open"
  /\ \E c \in Content : <<n, c>> \in archive
  /\ fate' = [fate EXCEPT ![n] = "archived"]
  /\ UNCHANGED archive

Abandon(n) ==
  /\ fate[n] = "open"
  /\ fate' = [fate EXCEPT ![n] = "abandoned"]
  /\ UNCHANGED archive

Contest(S) ==
  /\ \A n \in S : fate[n] = "open"
  /\ fate' = [n \in Node |-> IF n \in S THEN "contested" ELSE fate[n]]
  /\ UNCHANGED archive

Next ==
  \/ \E S \in SUBSET Node : Discover(S) \/ Contest(S)
  \/ \E n \in Node : \/ \E c \in Content : Keep(n, c)
                     \/ Archived(n)
                     \/ Abandon(n)

Spec == Init /\ [][Next]_avars
=============================================================================
