------------------------- MODULE CanonicalProjection -------------------------
(***************************************************************************)
(* What the canonical tables promise their readers: of every node at most  *)
(* one fact, made from one of its parsed records.  A fact is published     *)
(* whole, and it stays as it is until all of them are dropped.             *)
(***************************************************************************)
CONSTANTS
  Node, NodeOf,  \* nodes, and the node of a parsed record
  Fact,          \* the facts there can be: a record and what it names
  NoFact

VARIABLE view  \* the fact of a node, NoFact without one

Init == view = [n \in Node |-> NoFact]

Publish(f) ==
  /\ view[NodeOf[f.rec]] = NoFact
  /\ view' = [view EXCEPT ![NodeOf[f.rec]] = f]

Drop == view' = [n \in Node |-> NoFact]

Next == Drop \/ \E f \in Fact : Publish(f)

Spec == Init /\ [][Next]_view
=============================================================================
