----------------------------- MODULE NameClasses -----------------------------
(***************************************************************************)
(* What the review of organizations and the replay of its decisions owe to *)
(* whoever reads the canonical tables.  The names are partitioned, a class *)
(* goes by its root.  Two classes may be united: one loses its root and is *)
(* absorbed as a whole.  A class may become entangled in itself and come   *)
(* apart, which leaves the others alone.  What is on show changes only by  *)
(* withdrawing everything and filing it anew, by the roots of one moment.  *)
(***************************************************************************)
CONSTANTS
  Key,   \* names
  NoKey  \* none of them

VARIABLES
  root,  \* root[k]: the name the class of k goes by
  filed, \* the roots by which records are being filed, NoKey when they are not
  shown  \* shown[k]: the name that records of k are filed under, or NoKey

vars == <<root, filed, shown>>

Nothing == [k \in Key |-> NoKey]

Init ==
  /\ root = [k \in Key |-> k] /\ shown = [k \in Key |-> k]
  /\ filed = Nothing

Withdraw == shown' = Nothing /\ UNCHANGED <<root, filed>>

\* From now on records are filed by the classes there are.
Open == shown = Nothing /\ filed' = root /\ UNCHANGED <<root, shown>>

Show(k) ==
  /\ filed[k] # NoKey /\ shown[k] = NoKey
  /\ shown' = [shown EXCEPT ![k] = filed[k]]
  /\ UNCHANGED <<root, filed>>

\* Everything is filed, or the filing is given up.
Close == filed' = Nothing /\ UNCHANGED <<root, shown>>

\* The class of a is absorbed in another one, that of b.
Absorb(a, b) ==
  /\ root[a] = a /\ root[b] # a
  /\ root' = [k \in Key |-> IF root[k] = a THEN root[b] ELSE root[k]]

\* a is made a follower of b, which follows a.
Entangle(a, b) ==
  /\ root[a] = a /\ root[b] = a
  /\ root' \in [Key -> Key]
  /\ \A k \in Key : IF root[k] = a THEN root[root'[k]] = a ELSE root'[k] = root[k]

Unite ==
  /\ root' # root /\ UNCHANGED <<filed, shown>>
  /\ \E a, b \in Key : Absorb(a, b) \/ Entangle(a, b)

Next == Withdraw \/ Open \/ (\E k \in Key : Show(k)) \/ Close \/ Unite

Spec == Init /\ [][Next]_vars
=============================================================================
