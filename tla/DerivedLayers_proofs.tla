------------------------ MODULE DerivedLayers_proofs ------------------------
(***************************************************************************)
(* Theorems about the rebuild of the canonical tables, for every set of    *)
(* records, mentions and decisions, with the commands of DerivedLayers     *)
(* around it and any number of runs and faults.                            *)
(***************************************************************************)
EXTENDS DerivedLayers, WellFoundedInduction, TLAPS

RebuildTypes ==
  /\ parsed \in SUBSET Rec /\ verdicts \in 1..Len(Closures)
  /\ rowId \in [Key -> Nat] /\ nextId \in Nat /\ nextFact \in Nat
  /\ fact \in [Node -> Fact \cup {NoFact}]
  /\ run \in [pc : {"off", "load", "records", "aliases", "refresh"}, todo : SUBSET Rec,
              verdict : 1..Len(Closures), cache : [Key -> Nat]]

\* A link of a recognition is null or the id of the row there still is.
LinksLive ==
  \A n \in Node : fact[n] # NoFact => \A k \in Key : fact[n].links[k] \in {NoId, rowId[k]}

\* A record is still to come, or its node is recognized, or it was struck.
Underway ==
  run.pc = "records" =>
    /\ run.todo \subseteq parsed
    /\ \A r \in (parsed \cap Complete) \ struck : r \in run.todo \/ fact[NodeOf[r]] # NoFact

RebuildInv == RebuildTypes /\ CacheLive /\ LinksLive /\ Underway /\ Isolated

-----------------------------------------------------------------------------
(***************************************************************************)
(* What a record needs are keys, and the id it gets for one is the id of   *)
(* the row if there is one.                                                *)
(***************************************************************************)
LEMMA IdsFound ==
  ASSUME RebuildTypes, CacheLive, NEW r \in Rec
  PROVE  /\ Len(Mentions[r]) \in Nat /\ DOMAIN Mentions[r] = 1..Len(Mentions[r])
         /\ \A i \in DOMAIN Mentions[r] : At(r, i) \in Key
         /\ Needs(r) \subseteq Key
         /\ \A k \in Needs(r) : /\ IdFor(r, k) \in Nat \ {NoId}
                                /\ rowId[k] # NoId => IdFor(r, k) = rowId[k]
         /\ \A k \in Key : Hit(k) => IdFor(r, k) = run.cache[k] /\ rowId[k] = run.cache[k]
         /\ KeysHold(r) /\ Recipient(r) \in Nat
  <1> USE CanonAssumption DEF CanonAssumption
  <1>1. Mentions[r] \in Seq([key : Key, name : Name])
    OBVIOUS
  <1>2. Len(Mentions[r]) \in Nat /\ DOMAIN Mentions[r] = 1..Len(Mentions[r])
    BY <1>1
  <1>3. ASSUME NEW i \in DOMAIN Mentions[r]
        PROVE  Mentions[r][i].key \in Key
    <2> DEFINE S == [key : Key, name : Name]
    <2>1. Mentions[r] \in Seq(S) /\ i \in 1..Len(Mentions[r])
      BY <1>1, <1>2
    <2> HIDE DEF S
    <2>2. Mentions[r][i] \in S
      BY <2>1
    <2> QED
      BY <2>2 DEF S
  <1>4. run.verdict \in DOMAIN Closures /\ Closures[run.verdict] \in [Org -> Org]
    BY DEF RebuildTypes
  <1>5. \A i \in DOMAIN Mentions[r] : At(r, i) \in Key
    BY <1>3, <1>4 DEF At, Target
  <1>6. Needs(r) \subseteq Key
    <2> SUFFICES ASSUME NEW k \in Needs(r) PROVE k \in Key
      OBVIOUS
    <2>1. PICK i \in DOMAIN Mentions[r] : k = At(r, i)
      BY DEF Needs
    <2> QED
      BY <1>5, <2>1
  <1>7. ASSUME NEW k \in Key, Hit(k)
        PROVE  IdFor(r, k) = run.cache[k] /\ rowId[k] = run.cache[k]
    BY <1>7 DEF IdFor, CacheLive
  <1>8. ASSUME NEW k \in Needs(r)
        PROVE  IdFor(r, k) \in Nat \ {NoId} /\ (rowId[k] # NoId => IdFor(r, k) = rowId[k])
    <2>1. CASE Hit(k)
      <3>1. IdFor(r, k) = run.cache[k] /\ rowId[k] = run.cache[k] /\ run.cache[k] # NoId
        BY <2>1, <1>6, <1>7 DEF Hit
      <3> QED
        BY <3>1, <1>6 DEF RebuildTypes
    <2>2. CASE ~Hit(k) /\ rowId[k] # NoId
      BY <2>2, <1>6 DEF IdFor, RebuildTypes
    <2>3. CASE ~Hit(k) /\ rowId[k] = NoId
      <3> DEFINE i == CHOOSE i \in DOMAIN Mentions[r] : At(r, i) = k
      <3>1. i \in DOMAIN Mentions[r]
        BY DEF Needs
      <3>2. IdFor(r, k) = nextId + i
        BY <2>3 DEF IdFor
      <3> HIDE DEF i
      <3>3. i \in Nat /\ i > 0 /\ nextId \in Nat /\ nextFact \in Nat
        BY <1>2, <3>1 DEF RebuildTypes
      <3>4. nextId + i \in Nat \ {NoId}
        BY <3>3 DEF NoId
      <3> QED
        BY <2>3, <3>2, <3>4
    <2> QED
      BY <2>1, <2>2, <2>3
  <1>9. KeysHold(r)
    BY <1>6, <1>7 DEF KeysHold
  <1>10. Recipient(r) \in Nat
    <2>1. Entrant[r] # 0 => At(r, Entrant[r]) \in Needs(r)
      BY DEF Needs
    <2> QED
      BY <1>8, <2>1 DEF Recipient, NoId
  <1> QED
    BY <1>2, <1>5, <1>6, <1>7, <1>8, <1>9, <1>10

-----------------------------------------------------------------------------
\* The commands of the layers leave the canonical tables alone.
LEMMA LayersApart == [Next]_vars => TableStep \/ UNCHANGED tableVars
BY DEF Next, vars, canonVars, tableVars

LEMMA RebuildInit == Init => RebuildInv
  <1> SUFFICES ASSUME Init PROVE RebuildInv
    OBVIOUS
  <1> USE CanonAssumption DEF Init, CanonInit, CanonAssumption
  <1>1. NoCache \in [Key -> Nat] /\ 1 \in 1..Len(Closures)
    BY DEF NoCache, NoId
  <1>2. RebuildTypes
    BY <1>1 DEF RebuildTypes, Off
  <1>3. CacheLive /\ LinksLive /\ Underway /\ Isolated
    BY DEF CacheLive, LinksLive, Underway, Isolated, Off, Hit, NoCache
  <1> QED
    BY <1>2, <1>3 DEF RebuildInv

(***************************************************************************)
(* A record that commits.                                                  *)
(***************************************************************************)
LEMMA ProcessKeeps ==
  ASSUME RebuildInv, NEW r \in Rec, ProcessRecord(r)
  PROVE  RebuildInv'
  <1>1. RebuildTypes /\ CacheLive /\ LinksLive /\ Underway /\ Isolated
    BY DEF RebuildInv
  <1> DEFINE new == [k \in Key |-> IF k \in Needs(r) THEN IdFor(r, k) ELSE run.cache[k]]
             links == [k \in Key |-> IF k \in Needs(r) THEN IdFor(r, k) ELSE NoId]
             f == [rec |-> r, id |-> nextFact + 1, links |-> links,
                   recipient |-> Recipient(r)]
  <1>2. /\ Len(Mentions[r]) \in Nat /\ Needs(r) \subseteq Key /\ Recipient(r) \in Nat
        /\ \A k \in Needs(r) : /\ IdFor(r, k) \in Nat \ {NoId}
                               /\ rowId[k] # NoId => IdFor(r, k) = rowId[k]
        /\ \A k \in Key : Hit(k) => IdFor(r, k) = run.cache[k] /\ rowId[k] = run.cache[k]
    BY <1>1, IdsFound
  <1>3. /\ run' = [run EXCEPT !.todo = run.todo \ {r}, !.cache = new]
        /\ fact' = [fact EXCEPT ![NodeOf[r]] = f]
        /\ rowId' = [k \in Key |-> IF k \in Created(r) THEN IdFor(r, k) ELSE rowId[k]]
        /\ nextId' = nextId + Len(Mentions[r]) /\ nextFact' = nextFact + 1
        /\ run.pc = "records"
        /\ UNCHANGED <<parsed, verdicts, struck>>
    BY DEF ProcessRecord, Recognition
  <1>4. /\ \A k \in Needs(r) : rowId'[k] = IdFor(r, k)
        /\ \A k \in Key : rowId[k] # NoId => rowId'[k] = rowId[k]
        /\ \A k \in Key \ Needs(r) : rowId'[k] = rowId[k]
        /\ rowId' \in [Key -> Nat]
    BY <1>1, <1>2, <1>3 DEF Created, RebuildTypes
  <1>5. new \in [Key -> Nat] /\ links \in [Key -> Nat]
    BY <1>1, <1>2 DEF RebuildTypes, NoId
  <1>6. f \in Fact /\ f # NoFact /\ NodeOf[r] \in Node
    <2>1. f \in Fact
      <3> HIDE DEF links
      <3> QED
        BY <1>1, <1>2, <1>5 DEF Fact, RebuildTypes
    <2> HIDE DEF f
    <2> QED
      BY <2>1, CanonAssumption DEF Fact, CanonAssumption
  <1>7. /\ run'.pc = "records" /\ run'.todo = run.todo \ {r}
        /\ run'.verdict = run.verdict /\ run'.cache = new
    BY <1>1, <1>3 DEF RebuildTypes
  <1>8. RebuildTypes'
    <2>1. run' \in [pc : {"off", "load", "records", "aliases", "refresh"}, todo : SUBSET Rec,
                    verdict : 1..Len(Closures), cache : [Key -> Nat]]
      <3> HIDE DEF new
      <3> QED
        BY <1>1, <1>3, <1>5 DEF RebuildTypes
    <2>2. fact' \in [Node -> Fact \cup {NoFact}]
      <3> HIDE DEF f
      <3> QED
        BY <1>1, <1>3, <1>6 DEF RebuildTypes
    <2>3. nextId' \in Nat /\ nextFact' \in Nat
      BY <1>1, <1>2, <1>3 DEF RebuildTypes
    <2> QED
      BY <1>1, <1>3, <1>4, <2>1, <2>2, <2>3 DEF RebuildTypes
  <1>9. CacheLive'
    BY <1>1, <1>2, <1>4, <1>7 DEF CacheLive, Hit
  <1>10. LinksLive'
    <2> SUFFICES ASSUME NEW n \in Node, fact'[n] # NoFact, NEW k \in Key
                 PROVE  fact'[n].links[k] \in {NoId, rowId'[k]}
      BY DEF LinksLive
    <2>1. CASE n = NodeOf[r]
      <3>1. fact'[n].links = links
        BY <1>1, <1>3, <2>1 DEF RebuildTypes
      <3> QED
        BY <1>4, <3>1
    <2>2. CASE n # NodeOf[r]
      <3>1. fact'[n] = fact[n]
        BY <1>1, <1>3, <2>2 DEF RebuildTypes
      <3> QED
        BY <1>1, <1>4, <3>1 DEF LinksLive
    <2> QED
      BY <2>1, <2>2
  <1>11. Underway' /\ Isolated'
    <2>1. \A n \in Node : fact'[n] # NoFact <=> n = NodeOf[r] \/ fact[n] # NoFact
      BY <1>1, <1>3, <1>6 DEF RebuildTypes
    <2>2. \A q \in Rec : NodeOf[q] \in Node
      BY CanonAssumption DEF CanonAssumption
    <2> QED
      BY <1>1, <1>3, <1>7, <2>1, <2>2 DEF Underway, Isolated, RebuildTypes
  <1> QED
    BY <1>8, <1>9, <1>10, <1>11 DEF RebuildInv

(***************************************************************************)
(* A record that fails takes back what it put into the cache, and only     *)
(* that; unless a fault struck it, its node is recognized already.         *)
(***************************************************************************)
LEMMA FailureKeeps ==
  ASSUME RebuildInv, NEW r \in Rec, RecordFails(r)
  PROVE  RebuildInv'
  <1>1. RebuildTypes /\ CacheLive /\ LinksLive /\ Underway /\ Isolated
    BY DEF RebuildInv
  <1>2. /\ Len(Mentions[r]) \in Nat /\ DOMAIN Mentions[r] = 1..Len(Mentions[r])
        /\ \A i \in DOMAIN Mentions[r] : At(r, i) \in Key
        /\ \A k \in Key : Hit(k) => IdFor(r, k) = run.cache[k]
        /\ KeysHold(r)
    BY <1>1, IdsFound
  <1>3. /\ run.pc = "records" /\ r \in run.todo \cap Complete
        /\ nextId' = nextId + Len(Mentions[r]) /\ nextFact' = nextFact + 1
        /\ UNCHANGED <<parsed, verdicts, rowId, fact>>
        /\ struck' = struck \cup {r} \/ (struck' = struck /\ fact[NodeOf[r]] # NoFact)
    BY <1>2 DEF RecordFails
  <1>4. PICK i \in 0..Len(Mentions[r]) :
          LET touched == {At(r, j) : j \in 1..i}
          IN run' = [run EXCEPT !.todo = @ \ {r}, !.cache =
               DiscardNew([k \in Key |-> IF k \in touched THEN IdFor(r, k) ELSE @[k]],
                          {k \in touched : ~Hit(k)})]
    BY DEF RecordFails
  <1> DEFINE touched == {At(r, j) : j \in 1..i}
             new == [k \in Key |-> IF k \in touched /\ ~Hit(k) THEN NoId
                                   ELSE IF k \in touched THEN IdFor(r, k) ELSE run.cache[k]]
  <1>5. run' = [run EXCEPT !.todo = run.todo \ {r}, !.cache = new]
    BY <1>4 DEF DiscardNew
  <1>6. new \in [Key -> Nat] /\ \A k \in Key : new[k] \in {NoId, run.cache[k]}
    BY <1>1, <1>2 DEF RebuildTypes, NoId
  <1>7. /\ run'.pc = "records" /\ run'.todo = run.todo \ {r}
        /\ run'.verdict = run.verdict /\ run'.cache = new
        /\ run' \in [pc : {"off", "load", "records", "aliases", "refresh"}, todo : SUBSET Rec,
                     verdict : 1..Len(Closures), cache : [Key -> Nat]]
    <2> HIDE DEF new
    <2> QED
      BY <1>1, <1>3, <1>5, <1>6 DEF RebuildTypes
  <1> HIDE DEF new
  <1>8. RebuildTypes'
    BY <1>1, <1>2, <1>3, <1>7 DEF RebuildTypes
  <1>9. CacheLive' /\ LinksLive'
    BY <1>1, <1>3, <1>6, <1>7 DEF CacheLive, LinksLive, Hit
  <1>10. Underway' /\ Isolated'
    BY <1>1, <1>3, <1>7 DEF Underway, Isolated, RebuildTypes
  <1> QED
    BY <1>8, <1>9, <1>10 DEF RebuildInv

(***************************************************************************)
(* A run that ends or dies leaves what was committed.                      *)
(***************************************************************************)
LEMMA OffKeeps ==
  ASSUME RebuildInv, run' = Off, UNCHANGED <<parsed, verdicts, rowId, nextId, nextFact, fact, struck>>
  PROVE  RebuildInv'
  <1>1. RebuildTypes /\ LinksLive
    BY DEF RebuildInv
  <1>2. /\ run'.pc = "off" /\ run'.cache = NoCache /\ NoCache \in [Key -> Nat]
        /\ run' \in [pc : {"off", "load", "records", "aliases", "refresh"}, todo : SUBSET Rec,
                     verdict : 1..Len(Closures), cache : [Key -> Nat]]
    BY <1>1 DEF Off, NoCache, NoId, RebuildTypes
  <1>3. CacheLive'
    BY <1>2 DEF CacheLive, Hit, NoCache
  <1> QED
    BY <1>1, <1>2, <1>3 DEF RebuildInv, RebuildTypes, LinksLive, Underway, Isolated

(***************************************************************************)
(* The other steps of the rebuild.                                         *)
(***************************************************************************)
LEMMA CanonStepKeeps ==
  ASSUME RebuildInv, CanonStep
  PROVE  RebuildInv'
  <1>1. RebuildTypes /\ CacheLive /\ LinksLive /\ Underway /\ Isolated
    BY DEF RebuildInv
  <1>2. CASE Load
    <2>1. /\ run'.pc = "records" /\ run'.todo = parsed /\ run'.verdict = verdicts
          /\ run'.cache = run.cache
          /\ run' \in [pc : {"off", "load", "records", "aliases", "refresh"}, todo : SUBSET Rec,
                       verdict : 1..Len(Closures), cache : [Key -> Nat]]
          /\ UNCHANGED <<parsed, verdicts, rowId, nextId, nextFact, fact, struck>>
      BY <1>1, <1>2 DEF Load, RebuildTypes
    <2> QED
      BY <1>1, <2>1 DEF RebuildInv, RebuildTypes, CacheLive, Hit, LinksLive, Underway, Isolated
  <1>3. CASE EndRecords
    <2>1. /\ run.pc = "records" /\ run.todo = {}
          /\ run'.pc = "aliases" /\ run'.cache = run.cache
          /\ run' \in [pc : {"off", "load", "records", "aliases", "refresh"}, todo : SUBSET Rec,
                       verdict : 1..Len(Closures), cache : [Key -> Nat]]
          /\ UNCHANGED <<parsed, verdicts, rowId, nextId, nextFact, fact, struck>>
      BY <1>1, <1>3 DEF EndRecords, RebuildTypes
    <2> QED
      BY <1>1, <2>1 DEF RebuildInv, RebuildTypes, CacheLive, Hit, LinksLive, Underway, Isolated
  <1>4. CASE WriteAliases
    <2>1. /\ run.pc = "aliases" /\ run'.pc = "refresh" /\ run'.cache = run.cache
          /\ run' \in [pc : {"off", "load", "records", "aliases", "refresh"}, todo : SUBSET Rec,
                       verdict : 1..Len(Closures), cache : [Key -> Nat]]
          /\ UNCHANGED <<parsed, verdicts, rowId, nextId, nextFact, fact, struck>>
      BY <1>1, <1>4 DEF WriteAliases, RebuildTypes
    <2> QED
      BY <1>1, <2>1 DEF RebuildInv, RebuildTypes, CacheLive, Hit, LinksLive, Underway, Isolated
  <1>5. CASE Refresh
    <2>1. run' = Off /\ UNCHANGED <<parsed, verdicts, rowId, nextId, nextFact, fact, struck>>
      BY <1>5 DEF Refresh
    <2> QED
      BY <2>1, OffKeeps
  <1>6. ASSUME NEW r \in Rec, ProcessRecord(r) \/ RecordFails(r) \/ SkipRecord(r)
        PROVE  RebuildInv'
    <2>1. CASE ProcessRecord(r)
      BY <2>1, ProcessKeeps
    <2>2. CASE RecordFails(r)
      BY <2>2, FailureKeeps
    <2>3. CASE SkipRecord(r)
      <3>1. /\ run.pc = "records" /\ r \in run.todo \ Complete
            /\ run'.pc = "records" /\ run'.todo = run.todo \ {r} /\ run'.cache = run.cache
            /\ run' \in [pc : {"off", "load", "records", "aliases", "refresh"}, todo : SUBSET Rec,
                         verdict : 1..Len(Closures), cache : [Key -> Nat]]
            /\ UNCHANGED <<parsed, verdicts, rowId, nextId, nextFact, fact, struck>>
        BY <1>1, <2>3 DEF SkipRecord, RebuildTypes
      <3> QED
        BY <1>1, <3>1 DEF RebuildInv, RebuildTypes, CacheLive, Hit, LinksLive, Underway, Isolated
    <2> QED
      BY <1>6, <2>1, <2>2, <2>3
  <1> QED
    BY <1>2, <1>3, <1>4, <1>5, <1>6 DEF CanonStep

(***************************************************************************)
(* Every step.                                                             *)
(***************************************************************************)
LEMMA RebuildStep == RebuildInv /\ [Next]_vars => RebuildInv'
  <1> SUFFICES ASSUME RebuildInv, [Next]_vars PROVE RebuildInv'
    OBVIOUS
  <1>1. RebuildTypes /\ CacheLive /\ LinksLive /\ Underway /\ Isolated
    BY DEF RebuildInv
  <1>2. ASSUME UNCHANGED <<parsed, verdicts, rowId, nextId, nextFact, fact, run, struck>>
        PROVE  RebuildInv'
    BY <1>1, <1>2 DEF RebuildInv, RebuildTypes, CacheLive, Hit, LinksLive, Underway, Isolated
  <1>3. ASSUME NEW S \in Batches, Parse(S) PROVE RebuildInv'
    <2>1. /\ run.pc = "off" /\ parsed' = parsed \cup S /\ S \subseteq Rec
          /\ UNCHANGED <<verdicts, rowId, nextId, nextFact, fact, run, struck>>
      BY <1>3, CanonAssumption DEF Parse, CanonAssumption
    <2> QED
      BY <1>1, <2>1 DEF RebuildInv, RebuildTypes, CacheLive, Hit, LinksLive, Underway, Isolated
  <1>4. CASE Decide
    <2>1. /\ verdicts < Len(Closures) /\ verdicts' = verdicts + 1
          /\ UNCHANGED <<parsed, rowId, nextId, nextFact, fact, run, struck>>
      BY <1>4 DEF Decide
    <2>2. verdicts' \in 1..Len(Closures)
      BY <1>1, <2>1, CanonAssumption DEF RebuildTypes, CanonAssumption
    <2> QED
      BY <1>1, <2>1, <2>2 DEF RebuildInv, RebuildTypes, CacheLive, Hit, LinksLive, Underway, Isolated
  <1>5. CASE ReparseAll
    <2>1. /\ run.pc = "off" /\ parsed' = {} /\ fact' = [n \in Node |-> NoFact] /\ nextFact' = 0
          /\ UNCHANGED <<verdicts, rowId, nextId, run, struck>>
      BY <1>5 DEF ReparseAll, Reparse
    <2> QED
      BY <1>1, <2>1 DEF RebuildInv, RebuildTypes, CacheLive, Hit, LinksLive, Underway, Isolated
  <1>6. ASSUME NEW fresh \in BOOLEAN, Rebuild(fresh) PROVE RebuildInv'
    <2>1. /\ run' = [Off EXCEPT !.pc = "load"] /\ struck' = {}
          /\ UNCHANGED <<parsed, verdicts>>
          /\ \/ UNCHANGED <<rowId, nextId, nextFact, fact>>
             \/ rowId' = NoCache /\ nextId' = 0 /\ nextFact' = 0 /\ fact' = [n \in Node |-> NoFact]
      BY <1>6 DEF Rebuild, Start, TruncateCanonical
    <2>2. /\ run'.pc = "load" /\ run'.cache = NoCache /\ NoCache \in [Key -> Nat]
          /\ run' \in [pc : {"off", "load", "records", "aliases", "refresh"}, todo : SUBSET Rec,
                       verdict : 1..Len(Closures), cache : [Key -> Nat]]
      <3>1. run' = [Off EXCEPT !.pc = "load"]
        BY <2>1
      <3>2. NoCache \in [Key -> Nat] /\ {} \in SUBSET Rec
        BY DEF NoCache, NoId
      <3>3. run' = [pc |-> "load", todo |-> {}, verdict |-> 1, cache |-> NoCache]
        BY <3>1 DEF Off
      <3>4. 1 \in 1..Len(Closures)
        BY <1>1 DEF RebuildTypes
      <3> QED
        BY <3>2, <3>3, <3>4
    <2>3. CacheLive'
      BY <2>2 DEF CacheLive, Hit, NoCache
    <2>4. LinksLive' /\ RebuildTypes'
      <3>1. CASE UNCHANGED <<rowId, nextId, nextFact, fact>>
        BY <1>1, <2>1, <2>2, <3>1 DEF LinksLive, RebuildTypes
      <3>2. CASE rowId' = NoCache /\ nextId' = 0 /\ nextFact' = 0 /\ fact' = [n \in Node |-> NoFact]
        BY <1>1, <2>1, <2>2, <3>2 DEF LinksLive, RebuildTypes
      <3> QED
        BY <2>1, <3>1, <3>2
    <2> QED
      BY <2>2, <2>3, <2>4 DEF RebuildInv, Underway, Isolated
  <1>7. CASE CanonStep
    BY <1>7, CanonStepKeeps
  <1>8. CASE Crash
    BY <1>8, OffKeeps DEF Crash
  <1>9. CASE UNCHANGED tableVars
    BY <1>2, <1>9 DEF tableVars
  <1> QED
    BY <1>3, <1>4, <1>5, <1>6, <1>7, <1>8, <1>9, LayersApart DEF TableStep

(***************************************************************************)
(* Between two records every cached id is the id of the committed row with *)
(* that key.  (_TxnCache.)                                                 *)
(***************************************************************************)
THEOREM CacheIsLive == Spec => []CacheLive
  <1>1. RebuildInv => CacheLive
    BY DEF RebuildInv
  <1> QED
    BY <1>1, RebuildInit, RebuildStep, PTL DEF Spec

(***************************************************************************)
(* When the records are done, every complete record that was not struck    *)
(* itself has its node recognized.  (canonicalize.)                        *)
(***************************************************************************)
THEOREM BadRecordsAreIsolated == Spec => []Isolated
  <1>1. RebuildInv => Isolated
    BY DEF RebuildInv
  <1> QED
    BY <1>1, RebuildInit, RebuildStep, PTL DEF Spec

-----------------------------------------------------------------------------
\* The fact of a node, as the readers see it.
View == [n \in Node |-> IF fact[n] = NoFact THEN NoFact
                        ELSE [rec |-> fact[n].rec, names |-> Named(fact[n])]]

(***************************************************************************)
(* A record that commits publishes its fact whole, and what other facts    *)
(* name stays: a link that was null is not the id of a row created since.  *)
(***************************************************************************)
LEMMA ProcessPublishes ==
  ASSUME RebuildInv, NEW r \in Rec, ProcessRecord(r)
  PROVE  /\ View[NodeOf[r]] = NoFact
         /\ View' = [View EXCEPT ![NodeOf[r]] = [rec |-> r, names |-> Needs(r)]]
  <1>1. RebuildTypes /\ CacheLive /\ LinksLive
    BY DEF RebuildInv
  <1>2. /\ Needs(r) \subseteq Key
        /\ \A k \in Needs(r) : /\ IdFor(r, k) \in Nat \ {NoId}
                               /\ rowId[k] # NoId => IdFor(r, k) = rowId[k]
        /\ \A k \in Key : Hit(k) => IdFor(r, k) = run.cache[k] /\ rowId[k] = run.cache[k]
    BY <1>1, IdsFound
  <1> DEFINE links == [k \in Key |-> IF k \in Needs(r) THEN IdFor(r, k) ELSE NoId]
             f == [rec |-> r, id |-> nextFact + 1, links |-> links,
                   recipient |-> Recipient(r)]
  <1>3. /\ fact[NodeOf[r]] = NoFact /\ NodeOf[r] \in Node
        /\ fact' = [fact EXCEPT ![NodeOf[r]] = f]
        /\ rowId' = [k \in Key |-> IF k \in Created(r) THEN IdFor(r, k) ELSE rowId[k]]
    BY CanonAssumption DEF ProcessRecord, Recognition, CanonAssumption
  <1>4. /\ \A k \in Needs(r) : rowId'[k] = IdFor(r, k)
        /\ \A k \in Key : rowId[k] # NoId => rowId'[k] = rowId[k]
    BY <1>1, <1>2, <1>3 DEF Created, RebuildTypes
  <1>5. fact'[NodeOf[r]] = f /\ f \in Fact /\ f # NoFact
    <2>1. Len(Mentions[r]) \in Nat /\ Recipient(r) \in Nat
      BY <1>1, IdsFound
    <2>2. links \in [Key -> Nat]
      BY <1>2 DEF NoId
    <2>3. f \in Fact
      BY <1>1, <2>1, <2>2 DEF Fact, RebuildTypes
    <2> HIDE DEF f
    <2> QED
      BY <1>1, <1>3, <2>3, CanonAssumption DEF Fact, RebuildTypes, CanonAssumption
  <1>6. {k \in Key : rowId'[k] # NoId /\ links[k] = rowId'[k]} = Needs(r)
    BY <1>2, <1>4
  <1>7. ASSUME NEW n \in Node, n # NodeOf[r]
        PROVE  View'[n] = View[n]
    <2>1. fact'[n] = fact[n]
      BY <1>1, <1>3, <1>7 DEF RebuildTypes
    <2>2. CASE fact[n] = NoFact
      BY <2>1, <2>2 DEF View
    <2>3. CASE fact[n] # NoFact
      <3>1. \A k \in Key : fact[n].links[k] \in {NoId, rowId[k]}
        BY <1>1, <2>3 DEF LinksLive
      <3>2. Named(fact[n])' = Named(fact[n])
        BY <1>4, <2>1, <3>1 DEF Named
      <3> QED
        BY <2>1, <2>3, <3>2 DEF View
    <2> QED
      BY <2>2, <2>3
  <1>8. View[NodeOf[r]] = NoFact
    BY <1>3 DEF View
  <1>9. View'[NodeOf[r]] = [rec |-> r, names |-> Needs(r)]
    <2>1. f.rec = r /\ f.links = links
      OBVIOUS
    <2> HIDE DEF f
    <2>2. Named(fact[NodeOf[r]])' = Needs(r)
      <3>1. fact'[NodeOf[r]].links = links
        BY <1>5, <2>1
      <3> HIDE DEF links
      <3> QED
        BY <1>6, <3>1 DEF Named
    <2>3. View'[NodeOf[r]] = [rec |-> fact'[NodeOf[r]].rec, names |-> Named(fact[NodeOf[r]])']
      BY <1>3, <1>5 DEF View
    <2> QED
      BY <1>5, <2>1, <2>2, <2>3
  <1> HIDE DEF f
  <1> DEFINE g == [rec |-> r, names |-> Needs(r)]
             w == [View EXCEPT ![NodeOf[r]] = g]
  <1>10. View' = [n \in Node |-> View'[n]] /\ View = [n \in Node |-> View[n]]
    BY DEF View
  <1>11. w = [n \in Node |-> IF n = NodeOf[r] THEN g ELSE View[n]]
    <2> HIDE DEF g
    <2> QED
      BY <1>10
  <1>12. w = [n \in Node |-> View'[n]]
    <2> HIDE DEF w, g
    <2>1. \A n \in Node : View'[n] = IF n = NodeOf[r] THEN g ELSE View[n]
      BY <1>7, <1>9 DEF g
    <2> QED
      BY <1>11, <2>1
  <1> QED
    BY <1>8, <1>10, <1>12

LEMMA ViewStep ==
  ASSUME RebuildInv, [Next]_vars
  PROVE  \/ \E r \in Rec : ProcessRecord(r)
         \/ View' = [n \in Node |-> NoFact]
         \/ UNCHANGED View
  <1>1. ASSUME UNCHANGED <<rowId, fact>> PROVE UNCHANGED View
    BY <1>1 DEF View, Named
  <1>2. ASSUME fact' = [n \in Node |-> NoFact] PROVE View' = [n \in Node |-> NoFact]
    BY <1>2 DEF View
  <1>3. CASE UNCHANGED tableVars
    BY <1>1, <1>3 DEF tableVars
  <1>4. CASE CanonStep
    BY <1>1, <1>4 DEF CanonStep, Load, EndRecords, WriteAliases, Refresh, RecordFails, SkipRecord
  <1>5. ASSUME NEW fresh \in BOOLEAN, Rebuild(fresh)
        PROVE  View' = [n \in Node |-> NoFact] \/ UNCHANGED View
    BY <1>1, <1>2, <1>5 DEF Rebuild, Start, TruncateCanonical
  <1>6. CASE ReparseAll
    BY <1>2, <1>6 DEF ReparseAll, Reparse
  <1>7. CASE Decide \/ Crash \/ \E S \in Batches : Parse(S)
    BY <1>1, <1>7 DEF Decide, Crash, Parse
  <1> QED
    BY <1>3, <1>4, <1>5, <1>6, <1>7, LayersApart DEF TableStep

(***************************************************************************)
(* "Canonical is a pure projection of parsed_records": whatever the cache, *)
(* the ids, the order, the failures and the crashes, the tables change as  *)
(* CanonicalProjection says.  (canonicalize.)                              *)
(***************************************************************************)
THEOREM CanonicalIsProjection == Spec => IsProjection
  <1>1. Init => Projection!Init
    BY DEF Init, CanonInit, Projection!Init
  <1>2. ASSUME RebuildInv, [Next]_vars
        PROVE  [Projection!Next]_View
    <2>1. ASSUME NEW r \in Rec, ProcessRecord(r) PROVE Projection!Next
      <3> DEFINE f == [rec |-> r, names |-> Needs(r)]
      <3>1. View[NodeOf[r]] = NoFact /\ View' = [View EXCEPT ![NodeOf[r]] = f]
        BY <1>2, <2>1, ProcessPublishes
      <3>2. r \in Complete /\ run.verdict \in DOMAIN Closures
        BY <1>2, <2>1, CanonAssumption DEF ProcessRecord, RebuildInv, RebuildTypes, CanonAssumption
      <3>3. f \in Facts
        <4>1. Needs(r) = NamedBy(r, run.verdict)
          BY DEF Needs, At, NamedBy
        <4> QED
          BY <3>2, <4>1 DEF Facts
      <3>4. f.rec = r
        OBVIOUS
      <3> HIDE DEF f
      <3> QED
        BY <3>1, <3>3, <3>4 DEF Projection!Next, Projection!Publish, View
    <2>2. CASE View' = [n \in Node |-> NoFact]
      BY <2>2 DEF Projection!Next, Projection!Drop, View
    <2> QED
      BY <1>2, <2>1, <2>2, ViewStep
  <1> QED
    BY <1>1, <1>2, RebuildInit, RebuildStep, PTL DEF Spec, IsProjection, Projection!Spec, View

-----------------------------------------------------------------------------
(***************************************************************************)
(* Of two new rows the one that is mentioned first is numbered first, so a *)
(* first mention must exist.                                               *)
(***************************************************************************)
LEMMA FirstMention ==
  ASSUME NEW r \in Rec, NEW k \in Needs(r)
  PROVE  FirstAt(r, k) \in Nat /\ At(r, FirstAt(r, k)) = k
  <1> DEFINE T == {i \in DOMAIN Mentions[r] : At(r, i) = k}
  <1>1. DOMAIN Mentions[r] = 1..Len(Mentions[r]) /\ Len(Mentions[r]) \in Nat
    <2>1. Mentions[r] \in Seq([key : Key, name : Name])
      BY CanonAssumption DEF CanonAssumption
    <2> QED
      BY <2>1
  <1>2. T # {} /\ T \subseteq Nat
    BY <1>1 DEF Needs
  <1>3. PICK i \in T : \A j \in T : <<j, i>> \notin OpToRel(<, Nat)
    BY <1>2, NatLessThanWellFounded, WFMin
  <1>4. \A j \in T : ~(j < i)
    BY <1>2, <1>3 DEF OpToRel
  <1>5. i \in DOMAIN Mentions[r] /\ At(r, i) = k /\ \A j \in 1..(i - 1) : At(r, j) # k
    <2>1. i \in 1..Len(Mentions[r]) /\ At(r, i) = k
      BY <1>1, <1>3
    <2>2. ASSUME NEW j \in 1..(i - 1) PROVE j \in DOMAIN Mentions[r] /\ j < i
      BY <1>1, <2>1
    <2> QED
      BY <1>1, <1>4, <2>1, <2>2
  <1> QED
    BY <1>1, <1>5 DEF FirstAt

LEMMA SlugsStep == RebuildInv /\ SlugsUnique /\ [Next]_vars => SlugsUnique'
  <1> SUFFICES ASSUME RebuildInv, SlugsUnique, [Next]_vars PROVE SlugsUnique'
    OBVIOUS
  <1>1. ASSUME UNCHANGED <<rowId, rowSlug>> PROVE SlugsUnique'
    BY <1>1 DEF SlugsUnique
  <1>2. ASSUME rowId' = NoCache PROVE SlugsUnique'
    BY <1>2 DEF SlugsUnique, NoCache
  <1>3. ASSUME NEW r \in Rec, ProcessRecord(r) PROVE SlugsUnique'
    <2>1. PICK number \in [Created(r) -> 1..(Cardinality(Key) + 1)] :
            /\ Numbered(r, number)
            /\ rowSlug' = [k \in Key |-> IF k \in Created(r) THEN <<NameOf(r, k), number[k]>>
                                        ELSE rowSlug[k]]
      BY <1>3 DEF ProcessRecord
    <2>2. rowId' = [k \in Key |-> IF k \in Created(r) THEN IdFor(r, k) ELSE rowId[k]]
      BY <1>3 DEF ProcessRecord
    <2>3. ASSUME NEW j \in Key, NEW k \in Created(r), k \in Key,
                 j # k, TableOf[j] = TableOf[k], rowId'[j] # NoId
          PROVE  (j \in Created(r) /\ FirstAt(r, j) > FirstAt(r, k)) \/ rowSlug'[j] # rowSlug'[k]
      <3>1. CASE j \notin Created(r)
        <4>1. rowSlug[j] \in Taken(r, k, number)
          BY <2>3 DEF Taken
        <4> QED
          BY <2>1, <2>3, <3>1, <4>1 DEF Numbered
      <3>2. CASE j \in Created(r)
        <4>1. FirstAt(r, j) \in Nat /\ FirstAt(r, k) \in Nat /\ FirstAt(r, j) # FirstAt(r, k)
          BY <2>3, <3>2, FirstMention DEF Created
        <4>2. CASE FirstAt(r, j) < FirstAt(r, k)
          <5>1. <<NameOf(r, j), number[j]>> \in Taken(r, k, number)
            BY <2>3, <3>2, <4>2 DEF Taken
          <5> QED
            BY <2>1, <2>3, <3>2, <5>1 DEF Numbered
        <4> QED
          BY <3>2, <4>1, <4>2
      <3> QED
        BY <3>1, <3>2
    <2> SUFFICES ASSUME NEW j \in Key, NEW k \in Key, j # k, TableOf[j] = TableOf[k],
                        rowId'[j] # NoId, rowId'[k] # NoId
                 PROVE  rowSlug'[j] # rowSlug'[k]
      BY DEF SlugsUnique
    <2>4. CASE j \notin Created(r) /\ k \notin Created(r)
      BY <2>1, <2>2, <2>4 DEF SlugsUnique
    <2>5. CASE j \notin Created(r) /\ k \in Created(r)
      BY <2>3, <2>5
    <2>6. CASE j \in Created(r) /\ k \notin Created(r)
      BY <2>3, <2>6
    <2>7. CASE j \in Created(r) /\ k \in Created(r)
      <3>1. FirstAt(r, j) \in Nat /\ FirstAt(r, k) \in Nat
        BY <2>7, FirstMention DEF Created
      <3> QED
        BY <2>3, <2>7, <3>1
    <2> QED
      BY <2>4, <2>5, <2>6, <2>7
  <1>4. CASE CanonStep
    BY <1>1, <1>3, <1>4 DEF CanonStep, Load, EndRecords, WriteAliases, Refresh, RecordFails, SkipRecord
  <1>5. ASSUME NEW fresh \in BOOLEAN, Rebuild(fresh) PROVE SlugsUnique'
    BY <1>1, <1>2, <1>5 DEF Rebuild, Start, TruncateCanonical
  <1>6. CASE \/ Decide \/ Crash \/ ReparseAll \/ UNCHANGED tableVars
             \/ \E S \in Batches : Parse(S)
    BY <1>1, <1>6 DEF Decide, Crash, ReparseAll, Reparse, Parse, tableVars
  <1> QED
    BY <1>4, <1>5, <1>6, LayersApart DEF TableStep

(***************************************************************************)
(* No two rows of a table share a slug, however many entities of one name  *)
(* a record creates at once.  (_unique_slug.)                              *)
(***************************************************************************)
THEOREM SlugsAreUnique == Spec => []SlugsUnique
  <1>1. Init => SlugsUnique
    BY DEF Init, CanonInit, SlugsUnique, NoCache
  <1>2. Init => RebuildInv /\ SlugsUnique
    BY <1>1, RebuildInit
  <1>3. RebuildInv /\ SlugsUnique /\ [Next]_vars => (RebuildInv /\ SlugsUnique)'
    BY RebuildStep, SlugsStep
  <1> QED
    BY <1>2, <1>3, PTL DEF Spec

-----------------------------------------------------------------------------
(***************************************************************************)
(* The layers.  What `people` has read are recognitions there are, until a *)
(* truncate tears them away, and all of them, until others come.           *)
(***************************************************************************)
BuilderFollows ==
  /\ builder.pc \in {"off", "clear", "people", "links"}
  /\ builder = [pc |-> builder.pc, read |-> builder.read, torn |-> builder.torn]
  /\ builder.pc # "off" /\ ~builder.torn => builder.read \subseteq Truth
  /\ builder.pc # "off" /\ "people" \in current => builder.read = Truth
  /\ builder.pc \in {"people", "links"} => honors = {}
  /\ builder.pc = "people" => people = {}
  /\ builder.pc = "links" /\ "people" \in current =>
       people = {<<h.person, h.org>> : h \in builder.read}

PeopleInv == BuilderFollows /\ HonorsTrue /\ LayerComplete

peopleVars == <<people, honors, mixed, builder>>

LEMMA PeopleStand ==
  ASSUME PeopleInv, UNCHANGED <<fact, peopleVars>>, "people" \in current' => "people" \in current
  PROVE  PeopleInv'
  <1>1. UNCHANGED <<fact, people, honors, mixed, builder, Truth>>
    BY DEF peopleVars, Truth
  <1>2. \A id : Recognized(id)' <=> Recognized(id)
    BY <1>1 DEF Recognized
  <1> QED
    BY <1>1, <1>2 DEF PeopleInv, BuilderFollows, HonorsTrue, LayerComplete

\* A record that commits adds a fact and leaves the others.
LEMMA FactsGrow ==
  ASSUME RebuildInv, NEW r \in Rec, ProcessRecord(r)
  PROVE  Truth \subseteq Truth' /\ \A id : Recognized(id) => Recognized(id)'
  <1>1. ASSUME NEW n \in Node, fact[n] # NoFact PROVE fact'[n] = fact[n]
    <2>1. fact[NodeOf[r]] = NoFact /\ fact' = [fact EXCEPT ![NodeOf[r]] = Recognition(r)]
      BY DEF ProcessRecord
    <2> QED
      BY <1>1, <2>1 DEF RebuildInv, RebuildTypes
  <1>2. ASSUME NEW t \in Truth PROVE t \in Truth'
    <2>1. PICK n \in Node : /\ fact[n] # NoFact /\ PersonOf[fact[n].rec] # NoPerson
                            /\ t = [id |-> fact[n].id, person |-> PersonOf[fact[n].rec],
                                    org |-> fact[n].recipient]
      BY DEF Truth
    <2>2. fact'[n] = fact[n]
      BY <1>1, <2>1
    <2> QED
      BY <2>1, <2>2 DEF Truth
  <1>3. ASSUME NEW id, Recognized(id) PROVE Recognized(id)'
    BY <1>1, <1>3 DEF Recognized
  <1> QED
    BY <1>2, <1>3

\* What the steps of the tables do to the recognitions and to the layer.
LEMMA TableStepsOfPeople ==
  ASSUME TableStep
  PROVE  \/ UNCHANGED <<fact, peopleVars>>
         \/ UNCHANGED peopleVars /\ \E r \in Rec : ProcessRecord(r)
         \/ /\ fact' = [n \in Node |-> NoFact] /\ people' \in {{}, people}
            /\ honors' = {} /\ mixed' = FALSE /\ Tear
  <1>1. CASE \E fresh \in BOOLEAN : Rebuild(fresh)
    BY <1>1 DEF Rebuild, Start, TruncateCanonical, Cascade, peopleVars
  <1>2. CASE ReparseAll
    BY <1>2 DEF ReparseAll, Reparse, Cascade
  <1>3. CASE /\ (\E S \in Batches : Parse(S)) \/ Decide \/ CanonStep \/ Crash
             /\ UNCHANGED <<people, honors, mixed, builder>>
    <2>1. UNCHANGED peopleVars
      BY <1>3 DEF peopleVars
    <2>2. UNCHANGED fact \/ \E r \in Rec : ProcessRecord(r)
      BY <1>3 DEF Parse, Decide, Crash, CanonStep, Load, EndRecords, WriteAliases, Refresh,
                  RecordFails, SkipRecord
    <2> QED
      BY <2>1, <2>2
  <1> QED
    BY <1>1, <1>2, <1>3 DEF TableStep

LEMMA TruncateTears ==
  ASSUME PeopleInv, fact' = [n \in Node |-> NoFact], people' \in {{}, people},
         honors' = {}, mixed' = FALSE, Tear,
         "people" \in current' => "people" \in current /\ fact' = fact
  PROVE  PeopleInv'
  <1>1. Truth' = {}
    BY DEF Truth
  <1>2. /\ builder' = [pc |-> builder.pc, read |-> builder.read, torn |-> builder.pc # "off"]
        /\ builder.pc \in {"off", "clear", "people", "links"}
    BY DEF Tear, PeopleInv, BuilderFollows
  <1>3. builder'.pc = builder.pc /\ builder'.read = builder.read /\ builder'.torn = (builder.pc # "off")
    BY <1>2
  <1>4. builder' = [pc |-> builder'.pc, read |-> builder'.read, torn |-> builder'.torn]
    BY <1>2
  <1>5. ASSUME "people" \in current'
        PROVE  "people" \in current /\ Truth = {}
    BY <1>1, <1>5 DEF Truth
  <1>6. BuilderFollows'
    BY <1>1, <1>2, <1>3, <1>4, <1>5 DEF PeopleInv, BuilderFollows
  <1>7. HonorsTrue'
    BY DEF HonorsTrue
  <1>8. LayerComplete'
    BY <1>1, <1>3, <1>5 DEF PeopleInv, LayerComplete
  <1> QED
    BY <1>6, <1>7, <1>8 DEF PeopleInv

LEMMA PeopleUnderTables ==
  ASSUME RebuildInv, PeopleInv, TableStep, current' = current \ Outdated
  PROVE  PeopleInv'
  <1>1. "people" \in current' => "people" \in current /\ fact' = fact
    BY DEF Outdated
  <1>2. CASE UNCHANGED <<fact, peopleVars>>
    BY <1>1, <1>2, PeopleStand
  <1>3. ASSUME NEW r \in Rec, ProcessRecord(r), UNCHANGED peopleVars PROVE PeopleInv'
    <2>1. CASE UNCHANGED fact
      BY <1>1, <1>3, <2>1, PeopleStand
    <2>2. CASE fact' # fact
      <3>1. "people" \notin current'
        BY <1>1, <2>2
      <3>2. Truth \subseteq Truth' /\ \A id : Recognized(id) => Recognized(id)'
        BY <1>3, FactsGrow
      <3>3. UNCHANGED <<people, honors, mixed, builder>>
        BY <1>3 DEF peopleVars
      <3>4. BuilderFollows'
        BY <3>1, <3>2, <3>3 DEF PeopleInv, BuilderFollows
      <3>5. HonorsTrue'
        BY <3>2, <3>3 DEF PeopleInv, HonorsTrue
      <3>6. LayerComplete'
        BY <3>1 DEF LayerComplete
      <3> QED
        BY <3>4, <3>5, <3>6 DEF PeopleInv
    <2> QED
      BY <2>1, <2>2
  <1>4. CASE /\ fact' = [n \in Node |-> NoFact] /\ people' \in {{}, people}
             /\ honors' = {} /\ mixed' = FALSE /\ Tear
    BY <1>1, <1>4, TruncateTears
  <1> QED
    BY <1>2, <1>3, <1>4, TableStepsOfPeople

LEMMA PeopleUnderBuild ==
  ASSUME PeopleInv, PeopleStep, UNCHANGED canonVars
  PROVE  PeopleInv'
  <1>1. BuilderFollows /\ HonorsTrue /\ LayerComplete
    BY DEF PeopleInv
  <1>2. UNCHANGED <<fact, Truth>> /\ \A id : Recognized(id)' <=> Recognized(id)
    BY DEF canonVars, Truth, Recognized
  <1>3. CASE ReadRecognitions
    <2>1. /\ builder.pc = "off" /\ builder' = [pc |-> "clear", read |-> Truth, torn |-> FALSE]
          /\ UNCHANGED <<people, honors, mixed>>
      BY <1>3 DEF ReadRecognitions
    <2>2. builder'.pc = "clear" /\ builder'.read = Truth /\ ~builder'.torn
      BY <2>1
    <2> QED
      BY <1>1, <1>2, <2>1, <2>2 DEF PeopleInv, BuilderFollows, HonorsTrue, LayerComplete
  <1>4. CASE ClearPersonLayer
    <2>1. /\ builder.pc = "clear" /\ people' = {} /\ honors' = {} /\ UNCHANGED current
          /\ builder' = [pc |-> "people", read |-> builder.read, torn |-> builder.torn]
      BY <1>1, <1>4 DEF ClearPersonLayer, BuilderFollows
    <2>2. builder'.pc = "people" /\ builder'.read = builder.read /\ builder'.torn = builder.torn
      BY <2>1
    <2> QED
      BY <1>1, <1>2, <2>1, <2>2 DEF PeopleInv, BuilderFollows, HonorsTrue, LayerComplete
  <1>5. CASE InsertPeople
    <2>1. /\ builder.pc = "people" /\ UNCHANGED <<honors, mixed, current>>
          /\ people' = people \cup {<<h.person, h.org>> : h \in builder.read}
          /\ builder' = [pc |-> "links", read |-> builder.read, torn |-> builder.torn]
      BY <1>1, <1>5 DEF InsertPeople, BuilderFollows
    <2>2. builder'.pc = "links" /\ builder'.read = builder.read /\ builder'.torn = builder.torn
      BY <2>1
    <2>3. people' = {<<h.person, h.org>> : h \in builder'.read} /\ honors' = {}
      BY <1>1, <2>1, <2>2 DEF BuilderFollows
    <2>4. BuilderFollows'
      BY <1>1, <1>2, <2>1, <2>2, <2>3 DEF BuilderFollows
    <2> QED
      BY <2>2, <2>3, <2>4 DEF PeopleInv, HonorsTrue, LayerComplete
  <1>6. CASE InsertRecognitionPeople
    <2>1. /\ builder.pc = "links" /\ HonoreesThere /\ UNCHANGED <<people, current>>
          /\ honors' = builder.read /\ mixed' = builder.torn /\ builder' = NoBuild
      BY <1>1, <1>6 DEF InsertRecognitionPeople, BuilderFollows
    <2>2. builder'.pc = "off" /\ builder' = [pc |-> builder'.pc, read |-> builder'.read, torn |-> builder'.torn]
      BY <2>1 DEF NoBuild
    <2>3. HonorsTrue'
      BY <1>1, <1>2, <2>1 DEF BuilderFollows, HonoreesThere, HonorsTrue
    <2>4. LayerComplete'
      BY <1>1, <1>2, <2>1 DEF BuilderFollows, LayerComplete
    <2> QED
      BY <2>2, <2>3, <2>4 DEF PeopleInv, BuilderFollows
  <1>7. CASE BuildRaises
    <2>1. /\ builder' = NoBuild /\ UNCHANGED <<people, honors, mixed>> /\ "people" \notin current'
      BY <1>7 DEF BuildRaises
    <2>2. builder'.pc = "off" /\ builder' = [pc |-> builder'.pc, read |-> builder'.read, torn |-> builder'.torn]
      BY <2>1 DEF NoBuild
    <2> QED
      BY <1>1, <1>2, <2>1, <2>2 DEF PeopleInv, BuilderFollows, HonorsTrue, LayerComplete
  <1> QED
    BY <1>3, <1>4, <1>5, <1>6, <1>7 DEF PeopleStep

LEMMA PeopleInvStep == RebuildInv /\ PeopleInv /\ [Next]_vars => PeopleInv'
  <1> SUFFICES ASSUME RebuildInv, PeopleInv, [Next]_vars PROVE PeopleInv'
    OBVIOUS
  <1>1. CASE TableStep /\ current' = current \ Outdated
    BY <1>1, PeopleUnderTables
  <1>2. CASE PeopleStep /\ UNCHANGED canonVars
    BY <1>2, PeopleUnderBuild
  <1>3. CASE PeopleDies /\ UNCHANGED tableVars
    <2>1. /\ builder' = NoBuild /\ "people" \notin current'
          /\ UNCHANGED <<fact, Truth, people, honors, mixed>>
      BY <1>3 DEF PeopleDies, tableVars, Truth
    <2>2. builder'.pc = "off" /\ builder' = [pc |-> builder'.pc, read |-> builder'.read, torn |-> builder'.torn]
      BY <2>1 DEF NoBuild
    <2>3. \A id : Recognized(id)' <=> Recognized(id)
      BY <2>1 DEF Recognized
    <2> QED
      BY <2>1, <2>2, <2>3 DEF PeopleInv, BuilderFollows, HonorsTrue, LayerComplete
  <1>4. CASE LinkStep /\ UNCHANGED <<canonVars, people, honors, mixed, builder, blogVars>>
    <2>1. UNCHANGED current \/ current' = current \cup {"blog_link"}
      BY <1>4 DEF LinkStep, ReadEntities, ClearLinks, EndLink, LinkPost
    <2>2. "people" \in current' => "people" \in current
      BY <2>1
    <2> QED
      BY <1>4, <2>2, PeopleStand DEF canonVars, peopleVars
  <1>5. CASE BlogStep /\ UNCHANGED <<canonVars, people, honors, mixed, builder, edges, linker>>
    <2>1. UNCHANGED current \/ current' = current \cup {"blog_extract"} \/ current' = current \ Outdated
      BY <1>5 DEF BlogStep
    <2>2. "people" \in current' => "people" \in current
      BY <2>1
    <2> QED
      BY <1>5, <2>2, PeopleStand DEF canonVars, peopleVars
  <1>6. CASE (LinkDies \/ BlogDies) /\ UNCHANGED <<tableVars, people, honors, mixed, builder>>
    <2>1. "people" \in current' => "people" \in current
      BY <1>6 DEF LinkDies, BlogDies
    <2> QED
      BY <1>6, <2>1, PeopleStand DEF tableVars, peopleVars
  <1>7. CASE UNCHANGED vars
    BY <1>7, PeopleStand DEF vars, canonVars, layerVars, peopleVars
  <1> QED
    BY <1>1, <1>2, <1>3, <1>4, <1>5, <1>6, <1>7 DEF Next

LEMMA PeopleInit == Init => PeopleInv
  <1> SUFFICES ASSUME Init PROVE PeopleInv
    OBVIOUS
  <1>1. people = {} /\ honors = {} /\ current = {} /\ builder = NoBuild
    BY DEF Init
  <1> QED
    BY <1>1 DEF PeopleInv, BuilderFollows, HonorsTrue, LayerComplete, NoBuild

THEOREM PeopleAreSound == Spec => []PeopleInv
  <1>1. Init => RebuildInv /\ PeopleInv
    BY RebuildInit, PeopleInit
  <1>2. RebuildInv /\ PeopleInv /\ [Next]_vars => (RebuildInv /\ PeopleInv)'
    BY RebuildStep, PeopleInvStep
  <1> QED
    BY <1>1, <1>2, PTL DEF Spec

(***************************************************************************)
(* Whatever rebuild, reparse or death came between the transactions of     *)
(* `people`, an honor names a recognition and a person there are, and says *)
(* what that recognition says unless the build was torn by a truncate.     *)
(* (The cascades of truncate_canonical and truncate_parsed, the keys.)     *)
(***************************************************************************)
THEOREM HonorsAreTrue == Spec => []HonorsTrue
  <1>1. PeopleInv => HonorsTrue
    BY DEF PeopleInv
  <1> QED
    BY <1>1, PeopleAreSound, PTL

(***************************************************************************)
(* After a `people` since whose reading the recognitions stayed as they    *)
(* were, the layer is what a build from nothing gives, whatever builds     *)
(* died or raised before.  (people_pipeline.build.)                        *)
(***************************************************************************)
THEOREM PeopleAreComplete == Spec => []LayerComplete
  <1>1. PeopleInv => LayerComplete
    BY DEF PeopleInv
  <1> QED
    BY <1>1, PeopleAreSound, PTL

-----------------------------------------------------------------------------
(***************************************************************************)
(* The corpus: what `blog extract` has not come to yet is in its cursor,   *)
(* until another page comes.                                               *)
(***************************************************************************)
CorpusInv ==
  /\ crawler \in [{"fetch", "extract"} -> [on : BOOLEAN, todo : SUBSET Post]]
  /\ "blog_extract" \in current /\ crawler["extract"].on =>
       (pages \cap English) \ posts \subseteq crawler["extract"].todo
  /\ PostsComplete

LEMMA CorpusStands ==
  ASSUME CorpusInv, UNCHANGED blogVars, "blog_extract" \in current' => "blog_extract" \in current
  PROVE  CorpusInv'
BY DEF CorpusInv, PostsComplete, blogVars

LEMMA CorpusInvStep == CorpusInv /\ known \cup pages \subseteq Post /\ [Next]_vars => CorpusInv'
  <1> SUFFICES ASSUME CorpusInv, known \cup pages \subseteq Post, [Next]_vars PROVE CorpusInv'
    OBVIOUS
  <1>1. crawler \in [{"fetch", "extract"} -> [on : BOOLEAN, todo : SUBSET Post]]
    BY DEF CorpusInv
  <1>2. CASE UNCHANGED vars
    BY <1>2, CorpusStands DEF vars, layerVars
  <1>3. CASE TableStep /\ UNCHANGED blogVars /\ current' = current \ Outdated
    BY <1>3, CorpusStands
  <1>4. CASE PeopleStep /\ UNCHANGED blogVars
    BY <1>4, CorpusStands DEF PeopleStep, ReadRecognitions, ClearPersonLayer, InsertPeople,
                              InsertRecognitionPeople, BuildRaises
  <1>5. CASE LinkStep /\ UNCHANGED blogVars
    BY <1>5, CorpusStands DEF LinkStep, ReadEntities, ClearLinks, EndLink, LinkPost
  <1>6. CASE (PeopleDies \/ LinkDies) /\ UNCHANGED blogVars
    BY <1>6, CorpusStands DEF PeopleDies, LinkDies
  <1>7. ASSUME NEW todo \in SUBSET Post, crawler' = [crawler EXCEPT !["extract"] = Busy(todo)]
        PROVE  /\ crawler'["extract"].on /\ crawler'["extract"].todo = todo
               /\ crawler' \in [{"fetch", "extract"} -> [on : BOOLEAN, todo : SUBSET Post]]
    <2>1. Busy(todo) \in [on : BOOLEAN, todo : SUBSET Post] /\ Busy(todo).on /\ Busy(todo).todo = todo
      BY DEF Busy
    <2> QED
      BY <1>1, <1>7, <2>1
  <1>8. ASSUME NEW todo \in SUBSET Post, crawler' = [crawler EXCEPT !["fetch"] = Busy(todo)]
        PROVE  /\ crawler'["extract"] = crawler["extract"]
               /\ crawler' \in [{"fetch", "extract"} -> [on : BOOLEAN, todo : SUBSET Post]]
    <2>1. Busy(todo) \in [on : BOOLEAN, todo : SUBSET Post]
      BY DEF Busy
    <2> QED
      BY <1>1, <1>8, <2>1
  <1>9. ASSUME NEW stage \in {"fetch", "extract"}, crawler' = [crawler EXCEPT ![stage] = NoCrawl]
        PROVE  /\ IF stage = "extract" THEN ~crawler'["extract"].on
                                       ELSE crawler'["extract"] = crawler["extract"]
               /\ crawler' \in [{"fetch", "extract"} -> [on : BOOLEAN, todo : SUBSET Post]]
    <2>1. NoCrawl \in [on : BOOLEAN, todo : SUBSET Post] /\ ~NoCrawl.on
      BY DEF NoCrawl
    <2> QED
      BY <1>1, <1>9, <2>1
  <1>10. CASE Discover /\ UNCHANGED current
    BY <1>10 DEF Discover, CorpusInv, PostsComplete
  <1>11. CASE StartFetch /\ UNCHANGED current
    <2>1. PICK todo \in SUBSET Post : crawler' = [crawler EXCEPT !["fetch"] = Busy(todo)]
      BY <1>11 DEF StartFetch
    <2>2. UNCHANGED <<pages, posts>>
      BY <1>11 DEF StartFetch
    <2> QED
      BY <1>8, <1>11, <2>1, <2>2 DEF CorpusInv, PostsComplete
  <1>12. CASE StartExtract
    <2>1. crawler' = [crawler EXCEPT !["extract"] = Busy(pages)] /\ UNCHANGED <<pages, posts>>
      BY <1>12 DEF StartExtract
    <2> QED
      BY <1>7, <2>1 DEF CorpusInv, PostsComplete
  <1>13. ASSUME NEW p \in Post, FetchPost(p), current' = current \ Outdated PROVE CorpusInv'
    <2>1. /\ crawler' = [crawler EXCEPT !["fetch"] = Busy(@.todo \ {p})] /\ UNCHANGED posts
          /\ "blog_extract" \in current' => "blog_extract" \in current /\ UNCHANGED pages
      BY <1>13 DEF FetchPost, Outdated
    <2>2. crawler["fetch"].todo \ {p} \in SUBSET Post
      BY <1>1
    <2> QED
      BY <1>8, <2>1, <2>2 DEF CorpusInv, PostsComplete
  <1>14. ASSUME NEW p \in Post, ExtractPage(p), current' = current \ Outdated PROVE CorpusInv'
    <2>1. /\ crawler' = [crawler EXCEPT !["extract"] = Busy(@.todo \ {p})]
          /\ posts' = posts \cup ({p} \cap English) /\ UNCHANGED pages
          /\ "blog_extract" \in current' => "blog_extract" \in current
          /\ p \in crawler["extract"].todo
      BY <1>14 DEF ExtractPage
    <2>2. crawler["extract"].todo \ {p} \in SUBSET Post
      BY <1>1
    <2>3. /\ crawler'["extract"].on /\ crawler'["extract"].todo = crawler["extract"].todo \ {p}
          /\ crawler' \in [{"fetch", "extract"} -> [on : BOOLEAN, todo : SUBSET Post]]
      BY <1>7, <2>1, <2>2
    <2>4. crawler["extract"].on \/ pages \cap English \subseteq posts \/ "blog_extract" \notin current
      BY DEF CorpusInv, PostsComplete
    <2> QED
      BY <2>1, <2>3, <2>4 DEF CorpusInv, PostsComplete
  <1>15. ASSUME NEW stage \in {"fetch", "extract"}, EndCrawl(stage), UNCHANGED current PROVE CorpusInv'
    <2>1. /\ crawler[stage].on /\ crawler[stage].todo = {} /\ UNCHANGED <<pages, posts>>
          /\ crawler' = [crawler EXCEPT ![stage] = NoCrawl]
      BY <1>15 DEF EndCrawl
    <2> QED
      BY <1>9, <1>15, <2>1 DEF CorpusInv, PostsComplete
  <1>16. CASE BlogDies
    <2>1. CASE CrawlDies("fetch") /\ UNCHANGED current
      <3>1. crawler' = [crawler EXCEPT !["fetch"] = NoCrawl] /\ UNCHANGED <<pages, posts>>
        BY <2>1 DEF CrawlDies
      <3> QED
        BY <1>9, <2>1, <3>1 DEF CorpusInv, PostsComplete
    <2>2. CASE CrawlDies("extract") /\ current' = current \ {"blog_extract"}
      <3>1. crawler' = [crawler EXCEPT !["extract"] = NoCrawl]
        BY <2>2 DEF CrawlDies
      <3> QED
        BY <1>9, <2>2, <3>1 DEF CorpusInv, PostsComplete
    <2> QED
      BY <1>16, <2>1, <2>2 DEF BlogDies
  <1>17. CASE BlogStep
    <2>1. DOMAIN crawler = {"fetch", "extract"}
      BY <1>1
    <2> QED
      BY <1>10, <1>11, <1>12, <1>13, <1>14, <1>15, <1>17, <2>1 DEF BlogStep
  <1> QED
    BY <1>2, <1>3, <1>4, <1>5, <1>6, <1>16, <1>17 DEF Next

\* What is known and what is archived are addresses.
LEMMA PagesStep == known \cup pages \subseteq Post /\ [Next]_vars => (known \cup pages \subseteq Post)'
  <1> SUFFICES ASSUME known \cup pages \subseteq Post, [Next]_vars PROVE (known \cup pages)' \subseteq Post
    OBVIOUS
  <1>1. \/ UNCHANGED <<known, pages>>
        \/ Discover
        \/ \E p \in Post : FetchPost(p)
    BY DEF Next, vars, layerVars, blogVars, BlogStep, BlogDies, StartFetch, StartExtract,
           ExtractPage, EndCrawl, CrawlDies
  <1> QED
    BY <1>1, BlogAssumption DEF FetchPost, Discover, BlogAssumption

LEMMA CorpusInit == Init => CorpusInv /\ known \cup pages \subseteq Post
  <1> SUFFICES ASSUME Init PROVE CorpusInv /\ known \cup pages \subseteq Post
    OBVIOUS
  <1>1. PICK plan \in Plans : BlogInit(plan.archived)
    BY DEF Init
  <1>2. plan.archived \in SUBSET Post
    BY <1>1, LayersAssumption DEF LayersAssumption
  <1>3. NoCrawl \in [on : BOOLEAN, todo : SUBSET Post]
    BY DEF NoCrawl
  <1>4. current = {}
    BY DEF Init
  <1> QED
    BY <1>1, <1>2, <1>3, <1>4 DEF BlogInit, CorpusInv, PostsComplete

-----------------------------------------------------------------------------
(***************************************************************************)
(* The links: until the entities or the posts change, the vocabulary is    *)
(* one of the entities, and the posts that are through have their edges.   *)
(***************************************************************************)
Mentioned(e, p) == \E i \in DOMAIN Text[p] : Stands(Gram(e), Text[p], i)

LinkerFollows ==
  /\ linker.pc \in {"off", "clear", "posts"}
  /\ linker = [pc |-> linker.pc, vocab |-> linker.vocab, todo |-> linker.todo]
  /\ "blog_link" \in current /\ linker.pc # "off" => linker.vocab \in Vocabularies(Entries)
  /\ "blog_link" \in current /\ linker.pc = "posts" =>
       /\ \A e \in edges : [slug |-> e.slug, key |-> e.key] \in linker.vocab /\ Mentioned(e, e.post)
       /\ \A p \in posts \ linker.todo : \A v \in FindMentions(Text[p], linker.vocab) :
            [post |-> p, slug |-> v.slug, key |-> v.key] \in edges

LinksInv == LinkerFollows /\ LinksComplete

\* What leaves the entities, the posts and the links alone, or takes the
\* word of `blog link` back.
LEMMA LinksStand ==
  ASSUME LinksInv, UNCHANGED <<edges, linker>>,
         "blog_link" \in current' => "blog_link" \in current /\ UNCHANGED <<rowId, rowSlug, posts>>
  PROVE  LinksInv'
  <1>1. LinkerFollows /\ LinksComplete
    BY DEF LinksInv
  <1>2. CASE "blog_link" \notin current'
    BY <1>1, <1>2 DEF LinksInv, LinkerFollows, LinksComplete
  <1>3. CASE "blog_link" \in current'
    <2>1. Entries' = Entries
      BY <1>3 DEF Entries
    <2> QED
      BY <1>1, <1>3, <2>1 DEF LinksInv, LinkerFollows, LinksComplete
  <1> QED
    BY <1>2, <1>3

\* An entry is the row of its key, by its slug.
LEMMA EntriesAreRows ==
  ASSUME NEW e \in Entries
  PROVE  /\ e.key \in Key /\ rowId[e.key] # NoId /\ rowSlug[e.key] = e.slug
         /\ e = [slug |-> e.slug, key |-> e.key]
BY DEF Entries

LEMMA LinkPostKeeps ==
  ASSUME LinksInv, NEW p \in Post, LinkPost(p), UNCHANGED <<canonVars, blogVars>>
  PROVE  LinksInv'
  <1>1. LinkerFollows
    BY DEF LinksInv
  <1>2. /\ linker.pc = "posts" /\ UNCHANGED current
        /\ edges' = edges \cup {[post |-> p, slug |-> e.slug, key |-> e.key] :
                                   e \in FindMentions(Text[p], linker.vocab)}
        /\ linker' = [pc |-> "posts", vocab |-> linker.vocab, todo |-> linker.todo \ {p}]
    BY <1>1 DEF LinkPost, LinkerFollows
  <1>3. linker'.pc = "posts" /\ linker'.vocab = linker.vocab /\ linker'.todo = linker.todo \ {p}
    BY <1>2
  <1>4. Entries' = Entries /\ UNCHANGED posts
    BY DEF Entries, canonVars, blogVars
  <1>5. ASSUME "blog_link" \in current, NEW e \in edges'
        PROVE  [slug |-> e.slug, key |-> e.key] \in linker.vocab /\ Mentioned(e, e.post)
    <2>1. CASE e \in edges
      BY <1>1, <1>2, <1>5, <2>1 DEF LinkerFollows
    <2>2. ASSUME NEW v \in FindMentions(Text[p], linker.vocab),
                 e = [post |-> p, slug |-> v.slug, key |-> v.key]
          PROVE  [slug |-> e.slug, key |-> e.key] \in linker.vocab /\ Mentioned(e, e.post)
      <3>1. v \in linker.vocab /\ \E i \in DOMAIN Text[p] : Stands(Gram(v), Text[p], i)
        BY DEF FindMentions
      <3>2. linker.vocab \subseteq Entries
        BY <1>1, <1>2, <1>5 DEF LinkerFollows, Vocabularies
      <3>3. v = [slug |-> v.slug, key |-> v.key]
        BY <3>1, <3>2, EntriesAreRows
      <3>4. e.slug = v.slug /\ e.key = v.key /\ e.post = p
        BY <2>2
      <3>5. Gram(e) = Gram(v)
        BY <3>4 DEF Gram
      <3> QED
        BY <3>1, <3>3, <3>4, <3>5 DEF Mentioned
    <2> QED
      BY <1>2, <1>5, <2>1, <2>2
  <1>6. ASSUME "blog_link" \in current, NEW q \in posts \ (linker.todo \ {p}),
               NEW v \in FindMentions(Text[q], linker.vocab)
        PROVE  [post |-> q, slug |-> v.slug, key |-> v.key] \in edges'
    <2>1. CASE q = p
      BY <1>2, <1>6, <2>1
    <2>2. CASE q # p
      BY <1>1, <1>2, <1>6, <2>2 DEF LinkerFollows
    <2> QED
      BY <2>1, <2>2
  <1>7. "blog_link" \in current => linker.vocab \in Vocabularies(Entries)
    BY <1>1, <1>2 DEF LinkerFollows
  <1>8. LinkerFollows'
    <2>1. linker' = [pc |-> linker'.pc, vocab |-> linker'.vocab, todo |-> linker'.todo]
      BY <1>2
    <2>2. \A e : Mentioned(e, e.post)' <=> Mentioned(e, e.post)
      BY DEF Mentioned, Gram, Stands
    <2> QED
      BY <1>2, <1>3, <1>4, <1>5, <1>6, <1>7, <2>1, <2>2 DEF LinkerFollows
  <1>9. LinksComplete'
    BY <1>3 DEF LinksComplete
  <1> QED
    BY <1>8, <1>9 DEF LinksInv

LEMMA EndLinkKeeps ==
  ASSUME LinksInv, EndLink, UNCHANGED <<canonVars, blogVars>>
  PROVE  LinksInv'
  <1>1. LinkerFollows
    BY DEF LinksInv
  <1>2. /\ linker.pc = "posts" /\ linker.todo = {} /\ linker' = NoLink
        /\ UNCHANGED <<edges, current, rowId, rowSlug, posts>>
    BY DEF EndLink, canonVars, blogVars
  <1>3. linker'.pc = "off" /\ linker' = [pc |-> linker'.pc, vocab |-> linker'.vocab, todo |-> linker'.todo]
    BY <1>2 DEF NoLink
  <1>4. Entries' = Entries
    BY <1>2 DEF Entries
  <1>5. ASSUME "blog_link" \in current
        PROVE  /\ linker.vocab \subseteq Entries
               /\ \A e \in Entries : \E d \in linker.vocab : Gram(d) = Gram(e) /\ RankOf(d) <= RankOf(e)
    BY <1>1, <1>2, <1>5 DEF LinkerFollows, Vocabularies
  <1>6. ASSUME "blog_link" \in current, NEW e \in edges
        PROVE  rowId[e.key] # NoId /\ rowSlug[e.key] = e.slug /\ Mentioned(e, e.post)
    <2> DEFINE v == [slug |-> e.slug, key |-> e.key]
    <2>1. v \in linker.vocab /\ Mentioned(e, e.post)
      BY <1>1, <1>2, <1>6 DEF LinkerFollows
    <2>2. v \in Entries
      BY <1>5, <1>6, <2>1
    <2>3. v.slug = e.slug /\ v.key = e.key
      OBVIOUS
    <2> HIDE DEF v
    <2> QED
      BY <2>1, <2>2, <2>3, EntriesAreRows
  <1>7. ASSUME "blog_link" \in current, NEW p \in posts, NEW e \in FindMentions(Text[p], Entries)
        PROVE  \E d \in edges : d.post = p /\ Gram(d) = Gram(e) /\ RankOf(d) <= RankOf(e)
    <2>1. /\ e \in Entries
          /\ \E i \in DOMAIN Text[p] :
               /\ Stands(Gram(e), Text[p], i)
               /\ \A d \in Entries : Stands(Gram(d), Text[p], i) => Len(Gram(d)) <= Len(Gram(e))
      BY DEF FindMentions
    <2>2. PICK v \in linker.vocab : Gram(v) = Gram(e) /\ RankOf(v) <= RankOf(e)
      BY <1>5, <1>7, <2>1
    <2>3. v \in FindMentions(Text[p], linker.vocab)
      BY <1>5, <1>7, <2>1, <2>2 DEF FindMentions
    <2> DEFINE d == [post |-> p, slug |-> v.slug, key |-> v.key]
    <2>4. d \in edges
      BY <1>1, <1>2, <1>7, <2>3 DEF LinkerFollows
    <2>5. d.post = p /\ d.slug = v.slug /\ d.key = v.key
      OBVIOUS
    <2> HIDE DEF d
    <2>6. Gram(d) = Gram(v) /\ RankOf(d) = RankOf(v)
      BY <2>5 DEF Gram, RankOf
    <2> QED
      BY <2>2, <2>4, <2>5, <2>6
  <1>8. LinksComplete'
    BY <1>2, <1>4, <1>6, <1>7 DEF LinksComplete, Mentioned
  <1>9. LinkerFollows'
    BY <1>3 DEF LinkerFollows
  <1> QED
    BY <1>8, <1>9 DEF LinksInv

LEMMA LinksInvStep == LinksInv /\ [Next]_vars => LinksInv'
  <1> SUFFICES ASSUME LinksInv, [Next]_vars PROVE LinksInv'
    OBVIOUS
  <1>1. LinkerFollows /\ LinksComplete
    BY DEF LinksInv
  <1>2. CASE UNCHANGED vars
    BY <1>2, LinksStand DEF vars, canonVars, layerVars, blogVars
  <1>3. CASE TableStep /\ UNCHANGED <<edges, linker, blogVars>> /\ current' = current \ Outdated
    <2>1. "blog_link" \in current' => "blog_link" \in current /\ UNCHANGED <<rowId, rowSlug, posts>>
      BY <1>3 DEF Outdated
    <2> QED
      BY <1>3, <2>1, LinksStand
  <1>4. CASE PeopleStep /\ UNCHANGED <<canonVars, edges, linker, blogVars>>
    <2>1. \/ UNCHANGED current \/ current' = current \cup {"people"} \/ current' = current \ {"people"}
      BY <1>4 DEF PeopleStep, ReadRecognitions, ClearPersonLayer, InsertPeople, InsertRecognitionPeople,
                  BuildRaises
    <2>2. "blog_link" \in current' => "blog_link" \in current
      BY <2>1
    <2> QED
      BY <1>4, <2>2, LinksStand DEF canonVars, blogVars
  <1>5. CASE PeopleDies /\ UNCHANGED <<tableVars, edges, linker, blogVars>>
    BY <1>5, LinksStand DEF PeopleDies, tableVars, blogVars
  <1>6. CASE BlogStep /\ UNCHANGED <<canonVars, edges, linker>>
    <2>1. \/ current' = current \ Outdated
          \/ UNCHANGED posts /\ (UNCHANGED current \/ current' = current \cup {"blog_extract"})
      BY <1>6 DEF BlogStep, Discover, StartFetch, StartExtract, EndCrawl
    <2>2. "blog_link" \in current' => "blog_link" \in current /\ UNCHANGED <<rowId, rowSlug, posts>>
      BY <1>6, <2>1 DEF Outdated, canonVars
    <2> QED
      BY <1>6, <2>2, LinksStand
  <1>7. CASE BlogDies /\ UNCHANGED <<tableVars, edges, linker>>
    BY <1>7, LinksStand DEF BlogDies, CrawlDies, tableVars
  <1>8. CASE LinkDies
    <2>1. linker' = NoLink /\ "blog_link" \notin current'
      BY <1>8 DEF LinkDies
    <2>2. linker'.pc = "off" /\ linker' = [pc |-> linker'.pc, vocab |-> linker'.vocab, todo |-> linker'.todo]
      BY <2>1 DEF NoLink
    <2> QED
      BY <2>1, <2>2 DEF LinksInv, LinkerFollows, LinksComplete
  <1>9. CASE LinkStep /\ UNCHANGED <<canonVars, blogVars>>
    <2>1. Entries' = Entries /\ UNCHANGED posts
      BY <1>9 DEF Entries, canonVars, blogVars
    <2>2. CASE ReadEntities
      <3>1. PICK v \in Vocabularies(Entries) : linker' = [pc |-> "clear", vocab |-> v, todo |-> {}]
        BY <2>2 DEF ReadEntities
      <3>2. linker'.pc = "clear" /\ linker'.vocab = v /\ linker'.todo = {}
        BY <3>1
      <3> QED
        BY <2>1, <3>1, <3>2 DEF LinksInv, LinkerFollows, LinksComplete
    <2>3. CASE ClearLinks
      <3>1. /\ linker.pc = "clear" /\ edges' = {} /\ UNCHANGED current
            /\ linker' = [pc |-> "posts", vocab |-> linker.vocab, todo |-> posts]
        BY <1>1, <2>3 DEF ClearLinks, LinkerFollows
      <3>2. linker'.pc = "posts" /\ linker'.vocab = linker.vocab /\ linker'.todo = posts
        BY <3>1
      <3> QED
        BY <1>1, <2>1, <3>1, <3>2 DEF LinksInv, LinkerFollows, LinksComplete
    <2>4. CASE EndLink
      BY <1>9, <2>4, EndLinkKeeps
    <2>5. CASE \E p \in Post : LinkPost(p)
      BY <1>9, <2>5, LinkPostKeeps
    <2> QED
      BY <1>9, <2>2, <2>3, <2>4, <2>5 DEF LinkStep
  <1> QED
    BY <1>2, <1>3, <1>4, <1>5, <1>6, <1>7, <1>8, <1>9 DEF Next

LEMMA LinksInit == Init => LinksInv
  <1> SUFFICES ASSUME Init PROVE LinksInv
    OBVIOUS
  <1>1. edges = {} /\ current = {} /\ linker = NoLink
    BY DEF Init
  <1> QED
    BY <1>1 DEF LinksInv, LinkerFollows, LinksComplete, NoLink

(***************************************************************************)
(* After a `blog extract` since whose start no page came every English     *)
(* page is a post, and after a `blog link` since whose reading nothing it  *)
(* read changed every edge names a row by its slug and every mention that  *)
(* no longer one covers has an edge, of its name and of no later table.    *)
(* (blog.extract, blog.link, build_vocab, find_mentions, migration 018.)   *)
(***************************************************************************)
THEOREM LinksResolve == Spec => []EdgesResolve
  <1> DEFINE J == CorpusInv /\ known \cup pages \subseteq Post /\ LinksInv
  <1>1. Init => J
    BY CorpusInit, LinksInit
  <1>2. J /\ [Next]_vars => J'
    BY CorpusInvStep, PagesStep, LinksInvStep
  <1>3. J => EdgesResolve
    BY DEF CorpusInv, LinksInv, EdgesResolve
  <1> HIDE DEF J
  <1> QED
    BY <1>1, <1>2, <1>3, PTL DEF Spec
=============================================================================
