---------------------------- MODULE Canonicalize ----------------------------
(***************************************************************************)
(* The rebuild of the canonical tables from parsed_records (pipeline.py,   *)
(* ops.py): every record in a transaction of its own, the entities it      *)
(* mentions found in a cache, found in their table or created, then its    *)
(* recognition.  A record that fails is rolled back, and so is the cache.  *)
(* A key is a row of one of the dimension tables or of organizations by    *)
(* its natural key; an organization's party is created with it.            *)
(***************************************************************************)
EXTENDS Naturals, Sequences, FiniteSets

CONSTANTS
  Rec, Node, NodeOf,   \* parsed records, and the node each was parsed from
  Batches,             \* the sets of records a `parse` may find in the archive
  Complete,            \* the records with is_complete
  Key, Org, TableOf,   \* natural keys, the organizations among them, tables
  Mentions,            \* Mentions[r]: what r names, in the order of _process
  Entrant,             \* which of them is its organization_name, 0 without one
  Name,                \* display names, up to slugify
  Closures,            \* merge closures reviewers arrive at, one by one
  NoFact, NoSlug,
  MaxRuns, MaxFaults

\* An id no table has handed out.
NoId == 0

ASSUME CanonAssumption ==
  /\ NodeOf \in [Rec -> Node] /\ Batches \subseteq SUBSET Rec /\ Complete \subseteq Rec /\ Org \subseteq Key
  /\ TableOf \in [Key -> STRING]
  /\ Mentions \in [Rec -> Seq([key : Key, name : Name])]
  /\ \A r \in Rec : Entrant[r] \in {0} \cup DOMAIN Mentions[r]
  /\ Closures \in Seq([Org -> Org]) /\ Closures # <<>>
  /\ MaxRuns \in Nat /\ MaxFaults \in Nat
  /\ NoSlug \notin Name \X (Nat \ {0})
  /\ NoFact \notin [rec : Rec, id : Nat, links : [Key -> Nat], recipient : Nat]

VARIABLES
  parsed,   \* the records in parsed_records
  verdicts, \* how many of Closures the durable decisions have reached
  rowId,    \* id of the row with a natural key, NoId without one
  rowSlug,  \* its name and the number that makes the slug unique
  nextId,   \* the id sequences; no rollback takes an id back
  nextFact, \* the one of the recognitions
  fact,     \* recognitions, by node_id
  alias,    \* organization_alias: id of the row a retired key points to
  run,      \* the locals of a canonicalize
  struck,   \* history: records a fault made fail in this run
  budget    \* runs and faults left

canonVars == <<parsed, verdicts, rowId, rowSlug, nextId, nextFact, fact, alias, run, struck, budget>>

Slug == Name \X (Nat \ {0})
Fact == [rec : Rec, id : Nat, links : [Key -> Nat], recipient : Nat]
NoCache == [k \in Key |-> NoId]
Off == [pc |-> "off", todo |-> {}, verdict |-> 1, cache |-> NoCache]

CanonTypeOK ==
  /\ parsed \in SUBSET Rec /\ struck \in SUBSET Rec
  /\ verdicts \in 1..Len(Closures)
  /\ rowId \in [Key -> Nat] /\ rowSlug \in [Key -> Slug \cup {NoSlug}]
  /\ nextId \in Nat /\ nextFact \in Nat
  /\ fact \in [Node -> Fact \cup {NoFact}]
  /\ alias \in [Org -> Nat]
  /\ run \in [pc : {"off", "load", "records", "aliases", "refresh"}, todo : SUBSET Rec,
              verdict : 1..Len(Closures), cache : [Key -> Nat]]
  /\ budget \in [runs : 0..MaxRuns, faults : 0..MaxFaults]

CanonInit ==
  /\ parsed = {} /\ struck = {} /\ verdicts = 1
  /\ rowId = NoCache /\ rowSlug = [k \in Key |-> NoSlug] /\ nextId = 0 /\ nextFact = 0
  /\ fact = [n \in Node |-> NoFact]
  /\ alias = [o \in Org |-> NoId]
  /\ run = Off
  /\ budget = [runs |-> MaxRuns, faults |-> MaxFaults]

Fault == budget.faults > 0 /\ budget' = [budget EXCEPT !.faults = @ - 1]

-----------------------------------------------------------------------------
\* `parse` adds records; a node has two when its page changed.
Parse(S) ==
  /\ run.pc = "off" /\ ~(S \subseteq parsed)
  /\ parsed' = parsed \cup S
  /\ UNCHANGED <<verdicts, rowId, rowSlug, nextId, nextFact, fact, alias, run, struck, budget>>

\* `reparse`: truncate parsed_records cascades into the recognitions and
\* restarts their ids as well.
Reparse ==
  /\ run.pc = "off" /\ parsed # {}
  /\ parsed' = {}
  /\ fact' = [n \in Node |-> NoFact] /\ nextFact' = 0
  /\ UNCHANGED <<verdicts, rowId, rowSlug, nextId, alias, run, struck, budget>>

\* Reviewers reach the next closure, at any time.
Decide ==
  /\ verdicts < Len(Closures)
  /\ verdicts' = verdicts + 1
  /\ UNCHANGED <<parsed, rowId, rowSlug, nextId, nextFact, fact, alias, run, struck, budget>>

\* (Mutant: the recognitions are not truncated.)
TruncateOrganizations ==
  /\ rowId' = NoCache /\ rowSlug' = [k \in Key |-> NoSlug] /\ nextId' = 0
  /\ alias' = [o \in Org |-> NoId]
  /\ UNCHANGED <<fact, nextFact>>

\* truncate_canonical, restarting the ids.
TruncateCanonical ==
  /\ rowId' = NoCache /\ rowSlug' = [k \in Key |-> NoSlug] /\ nextId' = 0
  /\ fact' = [n \in Node |-> NoFact] /\ nextFact' = 0
  /\ alias' = [o \in Org |-> NoId]

\* `canonicalize`, or with --keep what is there stays.
Start(fresh) ==
  /\ run.pc = "off" /\ budget.runs > 0
  /\ budget' = [budget EXCEPT !.runs = @ - 1]
  /\ run' = [Off EXCEPT !.pc = "load"]
  /\ IF fresh THEN TruncateCanonical
              ELSE UNCHANGED <<rowId, rowSlug, nextId, nextFact, fact, alias>>
  /\ struck' = {}
  /\ UNCHANGED <<parsed, verdicts>>

\* The decisions and the records are read once, in no order.
Load ==
  /\ run.pc = "load"
  /\ run' = [run EXCEPT !.pc = "records", !.todo = parsed, !.verdict = verdicts]
  /\ UNCHANGED <<parsed, verdicts, rowId, rowSlug, nextId, nextFact, fact, alias, struck, budget>>

-----------------------------------------------------------------------------
\* The key a mention resolves to under the merge decisions.
Target(k, v) == IF k \in Org THEN Closures[v][k] ELSE k
At(r, i) == Target(Mentions[r][i].key, run.verdict)
Needs(r) == {At(r, i) : i \in DOMAIN Mentions[r]}
FirstAt(r, k) == CHOOSE i \in DOMAIN Mentions[r] : At(r, i) = k /\ \A j \in 1..(i - 1) : At(r, j) # k

Hit(k) == run.cache[k] # NoId
Created(r) == {k \in Needs(r) : ~Hit(k) /\ rowId[k] = NoId}

\* get_or_create, behind the cache; a new row takes some id of its own.
IdFor(r, k) ==
  IF Hit(k) THEN run.cache[k]
  ELSE IF rowId[k] # NoId THEN rowId[k]
  ELSE nextId + CHOOSE i \in DOMAIN Mentions[r] : At(r, i) = k

\* recipient_party_id: the organization of the entrant, if it names one.
Recipient(r) == IF Entrant[r] = 0 THEN NoId ELSE IdFor(r, At(r, Entrant[r]))

\* The name of a new row is that of the first mention.
NameOf(r, k) == Mentions[r][FirstAt(r, k)].name

\* (Mutant: the slug is looked up among the rows of before the record.)
TakenBefore(r, k, number) == {rowSlug[j] : j \in {x \in Key : TableOf[x] = TableOf[k]}}

\* The slugs in the table of k as the transaction sees it.
Taken(r, k, number) ==
  {rowSlug[j] : j \in {x \in Key : TableOf[x] = TableOf[k]}} \cup
  {<<NameOf(r, j), number[j]>> : j \in {x \in Created(r) : /\ TableOf[x] = TableOf[k]
                                                           /\ FirstAt(r, x) < FirstAt(r, k)}}

\* _unique_slug: the first number that is free after the name.
Numbered(r, number) ==
  \A k \in Created(r) :
    /\ <<NameOf(r, k), number[k]>> \notin Taken(r, k, number)
    /\ \A n \in 1..(number[k] - 1) : <<NameOf(r, k), n>> \in Taken(r, k, number)

\* No foreign key of the record's rows points at a row that is not there.
KeysHold(r) ==
  \A k \in Needs(r) : Hit(k) => \E j \in Key : TableOf[j] = TableOf[k] /\ rowId[j] = run.cache[k]

\* (Mutant: the cache keeps the ids of a record that was rolled back.)
KeepNew(cache, pending) == cache

DiscardNew(cache, pending) == [k \in Key |-> IF k \in pending THEN NoId ELSE cache[k]]

\* insert_recognition: the ids of all that the record names.
Recognition(r) ==
  [rec |-> r, id |-> nextFact + 1,
   links |-> [k \in Key |-> IF k \in Needs(r) THEN IdFor(r, k) ELSE NoId],
   recipient |-> Recipient(r)]

\* The record commits: its entities, its recognition and its ledger rows.
ProcessRecord(r) ==
  /\ run.pc = "records" /\ r \in run.todo \cap Complete
  /\ KeysHold(r) /\ fact[NodeOf[r]] = NoFact
  /\ rowId' = [k \in Key |-> IF k \in Created(r) THEN IdFor(r, k) ELSE rowId[k]]
  /\ \E number \in [Created(r) -> 1..(Cardinality(Key) + 1)] :
       /\ Numbered(r, number)
       /\ rowSlug' = [k \in Key |-> IF k \in Created(r) THEN <<NameOf(r, k), number[k]>> ELSE rowSlug[k]]
  /\ nextId' = nextId + Len(Mentions[r])
  /\ nextFact' = nextFact + 1
  /\ fact' = [fact EXCEPT ![NodeOf[r]] = Recognition(r)]
  /\ run' = [run EXCEPT !.todo = @ \ {r},
       !.cache = [k \in Key |-> IF k \in Needs(r) THEN IdFor(r, k) ELSE @[k]]]
  /\ UNCHANGED <<parsed, verdicts, alias, struck, budget>>

\* It raises somewhere on the way: a fault after any of its mentions, or a
\* key or the unique node_id does not hold.
RecordFails(r) ==
  /\ run.pc = "records" /\ r \in run.todo \cap Complete
  /\ IF KeysHold(r) /\ fact[NodeOf[r]] = NoFact
     THEN Fault /\ struck' = struck \cup {r}
     ELSE UNCHANGED <<struck, budget>>
  /\ \E i \in 0..Len(Mentions[r]) :
       LET touched == {At(r, j) : j \in 1..i}
       IN run' = [run EXCEPT !.todo = @ \ {r}, !.cache =
            DiscardNew([k \in Key |-> IF k \in touched THEN IdFor(r, k) ELSE @[k]],
                       {k \in touched : ~Hit(k)})]
  /\ nextId' = nextId + Len(Mentions[r])
  /\ nextFact' = nextFact + 1
  /\ UNCHANGED <<parsed, verdicts, rowId, rowSlug, fact, alias>>

SkipRecord(r) ==
  /\ run.pc = "records" /\ r \in run.todo \ Complete
  /\ run' = [run EXCEPT !.todo = @ \ {r}]
  /\ UNCHANGED <<parsed, verdicts, rowId, rowSlug, nextId, nextFact, fact, alias, struck, budget>>

EndRecords ==
  /\ run.pc = "records" /\ run.todo = {}
  /\ run' = [run EXCEPT !.pc = "aliases"]
  /\ UNCHANGED <<parsed, verdicts, rowId, rowSlug, nextId, nextFact, fact, alias, struck, budget>>

\* The losers of the closure this run has loaded, and where they lead.
Winner(o) == Target(o, run.verdict)
Retired == {o \in Org : Winner(o) # o}

\* upsert_alias, for the retired keys in S.
Aliased(S) == [o \in Org |-> IF o \in S THEN rowId[Winner(o)] ELSE alias[o]]

\* One transaction; a retired key whose winner has no row gets no alias.
WriteAliases ==
  /\ run.pc = "aliases"
  /\ alias' = Aliased({o \in Retired : rowId[Winner(o)] # NoId})
  /\ run' = [run EXCEPT !.pc = "refresh"]
  /\ UNCHANGED <<parsed, verdicts, rowId, rowSlug, nextId, nextFact, fact, struck, budget>>

\* refresh_derived, and the end of the command.
Refresh ==
  /\ run.pc = "refresh"
  /\ run' = Off
  /\ UNCHANGED <<parsed, verdicts, rowId, rowSlug, nextId, nextFact, fact, alias, struck, budget>>

\* What was committed stays; the locals, the cache among them, are gone.
Crash ==
  /\ run.pc # "off"
  /\ Fault
  /\ run' = Off
  /\ UNCHANGED <<parsed, verdicts, rowId, rowSlug, nextId, nextFact, fact, alias, struck>>

CanonStep ==
  \/ Load \/ EndRecords \/ WriteAliases \/ Refresh
  \/ \E r \in Rec : ProcessRecord(r) \/ RecordFails(r) \/ SkipRecord(r)

-----------------------------------------------------------------------------
(***************************************************************************)
(* Between two records every cached id is the id of the committed row with *)
(* that key, whatever failed before: a record that is rolled back takes    *)
(* its own ids out of the cache.  (_TxnCache.mark and discard_new.)        *)
(***************************************************************************)
CacheLive == \A k \in Key : Hit(k) => rowId[k] = run.cache[k]

(***************************************************************************)
(* "isolate one bad record, keep going": when the records are done, every  *)
(* complete record that was not itself struck has its node recognized, in  *)
(* whatever order the records came and whichever others failed; and so it  *)
(* is when --keep goes on where a crash left the tables.                   *)
(***************************************************************************)
Isolated ==
  run.pc \in {"aliases", "refresh"} =>
    \A r \in (parsed \cap Complete) \ struck : fact[NodeOf[r]] # NoFact

(***************************************************************************)
(* Two rows of a table never share a slug, although two organizations may  *)
(* share a display name, even within one record.  (_unique_slug.)          *)
(***************************************************************************)
SlugsUnique ==
  \A j, k \in Key : /\ j # k /\ TableOf[j] = TableOf[k] /\ NoId \notin {rowId[j], rowId[k]}
                   => rowSlug[j] # rowSlug[k]

(***************************************************************************)
(* "Canonical is a pure projection of parsed_records": the tables refine   *)
(* CanonicalProjection, where a fact is a record and the entities it names *)
(* under the decisions, by their natural keys; the ids, the cache, the     *)
(* order of the records and the failures do not show.                      *)
(***************************************************************************)
Named(f) == {k \in Key : rowId[k] # NoId /\ f.links[k] = rowId[k]}

NamedBy(r, v) == {Target(Mentions[r][i].key, v) : i \in DOMAIN Mentions[r]}
Facts == {[rec |-> r, names |-> NamedBy(r, v)] : r \in Complete, v \in DOMAIN Closures}

Projection == INSTANCE CanonicalProjection WITH
  Fact <- Facts,
  view <- [n \in Node |-> IF fact[n] = NoFact THEN NoFact
                          ELSE [rec |-> fact[n].rec, names |-> Named(fact[n])]]

IsProjection == Projection!Spec
=============================================================================
