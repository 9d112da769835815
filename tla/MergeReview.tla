----------------------------- MODULE MergeReview -----------------------------
(***************************************************************************)
(* Organizations: the review of candidate pairs (canonical/review.py), the *)
(* durable decisions it leaves (migrations 009 and 015) and their replay   *)
(* when the canonical tables are rebuilt (canonical/pipeline.py).  A key   *)
(* is a normalized name; numbers stand for their alphabetical order.       *)
(***************************************************************************)
EXTENDS Naturals, FiniteSets, FiniteSetsExt

CONSTANTS
  Keys,       \* how many normalized names the parsed records mention
  Records,    \* Records[k]: how many records mention k
  Acronym,    \* pairs the acronym blocker finds; the others find the rest
  Session,    \* reviewers' terminals
  Limit,      \* --limit of a session
  MaxFaults   \* crashes of a session or a rebuild

Key == 1..Keys
NoKey == 0
Pair == {p \in Key \X Key : p[1] < p[2]}

ASSUME ReviewAssumption ==
  /\ {Keys, Limit} \subseteq Nat \ {0}
  /\ Records \in [Key -> Nat \ {0}]
  /\ Acronym \subseteq Pair
  /\ MaxFaults \in Nat

VARIABLES
  decisions,   \* organization_merge_decision
  log,         \* organization_review_log: pairs and actions
  home,        \* norm_key of the organizations row a key's records point to
  alias,       \* norm_key of the row an organization_alias row points to
  candidates,  \* organization_merge_candidate
  scored,      \* pairs with a row in model_predictions
  rebuild,     \* the locals of a canonicalize run
  session,     \* the locals of a review session
  given,       \* history: the verdicts reviewers have given
  faults

tables == <<decisions, log, home, alias, candidates, scored>>
vars == <<tables, rebuild, session, given, faults>>

Verdict == {"merge", "distinct", "related"}
Decision == {d \in [loser : Key, winner : Key, verdict : {"merge", "distinct"}] :
               d.loser # d.winner}

Rebuilding == [pc : {"off", "load", "records", "aliases"},
               losers : SUBSET Key, closure : [Key -> Key]]

(***************************************************************************)
(* pc: "free" between two pairs right after a commit or a rollback, "next" *)
(* between two pairs with a transaction open, "ask" at the prompt, "log"   *)
(* between the two transactions of a distinct verdict.                     *)
(***************************************************************************)
Sitting == [pc : {"off", "free", "next", "ask", "log"}, queue : SUBSET Pair,
            pair : Pair \cup {<<>>}, winner : Key \cup {NoKey}, loser : Key \cup {NoKey}]

TypeOK ==
  /\ decisions \in SUBSET Decision
  /\ \A d, e \in decisions : d.loser = e.loser => d = e
  /\ log \in SUBSET (Pair \X Verdict) /\ given \in SUBSET (Pair \X Verdict)
  /\ home \in [Key -> Key \cup {NoKey}] /\ alias \in [Key -> Key \cup {NoKey}]
  /\ candidates \in SUBSET Pair /\ scored \in SUBSET Pair
  /\ rebuild \in Rebuilding
  /\ session \in [Session -> Sitting]
  /\ faults \in 0..MaxFaults

Nowhere == [k \in Key |-> NoKey]
Itself == [k \in Key |-> k]
NoRebuild == [pc |-> "off", losers |-> {}, closure |-> Itself]
NoSitting == [pc |-> "off", queue |-> {}, pair |-> <<>>, winner |-> NoKey, loser |-> NoKey]

\* The state after a first canonicalize, with nothing reviewed yet.
Init ==
  /\ decisions = {} /\ log = {} /\ given = {}
  /\ home = Itself /\ alias = Nowhere
  /\ candidates = {} /\ scored = {}
  /\ rebuild = NoRebuild
  /\ session = [s \in Session |-> NoSitting]
  /\ faults = MaxFaults

-----------------------------------------------------------------------------
Settled == {d.loser : d \in decisions}
Merges == {d \in decisions : d.verdict = "merge"}
MergedAway == {d.loser : d \in Merges}

\* The winner of a key that lost a merge; any other key leads to itself.
Up == [k \in Key |-> IF k \in MergedAway THEN (CHOOSE d \in Merges : d.loser = k).winner ELSE k]

\* (Mutant: chains are not followed.)
ClosureOneHop == Up

Chain(up, k) ==
  LET chain[i \in 0..Keys] == IF i = 0 THEN k ELSE up[chain[i - 1]]
  IN chain

Repeats(chain) == {i \in 1..Keys : \E j \in 0..(i - 1) : chain[j] = chain[i]}

\* From every key follow the winners until one that is no loser or, in a
\* cycle, until a key comes up again.
Follow(up) ==
  [k \in Key |->
     LET chain == Chain(up, k)
     IN IF up[chain[Keys]] = chain[Keys] THEN chain[Keys] ELSE chain[Min(Repeats(chain))]]

\* build_merge_closure
Closure == Follow(Up)

Organizations == {home[k] : k \in Key} \ {NoKey}

\* rec_count of _org_context: the records at an organization, 0 without a row.
RecCount(k) == Cardinality(UNION {{j} \X (1..Records[j]) : j \in {i \in Key : home[i] = k}})

-----------------------------------------------------------------------------
\* A session has the tables it read locked until it commits, rolls back or
\* ends; TRUNCATE waits for that.
Reading(s) == session[s].pc \in {"next", "ask"}

\* canonicalize: truncate_canonical and its commit.
Truncate ==
  /\ rebuild.pc = "off"
  /\ \A s \in Session : ~Reading(s)
  /\ home' = Nowhere /\ alias' = Nowhere /\ candidates' = {}
  /\ rebuild' = [rebuild EXCEPT !.pc = "load"]
  /\ UNCHANGED <<decisions, log, scored, session, given, faults>>

LoadDecisions ==
  /\ rebuild.pc = "load"
  /\ rebuild' = [pc |-> "records", losers |-> MergedAway, closure |-> Closure]
  /\ UNCHANGED <<tables, session, given, faults>>

\* The records that mention k, each in a transaction of its own.
Resolve(k) ==
  /\ rebuild.pc = "records"
  /\ home[k] = NoKey
  /\ home' = [home EXCEPT ![k] = rebuild.closure[k]]
  /\ rebuild' = [rebuild EXCEPT !.pc =
                   IF \A j \in Key \ {k} : home[j] # NoKey THEN "aliases" ELSE "records"]
  /\ UNCHANGED <<decisions, log, alias, candidates, scored, session, given, faults>>

\* (Mutant: the aliases follow the decisions as they are by now.)
WriteFreshAliases ==
  /\ rebuild.pc = "aliases"
  /\ alias' = [k \in Key |-> IF k \in MergedAway THEN Closure[k] ELSE NoKey]
  /\ rebuild' = NoRebuild
  /\ UNCHANGED <<decisions, log, home, candidates, scored, session, given, faults>>

\* One alias for every loser the closure was built from (in a cycle it leads
\* back to the loser itself); all of them in one transaction.
WriteAliases ==
  /\ rebuild.pc = "aliases"
  /\ alias' = [k \in Key |-> IF k \in rebuild.losers /\ rebuild.closure[k] \in Organizations
                             THEN rebuild.closure[k] ELSE NoKey]
  /\ rebuild' = NoRebuild
  /\ UNCHANGED <<decisions, log, home, candidates, scored, session, given, faults>>

\* candidates: recomputed in full from the organizations there are.
Candidates ==
  /\ candidates' = {p \in Pair : p[1] \in Organizations /\ p[2] \in Organizations}
  /\ UNCHANGED <<decisions, log, home, alias, scored, rebuild, session, given, faults>>

\* score: predictions are keyed by the pair and survive the candidates.
Score ==
  /\ scored' = scored \cup candidates
  /\ UNCHANGED <<decisions, log, home, alias, candidates, rebuild, session, given, faults>>

-----------------------------------------------------------------------------
Reviewed == {g[1] : g \in log}

\* (Mutant: the decisions are not asked, only the log.)
EligibleByLog(p) == p \notin Reviewed

\* is_eligible
Eligible(p) == p[1] \notin Settled /\ p[2] \notin Settled /\ p \notin Reviewed

Queue(lane) == {p \in candidates \cap scored : Eligible(p) /\ (p \in Acronym <=> lane = "acronym")}

(***************************************************************************)
(* The `review` command: the queue is read once.  Its order (probability,  *)
(* acronym length) is left open here and in Ask.                           *)
(***************************************************************************)
StartReview(s, lane) ==
  /\ session[s].pc = "off"
  /\ \E Q \in SUBSET Queue(lane) :
       /\ Q # {}
       /\ Cardinality(Q) = Min({Limit, Cardinality(Queue(lane))})
       /\ session' = [session EXCEPT ![s] = [NoSitting EXCEPT !.pc = "next", !.queue = Q]]
  /\ UNCHANGED <<tables, rebuild, given, faults>>

\* choose_winner: the key with more records, the left one of equals.
Winner(p) == IF RecCount(p[2]) > RecCount(p[1]) THEN p[2] ELSE p[1]

Other(p, k) == IF k = p[1] THEN p[2] ELSE p[1]

\* The counts of a pair are read, then the reviewer is asked; nothing checks
\* again whether the pair is still eligible.
Ask(s) ==
  /\ session[s].pc \in {"free", "next"}
  /\ \E p \in session[s].queue :
       session' = [session EXCEPT ![s] =
         [pc |-> "ask", queue |-> @.queue \ {p}, pair |-> p,
          winner |-> Winner(p), loser |-> Other(p, Winner(p))]]
  /\ UNCHANGED <<tables, rebuild, given, faults>>

\* The pair is dealt with in this session.
Turn(s, pc) == session' = [session EXCEPT ![s] =
  [@ EXCEPT !.pc = pc, !.pair = <<>>, !.winner = NoKey, !.loser = NoKey]]

Skip(s) ==
  /\ session[s].pc = "ask"
  /\ Turn(s, "next")
  /\ UNCHANGED <<tables, rebuild, given, faults>>

Gives(s, verdict) == given' = given \cup {<<session[s].pair, verdict>>}
Logs(s, verdict) == log' = log \cup {<<session[s].pair, verdict>>}

\* One row per loser_key: a second one for it violates the unique constraint.
Decides(l, w, verdict) ==
  /\ l \notin Settled
  /\ decisions' = decisions \cup {[loser |-> l, winner |-> w, verdict |-> verdict]}

\* (Mutant: the decision is committed before the log entry is written.)
MergeCommitsFirst(s) ==
  /\ session[s].pc = "ask"
  /\ \E l \in {session[s].loser, session[s].winner} :
       \/ Decides(l, Other(session[s].pair, l), "merge")
       \/ l \in Settled /\ UNCHANGED decisions
  /\ Gives(s, "merge")
  /\ session' = [session EXCEPT ![s].pc = "log"]
  /\ UNCHANGED <<log, home, alias, candidates, scored, rebuild, faults>>

\* The proposed winner or, swapped, the proposed loser; decision and log entry
\* in one transaction.  A conflict rolls both back.
Merge(s) ==
  /\ session[s].pc = "ask"
  /\ \E l \in {session[s].loser, session[s].winner} :
       \/ Decides(l, Other(session[s].pair, l), "merge") /\ Logs(s, "merge")
       \/ l \in Settled /\ UNCHANGED <<decisions, log>>
  /\ Gives(s, "merge")
  /\ Turn(s, "free")
  /\ UNCHANGED <<home, alias, candidates, scored, rebuild, faults>>

\* The smaller key goes in as the loser; a conflict leaves the log entry to do.
Distinct(s) ==
  LET p == session[s].pair IN
  /\ session[s].pc = "ask"
  /\ \/ Decides(p[1], p[2], "distinct")
     \/ p[1] \in Settled /\ UNCHANGED decisions
  /\ Gives(s, "distinct")
  /\ session' = [session EXCEPT ![s].pc = "log"]
  /\ UNCHANGED <<log, home, alias, candidates, scored, rebuild, faults>>

LogDistinct(s) ==
  /\ session[s].pc = "log"
  /\ Logs(s, "distinct")
  /\ Turn(s, "free")
  /\ UNCHANGED <<decisions, home, alias, candidates, scored, rebuild, given, faults>>

Related(s) ==
  /\ session[s].pc = "ask"
  /\ Logs(s, "related") /\ Gives(s, "related")
  /\ Turn(s, "free")
  /\ UNCHANGED <<decisions, home, alias, candidates, scored, rebuild, faults>>

\* The queue is empty, or the reviewer quits.
EndReview(s) ==
  /\ session[s].pc = "ask" \/ (session[s].pc \in {"free", "next"} /\ session[s].queue = {})
  /\ session' = [session EXCEPT ![s] = NoSitting]
  /\ UNCHANGED <<tables, rebuild, given, faults>>

SessionDies(s) ==
  /\ faults > 0 /\ faults' = faults - 1
  /\ session[s].pc # "off"
  /\ session' = [session EXCEPT ![s] = NoSitting]
  /\ UNCHANGED <<tables, rebuild, given>>

RebuildDies ==
  /\ faults > 0 /\ faults' = faults - 1
  /\ rebuild.pc # "off"
  /\ rebuild' = NoRebuild
  /\ UNCHANGED <<tables, session, given>>

Rebuild ==
  \/ Truncate \/ LoadDecisions \/ WriteAliases
  \/ \E k \in Key : Resolve(k)
  \/ RebuildDies

Review(s) ==
  \/ \E lane \in {"main", "acronym"} : StartReview(s, lane)
  \/ Ask(s) \/ Skip(s) \/ Merge(s) \/ Distinct(s) \/ LogDistinct(s) \/ Related(s)
  \/ EndReview(s) \/ SessionDies(s)

Next == Rebuild \/ Candidates \/ Score \/ \E s \in Session : Review(s)

Spec == Init /\ [][Next]_vars

-----------------------------------------------------------------------------
(***************************************************************************)
(* A merge that will be replayed is in the audit trail: no crash and no    *)
(* conflict leaves the decision without its log entry.  (Distinct verdicts *)
(* take two transactions and do not promise this.)                         *)
(***************************************************************************)
MergeLogged ==
  \A d \in Merges : \E p \in Pair : {d.loser, d.winner} = {p[1], p[2]} /\ <<p, "merge">> \in log

(***************************************************************************)
(* An alias leads to the organization that the records of the retired key  *)
(* are at, whatever is decided while the tables are being rebuilt.         *)
(***************************************************************************)
AliasAgrees ==
  \A k \in Key : alias[k] # NoKey => alias[k] = home[k] /\ alias[k] \in Organizations

(***************************************************************************)
(* "Cycles are forbidden at insert time", "keeping the graph a forest"     *)
(* (M0_DECISION_STORE_DESIGN.md, 4.1): the replay takes every name to one  *)
(* that lost no merge.                                                     *)
(***************************************************************************)
CyclesForbidden == \A k \in Key : Closure[k] \notin MergedAway

\* A merge decided in this step leads from the end of its own chain back to it.
ClosesCycle == \E d \in Merges' \ Merges : Closure[d.winner] = d.loser

(***************************************************************************)
(* Names once merged stay together in every later replay, whoever decides  *)
(* what meanwhile, unless a verdict closes a cycle.  (build_merge_closure) *)
(***************************************************************************)
MergesStick ==
  [][decisions' # decisions /\ ~ClosesCycle =>
       LET before == Closure
           after == Closure'
       IN \A j, k \in Key : before[j] = before[k] => after[j] = after[k]]_vars

(***************************************************************************)
(* The review and the replay implement a partition of the names: a merge   *)
(* makes two classes one, whole, or it closes a cycle and disturbs the one *)
(* class the cycle is in; and a rebuild files every record by the classes  *)
(* of a single moment, although reviewers go on deciding, however many     *)
(* they are.  (build_merge_closure and its use in canonicalize)            *)
(***************************************************************************)
Filing == rebuild.pc \in {"records", "aliases"}

Classes == INSTANCE NameClasses
             WITH root <- Closure, filed <- IF Filing THEN rebuild.closure ELSE Nowhere, shown <- home
ImplementsClasses == Classes!Spec

(***************************************************************************)
(* One reviewer at a time is never asked twice about a pair that got a     *)
(* verdict, even if its log entry was lost to a conflict or a crash: the   *)
(* decisions and the log make up for each other.  (is_eligible)            *)
(***************************************************************************)
NeverReasked ==
  [][\A s \in Session :
       session[s].pc # "ask" /\ session'[s].pc = "ask"
         => \A v \in Verdict : <<session'[s].pair, v>> \notin given]_vars
=============================================================================
