# A TLA+ model of the Stevie platform

The platform crawls the nominations of an award site into PostgreSQL, parses the
archived pages, projects them into canonical tables and has people decide which
organizations are the same. It is a set of command-line stages
(`python -m stevie_platform.cli <stage>`) that meet only in the database: there
is no server and no message between processes, but several commands may run at
once, each runs many coroutines, any of them may be killed and is then simply
started again, and almost every statement is a transaction of its own. That is
where the hard questions are, and what this project models.

- [Inventory](#inventory)
- [Modules](#modules)
- [What the runs check](#what-the-runs-check)
- [What is proved](#what-is-proved)
- [Disagreements between code and documentation](#disagreements-between-code-and-documentation)
- [Bounds, fairness, abstractions](#bounds-fairness-abstractions)
- [Not modelled, and the plan](#not-modelled-and-the-plan)

Paths below are relative to `src/src/stevie_platform/`.

## Inventory

| Component | State it keeps | Operations | Hard about it | What makes it correct |
|---|---|---|---|---|
| network lock (`db.py:47`, `cli.py:44`) | advisory lock of an idle session | try, close | held by a connection nothing looks at | one network stage at a time |
| harvest (`acquisition/harvest.py`) | `meta.reported_total`, `harvest_state`, listing rows of `raw_pages`, `fetch_queue` rows | establish total, load, archive, enqueue, mark | three transactions per page, retries, restarts, the set of done pages read once | a page marked done is in the queue; re-running completes, or it is known why not |
| fetch (`acquisition/fetch.py`) | `fetch_queue.status/attempts/raw_page_id`, detail rows of `raw_pages`, an asyncio queue | claim, GET, save, mark, bounce, requeue | workers, crashes between save and mark, workers that outlive the lock, rows left in `fetching`, unconditional updates, a bounded queue with a join | a claimed row is in one hand; verdicts stand; every row settles |
| proxy lanes (`fetch.py:92`) | the same, without a queue | claim 8, fetch one by one | a dying lane strands its batch | the same |
| adaptive rate (`fetch.py:31`) | gap, streak, next slot | wait, ok, block | slots reserved under a lock, bounds of the gap | the configured ceiling is kept |
| gates (`acquisition/preflight.py`) | none | count | counts read one by one while rows move; checked before the lock is taken | a stage starts on a complete dataset |
| parse (`parsing/run.py`) | `parsed_records` | truncate, upsert per page | no lock; `--fresh` truncates first | every archived page is parsed |
| canonicalize (`canonical/pipeline.py`) | all canonical tables, an id cache | truncate, one transaction per record, aliases | cache against rollback, duplicates of a node, decisions made meanwhile | a pure function of records and decisions |
| review (`canonical/review.py`) | `organization_merge_decision`, `organization_review_log` | merge, distinct, related, skip | queue read once, unique loser, two-transaction verdicts, concurrent rebuilds, cycles of merges | merges unite whole classes of names; each verdict recorded; nobody asked twice |
| candidates, features, scoring (`canonical/candidates.py`, `features.py`, `predict.py`) | `organization_merge_candidate`, `model_predictions` | regenerate, compute, score | rows are replaced and ids restart while others hold them | rows, reasons, features and predictions belong to the pair they name |
| model lifecycle (`scorer*.py`, `calibration.py`, `scorer_eval.py`) | `model_registry`, artifact file, predictions | train, calibrate, evaluate, fit-v2 | file and table written apart, frozen flag checked early | what a frozen report is about does not change |
| gold corpora (`benchmark.py`, `active_learning.py`) | jsonl files and manifests | freeze, verify, export | file against manifest against registry | training never meets the benchmark |
| evidence (`acquisition/evidence.py`) | `winner_evidence`, digests seen | discover, fetch, extract, store | hundreds of coroutines on shared sets, partial resume, another build | no text paid for twice in a run; what is reported was added |
| blog corpus (`acquisition/blog.py`) | `meta`'s list of addresses, blog rows of `raw_pages`, `blog_posts` | discover, fetch, extract | each command works from what it read once, page by page; it may die in between | after an extraction every English page is a post |
| people (`canonical/people_pipeline.py`), blog links (`acquisition/blog.py`) | `people`, `recognition_people`, `blog_entity_links` | clear and rebuild | several transactions, over tables that are rebuilt too | complete, and about what exists |
| confidence | a score per entity | truncate, insert in batches | stale after a rebuild | a pure function |
| quality gates, metrics, report | none | queries | they judge what the others did | a correct state passes |

How they interact: harvest fills `fetch_queue`; fetch drains it into `raw_pages`;
parse turns `raw_pages` into `parsed_records`; canonicalize turns those and the
decisions into the canonical tables; candidates and score prepare the review queue
from these, with a model that train, calibrate and evaluate have made; review adds
decisions for the next canonicalize; people and blog link build on the canonical
tables. Gates sit in front of fetch and parse. Only harvest and fetch take the lock.

## Modules

| Module | Models | State |
|---|---|---|
| `FetchQueue` | the statements of `db.py` on `fetch_queue` and `raw_pages` | `rowStatus`, `attempts`, `rawPageId`, `rawPages` |
| `FetchRun` (extends `FetchQueue`) | one `fetch` command: lock, requeue at startup, what a worker does with a row, faults | `lock`, `stage`, `wpc`, `item`, `got`, `stray`, `faults` |
| `FetchStage` (extends `FetchRun`) | `fetch_all` and `_worker`: claim loop, bounded queue, join | `batch`, `inbox`, `escaped` |
| `NodeArchive` | the promise of the acquisition layer about a nomination | `fate`, `archive` |
| `FetchStage_proofs` | theorems about `FetchStage` and, through an instance, about `ProxyFetch` | |
| `ProxyFetch` (extends `FetchRun`) | `_proxy_lane` and its branch of `fetch_all`: lanes that claim for themselves | `batch`, `ended` |
| `HarvestStage` | `harvest`, and a `fetch` beside it up to its end: gate, lock, release | `total`, `hstate`, `listings`, `queued`, `lock`, `run`, `fetch`, `faults` |
| `HarvestStage_proofs` | theorems about `HarvestStage` | |
| `StageGates` (extends `FetchQueue`) | `check_fetch_complete` and `parse_all` next to live fetches and harvests | `parse`, `parsed`, `loose`, `moved` |
| `StageGates_proofs` | theorems about the gate and the parse behind it | |
| `Canonicalize` | `canonicalize`: one transaction per record, id cache, slugs, aliases, truncation | `parsed`, `verdicts`, `rowId`, `rowSlug`, `nextId`, `nextFact`, `fact`, `alias`, `run`, `struck` |
| `CanonicalProjection` | the promise of the canonical tables to their readers | `view` |
| `BlogCorpus` | `blog discover`, `blog fetch`, `blog extract` | `known`, `pages`, `posts`, `crawler` |
| `DerivedLayers` (extends `Canonicalize`, `BlogCorpus`) | `people` and `blog link` over the tables that are rebuilt, reparsed and crawled meanwhile | `people`, `honors`, `builder`, `mixed`, `edges`, `linker`, `current` |
| `DerivedLayers_proofs` | theorems about the rebuild and about the layers over it | |
| `CandidateStage` | keys of raw names and what merge decisions make of them, the blockers, `candidates`, `features`, the batches of `score`, next to a rebuild | `orgs`, `filed`, `closure`, `rows`, `lastId`, `preds`, `found`, `computed`, `scoring` |
| `CandidateStage_proofs` | theorems about `CandidateStage` | |
| `ModelLifecycle` | `train`, `calibrate`, `evaluate`, `score`, `fit-v2`, `export-labels` | `registry`, `artifact`, `preds`, `file`, `components`, `cmd` |
| `ModelLifecycle_proofs` | theorems about `ModelLifecycle` | |
| `MergeReview` | `run_review`, candidates, score, and the merge replay of `canonicalize` | `decisions`, `log`, `home`, `alias`, `candidates`, `scored`, `rebuild`, `session` |
| `NameClasses` | the promise of review and replay: a partition of the names, of which classes are united whole | `root`, `filed`, `shown` |
| `MergeReview_proofs` | theorems about `MergeReview` | |
| `EvidenceBuild` | `build` and `research_build` of the evidence layer | `evidence`, `archive`, `mode`, `subj`, `task`, `doc`, `seen`, `stored`, `added`, `rivals` |
| `EvidenceBuild_proofs` | theorems about `EvidenceBuild` | |
| `MCFetchStage`, `MCProxyFetch`, `MCHarvestStage`, `MCStageGates`, `MCMergeReview`, `MCEvidenceBuild`, `MCDerivedLayers`, `MCCandidateStage`, `MCModelLifecycle` | the instances TLC checks | |

Correspondence. In `FetchRun` a worker's program counter is the name of the
statement it is running, so a crash or an error can strike before it, and with
the fault `stray` the statement may still commit after its client is gone. A
`Run` is a terminal: `StartFetch` may be taken again after every end.
`stage[r]` is where `fetch_all` is: `requeue`, `crawl` (about to claim),
`feed` (putting the batch), `join`, or `closing`. There are two ways for a run to
break off. `Crash` is a process that is killed: its workers and its lock are gone at
once. `Unwind` is an exception in the main coroutine (a claim that raises) or Ctrl-C:
nothing in `fetch_all` cancels the workers (`fetch.py:150-170`), and the `finally` of the
command closes the lock (`cli.py:196-197`) while they go on marking rows, next to
another fetch if one starts; `Exit` is the end of the process, where `asyncio.run`
cancels what is left. `escaped` is a history: the rows that another run's requeue took
out of such hands (or out of those of a run whose lock the server dropped), and
those with a statement that its client has left behind.
`raw_page_id` and the key of `raw_pages` are pairs of a node and a content: the table
is unique on (url, checksum).

`ProxyFetch` shares all of that and has no main loop: a `Worker` is a lane,
`batch[w]` its local list, and the run ends when every lane has found nothing to
claim or is dead. The main coroutine only waits in a `gather`, which cancels the lanes
when it is cancelled, so there is no `Unwind`.

In `HarvestStage` the record `run[r]` holds the local variables of `harvest`;
the site is a function from page numbers to sets of ids. A page beyond the
listing cannot be loaded (no result table), which is what `LoadFails` stands for,
like every other reason to retry. `fetch` is a second command: `StartFetch` reads the
total, `CountDone`, `CountFailed` and `CountQueued` are the statements of its gate, each
of which may see another state, and only then comes `TakeLock`. What a fetch does with
the queue is left to `FetchStage`, so it is one step, `EndFetch`.

In `StageGates` the gate is one action, `Count`, taken four times in the order of the
statements (`Order`); each may see another state. What fetches and harvests do
meanwhile is `FetchWrites(loose)` (defined in `FetchQueue`) and the enqueueing of new rows:
a row goes from pending to fetching, from fetching to done, pending or failed, pages are
added, and to rows in `loose` anything may happen, since `mark_fetched` and
`mark_failed` check no status. That this is all a fetch does, with `escaped` for
`loose`, is not assumed but proved: `FetchStage_proofs!FetchDoesNoMore`. `moved`
is a history: the rows that appeared, or were put back, since the second count.

In `Canonicalize` a `Key` is the natural key of a row of any dimension table or of
`organizations`; `Mentions[r]` is what `_process` looks up for a record, in its
order, and `Entrant[r]` which of these is its `organization_name` (the `Recipient`).
`rowId` and `rowSlug` are the tables, `run.cache` is `_TxnCache`. A record that
commits is one action, and so is one that fails: it touches the cache for a prefix
of its mentions, and then `discard_new` and the rollback undo what it did, but not
the ids the sequences handed out. Slugs are pairs of a name and the number of the
tail; `Numbered` says which number `_unique_slug` finds for each row a record
creates: the first that is not `Taken` by a row there was or by one created before
it. `Recognition` is the row `insert_recognition` writes and `Aliased` what
`upsert_alias` does for a set of retired names. `Closures` is the list of merge
closures the reviewers arrive at, since how they do is the subject of `MergeReview`.

In `DerivedLayers` both builders read in one transaction, clear in another and
write in further ones, and nothing keeps `canonicalize`, a reparse or the crawl of the
blog from running in between: `TableStep`, `PeopleStep`, `LinkStep` and `BlogStep`
interleave freely, and any command may die. `Cascade` is what a truncate takes along
(`people` is on its list, `recognition_people` refers to both; `blog_entity_links` has
no key to follow). Foreign keys refuse what refers to nothing (`BuildRaises`), but they
compare ids, and ids restart: `builder.torn` notes that a truncate came after the
reading, `mixed` that the honors there are were written by such a build. The field
`key` of an edge is a history too: the entity that the slug meant when it was read.
So is `current`: the commands (`people`, `blog extract`, `blog link`) that were not
broken off and whose inputs have not changed since they read them.
The vocabulary is what `build_vocab` makes of the rows: `Specific` has its filters (one
word, or fewer than six letters, only for programs), `Vocabularies` the choice between
rows of one name (programs before categories before organizations; among equals
whichever the database returns first), `FindMentions` the longest match at each place,
of at most eight words. `BlogCorpus` has what makes the posts; `crawler.todo` is
what a command still has to do of what it read when it started. `Plans` bounds how often
each command of the layers may begin.

In `CandidateStage` a name is a sequence of words, some with a comma after them;
`Keyed` is what `norm_key` makes of a word (of "&" nothing, of "L.L.C." three tokens), and
`KeyOf` is `normalize_org` in its order: location segments, legal suffixes (word by
word, across commas), repeated tail. `KeyOrder` lists the keys there can be as a
database column sorts them, which `KeyAssumption` says of it; `NamesBrand(r)` says
that a name is its brand (`BrandOf`) with suffixes and places after it. `Target` is
the key after the merge closure (`closure.get(nk, nk)`), and `filed[r]` the organization
the record went to. A run of `canonicalize` begins with `Truncate` or, with `--keep`,
with `Keep`; both load a closure (any of `Closures`). `remerged` notes that organizations
were kept under another closure than they were made with. `Raw` gives
what a blocker returns, with ids and keys in the order of the keys. Every command
holds its transaction from its first read, so that `Truncate` waits for it; only
`score` lets go, between two batches.

In `ModelLifecycle` a model is what its fit depended on: the command, the
computation of the features, and the labelled pairs. A command is two to three
steps (read; write the file; commit the rows), which is where others come
between and where it may die. A frozen row of the registry has a `Report`: the
held-out predictions its numbers were computed from. `WriteRound` takes any round,
also one that has been exported, and writes all the decisions there are by then.

In `MergeReview` keys are numbers in alphabetical order. `home[k]` is the
organization the records that mention `k` were attached to by the last rebuild
(`NoKey` while it has not come to them); `RecCount` sums them up as
`_org_context` does. A review session keeps a transaction open from its first
read to its next commit, and `TRUNCATE` waits for it, so `Truncate` is only
possible between a commit and the next prompt (pc `free`) or with no session.
The lists of pending pairs are sets: the order by score is left open. The closure is
`Follow(Up)`: from a key along the winners until a key leads to itself or comes up
again, which is what `build_merge_closure` does with a cycle.

In `EvidenceBuild` every hit of a subject is a coroutine; `task[s][u]` names the
call it awaits. What happens between two awaits is one action: from the answer of
the fetch to the verdict of the name gate nothing is awaited, so looking a digest up
and adding it are one step. A research run (`mode = "research"`, `ResearchBuild`)
has actions of its own: `NextItem` takes the items of a subject one by one,
`ItemExists` goes on to `InsertItem` without a fetch, and an exception ends the
subject's loop (`ItemRaises`), not only the item. `OtherStores` is a row of another
build, which the unique constraint then prefers to this one's. `added` (the rows this
run has added), `rivals` (those another has meanwhile) and `paid` are history
variables of the current run.

Definitions marked *Mutant* in a comment are variants of the definition that
follows or precedes, with a plausible bug. Nothing uses them; putting one in
place of the original must break the property named with it in `PROJECT.json`.

## What the runs check

Each run is a `.cfg` of the name given, checked as
`tlc -config <cfg> <module>`.

| Run | Properties | What it shows |
|---|---|---|
| `FetchStage_safety` | `TypeOK`, `ClaimExclusive`, `NoLostClaim`, `FailedExhausted`, `DoneHasArchive`, `KeepsPromise` | two terminals, three workers, two rows, pages that change between attempts, two faults among crashes, exceptions of the main coroutine that leave the workers alive, raising statements and statements that commit late: a claimed row is in one hand unless it escaped, a row in `fetching` that nobody holds is the trace of a fault, nothing is given up early, the archive has what a row names, `NodeArchive` is implemented (so the verdicts on all other rows stand) |
| `FetchStage_live` | `AllSettle`, `RunEnds` | one terminal with two workers and two faults of any of the five kinds: every row settles and every run ends, unless all of its workers have died of raising statements; TLC reaches that hang, and no other |
| `ProxyFetch` | `StrandedByFault`, `AllSettle` | two terminals, three lanes, three rows, two faults: what is stranded was stranded by a fault and waits for the next start, which takes it up |
| `HarvestStage_full` | `DonePageQueued`, `GateSound`, `DoneStaysDone`, `GateOpens` | two terminals with windows, retries, two crashes or raising statements, a site whose first page may lack the total and whose last page may lack its ids, and a fetch beside them; what its gate read in four steps still holds when it has the lock; re-running opens the gate, or one of two named things has spoilt it for ever |
| `StageGates_counts` | `GateHolds`, `ParseCovers` | two rows, one reported, two contents: what the four counts promise next to live fetches, harvests and rows that escaped, and that a gated parse covers it |
| `DerivedLayers` | `CacheLive`, `Isolated`, `SlugsUnique`, `HonorsTrue`, `LayerComplete`, `EdgesResolve`, `IsProjection` | three records, two of one node and one incomplete, organizations and a category that share a name, a merge decided on the way, a fault anywhere, the commands of the layers step by step next to rebuilds (with and without `--keep`), reparses and the crawl: a bad record harms only itself, the tables implement `CanonicalProjection`, the person layer, the posts and the links are complete when nothing changed under their command, and honors never name another award |
| `CandidateStage` | `OneOrgPerBrand`, `RowsTrue`, `ReasonsExact`, `FeaturesOwn`, `PointsHome` | four spellings of three brands, with suffixes and places between commas, two merge closures, six commands that overlap with rebuilds that restart the ids or keep the rows: records share an organization exactly when their brands are the same or merged; rows, reasons, features and pointers belong to the pair they name |
| `MergeReview_replay` | `MergeLogged`, `ImplementsClasses` | two reviewers who may swap every winner, rebuilds at any time, so that cycles of merges happen: `NameClasses` is implemented; it is symmetric in the two reviewers |
| `MergeReview_rebuild` | `AliasAgrees`, `NeverReasked` | one reviewer with a longer queue and both lanes, rebuilds at any time |
| `ModelLifecycle` | `PlattFits`, `FrozenReport`, `ScoresReported`, `RoundKept` | five commands in two terminals with a crash: a calibrator is only applied to the model it was fitted to; what a frozen report was made from stays; every score a frozen version is given is from the model and calibrator of its report; a label leaves its round only for one registered earlier |
| `EvidenceBuild` | `PaidOnce`, `EvidenceArchived`, `ReportsNetNew`, `BuildEnds` | two subjects whose searches share a page and a mirror of it, builds and research runs with a crash, a raising statement or a row of another build: no text is paid for twice in a run, rows name archived pages, the report counts the rows added, off by at most the rows of the other build, no hit waits for a slot for ever |

The properties about which somebody would argue:

- `ClaimExclusive` and `KeepsPromise` speak of every row that has not `escaped`. A row
  escapes only when a requeue takes it out of the hands of a run that is live (which has
  lost its lock, or is closing, or the mode is parallel), or when its client leaves a
  statement behind: the docstring of `requeue_stale_fetching` calls the first impossible.
  Of such rows, `done` and `failed` may be overwritten; `KeepsPromise` adds that only
  rows without a verdict escape, and `DoneHasArchive` and `FailedExhausted` hold of
  them too.
- `NoLostClaim` is stated for a lock that the server does not drop, so `lock_drop` is
  not among the faults of its run; the other five properties are proved with it.
- `RunEnds` and `AllSettle` name the one exception there is: every worker of a run died
  in its except clause, so nobody empties the queue that `put` and `join` wait for.
- `GateHolds` is what the order of the counts buys: as the rows in flight are counted
  last, a row that is being claimed is never missed; only one that bounces back, or
  appears, after the second count can be.
- `GateOpens`: either the gate opens and stays open, or the harvest is `Spoilt` (a
  failed page beyond the listing, or a final page accepted without its ids) and it stays
  closed; the code repairs neither.
- `NeverReasked`: the two sources `is_eligible` asks make up for each other;
  whenever the log entry of a verdict is lost, a decision has settled one of the
  keys.
- `StrandedByFault`: a lane that dies takes its batch along and the run goes on
  and ends well; the rows are not lost but nothing before the next start finds
  them (`fetch.py:128`).
- `HonorsTrue`: ids restart with every rebuild, so an honor that survived one
  would name somebody else's award. The cascade of `truncate_canonical` reaches
  `recognition_people` through its foreign key although it is not on the list. What
  `people` writes after a truncate passes the foreign keys when the ids exist again,
  and may then say what the recognition does not (`mixed`, below).
- `ImplementsClasses`: a merge absorbs one class of names in another, whole
  (`Absorb`), or closes a cycle, and then it disturbs the one class the cycle is in and
  no other (`Entangle`). A rebuild files every record by the classes of one moment.
- `RoundKept`: the first registered file that has a pair speaks for it, and every file
  has all decisions of its time; so exporting a round again can only take over labels of
  rounds registered later. It is stated for exports that do not overlap: two at once may
  lose a registration.
- `OneOrgPerBrand` compares the organizations of two records with the brands their
  names were written from, under the merge decisions; keeping organizations under
  other decisions (`--keep`) is excepted, for they are not filed anew.
- `PlattFits` holds even when train and calibrate overlap on one version,
  because `calibrate` writes back the whole artifact it has read. `FrozenReport`
  and `ScoresReported` do not (see below), and say so in their premises.
- `ReasonsExact`: the acronym blocker finds pairs by an index of initialisms, and
  the property compares that with the predicate on every two names.

Definitions marked *Mutant* in a comment are not part of any model; see the end of
[Modules](#modules).

## What is proved

Every invariant, action property and refinement that a passing run checks is stated
by a theorem; what stays with TLC is at the end of this section.
The theorems hold for every value of the constants that meets the named assumptions
of the modules, which only give constants their types unless something else is said
here. Hypotheses of a single theorem are stated with it. None of the properties is
inductive as it stands; the invariants that are, and why they have to say more:

**`FetchStage_proofs`** (`QueueAssumption`, `RunAssumption`, `StageAssumption`). All but
one hold in both modes and under every fault.

- `TypeCorrect`: `Spec => []TypeOK`.
- `DoneIsArchived`: `Spec => []DoneHasArchive`, and `GivenUpExhausted`:
  `Spec => []FailedExhausted`. Both follow from the invariant `StoredInv`: besides the two
  properties it says that a worker about to run `mark_fetched`, and a stray
  `mark_fetched`, carries a content that is already in the archive for its node (save
  comes first, the archive never shrinks).
- `ClaimsAreExclusive`: `Spec => []ClaimExclusive`. `HandInv` adds where a run has
  nothing in its hands (`EmptyHanded`, `FeedingOnly`) and that every statement left
  behind is of a row that escaped. It uses no lock: a requeue notes what it takes from
  whom, and a claim takes rows that nobody has.
- `FetchDoesNoMore`: every step does to the queue and the archive what `FetchWrites`
  allows, and only rows in `fetching` escape. `StageGates` knows no more of a fetch.
- `VerdictsAreFinal` (`Spec => VerdictFinal`) and `FetchKeepsPromise`
  (`Spec => KeepsPromise`, the refinement of `NodeArchive`), from these two: a
  statement that sets a status is run for a row in `fetching`, or for one that escaped.
- `NoClaimIsLost`: `Spec => []NoLostClaim` under `LockKept` (sequential mode, which is
  the default, and the server does not drop the lock). The lock then says which run is
  live and not closing (`LockIsLive`). The part of the property
  that does not depend on the row (`Excused`: a fault has happened, and every run is
  off, closing, about to requeue, or has a dead worker) is what a fault establishes and a
  later step cannot take away while rows are stranded, because a run that starts
  passes its requeue first.
- `StrandedOnlyByFault`: `ProxyFetch` is instantiated as `Lanes`, and in sequential
  mode `Lanes!Spec => []Lanes!StrandedByFault`, whatever faults there are: its Next
  has neither `lock_drop` nor a late commit. The invariant has the same `Excused`;
  a lane that ended or died holds no batch.

**`HarvestStage_proofs`** (`HarvestAssumption`: the listing has finitely many ids, on
the pages its total says), with the site's quirks and in both modes unless stated.

- `HarvestTypeCorrect`, and `DonePagesAreQueued`: `Spec => []DonePageQueued`, where only
  the ids of a final page that was accepted bare may be missing. `HarvestInv` adds what
  the locals of a run say about the tables at each statement (`Sound`: the page at
  hand is archived from `enqueue` on, its ids are queued at `done`; a total is the
  site's or unknown).
- `GateIsSound`: `Spec => []GateSound`, whatever the site leaves out. In both modes no
  nomination is missing once the third count has passed: the ids in the queue are ids
  of the listing, so as many as the listing has are all of them (a fact about
  cardinalities, `Counted`). In sequential mode the rest of what the gate read is also
  still so when fetch works, although a harvest may have held the lock in between
  (`Complete`): done pages are pages of the listing, so as many as it has are all; no
  run then has a page left to give up, since its window ends at the last page of the
  total that the meta table has (`Known`) and the page at hand was not done (`Alone`).
- `StraysAreForEver`: in both modes, a page beyond the listing that was recorded as
  failed stays so and keeps the gate closed, whatever is run later. This is the safety
  half of what `GateOpens` says of `Spoilt`.
- `DoneIsFinal`: in sequential mode `Spec => DoneStaysDone`. The invariant `Alone`
  adds that only the holder of the lock runs and that the pages it knows to be
  done, with those it has passed, are all that are done.

**`StageGates_proofs`** (`GateAssumption`: the queue is finite and has at least as many
rows as are reported). `GateInv` has what the order of the counts is good for: what has
been established by each count (`Counted`: enough rows done; then none pending; then none
failed; then none in flight, but for rows that escaped, appeared or were put back), each
kept by what a fetch may do; that a done row names a page; and that the cursor of
a parse has every page such a row named when it was opened (`PagesInHand`).

- `GateIsSound`: `Spec => []GateInv`; `GateNeverOpensEarly`: `Spec => []GateHolds`;
  `ParseMissesNothing`: `Spec => ParseCovers`, for any number of rows.

**`DerivedLayers_proofs`** (`CanonAssumption`, `BlogAssumption`, `LayersAssumption`), for
all records, mentions, batches, decisions, posts and numbers of runs and faults.

- `CacheIsLive`: `Spec => []CacheLive`, and `BadRecordsAreIsolated`:
  `Spec => []Isolated`. `RebuildInv` joins them with `LinksLive` (a link of a
  recognition is null or the id of the row there still is) and `Underway` (a
  record is still to come, or its node is recognized, or it was struck). The core
  is that a record which needs a row gets the id of the row there is (`IdsFound`),
  because what the cache holds is live.
- `CanonicalIsProjection`: `Spec => IsProjection`. A record that commits is a
  `Publish`; a truncation is a `Drop`; everything else is a stutter, because with
  `LinksLive` a new row never gets an id that an old recognition holds.
- `SlugsAreUnique`: `Spec => []SlugsUnique`. The rows of one record are numbered
  together, so `Numbered` compares each with those the record created before it.
- `PeopleAreSound`: `Spec => []PeopleInv`, from which `HonorsAreTrue` (`HonorsTrue`)
  and `PeopleAreComplete` (`LayerComplete`). Rebuilds, reparses and deaths come between
  any two transactions of `people`. `BuilderFollows` says what becomes of what it has
  read: recognitions there are, until a truncate tears them away, and all of them,
  until others come; after a truncate only the foreign keys speak (`TruncateTears`).
- `LinksResolve`: `Spec => []EdgesResolve`, from `CorpusInv` (what `blog extract` has not
  come to yet is in its cursor, until another page comes) and `LinksInv` (until the
  entities or the posts change, the vocabulary is one of the entities, and the posts that
  are through have their edges). That every mention which no longer one covers gets its
  edge is about the longest match at its place.

**`CandidateStage_proofs`** (`CandidateAssumption`, `KeyAssumption`), with `candidates`,
`features`, `score` and `canonicalize` interleaved as their transactions allow. The
keys are compared by their place in `KeyOrder`, so it has to list each once.

- `CandidatesAreTrue`: `Spec => []RowsTrue`; what a blocker has returned names two
  organizations by id and key alike, since nothing is truncated under its transaction.
- `ReasonsAreExact`: `Spec => []ReasonsExact`; a blocker that is through has found
  exactly the pairs its predicate holds of (`FoundExact`); for the acronym
  blocker that is the lemma that its index finds what the predicate says.
- `FeaturesAreOwn`: `Spec => []FeaturesOwn`; what `features` has computed for an id is
  true of the row that has this id, if it is still there (ids only grow).
- `PredictionsPointHome`: `Spec => []PointsHome`; the same for what `score` has read.
- `OrganizationsAreBrands`: `Spec => []OneOrgPerBrand`, for names that are written from
  their brand (`\A r \in Record : NamesBrand(r)`), whatever the closures, with `--keep` and
  runs that died. `KeyIsBrand`: `normalize_org` takes off what was added (suffixes in
  segments of their own included), and nothing of the brand. `FiledInv` adds that a
  record is filed under its key, or what the closure puts in its place. Without the
  hypothesis a brand that ends in a suffix or in
  a word said twice is shortened, and the code means it so.
  `MCCandidateStage` evaluates the hypothesis on its names.

**`ModelLifecycle_proofs`** (`ModelsAssumption`).

- `ModelsAreSound`: `Spec => []CalmInv`, with `ModelsTypeOK`. Part 1 (`FitInv`)
  holds whatever runs at once: a registered version has an artifact; a calibrator in
  a file, in a prediction or in a command's locals was fitted to the model next to
  it. From it `CalibratorFitsItsModel`: `Spec => []PlattFits`.
- `FrozenReportStands` (`FrozenReport`) and `ProductionIsReported` (`ScoresReported`).
  Part 2 (`Calm`) needs that no two commands have overlapped so far: then what the
  one that runs has read is still so, predictions of an open version come from its
  artifact (`Aligned`), and a frozen version keeps both. A prediction of a frozen version
  can then only change by `score`, which has read an artifact with a calibrator, and
  that is the one of the report (`ScoresOfFrozen`).
- `LabelsKeepTheirRound`: `Spec => RoundKept`. An export, of whatever round, contains
  what the file had before, as decisions stay (`RoundsInv`); so the first registered file
  with a pair keeps it (a least element by well-foundedness of `<`), and can only lose
  it to one before it that is written again.

**`MergeReview_proofs`** (`ReviewAssumption`), with any number of reviewers, keys,
rebuilds and crashes.

- `ReviewIsSound`: `Spec => []ReviewInv`, and from it `MergesAreLogged` (`MergeLogged`)
  and `AliasesFollowTheRecords` (`AliasAgrees`). The first needs that a loser has one
  decision and that the roles in a reviewer's question are those of the pair; the
  second that a rebuild places records by the closure it loaded, not by the
  decisions there are now (`RebuildFollows`).
- `VerdictsStay`: `Spec => [](ReviewInv /\ MemoryInv)`: a pair with a verdict is
  never eligible again, with any number of reviewers.
- `NeverAskedTwice`: `Spec => NeverReasked` for one reviewer (`OneReviewer`), as the
  property says; with two, the queue that one has read goes stale while the other
  answers.
- `ReviewIsAPartition`: `Spec => ImplementsClasses`, for any number of reviewers, any
  swaps, cycles, and rebuilds at any time. The roots of `NameClasses` are `Closure`,
  `filed` is what the rebuild under way has loaded, `shown` is `home`. A committed merge is
  `Unite`; `Truncate` is `Withdraw`; loading is `Open`, a record is a `Show` by what was
  loaded, the end a `Close`; all else stutters.
- `MergesStayTogether`: `Spec => MergesStick`, which says of one decision
  what this says of whole behaviours: names once merged stay together, unless the
  decision closes a cycle.
- Both rest on what one more decision does to the walk along the winners, shown for any
  function on the keys, cycles included: the walk of a class that is not the
  loser's is the same as before (`OthersStay`); the loser's class now ends where the winner
  does (`Absorbed`), for the walk does not come back (`NoReturn`); or the winner's walk
  ended at the loser, and then every key of that class still ends in it (`Entangled`).
  `Chain` is a recursive function on `0..Keys`; what is needed of it is shown by counting
  (`Counting`, induction for one set, from the least element of a set of numbers)
  and, for the end of the walk, by the pigeonhole principle (`RepeatThere`).

**`EvidenceBuild_proofs`** (`EvidenceAssumption`).

- `EvidenceIsSound`: `Spec => []EvidenceInv`: two tasks never hold the same text
  (`OwnTexts`), what was paid for is in the hands of the task that paid
  (`PaidHeld`), past `save` the text is in the archive, and once a task has
  asked, its row is not there, unless another build put it there (`Sound`). `Counted`
  assigns to every insert that was counted a row of this run or of the other.
- From it `EachTextPaidOnce` (`PaidOnce`), `EvidenceHasItsPage` (`EvidenceArchived`) and
  `CountIsNetNew` (`ReportsNetNew`), for builds and research runs, whatever raises and
  whatever another build stores meanwhile.

Only model-checked:

- liveness (`AllSettle` of both fetch stages, `RunEnds`, `GateOpens`, `BuildEnds`):
  the provers have no fairness and no `ENABLED`.
- what TLC refutes: `DryRunLeavesNothing` (below).

## Disagreements between code and documentation

One is a run that TLC must find violated; the quotations are in `PROJECT.json`.

| Run | Property | In short |
|---|---|---|
| `ModelLifecycle_dry_run` | `DryRunLeavesNothing` | `train --no-persist` ("don't write registry/artifact/predictions") writes the artifact file. TLC's trace is a version that was never registered; the same statements replace the file of a registered version, and as the frozen check asks for the flag too (`scorer.py:208`), also of a frozen one |

More was met while modelling and has no run of its own. Acquisition:

- `db.py:562` says that the lock guarantees that no other fetch is live. The
  lock's session is idle and nothing looks at it until it is closed; when the
  server drops it (fault `lock_drop`), or the main coroutine raises and closes it while
  its workers go on (fault `unwind`), a second fetch requeues rows of the first.
- `harvest.py:127` lets the final page have no ids, and marks it done: its row is
  then in no queue and no later harvest visits it. The gate's third count
  notices (theorem `GateIsSound`), but nothing can open it again (`Spoilt` in
  `GateOpens`).
- the gate on orphaned winners (`gates.py:46`) asks for a row of the direct
  winner; after a chain of merges, correctly replayed, the middle key has none.
- `review.py:35` says "Every action is also written to organization_review_log";
  a merge verdict whose insert conflicts is rolled back before it is logged
  (`review.py:229`) and is recorded nowhere.
- `evidence.py:774` drops "syndicated/mirror" copies by a set shared by all
  subjects and filled before the name gate, so a page that names two subjects is
  stored for one of them, although the table is unique per subject and url.
- `evidence.py:1017` takes the number a run reports for the rows it added. Next to
  another build it may be more, by at most the rows that one has added meanwhile
  (`ReportsNetNew`): an insert that the constraint refuses is counted too.
- `evidence.py:799`: two builds at once are kept apart by no lock; both find a page
  missing and both pay for it. `evidence.py:721`: a subject with one stored document
  counts as done, so that the rest of its documents are skipped after a restart.
- `fetch.py:12` says "failures bounce back to 'pending'"; `mark_failed` raising in
  the except clause (`fetch.py:87`) ends the worker, and when all are gone the run
  hangs holding the lock. With proxies it goes on, and a dead lane's batch waits
  for the next start (`fetch.py:128`).
- `harvest.py:158` says "re-run `harvest` to retry them"; without a total the window
  has no end (`harvest.py:112`), and failed pages beyond the listing are in no
  later window (`Spoilt`; theorem `StraysAreForEver`).
- `preflight.py:4` promises "a COMPLETE dataset or not at all". The gate asks whether at
  least as many rows are done as were reported; with more rows than that, one that
  bounces or is enqueued between the counts (`preflight.py:50`) slips through.
  `GateHolds` says what does hold.

Merges and the canonical tables:

- `experiments/entity_resolution/M0_DECISION_STORE_DESIGN.md:150` rules cycles out
  (`CyclesForbidden`); `review.py:216` does not: a reviewer swaps, or a rebuild between
  two pairs of a session turns the proposed direction around. The closure then maps each
  key of the cycle to itself. What `ImplementsClasses` establishes is that this
  disturbs no class but the cycle's own.
- `pipeline.py:222` calls the replay deterministic and independent of order; the
  winner's row takes name and slug of whichever record mentions it first, and rows
  are read in no order.
- migration 018 keys blog edges "on the STABLE slug … so edges survive a canonical
  rebuild"; a slug's number depends on that order too, so that after a rebuild an edge
  may lead to another entity of the name. `EdgesResolve` is about the time until one.
- `people_pipeline.py:18` works on through a rebuild that comes between its
  transactions: when the ids it has read exist again, its honors may say what the
  recognitions do not (`mixed` in `HonorsTrue`), until the next `people`.
- `canonicalize` started twice at once is stopped by nothing (it takes no lock), and
  the ids of both restart.
- `confidence` is not cleared by `canonicalize` (`confidence.py:95`), and the
  counters of created rows do not go back with a rollback.

Candidates and models:

- `candidates.py:149` and `features.py:227` say that blockers and features agree;
  `normalize_for_features` drops articles and splits hyphens first, so for such
  keys they do not. `FeaturesOwn` says for which they do.
- `rare_tokens` speaks of documents and counts occurrences (`candidates.py:188`).
- `score` between two batches has no transaction: a rebuild may restart the ids its
  rows are known by (`predict.py:73`; `slipped` in `PointsHome`).
- `evaluate` freezes a version that was never calibrated (`scorer_eval.py:118`), and
  two at once both write their report.
- training a version again keeps its `calibration` column (`scorer.py:277`), and
  the old predictions of the pairs outside the corpus (`scorer.py:258`): `ScoresReported`
  is about the scores a frozen version is given, not about those it inherits.
- `score --rescore` replaces the predictions a frozen report was made from, which
  migration 011 wants "reproducible" (`rescored` in `FrozenReport`); a command that
  dies between the artifact and its rows leaves the two apart (`torn`); an `evaluate`
  that freezes the version after `train` has asked (`scorer.py:208`) does not stop it
  (`overlapped`).
- `assert_no_contamination` in `run_fit_v2` is given a set the benchmark was
  already taken out of and cannot fire.
- running an earlier round of `export-labels` again, which `active_learning.py:178` calls
  idempotent, writes all the decisions there are by then, and so takes labels over from
  rounds that are listed after it (`RoundKept` says that this is the only way); two
  exports at once may lose a registration (`active_learning.py:213`).

## Bounds, fairness, abstractions

Bounds. `MaxFaults` and `MaxCrashes` count faults; two are enough for a fault
during the recovery from another. `MaxAttempts = 2` distinguishes the last
attempt from the others; `attempts` saturates there because the code only
compares it with the bound. `FetchStage` has two rows, claimed one at a time, so that a
second claim, a full queue and a row in other hands happen; `ProxyFetch` has a batch of
two of three rows, so that a lane dies with a row still to come. Two contents let a page
change. Two faults kill both workers of a team, or let a run unwind and another
die. In the harvest a listing of two pages, the last one short, with `ScanBound = 3` for
the `10**9` of an open window has a page beyond the end. Three keys are the smallest
cycle that is not a repeated pair. Two terminals, because each race here is between a
live actor and one other. `EvidenceBuild`: two subjects, three pages, two texts and
two slots, so that a page is found by both searches, a mirror carries its text,
and a task has to wait; one fault, of any kind (a row of another build included), in any of
the runs that follow each other. `StageGates`: two rows of which one is reported, so that
one can slip past the counts; the module allows anything to rows that escaped, so more
rows only repeat the same.

`DerivedLayers`: three records, parsed in one batch: two of one node, of which one is
incomplete, and one of another that shares an entity; two organizations and a category
of one name, and one post that mentions that name twice, once in a longer one; two
runs of `canonicalize` and one fault, so that one
follows a crash or a truncation with other decisions, or keeps the rows and meets nodes
that have been recognized. The commands of the layers run
in one of three constellations (`Plans`): two builds of the people, two links with an
extract, a crawl with two extracts, each next to every rebuild and reparse.
`CandidateStage`: six commands, the shortest that puts a rebuild between
two that hold ids and has each command in it; its four names are written with and
without suffix, places between commas and article, as an acronym and its expansion (the
list of keys has one more, that no name has), with a rare token that two of the keys
share (where a token stops being rare is left to the proofs); two closures. `ModelLifecycle`: five commands (train,
calibrate, evaluate and two more) on one version, since versions share nothing but the
corpora; one pair of the benchmark and one other, two rounds; it is symmetric in the
terminals.

Deadlock is checked except in `FetchStage_safety` and `FetchStage_live`, where all
workers of a team may die: there the program really hangs. `CandidateStage` and
`ModelLifecycle` may stop when no command is left, which `Done` stands for.

Fairness. `FetchStage!FairSpec`: weak fairness of each task of the event loop, which
runs whatever is ready, and of starting the command again (the docstring of
`fetch.py`: "Re-running picks up where it left off"). Nothing is assumed of the
site, which may answer every GET with an error. In `FetchStage_live` two raising
statements may kill both workers, which the properties name (`WorkersGone`); lanes may
all die and their run still ends, so those of `ProxyFetch` need no exception.
`HarvestStage!FairSpec` adds that a page tried again and again loads at some time (a site
that never answers keeps the gate closed rightly), and that the operator re-runs the command, hence strong fairness
for the start and for the loads; a fetch ends (`EndFetch`), which `RunEnds` of
`FetchStage` says, or its lock would keep every harvest out.
`EvidenceBuild!Spec`: weak fairness of every coroutine, since each call it awaits
has a timeout; whoever is waiting at a semaphore gets a slot in the end, as asyncio serves waiters in order (weak fairness
is enough on the instance, where a hit that has left never returns). Nobody is
obliged to start a build.

Abstractions. Response bodies are model values; a captcha, a timeout and a
missing table are one failure; waits and backoff have no duration; wording,
logging, counters for progress and `crawl_runs` are left out. Each SQL statement
is atomic, as PostgreSQL makes it; multi-row statements under READ COMMITTED
are safe here because rows are locked by the update. `_org_context` reads the
two counts of a pair in one step of the model. The hits of a search carry no url
twice (`TavilyDiscovery` sees to it; a list given by hand is trusted), and which
pages pass the name gate for a subject is a constant. The evidence layer's token
budget only delays. A mapping from every definition
to its lines is in `PROJECT.json`. Trigram
similarity, the extraction of persons and which names a post mentions are constants;
a fit is identified by its inputs (it is deterministic), and its numbers are left
out. Files are written atomically. In `DerivedLayers` every command runs once at a time,
and parse, reparse and `canonicalize` do not overlap each other (two rebuilds at once
are among the disagreements above); posts are known by their address, which is
the key of `blog_posts`; the edges of a post to an edition are left out;
which entries of a sitemap are posts and which pages have an English text are constants.

## Not modelled, and the plan

- `AdaptiveRate` (`fetch.py:31`): a gap in seconds between requests, of which no
  other state depends. Its bounds are one line each; nothing but real time would
  tell a right rate from a wrong one.
- quality gates, metrics and report: queries that count and print. What they
  judge is stated as properties of the stages instead.
- confidence: a pure score, truncated and inserted in batches, which only reports read.
- freezing and verifying the gold corpora, the split by hash, the statistics of
  the benchmark: functions of files. `ModelLifecycle` has the part that commands
  share (rounds, the corpus, what is held out).
- the parsing of pages and posts, and the pace of `blog fetch`; text normalization beyond
  `normalize_org`; dates.
- the numerics of the models (scikit-learn), the search and extraction services,
  the JSON mirrors of the tables, `crawl_runs`, `migrate`, `status`.
- the experiments and scripts, which share no state with the pipeline.

Hazards no property covers (they are listed in `PROJECT.json`, with the reason): the gate
on orphaned winners rejects a correct replay of a chain (`gates.py:46`); a `parse
--fresh` that dies leaves a partial table (`parsing/run.py:19`); a conflict takes the log
entry of a merge verdict with it (`review.py:229`); an artifact is written before its row
(`scorer.py:251`), and the frozen check is stale by the time `train` commits
(`scorer.py:208`). For these the code does nothing that a property could be about.

What is left. To model: the token budget and the rotation of keys in the evidence
layer; `recall` and the sample runs; the gates over coverage. To prove: what a step
of `BlogCorpus` may do to posts that are there, as an action property; what the
normalization of names does to any token sequence, which needs induction over data.
