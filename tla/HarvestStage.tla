---------------------------- MODULE HarvestStage ----------------------------
(***************************************************************************)
(* The harvest of the listing (harvest.py): establish how many pages there *)
(* are, then for every page that is not done load it, archive it, enqueue  *)
(* its node ids and only then mark it done; give a page up for this run    *)
(* after MaxPageAttempts.  A Run is a terminal from which the command is   *)
(* started again after it ended or died.  The site's listing is static.    *)
(* Next to it somebody starts fetch, which looks at its gate count by      *)
(* count (preflight.py) and only then asks for the lock (cli.py); what it  *)
(* does with the queue is the subject of FetchStage.                       *)
(***************************************************************************)
EXTENDS Naturals, FiniteSets, FiniteSetsExt

CONSTANTS
  Node,             \* node ids
  Site,             \* the listing: Site[p] is the set of ids on page p
  ItemsPerPage,     \* ITEMS_PER_PAGE
  MaxPageAttempts,  \* MAX_PAGE_ATTEMPTS
  ScanBound,        \* the 10**9 of a scan without a known end
  Run, NoRun,
  Fetcher,          \* the terminal from which fetch is started
  Sequential,       \* PIPELINE_MODE = 'sequential'
  Quirks,           \* what the site may do besides failing, see AllQuirks
  MaxFaults         \* crashes and statements that raise, all together

(***************************************************************************)
(* no_total  the first page renders without "Displaying 1 - 60 of N"       *)
(* bare      a page renders its table without the anchors that hold ids    *)
(***************************************************************************)
AllQuirks == {"no_total", "bare"}

SitePages == Cardinality(DOMAIN Site)
SiteNodes == UNION {Site[p] : p \in DOMAIN Site}
SiteTotal == Cardinality(SiteNodes)

TotalPages(t) == (t + ItemsPerPage - 1) \div ItemsPerPage

ASSUME HarvestAssumption ==
  /\ {ItemsPerPage, MaxPageAttempts, ScanBound} \subseteq Nat \ {0}
  /\ Site \in [0 .. SitePages - 1 -> SUBSET Node]
  /\ IsFiniteSet(SiteNodes)
  /\ TotalPages(SiteTotal) = SitePages
  /\ ScanBound >= SitePages
  /\ NoRun \notin Run /\ Fetcher \notin Run \cup {NoRun}
  /\ Sequential \in BOOLEAN /\ Quirks \subseteq AllQuirks /\ MaxFaults \in Nat

Page == 0 .. ScanBound - 1

VARIABLES
  total,     \* meta.reported_total, 0 when there is none
  hstate,    \* harvest_state.status, "none" for a page without a row
  listings,  \* pages with a listing row in raw_pages
  queued,    \* node ids with a row in fetch_queue
  lock,      \* holder of the advisory lock
  run,       \* the local variables of a harvest
  fetch,     \* the local variables of a fetch: pc, with the gate or --force, the total it read
  faults

vars == <<total, hstate, listings, queued, lock, run, fetch, faults>>

(***************************************************************************)
(* pc, the attempt it is in, the total it works with, the pages that were  *)
(* done when it began, the page it is at, the end of its window and the    *)
(* ids it has just loaded.                                                 *)
(***************************************************************************)
Off == [pc |-> "off", attempt |-> 1, total |-> 0, done |-> {}, page |-> 0, last |-> 0, ids |-> {}]

Pcs == {"off", "total", "resume", "next", "load", "save", "enqueue", "done", "failed"}

Local == [pc : Pcs, attempt : 1..MaxPageAttempts, total : Nat, done : SUBSET Page,
          page : 0..ScanBound, last : 0..ScanBound, ids : SUBSET Node]

Counts == {"count done", "count failed", "count queued"}
Command == [pc : {"off", "lock", "crawl"} \cup Counts, mode : {"gate", "force"}, total : Nat]
NoFetch == [pc |-> "off", mode |-> "gate", total |-> 0]

TypeOK ==
  /\ total \in Nat
  /\ hstate \in [Page -> {"none", "done", "failed"}]
  /\ listings \subseteq Page
  /\ queued \subseteq Node
  /\ lock \in Run \cup {NoRun, Fetcher}
  /\ run \in [Run -> Local]
  /\ fetch \in Command
  /\ faults \in 0..MaxFaults

Init ==
  /\ total = 0
  /\ hstate = [p \in Page |-> "none"]
  /\ listings = {} /\ queued = {}
  /\ lock = NoRun
  /\ run = [r \in Run |-> Off]
  /\ fetch = NoFetch
  /\ faults = MaxFaults

-----------------------------------------------------------------------------
Goto(r, pc) == run' = [run EXCEPT ![r].pc = pc]

DonePages == {p \in Page : hstate[p] = "done"}
FailedPages == {p \in Page : hstate[p] = "failed"}

\* (Mutant: the lock is not asked for.)
StartHarvestUnlocked(r, first, count) ==
  /\ run[r].pc = "off"
  /\ run' = [run EXCEPT ![r] = [Off EXCEPT !.pc = "total", !.page = first,
       !.last = IF count > 0 /\ first + count < ScanBound THEN first + count ELSE ScanBound]]
  /\ UNCHANGED <<total, hstate, listings, queued, lock, faults>>

\* The `harvest` command with --start-page first and --max-pages count (0
\* for none).  The window's end is capped once the total is known.
StartHarvest(r, first, count) ==
  /\ run[r].pc = "off"
  /\ Sequential => lock = NoRun
  /\ lock' = IF Sequential THEN r ELSE lock
  /\ run' = [run EXCEPT ![r] = [Off EXCEPT !.pc = "total", !.page = first,
       !.last = IF count > 0 /\ first + count < ScanBound THEN first + count ELSE ScanBound]]
  /\ UNCHANGED <<total, hstate, listings, queued, faults>>

\* The end of every path: locals are gone and the lock's connection closed.
Exit(r) ==
  /\ run' = [run EXCEPT ![r] = Off]
  /\ lock' = IF lock = r THEN NoRun ELSE lock

\* The page count a run works with, from meta or from the first page.
WorkWith(r, t) ==
  run' = [run EXCEPT ![r].pc = "resume", ![r].total = t, ![r].attempt = 1,
                     ![r].last = IF t = 0 THEN @ ELSE Min({@, TotalPages(t)})]

CachedTotal(r) ==
  /\ run[r].pc = "total" /\ run[r].attempt = 1
  /\ total # 0
  /\ WorkWith(r, total)
  /\ UNCHANGED <<total, hstate, listings, queued, lock, faults>>

EstablishTotal(r) ==
  /\ run[r].pc = "total"
  /\ total = 0 \/ run[r].attempt > 1
  /\ \/ WorkWith(r, SiteTotal) /\ total' = SiteTotal
     \/ "no_total" \in Quirks /\ WorkWith(r, 0) /\ UNCHANGED total
  /\ UNCHANGED <<hstate, listings, queued, lock, faults>>

EstablishFails(r) ==
  /\ run[r].pc = "total"
  /\ total = 0 \/ run[r].attempt > 1
  /\ IF run[r].attempt < MaxPageAttempts
     THEN run' = [run EXCEPT ![r].attempt = @ + 1] /\ UNCHANGED lock
     ELSE Exit(r)
  /\ UNCHANGED <<total, hstate, listings, queued, faults>>

\* (Mutant: pages that failed count as dealt with.)
ResumeSkipsFailed(r) ==
  /\ run[r].pc = "resume"
  /\ run' = [run EXCEPT ![r].pc = "next", ![r].done = DonePages \cup FailedPages]
  /\ UNCHANGED <<total, hstate, listings, queued, lock, faults>>

\* get_done_harvest_pages is read once.
Resume(r) ==
  /\ run[r].pc = "resume"
  /\ run' = [run EXCEPT ![r].pc = "next", ![r].done = DonePages]
  /\ UNCHANGED <<total, hstate, listings, queued, lock, faults>>

NextPage(r) ==
  LET todo == {p \in run[r].page .. run[r].last - 1 : p \notin run[r].done} IN
  /\ run[r].pc = "next"
  /\ \/ todo = {} /\ Exit(r)
     \/ \E p \in todo :
          /\ \A q \in todo : p <= q
          /\ run' = [run EXCEPT ![r].pc = "load", ![r].page = p, ![r].attempt = 1]
          /\ UNCHANGED lock
  /\ UNCHANGED <<total, hstate, listings, queued, faults>>

-----------------------------------------------------------------------------
IsLast(r) == run[r].total # 0 /\ run[r].page = TotalPages(run[r].total) - 1

\* An attempt at a page fails: again, or give it up for this run.
Retry(r) ==
  IF run[r].attempt < MaxPageAttempts
  THEN run' = [run EXCEPT ![r].pc = "load", ![r].attempt = @ + 1, ![r].ids = {}]
  ELSE run' = [run EXCEPT ![r].pc = "failed", ![r].ids = {}]

Load(r) ==
  /\ run[r].pc = "load"
  /\ \/ /\ run[r].page < SitePages
        /\ run' = [run EXCEPT ![r].pc = "save", ![r].ids = Site[run[r].page]]
     \/ /\ "bare" \in Quirks
        /\ IsLast(r)
        /\ run' = [run EXCEPT ![r].pc = "save", ![r].ids = {}]
  /\ UNCHANGED <<total, hstate, listings, queued, lock, faults>>

\* A timeout, an unreadable question, no table, or no ids on another page.
LoadFails(r) ==
  /\ run[r].pc = "load"
  /\ Retry(r)
  /\ UNCHANGED <<total, hstate, listings, queued, lock, faults>>

SaveListing(r) ==
  /\ run[r].pc = "save"
  /\ listings' = listings \cup {run[r].page}
  /\ Goto(r, "enqueue")
  /\ UNCHANGED <<total, hstate, queued, lock, faults>>

EnqueueIds(r) ==
  /\ run[r].pc = "enqueue"
  /\ queued' = queued \cup run[r].ids
  /\ Goto(r, "done")
  /\ UNCHANGED <<total, hstate, listings, lock, faults>>

\* upsert_harvest_page overwrites whatever the row says.
Upsert(p, status) == hstate' = [hstate EXCEPT ![p] = status]

MoveOn(r) == run' = [run EXCEPT ![r].pc = "next", ![r].page = @ + 1, ![r].attempt = 1, ![r].ids = {}]

MarkDone(r) ==
  /\ run[r].pc = "done"
  /\ Upsert(run[r].page, "done")
  /\ MoveOn(r)
  /\ UNCHANGED <<total, listings, queued, lock, faults>>

MarkFailed(r) ==
  /\ run[r].pc = "failed"
  /\ Upsert(run[r].page, "failed")
  /\ MoveOn(r)
  /\ UNCHANGED <<total, listings, queued, lock, faults>>

-----------------------------------------------------------------------------
\* (Mutant: the exception of the enqueue is only logged.)
StatementSkipped(r) ==
  /\ faults > 0 /\ faults' = faults - 1
  /\ run[r].pc \in {"save", "enqueue"}
  /\ Goto(r, IF run[r].pc = "save" THEN "enqueue" ELSE "done")
  /\ UNCHANGED <<total, hstate, listings, queued, lock>>

\* A statement inside the try block raises: one more failed attempt.
StatementRaises(r) ==
  /\ faults > 0 /\ faults' = faults - 1
  /\ run[r].pc \in {"save", "enqueue", "done"}
  /\ Retry(r)
  /\ UNCHANGED <<total, hstate, listings, queued, lock>>

\* The process dies, or a statement outside the try block ends it.
Crash(r) ==
  /\ faults > 0 /\ faults' = faults - 1
  /\ run[r].pc # "off"
  /\ Exit(r)
  /\ UNCHANGED <<total, hstate, listings, queued>>

Step(r) ==
  \/ CachedTotal(r) \/ EstablishTotal(r) \/ EstablishFails(r)
  \/ Resume(r) \/ NextPage(r)
  \/ Load(r) \/ LoadFails(r)
  \/ SaveListing(r) \/ EnqueueIds(r) \/ MarkDone(r) \/ MarkFailed(r)

Harvest(r) ==
  /\ \/ \E first \in DOMAIN Site, count \in 0..SitePages : StartHarvest(r, first, count)
     \/ Step(r)
     \/ StatementRaises(r)
     \/ Crash(r)
  /\ UNCHANGED fetch

-----------------------------------------------------------------------------
\* The `fetch` command: check_harvest_complete ends it at once when there is
\* no total; --force skips the gate.
StartFetch ==
  /\ fetch.pc = "off"
  /\ \/ total # 0 /\ fetch' = [NoFetch EXCEPT !.pc = "count done", !.total = total]
     \/ fetch' = [NoFetch EXCEPT !.pc = "lock", !.mode = "force"]
  /\ UNCHANGED <<total, hstate, listings, queued, lock, run, faults>>

\* A count.  When it fails the command ends; the counts that it would still
\* read are only printed.
Check(from, to, passed) ==
  /\ fetch.pc = from
  /\ fetch' = IF passed THEN [fetch EXCEPT !.pc = to] ELSE NoFetch
  /\ UNCHANGED <<total, hstate, listings, queued, lock, run, faults>>

CountDone ==
  Check("count done", "count failed", Cardinality(DonePages) = TotalPages(fetch.total))

CountFailed == Check("count failed", "count queued", FailedPages = {})

CountQueued == Check("count queued", "lock", Cardinality(queued) >= fetch.total)

\* _acquire_network_stage: the lock is held, or the command is aborted.
TakeLock ==
  /\ fetch.pc = "lock"
  /\ IF Sequential /\ lock # NoRun
     THEN fetch' = NoFetch /\ UNCHANGED lock
     ELSE /\ fetch' = [fetch EXCEPT !.pc = "crawl"]
          /\ lock' = IF Sequential THEN Fetcher ELSE lock
  /\ UNCHANGED <<total, hstate, listings, queued, run, faults>>

\* fetch_all returns or raises, or the process dies, here or earlier.
EndFetch ==
  /\ fetch.pc # "off"
  /\ fetch' = NoFetch
  /\ lock' = IF lock = Fetcher THEN NoRun ELSE lock
  /\ UNCHANGED <<total, hstate, listings, queued, run, faults>>

Fetch == StartFetch \/ CountDone \/ CountFailed \/ CountQueued \/ TakeLock \/ EndFetch

Next == Fetch \/ \E r \in Run : Harvest(r)

Spec == Init /\ [][Next]_vars

(***************************************************************************)
(* The command is run again without arguments as long as it takes, a run   *)
(* goes on, and a page that is tried again and again loads at some time.   *)
(* A fetch comes to its end (RunEnds of FetchStage).                       *)
(***************************************************************************)
FairSpec ==
  /\ Spec
  /\ WF_vars(EndFetch)
  /\ \A r \in Run :
       /\ SF_vars(StartHarvest(r, 0, 0) /\ UNCHANGED fetch)
       /\ WF_vars(Step(r) /\ UNCHANGED fetch)
       /\ SF_vars(EstablishTotal(r) /\ total' # 0 /\ UNCHANGED fetch)
       /\ \A p \in DOMAIN Site :
            SF_vars(Load(r) /\ run[r].page = p /\ run'[r].ids = Site[p] /\ UNCHANGED fetch)

-----------------------------------------------------------------------------
(***************************************************************************)
(* A page marked done is archived and every id of it is in the queue: it   *)
(* is marked last, so a crash or an error in between leaves it to be done  *)
(* again.  Only the final page, which is accepted without ids, may be done *)
(* and lack them.  (save_raw_page, enqueue_details, upsert_harvest_page.)  *)
(***************************************************************************)
DonePageQueued ==
  \A p \in DonePages :
    /\ p \in listings /\ p < SitePages
    /\ Site[p] \subseteq queued \/ ("bare" \in Quirks /\ p = SitePages - 1)

(***************************************************************************)
(* What the gate in front of fetch asks for, as of one moment.             *)
(***************************************************************************)
HarvestComplete ==
  /\ total # 0
  /\ Cardinality(DonePages) = TotalPages(total)
  /\ FailedPages = {}
  /\ Cardinality(queued) >= total

(***************************************************************************)
(* While a fetch that passed its gate is at work no nomination of the site *)
(* is missing in the queue, although the gate only compares counts, reads  *)
(* them one by one and does so before it has the lock.  In sequential mode *)
(* what it asked for is still so.  (check_harvest_complete, _main)         *)
(***************************************************************************)
GateSound ==
  fetch.mode = "gate" /\ fetch.pc \in {"lock", "crawl"}
    => SiteNodes \subseteq queued /\ (Sequential => HarvestComplete)

(***************************************************************************)
(* In sequential mode a done page stays done: no run gives up a page that  *)
(* another one has harvested in the meantime.                              *)
(***************************************************************************)
DoneStaysDone == [][DonePages \subseteq DonePages']_vars

(***************************************************************************)
(* What no later run repairs: a page beyond the listing that a run without *)
(* a total has recorded as failed (later windows end with the listing), or *)
(* a done page whose ids never came (done pages are not visited again).    *)
(***************************************************************************)
Spoilt ==
  \/ \E p \in FailedPages : p >= SitePages
  \/ \E p \in DonePages : ~(Site[p] \subseteq queued)

(***************************************************************************)
(* "re-run `harvest` to retry them" (the last message of harvest): running *)
(* the command again and again opens the gate of fetch in the end and it   *)
(* stays open, whatever failed before, unless one of those two things has  *)
(* happened; then it stays closed, and no other thing closes it for good.  *)
(***************************************************************************)
GateOpens == <>[](HarvestComplete /\ ~Spoilt) \/ <>[](Spoilt /\ ~HarvestComplete)
=============================================================================
