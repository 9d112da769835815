--------------------------- MODULE EvidenceBuild ---------------------------
(***************************************************************************)
(* The evidence layer (acquisition/evidence.py): for each subject a search *)
(* for pages, and for each page found a task that fetches, filters,        *)
(* archives, extracts and stores it (build), or one call per subject that  *)
(* returns the items at once (research_build).  One process, started again *)
(* after it ended or died; nothing keeps a second one from storing rows    *)
(* next to it.                                                             *)
(***************************************************************************)
EXTENDS Naturals, FiniteSets

CONSTANTS
  Subject, Url,
  Text, NoText,  \* main contents of pages, up to their digest
  Hits,          \* Hits[s]: what a search for s may find
  Bodies,        \* Bodies[u]: the texts a fetch of u may return
  Mentions,      \* <<s, u>>: the page u passes the name gate for s
  Junk,          \* urls that are skipped unseen (is_junk_url, tier E)
  UrlSlots,      \* STEVIE_EVIDENCE_CONCURRENCY
  SearchSlots,   \* STEVIE_EVIDENCE_DISCOVERY_CONCURRENCY
  MaxFaults

ASSUME EvidenceAssumption ==
  /\ Hits \in [Subject -> SUBSET Url]
  /\ Bodies \in [Url -> SUBSET Text]
  /\ NoText \notin Text
  /\ Mentions \subseteq Subject \X Url /\ Junk \subseteq Url
  /\ {UrlSlots, SearchSlots} \subseteq Nat \ {0} /\ MaxFaults \in Nat

VARIABLES
  evidence,  \* winner_evidence; the page of a row is its raw_page_id, by text
  archive,   \* the evidence rows of raw_pages
  mode,      \* "off", "build" or "research"
  subj,      \* where the coroutine of a subject is
  task,      \* where the coroutine of a hit is
  doc,       \* the text it holds
  seen,      \* seen_hashes
  stored,    \* counts["stored"]
  added,     \* history: the rows this run has added
  rivals,    \* history: those another build has added meanwhile
  paid,      \* history: extractions this run has asked for
  faults     \* crashes, raising statements and rows of another build left

tables == <<evidence, archive>>
locals == <<mode, subj, task, doc, seen, stored, added, rivals, paid>>
vars == <<tables, locals, faults>>

Working == {"exists", "fetch", "save", "extract", "insert"}

TypeOK ==
  /\ evidence \in SUBSET [subject : Subject, url : Url, page : Text \cup {NoText}]
  /\ \A e, f \in evidence : e.subject = f.subject /\ e.url = f.url => e = f
  /\ archive \in SUBSET (Url \X Text)
  /\ mode \in {"off", "build", "research"}
  /\ subj \in [Subject -> {"wait", "search", "urls", "over"}]
  /\ task \in [Subject -> [Url -> {"wait", "over"} \cup Working]]
  /\ doc \in [Subject -> [Url -> Text \cup {NoText}]]
  /\ seen \in SUBSET Text
  /\ stored \in Nat
  /\ {added, rivals} \subseteq SUBSET (Subject \X Url)
  /\ paid \in SUBSET (Subject \X Url \X Text)
  /\ faults \in 0..MaxFaults

Fresh(m, pending) ==
  /\ mode' = m
  /\ subj' = [s \in Subject |-> IF s \in pending THEN "wait" ELSE "over"]
  /\ task' = [s \in Subject |-> [u \in Url |-> "over"]]
  /\ doc' = [s \in Subject |-> [u \in Url |-> NoText]]
  /\ seen' = {} /\ paid' = {}
  /\ stored' = 0 /\ added' = {} /\ rivals' = {}

Init ==
  /\ evidence = {} /\ archive = {}
  /\ mode = "off"
  /\ subj = [s \in Subject |-> "over"]
  /\ task = [s \in Subject |-> [u \in Url |-> "over"]]
  /\ doc = [s \in Subject |-> [u \in Url |-> NoText]]
  /\ seen = {} /\ paid = {}
  /\ stored = 0 /\ added = {} /\ rivals = {}
  /\ faults = MaxFaults

-----------------------------------------------------------------------------
Covered == {e.subject : e \in evidence}
Stored(s, u) == \E e \in evidence : e.subject = s /\ e.url = u

\* With STEVIE_EVIDENCE_SKIP_DONE on, subjects with a row are skipped.
Pending(skipDone) == IF skipDone THEN Subject \ Covered ELSE Subject

Build(skipDone) ==
  /\ mode = "off"
  /\ Fresh("build", Pending(skipDone))
  /\ UNCHANGED <<tables, faults>>

ResearchBuild(skipDone) ==
  /\ mode = "off"
  /\ Fresh("research", Pending(skipDone))
  /\ UNCHANGED <<tables, faults>>

\* The semaphore around discover, or around research.
SearchCap == IF mode = "build" THEN SearchSlots ELSE UrlSlots

Search(s) ==
  /\ subj[s] = "wait"
  /\ Cardinality({q \in Subject : subj[q] = "search"}) < SearchCap
  /\ subj' = [subj EXCEPT ![s] = "search"]
  /\ UNCHANGED <<tables, faults, mode, task, doc, seen, stored, added, rivals, paid>>

\* What came for s, a task for each.
Found(s) ==
  /\ \E H \in SUBSET Hits[s] :
       task' = [task EXCEPT ![s] = [u \in Url |-> IF u \in H THEN "wait" ELSE "over"]]
  /\ subj' = [subj EXCEPT ![s] = "urls"]
  /\ UNCHANGED <<tables, faults, mode, doc, seen, stored, added, rivals, paid>>

\* Angles fail one by one; when all of them do, the subject has no hits.
Discovered(s) == mode = "build" /\ subj[s] = "search" /\ Found(s)

Researched(s) == mode = "research" /\ subj[s] = "search" /\ Found(s)

\* research_fail: nothing else of the subject is tried.
ResearchFails(s) ==
  /\ mode = "research" /\ subj[s] = "search"
  /\ subj' = [subj EXCEPT ![s] = "over"]
  /\ UNCHANGED <<tables, faults, mode, task, doc, seen, stored, added, rivals, paid>>

Goto(s, u, pc) == task' = [task EXCEPT ![s][u] = pc]

\* (Mutant: a slot is not given back.)
BusyLeaked == {h \in Subject \X Url : task[h[1]][h[2]] \in Working \cup {"over"}
                                        /\ h[2] \in Hits[h[1]] /\ subj[h[1]] = "urls"}

Busy == {h \in Subject \X Url : task[h[1]][h[2]] \in Working}

\* handle takes a slot.
Handle(s, u) ==
  /\ mode = "build" /\ task[s][u] = "wait"
  /\ Cardinality(Busy) < UrlSlots
  /\ Goto(s, u, IF u \in Junk THEN "over" ELSE "exists")
  /\ UNCHANGED <<tables, faults, mode, subj, doc, seen, stored, added, rivals, paid>>

\* (Mutant: the table is not asked.)
ExistsUnchecked(s, u) ==
  /\ mode = "build" /\ task[s][u] = "exists"
  /\ Goto(s, u, "fetch")
  /\ UNCHANGED <<tables, faults, mode, subj, doc, seen, stored, added, rivals, paid>>

Exists(s, u) ==
  /\ mode = "build" /\ task[s][u] = "exists"
  /\ Goto(s, u, IF Stored(s, u) THEN "over" ELSE "fetch")
  /\ UNCHANGED <<tables, faults, mode, subj, doc, seen, stored, added, rivals, paid>>

\* (Mutant: the digest is remembered only once the page has passed the gate
\* and been given up.)
FetchNotesLate(s, u) ==
  /\ task[s][u] = "fetch"
  /\ \/ Goto(s, u, "over") /\ UNCHANGED <<doc, seen>>
     \/ \E t \in Bodies[u] \ seen :
          IF <<s, u>> \in Mentions
          THEN Goto(s, u, "save") /\ doc' = [doc EXCEPT ![s][u] = t] /\ UNCHANGED seen
          ELSE Goto(s, u, "over") /\ seen' = seen \cup {t} /\ UNCHANGED doc
  /\ UNCHANGED <<tables, faults, mode, subj, stored, added, rivals, paid>>

\* No page or next to no text; a text seen before, for whomever; a page that
\* does not name the subject.  From the answer to the verdict nothing is
\* awaited.
Fetch(s, u) ==
  /\ task[s][u] = "fetch"
  /\ \/ Goto(s, u, "over") /\ UNCHANGED <<doc, seen>>
     \/ \E t \in Bodies[u] \ seen :
          /\ seen' = seen \cup {t}
          /\ IF <<s, u>> \in Mentions
             THEN Goto(s, u, "save") /\ doc' = [doc EXCEPT ![s][u] = t]
             ELSE Goto(s, u, "over") /\ UNCHANGED doc
  /\ UNCHANGED <<tables, faults, mode, subj, stored, added, rivals, paid>>

SaveRawPage(s, u) ==
  /\ task[s][u] = "save"
  /\ archive' = archive \cup {<<u, doc[s][u]>>}
  /\ paid' = paid \cup {<<s, u, doc[s][u]>>}
  /\ Goto(s, u, "extract")
  /\ UNCHANGED <<evidence, faults, mode, subj, doc, seen, stored, added, rivals>>

\* The extractor answers, or the page is dropped.
Extract(s, u) ==
  /\ task[s][u] = "extract"
  /\ \E pc \in {"insert", "over"} : Goto(s, u, pc)
  /\ UNCHANGED <<tables, faults, mode, subj, doc, seen, stored, added, rivals, paid>>

\* A research run goes through the items of a subject one by one.
NextItem(s, u) ==
  /\ mode = "research" /\ task[s][u] = "wait"
  /\ \A v \in Url : task[s][v] \notin Working
  /\ Goto(s, u, IF <<s, u>> \notin Mentions THEN "over" ELSE "exists")
  /\ UNCHANGED <<tables, faults, mode, subj, doc, seen, stored, added, rivals, paid>>

\* A cited source is stored as it came, without a page.
ItemExists(s, u) ==
  /\ mode = "research" /\ task[s][u] = "exists"
  /\ Goto(s, u, IF Stored(s, u) THEN "over" ELSE "insert")
  /\ UNCHANGED <<tables, faults, mode, subj, doc, seen, stored, added, rivals, paid>>

\* on conflict do nothing; it counts as stored all the same.
Store(s, u) ==
  /\ task[s][u] = "insert"
  /\ IF Stored(s, u)
     THEN UNCHANGED <<evidence, added>>
     ELSE /\ evidence' = evidence \cup {[subject |-> s, url |-> u, page |-> doc[s][u]]}
          /\ added' = added \cup {<<s, u>>}
  /\ stored' = stored + 1
  /\ Goto(s, u, "over")
  /\ UNCHANGED <<archive, faults, mode, subj, doc, seen, rivals, paid>>

Insert(s, u) == mode = "build" /\ Store(s, u)
InsertItem(s, u) == mode = "research" /\ Store(s, u)

\* gather returns, whatever became of its tasks.
SubjectDone(s) ==
  /\ subj[s] = "urls"
  /\ \A u \in Url : task[s][u] = "over"
  /\ subj' = [subj EXCEPT ![s] = "over"]
  /\ UNCHANGED <<tables, faults, mode, task, doc, seen, stored, added, rivals, paid>>

End ==
  /\ mode # "off"
  /\ \A s \in Subject : subj[s] = "over"
  /\ Fresh("off", {})
  /\ UNCHANGED <<tables, faults>>

-----------------------------------------------------------------------------
\* (Mutant: the exception of the archive is only logged.)
StatementSkipped(s, u) ==
  /\ faults > 0 /\ faults' = faults - 1
  /\ mode = "build" /\ task[s][u] \in {"exists", "save", "insert"}
  /\ Goto(s, u, IF task[s][u] = "save" THEN "extract" ELSE "over")
  /\ UNCHANGED <<tables, mode, subj, doc, seen, stored, added, rivals, paid>>

\* A statement raises: the hit's task ends.
StatementRaises(s, u) ==
  /\ faults > 0 /\ faults' = faults - 1
  /\ mode = "build" /\ task[s][u] \in {"exists", "save", "insert"}
  /\ Goto(s, u, "over")
  /\ UNCHANGED <<tables, mode, subj, doc, seen, stored, added, rivals, paid>>

\* In a research run the loop over the subject's items ends.
ItemRaises(s, u) ==
  /\ faults > 0 /\ faults' = faults - 1
  /\ mode = "research" /\ task[s][u] \in {"exists", "insert"}
  /\ task' = [task EXCEPT ![s] = [v \in Url |-> "over"]]
  /\ UNCHANGED <<tables, mode, subj, doc, seen, stored, added, rivals, paid>>

Crash ==
  /\ faults > 0 /\ faults' = faults - 1
  /\ mode # "off"
  /\ Fresh("off", {})
  /\ UNCHANGED tables

\* Another crawl, at any time: it has its page archived when it stores the row.
OtherStores(s, u) ==
  /\ faults > 0 /\ faults' = faults - 1
  /\ u \in Hits[s] /\ <<s, u>> \in Mentions /\ ~Stored(s, u)
  /\ \E t \in Bodies[u] :
       /\ archive' = archive \cup {<<u, t>>}
       /\ evidence' = evidence \cup {[subject |-> s, url |-> u, page |-> t]}
  /\ rivals' = rivals \cup {<<s, u>>}
  /\ UNCHANGED <<mode, subj, task, doc, seen, stored, added, paid>>

SubjectStep(s) == Search(s) \/ Discovered(s) \/ Researched(s) \/ ResearchFails(s) \/ SubjectDone(s)

HitStep(s, u) ==
  \/ Handle(s, u) \/ Exists(s, u) \/ Fetch(s, u) \/ SaveRawPage(s, u) \/ Extract(s, u)
  \/ Insert(s, u) \/ NextItem(s, u) \/ ItemExists(s, u) \/ InsertItem(s, u)

Next ==
  \/ \E skipDone \in BOOLEAN : Build(skipDone) \/ ResearchBuild(skipDone)
  \/ \E s \in Subject : SubjectStep(s)
  \/ \E s \in Subject, u \in Url : HitStep(s, u) \/ StatementRaises(s, u) \/ ItemRaises(s, u) \/ OtherStores(s, u)
  \/ End
  \/ Crash

(***************************************************************************)
(* The event loop runs what can run; every call has a timeout.  Nothing    *)
(* obliges anyone to start a build.                                        *)
(***************************************************************************)
Spec ==
  /\ Init /\ [][Next]_vars
  /\ WF_vars(End)
  /\ \A s \in Subject : WF_vars(SubjectStep(s))
  /\ \A s \in Subject, u \in Url : WF_vars(HitStep(s, u))

-----------------------------------------------------------------------------
(***************************************************************************)
(* No text is paid for twice in a run, however many subjects' searches     *)
(* find it and however their tasks interleave.  (seen_hashes in handle.)   *)
(***************************************************************************)
PaidOnce == \A a, b \in paid : a[3] = b[3] => a = b

(***************************************************************************)
(* The page a row of winner_evidence refers to is in the archive, whatever *)
(* raised or crashed between the two.  (save_raw_page and                  *)
(* insert_winner_evidence in handle.)                                      *)
(***************************************************************************)
EvidenceArchived ==
  \A e \in evidence : e.page # NoText => <<e.url, e.page>> \in archive

(***************************************************************************)
(* "extracted = net new inserts this run", and next to another build: what *)
(* a run reports are the rows it added, and at most one more for each row  *)
(* the other has added meanwhile, whose insert was refused and counted all *)
(* the same.  (counts["stored"]; insert_winner_evidence.)                  *)
(***************************************************************************)
ReportsNetNew ==
  /\ Cardinality(added) <= stored
  /\ stored <= Cardinality(added) + Cardinality(rivals)

(***************************************************************************)
(* A run ends: no hit waits for a slot for ever.  (The two semaphores of   *)
(* build.)                                                                 *)
(***************************************************************************)
BuildEnds == mode # "off" ~> mode = "off"
=============================================================================
