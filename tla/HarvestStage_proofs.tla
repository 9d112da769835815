------------------------ MODULE HarvestStage_proofs ------------------------
(***************************************************************************)
(* Theorems about HarvestStage for every listing and every set of runs,    *)
(* whatever the site does and whatever fails.                              *)
(***************************************************************************)
EXTENDS HarvestStage, FiniteSetTheorems, TLAPS

(***************************************************************************)
(* What the locals l of a run say about the tables: the total is the       *)
(* site's or unknown, and the page at hand has gone through the            *)
(* transactions before the one it is at.                                   *)
(***************************************************************************)
Busy == {"load", "save", "enqueue", "done", "failed"}
Loaded == {"save", "enqueue", "done"}

MayBeBare(p) == "bare" \in Quirks /\ p = SitePages - 1

Sound(l) ==
  /\ l \in Local
  /\ l.total \in {0, SiteTotal} /\ l.ids \subseteq SiteNodes
  /\ l.pc \in Busy => l.page < l.last
  /\ l.pc \in Loaded => l.page < SitePages /\ (MayBeBare(l.page) \/ l.ids = Site[l.page])
  /\ l.pc \in {"enqueue", "done"} => l.page \in listings
  /\ l.pc = "done" => l.ids \subseteq queued

\* A fetch behind the gate counts with the total there is, and once past
\* the gate every nomination is queued.
Counted ==
  fetch.pc # "off" /\ fetch.mode = "gate" =>
    /\ total # 0 /\ fetch.total = total
    /\ fetch.pc \in {"lock", "crawl"} => SiteNodes \subseteq queued

HarvestInv ==
  /\ TypeOK
  /\ total \in {0, SiteTotal} /\ queued \subseteq SiteNodes
  /\ \A r \in Run : Sound(run[r])
  /\ \A p \in DonePages : p < SitePages
  /\ Counted
  /\ DonePageQueued

-----------------------------------------------------------------------------
LEMMA SiteFacts ==
  /\ SiteTotal \in Nat
  /\ TotalPages(SiteTotal) = SitePages
  /\ SitePages \in Nat
  /\ SitePages <= ScanBound
  /\ DOMAIN Site = 0 .. SitePages - 1
  /\ \A p \in DOMAIN Site : Site[p] \subseteq SiteNodes
  /\ SiteNodes \subseteq Node
  <1> USE HarvestAssumption
  <1>1. SiteTotal \in Nat
    BY FS_CardinalityType DEF HarvestAssumption, SiteTotal
  <1>2. SitePages \in Nat
    <2>1. ItemsPerPage \in Nat \ {0}
      BY DEF HarvestAssumption
    <2>2. (SiteTotal + ItemsPerPage - 1) \in Nat
      BY <1>1, <2>1
    <2>3. (SiteTotal + ItemsPerPage - 1) \div ItemsPerPage \in Nat
      BY <2>1, <2>2
    <2> QED
      BY <2>3 DEF HarvestAssumption, TotalPages
  <1>3. TotalPages(SiteTotal) = SitePages /\ SitePages <= ScanBound
    BY <1>2 DEF HarvestAssumption
  <1>4. DOMAIN Site = 0 .. SitePages - 1
    BY DEF HarvestAssumption
  <1>5. (\A p \in DOMAIN Site : Site[p] \subseteq SiteNodes) /\ SiteNodes \subseteq Node
    BY <1>4 DEF HarvestAssumption, SiteNodes
  <1> QED
    BY <1>1, <1>2, <1>3, <1>4, <1>5

LEMMA SmallerOfTwo ==
  ASSUME NEW a \in Nat, NEW b \in Nat
  PROVE  Min({a, b}) = IF a <= b THEN a ELSE b
  BY DEF Min

-----------------------------------------------------------------------------
LEMMA HarvestInit == Init => HarvestInv
  <1> SUFFICES ASSUME Init PROVE HarvestInv
    OBVIOUS
  <1> USE SiteFacts, HarvestAssumption DEF Init
  <1>1. Off \in Local
    BY DEF Off, Local, Pcs, Page, HarvestAssumption
  <1>2. TypeOK
    BY <1>1 DEF TypeOK, NoFetch, Command, HarvestAssumption
  <1>3. \A r \in Run : Sound(run[r])
    BY <1>1 DEF Sound, Off, Busy, Loaded
  <1>4. DonePages = {} /\ DonePageQueued
    BY DEF DonePageQueued, DonePages
  <1> QED
    BY <1>2, <1>3, <1>4 DEF HarvestInv, Counted, NoFetch

(***************************************************************************)
(* A step of r that only adds to the tables and marks a page done only     *)
(* when r is there keeps the invariant if it keeps r's own part of it.     *)
(***************************************************************************)
LEMMA OneRunMoves ==
  ASSUME HarvestInv, NEW r \in Run,
         run' = [run EXCEPT ![r] = run'[r]], Sound(run[r])',
         listings \subseteq listings', listings' \subseteq Page,
         queued \subseteq queued', queued' \subseteq SiteNodes,
         total' \in {total, SiteTotal}, UNCHANGED fetch,
         lock' \in Run \cup {NoRun, Fetcher}, faults' \in 0..MaxFaults,
         hstate' \in [Page -> {"none", "done", "failed"}],
         \A p \in Page : hstate'[p] = "done" =>
           hstate[p] = "done" \/ (run[r].pc = "done" /\ p = run[r].page)
  PROVE  HarvestInv'
  <1>1. /\ run \in [Run -> Local] /\ run'[r] \in Local
        /\ \A s \in Run : Sound(run[s])
    BY DEF HarvestInv, TypeOK, Sound
  <1>2. run' \in [Run -> Local] /\ \A s \in Run \ {r} : run'[s] = run[s]
    BY <1>1
  <1>3. TypeOK'
    BY <1>2, SiteFacts DEF HarvestInv, TypeOK
  <1>4. ASSUME NEW s \in Run PROVE Sound(run[s])'
    <2>1. CASE s = r
      BY <2>1
    <2>2. CASE s # r
      <3>1. run'[s] = run[s] /\ Sound(run[s])
        BY <1>1, <1>2, <2>2
      <3> QED
        BY <3>1 DEF Sound
    <2> QED
      BY <2>1, <2>2
  <1>5. DonePageQueued'
    <2> SUFFICES ASSUME NEW p \in Page, hstate'[p] = "done"
                 PROVE  /\ p \in listings' /\ p < SitePages
                        /\ Site[p] \subseteq queued' \/ MayBeBare(p)
      BY DEF DonePageQueued, DonePages, MayBeBare
    <2>1. CASE hstate[p] = "done"
      BY <2>1 DEF HarvestInv, DonePageQueued, DonePages, MayBeBare
    <2>2. CASE run[r].pc = "done" /\ p = run[r].page
      BY <2>2, <1>1 DEF Sound, Loaded
    <2> QED
      BY <2>1, <2>2
  <1>6. \A p \in DonePages' : p < SitePages
    BY <1>1 DEF HarvestInv, DonePages, Sound, Loaded
  <1>7. Counted' /\ total' \in {0, SiteTotal}
    BY DEF HarvestInv, Counted
  <1> QED
    BY <1>3, <1>4, <1>5, <1>6, <1>7 DEF HarvestInv

(***************************************************************************)
(* The gate: ids in the queue are ids of the listing, so as many as the    *)
(* listing has are all of them, whichever run put them there and whatever  *)
(* happens between the counts.                                             *)
(***************************************************************************)
LEMMA FetchStep ==
  ASSUME HarvestInv, Fetch
  PROVE  HarvestInv'
  <1>a. ASSUME NEW from, NEW to, NEW Q, Check(from, to, Q)
        PROVE  UNCHANGED <<total, hstate, listings, queued, lock, run, faults>>
    BY <1>a DEF Check
  <1>b. CountDone \/ CountFailed \/ CountQueued
          => UNCHANGED <<total, hstate, listings, queued, lock, run, faults>>
    BY <1>a, Zenon DEF CountDone, CountFailed, CountQueued
  <1>1. UNCHANGED <<total, hstate, listings, queued, run, faults>>
    BY <1>b DEF Fetch, StartFetch, TakeLock, EndFetch
  <1>2. lock' \in Run \cup {NoRun, Fetcher}
    <2>1. lock' \in {lock, NoRun, Fetcher}
      BY <1>b DEF Fetch, StartFetch, TakeLock, EndFetch
    <2> QED
      BY <2>1 DEF HarvestInv, TypeOK
  <1>3. fetch \in Command /\ total \in Nat
    BY DEF HarvestInv, TypeOK
  <1>4. fetch' = NoFetch => fetch' \in Command /\ Counted'
    BY DEF Counted, NoFetch, Command
  <1>5. ASSUME NEW from \in Counts \cup {"lock"}, NEW to \in Counts \cup {"lock", "crawl"},
               fetch.pc = from, fetch' = [fetch EXCEPT !.pc = to],
               to = "crawl" => from = "lock",
               to = "lock" => Cardinality(queued) >= fetch.total
        PROVE  fetch' \in Command /\ Counted'
    <2>0. fetch = [pc |-> fetch.pc, mode |-> fetch.mode, total |-> fetch.total]
          /\ fetch.mode \in {"gate", "force"} /\ fetch.total \in Nat
      BY <1>3 DEF Command
    <2>1. /\ fetch' \in Command /\ fetch'.pc = to /\ fetch'.mode = fetch.mode
          /\ fetch'.total = fetch.total /\ from # "off"
      <3>1. fetch' = [pc |-> to, mode |-> fetch.mode, total |-> fetch.total]
        BY <1>5, <2>0
      <3> QED
        BY <1>5, <2>0, <3>1 DEF Counts, Command
    <2>2. ASSUME fetch.mode = "gate", Cardinality(queued) >= fetch.total
          PROVE  SiteNodes \subseteq queued
      <3>1. queued \subseteq SiteNodes /\ Cardinality(queued) >= SiteTotal
        BY <1>5, <2>1, <2>2 DEF HarvestInv, Counted
      <3>2. IsFiniteSet(SiteNodes)
        BY HarvestAssumption DEF HarvestAssumption
      <3>3. /\ IsFiniteSet(queued) /\ Cardinality(queued) <= Cardinality(SiteNodes)
            /\ Cardinality(SiteNodes) = Cardinality(queued) => SiteNodes = queued
        BY <3>1, <3>2, FS_Subset
      <3>4. Cardinality(queued) \in Nat /\ Cardinality(SiteNodes) \in Nat
        BY <3>2, <3>3, FS_CardinalityType
      <3> QED
        BY <3>1, <3>3, <3>4 DEF SiteTotal
    <2>3. fetch.mode = "gate" /\ to = "crawl" => SiteNodes \subseteq queued
      BY <1>5 DEF HarvestInv, Counted
    <2>4. fetch.mode = "gate" => total # 0 /\ fetch.total = total
      BY <1>5, <2>1 DEF HarvestInv, Counted
    <2>5. fetch'.mode = "gate" /\ fetch'.pc \in {"lock", "crawl"} => SiteNodes \subseteq queued
      BY <1>5, <2>1, <2>2, <2>3
    <2> QED
      BY <1>1, <2>1, <2>4, <2>5 DEF Counted
  <1>6. fetch' \in Command /\ Counted'
    <2>1. CASE StartFetch
      <3>1. CASE fetch' = [NoFetch EXCEPT !.pc = "lock", !.mode = "force"]
        BY <3>1 DEF NoFetch, Counted, Command
      <3>2. CASE total # 0 /\ fetch' = [NoFetch EXCEPT !.pc = "count done", !.total = total]
        <4>1. /\ fetch' = [pc |-> "count done", mode |-> "gate", total |-> total]
              /\ total # 0 /\ total' = total
          BY <1>1, <3>2 DEF NoFetch
        <4> HIDE <3>2
        <4> QED
          BY <1>3, <4>1 DEF Counted, Counts, Command
      <3> QED
        BY <2>1, <3>1, <3>2 DEF StartFetch
    <2>2. CASE CountDone
      <3>1. /\ fetch.pc = "count done"
            /\ fetch' = NoFetch \/ fetch' = [fetch EXCEPT !.pc = "count failed"]
        BY <2>2 DEF CountDone, Check
      <3> QED
        BY <1>4, <1>5, <3>1 DEF Counts
    <2>3. CASE CountFailed
      <3>1. /\ fetch.pc = "count failed"
            /\ fetch' = NoFetch \/ fetch' = [fetch EXCEPT !.pc = "count queued"]
        BY <2>3 DEF CountFailed, Check
      <3> QED
        BY <1>4, <1>5, <3>1 DEF Counts
    <2>4. CASE CountQueued
      <3>1. /\ fetch.pc = "count queued"
            /\ \/ fetch' = NoFetch
               \/ fetch' = [fetch EXCEPT !.pc = "lock"] /\ Cardinality(queued) >= fetch.total
        BY <2>4 DEF CountQueued, Check
      <3> QED
        BY <1>4, <1>5, <3>1 DEF Counts
    <2>5. CASE TakeLock
      BY <1>4, <1>5, <2>5 DEF TakeLock
    <2>6. CASE EndFetch
      BY <1>4, <2>6 DEF EndFetch
    <2> QED
      BY <2>1, <2>2, <2>3, <2>4, <2>5, <2>6 DEF Fetch
  <1>7. TypeOK'
    BY <1>1, <1>2, <1>6 DEF HarvestInv, TypeOK
  <1> QED
    BY <1>1, <1>6, <1>7 DEF HarvestInv, Sound, DonePageQueued, DonePages

(***************************************************************************)
(* Every step keeps HarvestInv.                                            *)
(***************************************************************************)
LEMMA HarvestStep == HarvestInv /\ [Next]_vars => HarvestInv'
  <1> SUFFICES ASSUME HarvestInv, [Next]_vars PROVE HarvestInv'
    OBVIOUS
  <1>t. /\ TypeOK /\ total \in {0, SiteTotal} /\ queued \subseteq SiteNodes
        /\ \A r \in Run : run[r] \in Local /\ Sound(run[r])
    BY DEF HarvestInv, Sound
  <1>u. /\ total \in Nat /\ hstate \in [Page -> {"none", "done", "failed"}]
        /\ listings \subseteq Page /\ queued \subseteq Node /\ run \in [Run -> Local]
        /\ lock \in Run \cup {NoRun, Fetcher} /\ faults \in 0..MaxFaults
    BY DEF HarvestInv, TypeOK
  <1>o. Off \in Local /\ \A r \in Run : run'[r] = Off => Sound(run[r])'
    BY HarvestAssumption, SiteFacts DEF Off, Local, Pcs, Page, HarvestAssumption, Sound, Busy, Loaded
  <1> USE <1>t, <1>u
  <1>e. ASSUME NEW r \in Run, Exit(r), UNCHANGED <<total, hstate, listings, queued, fetch>>,
               faults' \in 0..MaxFaults
        PROVE  HarvestInv'
    BY <1>e, <1>o, OneRunMoves DEF Exit
  <1>1. ASSUME NEW r \in Run, NEW first \in DOMAIN Site, NEW count \in 0..SitePages,
               StartHarvest(r, first, count), UNCHANGED fetch
        PROVE  HarvestInv'
    <2> DEFINE end == IF count > 0 /\ first + count < ScanBound THEN first + count ELSE ScanBound
    <2>1. run'[r] = [pc |-> "total", attempt |-> 1, total |-> 0, done |-> {},
                     page |-> first, last |-> end, ids |-> {}]
      BY <1>1 DEF StartHarvest, Off
    <2>2. first \in 0..ScanBound /\ end \in 0..ScanBound
      BY SiteFacts, HarvestAssumption DEF HarvestAssumption
    <2>3. Sound(run[r])'
      BY <2>1, <2>2, HarvestAssumption DEF Sound, Local, Busy, Loaded, Pcs, HarvestAssumption
    <2> QED
      BY <1>1, <2>3, OneRunMoves DEF StartHarvest
  <1>w. ASSUME NEW r \in Run, NEW t \in {0, SiteTotal}, WorkWith(r, t), run[r].pc = "total",
               total' \in {total, SiteTotal},
               UNCHANGED <<hstate, listings, queued, lock, fetch, faults>>
        PROVE  HarvestInv'
    <2>1. run[r].last \in Nat /\ run[r].last <= ScanBound
      BY SiteFacts, HarvestAssumption DEF Local, HarvestAssumption
    <2>2. t # 0 => TotalPages(t) = SitePages
      BY SiteFacts
    <2>3. (IF t = 0 THEN run[r].last ELSE Min({run[r].last, TotalPages(t)})) \in 0..ScanBound
      BY <2>1, <2>2, SiteFacts, SmallerOfTwo
    <2>4. run'[r] = [pc |-> "resume", attempt |-> 1, total |-> t, done |-> run[r].done,
                     page |-> run[r].page, ids |-> run[r].ids,
                     last |-> IF t = 0 THEN run[r].last ELSE Min({run[r].last, TotalPages(t)})]
      BY <1>w DEF WorkWith, Local
    <2>5. Sound(run[r])'
      BY <2>3, <2>4, SiteFacts, HarvestAssumption
         DEF Sound, Local, Busy, Loaded, Pcs, HarvestAssumption
    <2> QED
      BY <1>w, <2>5, OneRunMoves DEF WorkWith
  <1>2. ASSUME NEW r \in Run, CachedTotal(r), UNCHANGED fetch PROVE HarvestInv'
    BY <1>2, <1>w DEF CachedTotal
  <1>3. ASSUME NEW r \in Run, EstablishTotal(r), UNCHANGED fetch PROVE HarvestInv'
    BY <1>3, <1>w DEF EstablishTotal
  <1>4. ASSUME NEW r \in Run, EstablishFails(r), UNCHANGED fetch PROVE HarvestInv'
    <2>1. CASE run[r].attempt < MaxPageAttempts
      <3>1. run'[r] = [pc |-> "total", attempt |-> run[r].attempt + 1, total |-> run[r].total,
                       done |-> run[r].done, page |-> run[r].page, last |-> run[r].last,
                       ids |-> run[r].ids]
        BY <1>4, <2>1 DEF EstablishFails, Local
      <3>2. run[r].attempt + 1 \in 1..MaxPageAttempts
        BY <2>1, HarvestAssumption DEF Local, HarvestAssumption
      <3>3. Sound(run[r])'
        BY <3>1, <3>2 DEF Sound, Local, Busy, Loaded, Pcs
      <3> QED
        BY <1>4, <2>1, <3>3, OneRunMoves DEF EstablishFails
    <2>2. CASE ~(run[r].attempt < MaxPageAttempts)
      BY <1>4, <2>2, <1>e DEF EstablishFails
    <2> QED
      BY <2>1, <2>2
  <1>5. ASSUME NEW r \in Run, Resume(r), UNCHANGED fetch PROVE HarvestInv'
    <2>1. run'[r] = [pc |-> "next", attempt |-> run[r].attempt, total |-> run[r].total,
                     done |-> DonePages, page |-> run[r].page, last |-> run[r].last,
                     ids |-> run[r].ids]
      BY <1>5 DEF Resume, Local
    <2>2. Sound(run[r])'
      BY <2>1 DEF Sound, Local, Busy, Loaded, Pcs, DonePages
    <2> QED
      BY <1>5, <2>2, OneRunMoves DEF Resume
  <1>6. ASSUME NEW r \in Run, NextPage(r), UNCHANGED fetch PROVE HarvestInv'
    <2>0. UNCHANGED <<total, hstate, listings, queued, faults, fetch>>
      BY <1>6 DEF NextPage
    <2>1. CASE Exit(r)
      BY <2>0, <2>1, <1>e
    <2>2. CASE ~Exit(r)
      <3>1. PICK p \in run[r].page .. run[r].last - 1 :
              lock' = lock /\ run' = [run EXCEPT ![r].pc = "load", ![r].page = p, ![r].attempt = 1]
        BY <1>6, <2>2 DEF NextPage
      <3>2. /\ run[r].page \in Nat /\ run[r].last \in Nat /\ run[r].last <= ScanBound
        BY SiteFacts, HarvestAssumption DEF Local, HarvestAssumption
      <3>3. p \in 0..ScanBound /\ p < run[r].last
        BY <3>1, <3>2, HarvestAssumption DEF HarvestAssumption
      <3>4. run'[r] = [pc |-> "load", attempt |-> 1, total |-> run[r].total,
                       done |-> run[r].done, page |-> p, last |-> run[r].last, ids |-> run[r].ids]
        BY <3>1 DEF Local
      <3>5. Sound(run[r])'
        BY <3>3, <3>4, HarvestAssumption DEF Sound, Local, Busy, Loaded, Pcs, HarvestAssumption
      <3> QED
        BY <2>0, <3>1, <3>5, OneRunMoves
    <2> QED
      BY <2>1, <2>2
  <1>r. ASSUME NEW r \in Run, Retry(r), run[r].pc \in Busy, faults' \in 0..MaxFaults,
               UNCHANGED <<total, hstate, listings, queued, lock, fetch>>
        PROVE  HarvestInv'
    <2>1. PICK pc \in {"load", "failed"}, attempt \in 1..MaxPageAttempts :
            run'[r] = [pc |-> pc, attempt |-> attempt, total |-> run[r].total,
                       done |-> run[r].done, page |-> run[r].page, last |-> run[r].last, ids |-> {}]
      <3>1. run[r].attempt \in 1..MaxPageAttempts /\ MaxPageAttempts \in Nat
        BY HarvestAssumption DEF Local, HarvestAssumption
      <3>2. CASE run[r].attempt < MaxPageAttempts
        <4>1. run[r].attempt + 1 \in 1..MaxPageAttempts
          BY <3>1, <3>2
        <4>2. run'[r] = [pc |-> "load", attempt |-> run[r].attempt + 1, total |-> run[r].total,
                         done |-> run[r].done, page |-> run[r].page, last |-> run[r].last, ids |-> {}]
          BY <1>r, <3>2 DEF Retry, Local
        <4> QED
          BY <4>1, <4>2
      <3>3. CASE ~(run[r].attempt < MaxPageAttempts)
        <4>1. run'[r] = [pc |-> "failed", attempt |-> run[r].attempt, total |-> run[r].total,
                         done |-> run[r].done, page |-> run[r].page, last |-> run[r].last, ids |-> {}]
          BY <1>r, <3>3 DEF Retry, Local
        <4> QED
          BY <3>1, <4>1
      <3> QED
        BY <3>2, <3>3
    <2>2. Sound(run[r])'
      BY <1>r, <2>1 DEF Sound, Local, Busy, Loaded, Pcs
    <2> QED
      BY <1>r, <2>1, <2>2, OneRunMoves DEF Retry
  <1>7. ASSUME NEW r \in Run, Load(r), UNCHANGED fetch PROVE HarvestInv'
    <2>p. run[r].page \in Nat
      BY HarvestAssumption DEF Local, HarvestAssumption
    <2>1. CASE run[r].page < SitePages /\ run' = [run EXCEPT ![r].pc = "save", ![r].ids = Site[run[r].page]]
      <3>1. Site[run[r].page] \subseteq SiteNodes /\ SiteNodes \subseteq Node
        BY <2>p, <2>1, SiteFacts
      <3>s. run'[r] = [pc |-> "save", attempt |-> run[r].attempt, total |-> run[r].total,
                       done |-> run[r].done, page |-> run[r].page, last |-> run[r].last,
                       ids |-> Site[run[r].page]]
        BY <2>1 DEF Local
      <3>2. Sound(run[r])'
        BY <1>7, <2>1, <3>1, <3>s DEF Load, Sound, Local, Busy, Loaded, Pcs
      <3> QED
        BY <1>7, <2>1, <3>2, OneRunMoves DEF Load
    <2>2. CASE "bare" \in Quirks /\ IsLast(r) /\ run' = [run EXCEPT ![r].pc = "save", ![r].ids = {}]
      <3>1. run[r].page < SitePages /\ MayBeBare(run[r].page)
        BY <2>p, <2>2, SiteFacts DEF IsLast, Sound, MayBeBare
      <3>2. Sound(run[r])'
        BY <1>7, <2>2, <3>1 DEF Load, Sound, Local, Busy, Loaded, Pcs
      <3> QED
        BY <1>7, <2>2, <3>2, OneRunMoves DEF Load
    <2> QED
      BY <1>7, <2>1, <2>2 DEF Load
  <1>8. ASSUME NEW r \in Run, LoadFails(r), UNCHANGED fetch PROVE HarvestInv'
    BY <1>8, <1>r DEF LoadFails, Busy
  <1>9. ASSUME NEW r \in Run, SaveListing(r), UNCHANGED fetch PROVE HarvestInv'
    <2>1. run[r].page \in Page
      BY <1>9, SiteFacts, HarvestAssumption
         DEF SaveListing, Sound, Loaded, Local, Page, HarvestAssumption
    <2>2. Sound(run[r])'
      BY <1>9, <2>1 DEF SaveListing, Goto, Sound, Local, Busy, Loaded, Pcs
    <2> QED
      BY <1>9, <2>1, <2>2, OneRunMoves DEF SaveListing, Goto
  <1>10. ASSUME NEW r \in Run, EnqueueIds(r), UNCHANGED fetch PROVE HarvestInv'
    <2>1. run[r].ids \subseteq SiteNodes
      BY DEF Sound
    <2>2. Sound(run[r])'
      BY <1>10, <2>1 DEF EnqueueIds, Goto, Sound, Local, Busy, Loaded, Pcs
    <2> QED
      BY <1>10, <2>1, <2>2, OneRunMoves DEF EnqueueIds, Goto
  <1>m. ASSUME NEW r \in Run, MoveOn(r), run[r].pc \in Busy
        PROVE  Sound(run[r])' /\ run[r].page \in Page /\ run' = [run EXCEPT ![r] = run'[r]]
    <2>1. /\ run[r].page \in Nat /\ run[r].page < run[r].last
          /\ run[r].last \in Nat /\ run[r].last <= ScanBound
      BY <1>m, HarvestAssumption DEF Sound, Local, HarvestAssumption
    <2>2. run[r].page \in Page /\ run[r].page + 1 \in 0..ScanBound
      BY <2>1, HarvestAssumption DEF Page, HarvestAssumption
    <2> QED
      BY <1>m, <2>2, HarvestAssumption DEF MoveOn, Sound, Local, Busy, Loaded, Pcs, HarvestAssumption
  <1>11. ASSUME NEW r \in Run, MarkDone(r), UNCHANGED fetch PROVE HarvestInv'
    BY <1>11, <1>m, OneRunMoves DEF MarkDone, Upsert, Busy
  <1>12. ASSUME NEW r \in Run, MarkFailed(r), UNCHANGED fetch PROVE HarvestInv'
    BY <1>12, <1>m, OneRunMoves DEF MarkFailed, Upsert, Busy
  <1>13. ASSUME NEW r \in Run, StatementRaises(r), UNCHANGED fetch PROVE HarvestInv'
    BY <1>13, <1>r, HarvestAssumption DEF StatementRaises, Busy, HarvestAssumption
  <1>14. ASSUME NEW r \in Run, Crash(r), UNCHANGED fetch PROVE HarvestInv'
    BY <1>14, <1>e, HarvestAssumption DEF Crash, HarvestAssumption
  <1>15. CASE UNCHANGED vars
    BY <1>15 DEF vars, HarvestInv, TypeOK, Sound, DonePageQueued, DonePages, Counted
  <1> QED
    BY <1>1, <1>2, <1>3, <1>4, <1>5, <1>6, <1>7, <1>8, <1>9, <1>10, <1>11, <1>12, <1>13, <1>14, <1>15,
       FetchStep
       DEF Next, Harvest, Step

(***************************************************************************)
(* The variables keep their types.                                         *)
(***************************************************************************)
THEOREM HarvestTypeCorrect == Spec => []TypeOK
  <1>1. HarvestInv => TypeOK
    BY DEF HarvestInv
  <1> QED
    BY <1>1, HarvestInit, HarvestStep, PTL DEF Spec

(***************************************************************************)
(* A page marked done is archived and queued, whatever raises or crashes,  *)
(* in both modes, also when the total is unknown; a final page that showed *)
(* no ids is the only exception.                                           *)
(***************************************************************************)
THEOREM DonePagesAreQueued == Spec => []DonePageQueued
  <1>1. HarvestInv => DonePageQueued
    BY DEF HarvestInv
  <1> QED
    BY <1>1, HarvestInit, HarvestStep, PTL DEF Spec

LEMMA HstateMoves ==
  ASSUME [Next]_vars
  PROVE  UNCHANGED hstate \/ \E r \in Run : MarkDone(r) \/ MarkFailed(r)
  <1>1. CASE UNCHANGED vars
    BY <1>1 DEF vars
  <1>2. CASE Fetch
    BY <1>2 DEF Fetch, StartFetch, Check, CountDone, CountFailed, CountQueued, TakeLock, EndFetch
  <1>3. ASSUME NEW r \in Run, Harvest(r)
        PROVE  UNCHANGED hstate \/ MarkDone(r) \/ MarkFailed(r)
    <2>1. CASE \E first \in DOMAIN Site, count \in 0..SitePages : StartHarvest(r, first, count)
      BY <2>1 DEF StartHarvest
    <2>2. CASE Step(r)
      BY <2>2 DEF Step, CachedTotal, EstablishTotal, EstablishFails, Resume, NextPage, Load,
                  LoadFails, SaveListing, EnqueueIds
    <2>3. CASE StatementRaises(r) \/ Crash(r)
      BY <2>3 DEF StatementRaises, Crash
    <2> QED
      BY <1>3, <2>1, <2>2, <2>3 DEF Harvest
  <1> QED
    BY <1>1, <1>2, <1>3 DEF Next

(***************************************************************************)
(* A page beyond the listing that was recorded as failed is not repaired:  *)
(* whatever is run later, in both modes, the gate stays closed.            *)
(***************************************************************************)
Stray(p) == p \in FailedPages /\ p >= SitePages

THEOREM StraysAreForEver ==
  Spec => [][\A p \in Page : Stray(p) => Stray(p)' /\ ~HarvestComplete']_vars
  <1>1. HarvestInv /\ [Next]_vars
          => [\A p \in Page : Stray(p) => Stray(p)' /\ ~HarvestComplete']_vars
    <2> SUFFICES ASSUME HarvestInv, [Next]_vars, NEW p \in Page, Stray(p)
                 PROVE  Stray(p)' /\ ~HarvestComplete'
      OBVIOUS
    <2>0. /\ hstate \in [Page -> {"none", "done", "failed"}] /\ SitePages \in Nat
          /\ \A r \in Run : run[r].pc = "done" => run[r].page < SitePages
      BY SiteFacts DEF HarvestInv, TypeOK, Sound, Loaded
    <2>1. hstate'[p] = "failed"
      <3>1. CASE UNCHANGED hstate
        BY <3>1 DEF Stray, FailedPages
      <3>2. ASSUME NEW r \in Run, MarkDone(r) PROVE hstate'[p] = "failed"
        <4>1. p # run[r].page
          BY <2>0, <3>2, HarvestAssumption DEF MarkDone, Stray, Page, HarvestAssumption
        <4> QED
          BY <2>0, <3>2, <4>1 DEF MarkDone, Upsert, Stray, FailedPages
      <3>3. ASSUME NEW r \in Run, MarkFailed(r) PROVE hstate'[p] = "failed"
        BY <2>0, <3>3 DEF MarkFailed, Upsert, Stray, FailedPages
      <3> QED
        BY <3>1, <3>2, <3>3, HstateMoves
    <2> QED
      BY <2>1 DEF Stray, FailedPages, HarvestComplete
  <1> QED
    BY <1>1, HarvestInit, HarvestStep, PTL DEF Spec

-----------------------------------------------------------------------------
(***************************************************************************)
(* Sequential mode: only the holder of the lock is live, so the set of     *)
(* done pages it read is complete but for those it has passed itself.      *)
(***************************************************************************)
Alone ==
  \A r \in Run :
    /\ run[r].pc # "off" => lock = r
    /\ run[r].pc \in Busy \cup {"next"} =>
         \A p \in DonePages : p \in run[r].done \/ p < run[r].page
    /\ run[r].pc \in Busy => run[r].page \notin run[r].done

LEMMA AloneStep ==
  ASSUME Sequential, HarvestInv, Alone, [Next]_vars
  PROVE  Alone' /\ DonePages \subseteq DonePages'
  <1>t. /\ TypeOK /\ \A r \in Run : run[r] \in Local /\ Sound(run[r])
    BY DEF HarvestInv, Sound
  <1> USE <1>t DEF TypeOK
  <1>o. ASSUME NEW r \in Run, run' = [run EXCEPT ![r] = run'[r]], run[r].pc # "off",
               lock' = lock \/ (lock' = NoRun /\ run'[r].pc = "off"),
               run'[r].pc \in Busy \cup {"next"} =>
                 \A p \in DonePages' : p \in run'[r].done \/ p < run'[r].page,
               run'[r].pc \in Busy => run'[r].page \notin run'[r].done
        PROVE  Alone'
    <2>1. lock = r /\ \A s \in Run \ {r} : run[s].pc = "off" /\ run'[s] = run[s]
      BY <1>o DEF Alone
    <2> QED
      BY <1>o, <2>1 DEF Alone, Busy
  <1>l. \A r \in Run : run[r].page \in Nat
    BY HarvestAssumption DEF Local, HarvestAssumption
  <1>1. ASSUME NEW r \in Run, NEW first \in DOMAIN Site, NEW count \in 0..SitePages,
               StartHarvest(r, first, count)
        PROVE  Alone' /\ DonePages' = DonePages
    <2>1. run'[r].pc = "total" /\ lock' = r /\ lock = NoRun
      BY <1>1 DEF StartHarvest, Off
    <2>2. \A s \in Run \ {r} : run'[s] = run[s] /\ run[s].pc = "off"
      BY <1>1, <2>1, HarvestAssumption DEF StartHarvest, Alone, HarvestAssumption
    <2> QED
      BY <1>1, <2>1, <2>2 DEF StartHarvest, Alone, Busy, DonePages
  <1>e. ASSUME NEW r \in Run, Exit(r), run[r].pc # "off" PROVE Alone'
    <2>1. run'[r].pc = "off" /\ run' = [run EXCEPT ![r] = run'[r]] /\ lock' = NoRun
      BY <1>e DEF Exit, Off, Alone
    <2> QED
      BY <1>o, <1>e, <2>1 DEF Busy
  <1>2. ASSUME NEW r \in Run, run[r].pc # "off",
               run' = [run EXCEPT ![r] = run'[r]], run'[r].pc \in {"total", "resume"}, UNCHANGED lock
        PROVE  Alone'
    BY <1>2, <1>o DEF Busy
  <1>3. ASSUME NEW r \in Run, CachedTotal(r) \/ EstablishTotal(r)
        PROVE  Alone' /\ DonePages' = DonePages
    BY <1>3, <1>2 DEF CachedTotal, EstablishTotal, WorkWith, DonePages, Local
  <1>4. ASSUME NEW r \in Run, EstablishFails(r) PROVE Alone' /\ DonePages' = DonePages
    <2>1. DonePages' = DonePages /\ run[r].pc = "total"
      BY <1>4 DEF EstablishFails, DonePages
    <2>2. CASE run[r].attempt < MaxPageAttempts
      <3>1. run' = [run EXCEPT ![r] = run'[r]] /\ run'[r].pc = "total" /\ UNCHANGED lock
        BY <1>4, <2>2 DEF EstablishFails, Local
      <3> QED
        BY <2>1, <3>1, <1>2
    <2>3. CASE ~(run[r].attempt < MaxPageAttempts)
      BY <1>4, <2>1, <2>3, <1>e DEF EstablishFails
    <2> QED
      BY <2>2, <2>3
  <1>5. ASSUME NEW r \in Run, Resume(r) PROVE Alone' /\ DonePages' = DonePages
    <2>1. DonePages' = DonePages /\ run[r].pc = "resume" /\ lock' = lock
      BY <1>5 DEF Resume, DonePages
    <2>2. run' = [run EXCEPT ![r] = run'[r]] /\ run'[r].pc = "next" /\ run'[r].done = DonePages
      BY <1>5 DEF Resume, Local
    <2> QED
      BY <1>o, <2>1, <2>2 DEF Busy
  <1>6. ASSUME NEW r \in Run, NextPage(r) PROVE Alone' /\ DonePages' = DonePages
    <2>1. DonePages' = DonePages /\ run[r].pc = "next"
      BY <1>6 DEF NextPage, DonePages
    <2>2. CASE Exit(r)
      BY <2>1, <2>2, <1>e
    <2>3. CASE ~Exit(r)
      <3>1. PICK p \in run[r].page .. run[r].last - 1 :
              /\ p \notin run[r].done /\ lock' = lock
              /\ run' = [run EXCEPT ![r].pc = "load", ![r].page = p, ![r].attempt = 1]
        BY <1>6, <2>3 DEF NextPage
      <3>2. /\ run'[r].pc = "load" /\ run'[r].page = p /\ run'[r].done = run[r].done
            /\ run' = [run EXCEPT ![r] = run'[r]]
        BY <3>1 DEF Local
      <3>3. \A q \in DonePages : q \in run[r].done \/ q < p
        <4>1. run[r].page \in Nat /\ run[r].last \in Nat
          BY HarvestAssumption DEF Local, HarvestAssumption
        <4>2. p >= run[r].page /\ p \in Nat
          BY <3>1, <4>1
        <4> QED
          BY <2>1, <4>1, <4>2, HarvestAssumption DEF Alone, DonePages, Page, HarvestAssumption
      <3>4. lock' = lock /\ p \notin run[r].done
        BY <3>1
      <3>5. \A q \in DonePages' : q \in run'[r].done \/ q < run'[r].page
        BY <2>1, <3>2, <3>3
      <3> QED
        BY <1>o, <2>1, <3>2, <3>4, <3>5
    <2> QED
      BY <2>2, <2>3
  <1>7. ASSUME NEW r \in Run, run[r].pc \in Busy, run' = [run EXCEPT ![r] = run'[r]],
               run'[r].pc \in Busy, run'[r].page = run[r].page, run'[r].done = run[r].done,
               UNCHANGED <<hstate, lock>>
        PROVE  Alone' /\ DonePages' = DonePages
    <2>1. DonePages' = DonePages
      BY <1>7 DEF DonePages
    <2> QED
      BY <1>7, <1>o, <2>1 DEF Alone, Busy
  <1>8. ASSUME NEW r \in Run, Load(r) \/ SaveListing(r) \/ EnqueueIds(r)
        PROVE  Alone' /\ DonePages' = DonePages
    BY <1>8, <1>7 DEF Load, SaveListing, EnqueueIds, Goto, Local, Busy
  <1>9. ASSUME NEW r \in Run, LoadFails(r) \/ StatementRaises(r)
        PROVE  Alone' /\ DonePages' = DonePages
    BY <1>9, <1>7 DEF LoadFails, StatementRaises, Retry, Local, Busy
  <1>m. ASSUME NEW r \in Run, NEW status \in {"done", "failed"}, run[r].pc = status,
               Upsert(run[r].page, status), MoveOn(r), UNCHANGED lock
        PROVE  Alone' /\ DonePages \subseteq DonePages'
    <2>1. run[r].page \in Page /\ run[r].page \notin DonePages
      <3>1. /\ run[r].page < run[r].last /\ run[r].page \in Nat /\ run[r].last \in Nat
            /\ run[r].last <= ScanBound
        BY <1>m, HarvestAssumption DEF Sound, Busy, Local, HarvestAssumption
      <3>2. run[r].page \in Page
        BY <3>1, HarvestAssumption DEF Page, HarvestAssumption
      <3> QED
        BY <1>m, <3>1, <3>2 DEF Alone, Busy
    <2>2. DonePages \subseteq DonePages' /\ DonePages' \subseteq DonePages \cup {run[r].page}
      BY <1>m, <2>1 DEF Upsert, DonePages
    <2>3. /\ run' = [run EXCEPT ![r] = run'[r]] /\ run'[r].pc = "next"
          /\ run'[r].page = run[r].page + 1 /\ run'[r].done = run[r].done
      BY <1>m DEF MoveOn, Local
    <2>4. \A p \in DonePages' : p \in run'[r].done \/ p < run'[r].page
      <3>1. \A p \in DonePages : p \in Nat /\ (p \in run[r].done \/ p < run[r].page)
        BY <1>m, HarvestAssumption DEF Alone, Busy, DonePages, Page, HarvestAssumption
      <3> QED
        BY <1>l, <2>2, <2>3, <3>1
    <2> QED
      BY <1>m, <1>o, <2>2, <2>3, <2>4 DEF Busy
  <1>10. ASSUME NEW r \in Run, MarkDone(r) \/ MarkFailed(r)
         PROVE  Alone' /\ DonePages \subseteq DonePages'
    BY <1>10, <1>m DEF MarkDone, MarkFailed
  <1>11. ASSUME NEW r \in Run, Crash(r) PROVE Alone' /\ DonePages' = DonePages
    BY <1>11, <1>e DEF Crash, DonePages
  <1>12. CASE UNCHANGED vars
    BY <1>12 DEF vars, Alone, DonePages
  <1>13. CASE Fetch
    <2>1. UNCHANGED <<hstate, run>>
      BY <1>13 DEF Fetch, StartFetch, CountDone, CountFailed, CountQueued, Check, TakeLock, EndFetch
    <2>2. lock' = lock \/ lock = NoRun \/ lock = Fetcher
      BY <1>13 DEF Fetch, StartFetch, CountDone, CountFailed, CountQueued, Check, TakeLock, EndFetch
    <2> QED
      BY <2>1, <2>2, HarvestAssumption DEF Alone, DonePages, HarvestAssumption
  <1>14. ASSUME NEW r \in Run, Harvest(r) PROVE Alone' /\ DonePages \subseteq DonePages'
    BY <1>14, <1>1, <1>3, <1>4, <1>5, <1>6, <1>8, <1>9, <1>10, <1>11 DEF Harvest, Step
  <1> QED
    BY <1>12, <1>13, <1>14 DEF Next

(***************************************************************************)
(* A run works with the total of the meta table, when there is one, and    *)
(* ends its window at the last page of it.                                 *)
(***************************************************************************)
Known ==
  \A r \in Run :
    /\ run[r].pc = "total" /\ run[r].attempt > 1 => total = 0
    /\ run[r].pc \in Busy \cup {"resume", "next"} =>
         IF run[r].total = 0 THEN total = 0 ELSE run[r].last <= SitePages

LEMMA KnownStep ==
  ASSUME Sequential, HarvestInv, Alone, Known, [Next]_vars
  PROVE  Known'
  <1>t. /\ run \in [Run -> Local] /\ \A r \in Run : run[r] \in Local /\ Sound(run[r])
        /\ total \in {0, SiteTotal}
    BY DEF HarvestInv, TypeOK, Sound
  <1> USE <1>t
  <1>1. ASSUME NEW r \in Run, run' = [run EXCEPT ![r] = run'[r]], UNCHANGED total,
               \/ run'[r].pc = "off"
               \/ run'[r].pc = "total" /\ run'[r].attempt = 1
               \/ run'[r].pc \in Busy \cup {"resume", "next"}
                  /\ run[r].pc \in Busy \cup {"resume", "next"}
                  /\ run'[r].total = run[r].total /\ run'[r].last = run[r].last
        PROVE  Known'
    BY <1>1 DEF Known, Busy
  <1>w. ASSUME NEW r \in Run, NEW t \in {0, SiteTotal}, run[r].pc = "total", WorkWith(r, t),
               IF t = 0 THEN total' = 0 ELSE total' = SiteTotal
        PROVE  Known'
    <2>1. /\ run'[r].pc = "resume" /\ run'[r].total = t
          /\ run'[r].last = IF t = 0 THEN run[r].last ELSE Min({run[r].last, TotalPages(t)})
      BY <1>w DEF WorkWith, Local
    <2>2. t # 0 => run'[r].last <= SitePages
      <3>1. run[r].last \in Nat
        BY HarvestAssumption DEF Local, HarvestAssumption
      <3> QED
        BY <2>1, <3>1, SiteFacts, SmallerOfTwo
    <2>3. \A s \in Run \ {r} : run[s].pc = "off" /\ run'[s] = run[s]
      BY <1>w DEF Alone, WorkWith
    <2> QED
      BY <1>w, <2>1, <2>2, <2>3 DEF Known, Busy
  <1>2. ASSUME NEW r \in Run, CachedTotal(r) PROVE Known'
    BY <1>2, <1>w DEF CachedTotal
  <1>3. ASSUME NEW r \in Run, EstablishTotal(r) PROVE Known'
    <2>1. total = 0 /\ run[r].pc = "total"
      BY <1>3 DEF EstablishTotal, Known
    <2>2. CASE WorkWith(r, SiteTotal) /\ total' = SiteTotal
      BY <2>1, <2>2, <1>w
    <2>3. CASE WorkWith(r, 0) /\ UNCHANGED total
      BY <2>1, <2>3, <1>w
    <2> QED
      BY <1>3, <2>2, <2>3 DEF EstablishTotal
  <1>4. ASSUME NEW r \in Run, EstablishFails(r) PROVE Known'
    <2>0. UNCHANGED total /\ run[r].pc = "total" /\ total = 0
      BY <1>4 DEF EstablishFails, Known
    <2>1. CASE run[r].attempt < MaxPageAttempts
      <3>1. run'[r].pc = "total" /\ \A s \in Run \ {r} : run'[s] = run[s]
        BY <1>4, <2>0, <2>1 DEF EstablishFails, Local
      <3> QED
        BY <2>0, <3>1 DEF Known, Busy
    <2>2. CASE ~(run[r].attempt < MaxPageAttempts)
      BY <1>4, <2>0, <2>2, <1>1 DEF EstablishFails, Exit, Off
    <2> QED
      BY <2>1, <2>2
  <1>5. ASSUME NEW r \in Run, NEW first \in DOMAIN Site, NEW count \in 0..SitePages,
               StartHarvest(r, first, count)
        PROVE  Known'
    <2>1. /\ run' = [run EXCEPT ![r] = run'[r]] /\ UNCHANGED total
          /\ run'[r].pc = "total" /\ run'[r].attempt = 1
      BY <1>5 DEF StartHarvest, Off
    <2> QED
      BY <2>1, <1>1
  <1>6. ASSUME NEW r \in Run, Resume(r) \/ NextPage(r) \/ Crash(r) PROVE Known'
    <2>1. CASE Resume(r)
      BY <2>1, <1>1 DEF Resume, Local
    <2>2. CASE NextPage(r) /\ ~Exit(r)
      <3>1. PICK p \in run[r].page .. run[r].last - 1 :
              /\ run[r].pc = "next" /\ UNCHANGED total
              /\ run' = [run EXCEPT ![r].pc = "load", ![r].page = p, ![r].attempt = 1]
        BY <2>2 DEF NextPage
      <3>2. /\ run' = [run EXCEPT ![r] = run'[r]] /\ run'[r].pc = "load"
            /\ run'[r].total = run[r].total /\ run'[r].last = run[r].last
        BY <3>1 DEF Local
      <3> QED
        BY <3>1, <3>2, <1>1 DEF Busy
    <2>3. CASE Exit(r) /\ UNCHANGED total
      BY <2>3, <1>1 DEF Exit, Off
    <2> QED
      BY <1>6, <2>1, <2>2, <2>3 DEF NextPage, Crash
  <1>7. ASSUME NEW r \in Run, Load(r) \/ SaveListing(r) \/ EnqueueIds(r) PROVE Known'
    BY <1>7, <1>1 DEF Load, SaveListing, EnqueueIds, Goto, Local, Busy
  <1>8. ASSUME NEW r \in Run, LoadFails(r) \/ StatementRaises(r) PROVE Known'
    BY <1>8, <1>1 DEF LoadFails, StatementRaises, Retry, Local, Busy
  <1>9. ASSUME NEW r \in Run, MarkDone(r) \/ MarkFailed(r) PROVE Known'
    BY <1>9, <1>1 DEF MarkDone, MarkFailed, MoveOn, Local, Busy
  <1>10. CASE Fetch \/ UNCHANGED vars
    <2>1. UNCHANGED <<total, run>>
      BY <1>10 DEF Fetch, StartFetch, CountDone, CountFailed, CountQueued, Check, TakeLock,
                   EndFetch, vars
    <2> QED
      BY <2>1 DEF Known
  <1>11. ASSUME NEW r \in Run, Harvest(r) PROVE Known'
    BY <1>11, <1>2, <1>3, <1>4, <1>5, <1>6, <1>7, <1>8, <1>9 DEF Harvest, Step
  <1> QED
    BY <1>10, <1>11 DEF Next

(***************************************************************************)
(* What a fetch has seen of the pages is still so: when all of them are    *)
(* done no run has one left to give up.                                    *)
(***************************************************************************)
Complete ==
  fetch.mode = "gate" =>
    /\ fetch.pc \in {"count failed", "count queued", "lock", "crawl"} => DonePages = DOMAIN Site
    /\ fetch.pc \in {"count queued", "lock", "crawl"} => FailedPages = {}

\* As many done pages as the listing has are all of them.
LEMMA AllPages ==
  ASSUME HarvestInv, Cardinality(DonePages) = SitePages
  PROVE  DonePages = DOMAIN Site
  <1>1. DonePages \subseteq DOMAIN Site
    BY SiteFacts, HarvestAssumption DEF HarvestInv, DonePages, Page, HarvestAssumption
  <1>2. IsFiniteSet(DOMAIN Site) /\ Cardinality(DOMAIN Site) = SitePages
    <2>1. IsFiniteSet(0 .. SitePages - 1)
      BY SiteFacts, FS_Interval
    <2> QED
      BY <2>1, SiteFacts DEF SitePages
  <1> QED
    BY <1>1, <1>2, FS_Subset

LEMMA CompleteStep ==
  ASSUME Sequential, HarvestInv, HarvestInv', Alone, Known, Complete, [Next]_vars
  PROVE  Complete'
  <1>1. DonePages \subseteq DonePages'
    BY AloneStep
  <1>2. DonePages = DOMAIN Site => DonePages' = DOMAIN Site
    BY <1>1, SiteFacts, HarvestAssumption DEF HarvestInv, DonePages, Page, HarvestAssumption
  <1>3. ASSUME DonePages = DOMAIN Site, FailedPages = {}, total # 0 PROVE FailedPages' = {}
    <2>1. ASSUME NEW r \in Run PROVE run[r].pc # "failed"
      <3> SUFFICES ASSUME run[r].pc = "failed" PROVE FALSE
        OBVIOUS
      <3>1. /\ run[r].page \in Nat /\ run[r].last \in Nat /\ run[r].last <= ScanBound
            /\ run[r].page < run[r].last
        BY HarvestAssumption DEF HarvestInv, Sound, Local, Busy, HarvestAssumption
      <3>2. run[r].last <= SitePages
        BY <1>3 DEF Known, Busy
      <3>3. run[r].page \in DonePages
        BY <1>3, <3>1, <3>2, SiteFacts
      <3> QED
        BY <3>1, <3>3 DEF Alone, Busy
    <2>2. UNCHANGED hstate \/ \E r \in Run : MarkDone(r)
      BY <2>1 DEF Next, Harvest, Step, Fetch, StartFetch, CountDone, CountFailed, CountQueued, Check,
                  TakeLock, EndFetch, vars, StartHarvest, CachedTotal, EstablishTotal, EstablishFails,
                  Resume, NextPage, Load, LoadFails, SaveListing, EnqueueIds, MarkFailed,
                  StatementRaises, Crash
    <2> QED
      BY <1>3, <2>2 DEF FailedPages, MarkDone, Upsert, HarvestInv, TypeOK
  <1>4. fetch.pc # "off" /\ fetch.mode = "gate" => total # 0 /\ TotalPages(fetch.total) = SitePages
    BY SiteFacts DEF HarvestInv, Counted
  <1>5. ASSUME UNCHANGED fetch PROVE Complete'
    BY <1>2, <1>3, <1>4, <1>5 DEF Complete
  <1>6. ASSUME fetch' = NoFetch PROVE Complete'
    BY <1>6 DEF NoFetch, Complete
  <1>7. ASSUME NEW from, NEW to, fetch.pc = from, fetch' = [fetch EXCEPT !.pc = to],
               UNCHANGED hstate, fetch.mode = "gate" => (from = "count done" => DonePages = DOMAIN Site),
               <<from, to>> \in {<<"count done", "count failed">>, <<"count queued", "lock">>, <<"lock", "crawl">>}
                 \/ (from = "count failed" /\ to = "count queued" /\ FailedPages = {})
        PROVE  Complete'
    <2>1. fetch'.pc = to /\ fetch'.mode = fetch.mode
      BY <1>7 DEF HarvestInv, TypeOK, Command
    <2>2. DonePages' = DonePages /\ FailedPages' = FailedPages
      BY <1>7 DEF DonePages, FailedPages
    <2> QED
      BY <1>7, <2>1, <2>2 DEF Complete
  <1>8. CASE CountDone
    <2>1. /\ fetch.pc = "count done" /\ UNCHANGED hstate
          /\ \/ fetch' = NoFetch
             \/ fetch' = [fetch EXCEPT !.pc = "count failed"]
                /\ Cardinality(DonePages) = TotalPages(fetch.total)
      BY <1>8 DEF CountDone, Check
    <2> QED
      BY <2>1, <1>4, <1>6, <1>7, AllPages
  <1>9. CASE CountFailed
    <2>1. /\ fetch.pc = "count failed" /\ UNCHANGED hstate
          /\ \/ fetch' = NoFetch
             \/ fetch' = [fetch EXCEPT !.pc = "count queued"] /\ FailedPages = {}
      BY <1>9 DEF CountFailed, Check
    <2> QED
      BY <2>1, <1>6, <1>7
  <1>10. CASE CountQueued
    <2>1. /\ fetch.pc = "count queued" /\ UNCHANGED hstate
          /\ fetch' = NoFetch \/ fetch' = [fetch EXCEPT !.pc = "lock"]
      BY <1>10 DEF CountQueued, Check
    <2> QED
      BY <2>1, <1>6, <1>7
  <1>11. CASE TakeLock
    BY <1>11, <1>6, <1>7 DEF TakeLock
  <1>12. CASE StartFetch
    <2>1. CASE fetch' = [NoFetch EXCEPT !.pc = "count done", !.total = total]
      BY <2>1 DEF NoFetch, Complete
    <2>2. CASE fetch' = [NoFetch EXCEPT !.pc = "lock", !.mode = "force"]
      BY <2>2 DEF NoFetch, Complete
    <2> QED
      BY <1>12, <2>1, <2>2 DEF StartFetch
  <1>13. CASE EndFetch
    BY <1>13, <1>6 DEF EndFetch
  <1> QED
    BY <1>5, <1>8, <1>9, <1>10, <1>11, <1>12, <1>13 DEF Next, Fetch, Harvest, vars

(***************************************************************************)
(* In sequential mode no page that is done is ever taken back.             *)
(***************************************************************************)
THEOREM DoneIsFinal ==
  ASSUME Sequential
  PROVE  Spec => DoneStaysDone
  <1>1. Init => Alone
    BY DEF Init, Alone, Off, Busy
  <1>2. HarvestInv /\ Alone /\ [Next]_vars => Alone' /\ [DonePages \subseteq DonePages']_vars
    BY AloneStep
  <1> QED
    BY <1>1, <1>2, HarvestInit, HarvestStep, PTL DEF Spec, DoneStaysDone

(***************************************************************************)
(* A fetch that got past its gate has every id of the listing in the queue *)
(* in both modes, and in sequential mode all that the gate asked for still *)
(* holds, although it was read in four steps before the lock was there.    *)
(***************************************************************************)
THEOREM GateIsSound == Spec => []GateSound
  <1> DEFINE Quiet == Sequential => Alone /\ Known /\ Complete
  <1>1. Init => Quiet
    BY DEF Init, Alone, Known, Complete, Off, NoFetch, Busy
  <1>2. HarvestInv /\ HarvestInv' /\ Quiet /\ [Next]_vars => Quiet'
    BY AloneStep, KnownStep, CompleteStep
  <1>3. ASSUME HarvestInv, Quiet PROVE GateSound
    <2> SUFFICES ASSUME fetch.mode = "gate", fetch.pc \in {"lock", "crawl"}
                 PROVE  SiteNodes \subseteq queued /\ (Sequential => HarvestComplete)
      BY DEF GateSound
    <2>1. SiteNodes = queued /\ total = SiteTotal /\ total # 0
      BY <1>3 DEF HarvestInv, Counted
    <2>2. Cardinality(queued) >= total
      BY <2>1, SiteFacts DEF SiteTotal
    <2>3. Sequential => DonePages = DOMAIN Site /\ FailedPages = {}
      BY <1>3 DEF Complete
    <2> QED
      BY <2>1, <2>2, <2>3, SiteFacts DEF HarvestComplete, SitePages
  <1> QED
    BY <1>1, <1>2, <1>3, HarvestInit, HarvestStep, PTL DEF Spec
=============================================================================
