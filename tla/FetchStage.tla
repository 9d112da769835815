----------------------------- MODULE FetchStage -----------------------------
(***************************************************************************)
(* The detail fetch without proxies (fetch_all): the main coroutine claims *)
(* a batch of rows, feeds it into a bounded asyncio queue, and joins the   *)
(* queue once a claim comes back empty; DETAIL_CONCURRENCY workers drain   *)
(* the queue.                                                              *)
(***************************************************************************)
EXTENDS FetchRun

CONSTANT ClaimLimit  \* DETAIL_CONCURRENCY * 4: claim size and queue size

ASSUME StageAssumption == ClaimLimit \in Nat \ {0}

VARIABLES
  batch,   \* rows claimed and not yet put into the queue
  inbox,   \* the asyncio queue
  escaped  \* history: rows requeued out of a live run's hands, or whose
           \* statement was left behind by its client

stageVars == <<batch, inbox, escaped>>
vars == <<queueVars, runVars, stageVars>>

TypeOK ==
  /\ RunTypeOK
  /\ batch \in [Run -> SUBSET Node]
  /\ inbox \in [Run -> SUBSET Node]
  /\ escaped \in SUBSET Node

Init ==
  /\ RunInit
  /\ batch = [r \in Run |-> {}]
  /\ inbox = [r \in Run |-> {}]
  /\ escaped = {}

\* What a run has in its hands: its batch, its queue, its workers' rows.
HeldBy(r) ==
  batch[r] \cup inbox[r] \cup {item[w] : w \in {v \in Team(r) : item[v] # NoNode}}

Loosen(S) == escaped' = escaped \cup S
LoosenStray == Loosen({s.node : s \in stray'})

-----------------------------------------------------------------------------
\* requeue_stale_fetching, whoever holds the rows.
Requeue(r) ==
  /\ RequeueStale(r)
  /\ Loosen(UNION {HeldBy(s) : s \in Run})
  /\ UNCHANGED <<batch, inbox>>

\* The claim takes the first ClaimLimit pending rows; while another run is
\* live, skip locked may leave some of them out, even all.
Claim(r) ==
  /\ stage[r] = "crawl"
  /\ \E B \in SUBSET Pending :
       /\ Cardinality(B) <= ClaimLimit
       /\ \/ Cardinality(B) = ClaimLimit
          \/ B = Pending
          \/ \E s \in Run \ {r} : Live(s)
       /\ ClaimPending(B)
       /\ batch' = [batch EXCEPT ![r] = B]
       /\ stage' = [stage EXCEPT ![r] = IF B = {} THEN "join" ELSE "feed"]
  /\ UNCHANGED <<lock, workerVars, faultVars, inbox, escaped>>

\* queue.put blocks while the queue is full.
Put(r) ==
  /\ stage[r] = "feed"
  /\ Cardinality(inbox[r]) < ClaimLimit
  /\ \E n \in batch[r] :
       /\ batch' = [batch EXCEPT ![r] = @ \ {n}]
       /\ inbox' = [inbox EXCEPT ![r] = @ \cup {n}]
       /\ stage' = [stage EXCEPT ![r] = IF batch[r] = {n} THEN "crawl" ELSE "feed"]
  /\ UNCHANGED <<queueVars, lock, workerVars, faultVars, escaped>>

Take(w) ==
  LET r == RunOf[w] IN
  /\ wpc[w] = "idle"
  /\ \E n \in inbox[r] :
       /\ inbox' = [inbox EXCEPT ![r] = @ \ {n}]
       /\ item' = [item EXCEPT ![w] = n]
       /\ wpc' = [wpc EXCEPT ![w] = "get"]
  /\ UNCHANGED <<queueVars, lock, stage, got, faultVars, batch, escaped>>

\* (Mutant: the queue is not joined.)
FinishEarly(r) ==
  /\ stage[r] = "join"
  /\ Unlock(r)
  /\ batch' = [batch EXCEPT ![r] = {}]
  /\ inbox' = [inbox EXCEPT ![r] = {}]
  /\ UNCHANGED <<queueVars, faultVars, escaped>>

\* queue.join, the sentinels, the gather and the lock's close.  (The gather
\* raises for a dead worker, but no worker holds a row any more.)
Finish(r) ==
  /\ stage[r] = "join"
  /\ inbox[r] = {}
  /\ \A w \in Team(r) : wpc[w] \in {"idle", "dead"}
  /\ Unlock(r)
  /\ UNCHANGED <<queueVars, faultVars, stageVars>>

\* The queue lives in the process.
Drop(r) ==
  /\ batch' = [batch EXCEPT ![r] = {}]
  /\ inbox' = [inbox EXCEPT ![r] = {}]
  /\ LoosenStray

Die(r) == Crash(r) /\ Drop(r)

\* What was not yet put into the queue is nobody's; the workers and their
\* queue live on until the process exits.
UnwindMain(r) ==
  /\ Unwind(r)
  /\ batch' = [batch EXCEPT ![r] = {}]
  /\ UNCHANGED <<inbox, escaped>>

-----------------------------------------------------------------------------
MainStep(r) ==
  \/ Claim(r)
  \/ Put(r)
  \/ Finish(r)
  \/ Requeue(r)
  \/ Exit(r) /\ Drop(r)

WorkerStep(w) ==
  \/ Take(w)
  \/ Answer(w) /\ UNCHANGED stageVars
  \/ SavePage(w) /\ UNCHANGED stageVars
  \/ Fetched(w) /\ UNCHANGED stageVars
  \/ Bounced(w) /\ UNCHANGED stageVars

FaultStep ==
  \/ \E w \in Worker : StatementRaises(w) /\ LoosenStray /\ UNCHANGED <<batch, inbox>>
  \/ \E r \in Run : Die(r) \/ UnwindMain(r)
  \/ LoseLock /\ UNCHANGED stageVars
  \/ \E s \in stray : CommitStray(s) /\ UNCHANGED stageVars

Next ==
  \/ \E S \in SUBSET Node : Discover(S) /\ UNCHANGED stageVars
  \/ \E r \in Run : StartFetch(r) /\ UNCHANGED stageVars
  \/ \E r \in Run : MainStep(r)
  \/ \E w \in Worker : WorkerStep(w)
  \/ FaultStep

Spec == Init /\ [][Next]_vars

(***************************************************************************)
(* The event loop runs every task that can run, and the command is started *)
(* again for as long as rows are left ("Re-running picks up where it left  *)
(* off").  No fairness for the site: it may answer every GET with an error.*)
(***************************************************************************)
FairSpec ==
  /\ Spec
  /\ \A r \in Run : WF_vars(StartFetch(r) /\ UNCHANGED stageVars) /\ WF_vars(MainStep(r))
  /\ \A w \in Worker : WF_vars(WorkerStep(w))

-----------------------------------------------------------------------------
(***************************************************************************)
(* A row marked done names a page of that very node, and the page is in    *)
(* the archive: the page is stored before the row is marked, and neither a *)
(* crash between the two nor a statement that commits late may undo it.    *)
(* (save_raw_page and mark_fetched in _worker, two transactions.)          *)
(***************************************************************************)
DoneHasArchive ==
  \A n \in Node : rowStatus[n] = "done" =>
    rawPageId[n] \in rawPages /\ rawPageId[n] \in {n} \X Content

(***************************************************************************)
(* "Safe under sequential mode: the advisory lock guarantees no other      *)
(* fetch is live, so any 'fetching' row at startup is from a dead run"     *)
(* (the docstring of requeue_stale_fetching).                              *)
(***************************************************************************)
OneFetchLive ==
  \A r, s \in Run : r # s /\ stage[r] = "requeue" => ~Live(s)

(***************************************************************************)
(* A row is in one pair of hands at a time (one run; in it the batch, the  *)
(* queue or one worker) and its status says so.  mark_fetched and          *)
(* mark_failed do not check the status they overwrite: this is what makes  *)
(* them safe.  The rows that escaped are the only ones for which it may    *)
(* fail: those in the hands of a run that had lost its lock, or was still  *)
(* closing, when another requeued.                                         *)
(***************************************************************************)
HandedOut ==
  /\ \A r \in Run : \A n \in HeldBy(r) \ escaped : rowStatus[n] = "fetching"
  /\ \A r, s \in Run : r # s => HeldBy(r) \cap HeldBy(s) \subseteq escaped

OneHand ==
  /\ \A r \in Run : batch[r] \cap inbox[r] \subseteq escaped
  /\ \A w \in Worker : item[w] \notin (batch[RunOf[w]] \cup inbox[RunOf[w]]) \ escaped
  /\ \A v, w \in Worker : v # w /\ item[v] = item[w] => item[w] \in escaped \cup {NoNode}

ClaimExclusive == HandedOut /\ OneHand

(***************************************************************************)
(* A row left in 'fetching' that nobody holds is the trace of a fault that *)
(* the next start repairs: no run is live but those that are closing, the  *)
(* live one has not requeued yet, or one of its workers died with the row. *)
(* No path of the claim loop itself loses a row.                           *)
(***************************************************************************)
NoLostClaim ==
  \A n \in Node : rowStatus[n] = "fetching" =>
    \/ \E r \in Run : n \in HeldBy(r)
    \/ /\ faults < MaxFaults
       /\ \A r \in Run : \/ stage[r] \in {"off", "requeue", "closing"}
                         \/ \E w \in Team(r) : wpc[w] = "dead"

(***************************************************************************)
(* A verdict on a row, done or failed, is never taken back unless the row  *)
(* escaped: no second run, no late retry and no requeue reopens it,        *)
(* although every statement that sets a status is unconditional.           *)
(***************************************************************************)
VerdictFinal ==
  [][\A n \in Node \ escaped :
       rowStatus[n] \in {"done", "failed"} => rowStatus'[n] = rowStatus[n]]_vars

(***************************************************************************)
(* Only a row whose attempts are used up is given up on, whatever crashes  *)
(* and restarts happened in between.                                       *)
(***************************************************************************)
FailedExhausted ==
  \A n \in Node : rowStatus[n] = "failed" => attempts[n] = MaxAttempts

(***************************************************************************)
(* The stage implements NodeArchive: claims, retries, crashes and restarts *)
(* are invisible in what has been archived and what has been settled, and  *)
(* a row that escapes is open when it does.                                *)
(***************************************************************************)
Fate(s) ==
  CASE s = "absent" -> "unknown"
    [] s \in {"pending", "fetching"} -> "open"
    [] s = "done" -> "archived"
    [] s = "failed" -> "abandoned"

Promise == INSTANCE NodeArchive WITH
  fate <- [n \in Node |-> IF n \in escaped THEN "contested" ELSE Fate(rowStatus[n])],
  archive <- rawPages

KeepsPromise == Promise!Spec

\* A run whose workers have all died of statements that raised.
WorkersGone(r) ==
  /\ \A w \in Team(r) : wpc[w] = "dead"
  /\ MaxFaults - faults >= Cardinality(Team(r))

(***************************************************************************)
(* Every discovered row is settled in the end, however often runs die:     *)
(* rows bounced to pending after the claim loop ended, and rows stranded   *)
(* by a dead run, are taken up by a later run; unless a run whose workers  *)
(* are all gone keeps the lock.                                            *)
(***************************************************************************)
AllSettle ==
  \/ <>[](\A n \in Node : rowStatus[n] \in {"absent", "done", "failed"})
  \/ \E r \in Run : <>[]WorkersGone(r)

(***************************************************************************)
(* A run ends, so that the lock comes free: the bounded queue, its join    *)
(* and the workers never wait for each other in a circle.  The one way to  *)
(* hang is that each of its workers died of a statement that raised in the *)
(* except clause: nobody is left to empty the queue that put and join wait *)
(* for.                                                                    *)
(***************************************************************************)
RunEnds == \A r \in Run : Live(r) ~> (~Live(r) \/ WorkersGone(r))
=============================================================================
