----------------------------- MODULE ProxyFetch -----------------------------
(***************************************************************************)
(* The detail fetch with proxies (_proxy_lane, and its branch in           *)
(* fetch_all): a worker is a lane with an exit address of its own, which   *)
(* claims a batch for itself, fetches it row by row, and claims again      *)
(* until nothing is left.  A lane that dies leaves its batch behind; the   *)
(* run goes on without it.  The main coroutine waits in a gather, which    *)
(* cancels its lanes when it is cancelled itself, so that the lock is not  *)
(* closed over live lanes and "unwind" cannot happen.                      *)
(***************************************************************************)
EXTENDS FetchRun

CONSTANT ClaimLimit  \* the 8 of claim_pending(8)

ASSUME LaneAssumption == ClaimLimit \in Nat \ {0}

VARIABLES
  batch,  \* batch[w]: rows lane w has claimed and not yet come to
  ended   \* lanes that found nothing to claim

laneVars == <<batch, ended>>
vars == <<queueVars, runVars, laneVars>>

TypeOK ==
  /\ RunTypeOK
  /\ batch \in [Worker -> SUBSET Node] /\ ended \in SUBSET Worker

Init == RunInit /\ batch = [w \in Worker |-> {}] /\ ended = {}

-----------------------------------------------------------------------------
\* A lane between two rows.
Free(w) == stage[RunOf[w]] = "crawl" /\ wpc[w] = "idle" /\ w \notin ended

\* The claim takes the first rows that are pending.  While another run is
\* live, skip locked may leave some of them out, even all.
Claim(w) ==
  /\ Free(w) /\ batch[w] = {}
  /\ \E B \in SUBSET Pending :
       /\ Cardinality(B) <= ClaimLimit
       /\ \/ Cardinality(B) = ClaimLimit
          \/ B = Pending
          \/ \E s \in Run \ {RunOf[w]} : Live(s)
       /\ ClaimPending(B)
       /\ batch' = [batch EXCEPT ![w] = B]
       /\ ended' = IF B = {} THEN ended \cup {w} ELSE ended
  /\ UNCHANGED runVars

\* The next row of the batch.
Take(w) ==
  /\ Free(w)
  /\ \E n \in batch[w] :
       /\ batch' = [batch EXCEPT ![w] = @ \ {n}]
       /\ item' = [item EXCEPT ![w] = n]
  /\ wpc' = [wpc EXCEPT ![w] = "get"]
  /\ UNCHANGED <<queueVars, lock, stage, got, faultVars, ended>>

\* The claim raises, or the client of a bad proxy: the lane is over.
LaneDies(w) ==
  /\ Fault("db_error")
  /\ Free(w) /\ batch[w] = {}
  /\ LetGo({w}, "dead")
  /\ UNCHANGED <<queueVars, lock, stage, stray, laneVars>>

\* mark_failed raises inside the except clause: so is this lane, and what it
\* has claimed goes nowhere.
RowRaises(w) ==
  /\ StatementRaises(w)
  /\ batch' = IF wpc'[w] = "dead" THEN [batch EXCEPT ![w] = {}] ELSE batch
  /\ UNCHANGED ended

Over(w) == w \in ended \/ wpc[w] = "dead"

\* (Mutant: gather returns with the first lane that ends.)
FinishWithFirst(r) ==
  /\ stage[r] = "crawl" /\ \E w \in Team(r) : Over(w)
  /\ Unlock(r)
  /\ batch' = [w \in Worker |-> IF w \in Team(r) THEN {} ELSE batch[w]]
  /\ ended' = ended \ Team(r)
  /\ UNCHANGED <<queueVars, faultVars>>

\* gather waits for all lanes, and takes no exception from any.
Finish(r) ==
  /\ stage[r] = "crawl" /\ \A w \in Team(r) : Over(w)
  /\ Unlock(r)
  /\ ended' = ended \ Team(r)
  /\ UNCHANGED <<queueVars, faultVars, batch>>

Die(r) ==
  /\ Crash(r)
  /\ batch' = [w \in Worker |-> IF w \in Team(r) THEN {} ELSE batch[w]]
  /\ ended' = ended \ Team(r)

-----------------------------------------------------------------------------
MainStep(r) ==
  \/ Finish(r)
  \/ RequeueStale(r) /\ UNCHANGED laneVars

LaneStep(w) ==
  \/ Claim(w)
  \/ Take(w)
  \/ Answer(w) /\ UNCHANGED laneVars
  \/ SavePage(w) /\ UNCHANGED laneVars
  \/ Fetched(w) /\ UNCHANGED laneVars
  \/ Bounced(w) /\ UNCHANGED laneVars

\* (A lost lock and a statement that commits late are left to FetchStage.)
FaultStep ==
  \/ \E w \in Worker : LaneDies(w) \/ RowRaises(w)
  \/ \E r \in Run : Die(r)

Next ==
  \/ \E S \in SUBSET Node : Discover(S) /\ UNCHANGED laneVars
  \/ \E r \in Run : StartFetch(r) /\ UNCHANGED laneVars
  \/ \E r \in Run : MainStep(r)
  \/ \E w \in Worker : LaneStep(w)
  \/ FaultStep

Spec == Init /\ [][Next]_vars

\* As in FetchStage: the event loop, and an operator who starts it again.
FairSpec ==
  /\ Spec
  /\ \A r \in Run : WF_vars(StartFetch(r) /\ UNCHANGED laneVars) /\ WF_vars(MainStep(r))
  /\ \A w \in Worker : WF_vars(LaneStep(w))

-----------------------------------------------------------------------------
Held(w) == batch[w] \cup {n \in Node : item[w] = n}

(***************************************************************************)
(* What is left in 'fetching' with nobody to hold it was left by a fault,  *)
(* and waits for the next start: no run is live, it has not requeued yet,  *)
(* or one of its lanes is dead.  (The batch of a lane that died.)          *)
(***************************************************************************)
StrandedByFault ==
  \A n \in Node : rowStatus[n] = "fetching" =>
    \/ \E w \in Worker : n \in Held(w)
    \/ /\ faults < MaxFaults
       /\ \A r \in Run : \/ stage[r] \in {"off", "requeue"}
                         \/ \E w \in Team(r) : wpc[w] = "dead"

(***************************************************************************)
(* Every discovered row is settled in the end: what a lane or a run left   *)
(* behind is taken up by a later run.                                      *)
(***************************************************************************)
AllSettle == <>[](\A n \in Node : rowStatus[n] \in {"absent", "done", "failed"})
=============================================================================
