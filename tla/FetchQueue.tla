----------------------------- MODULE FetchQueue -----------------------------
(***************************************************************************)
(* The two tables of the acquisition layer that a detail fetch writes:     *)
(* `fetch_queue` (one row per discovered nomination) and `raw_pages` (the  *)
(* immutable archive), with one action per statement of db.py.  Every      *)
(* statement is its own transaction.  The module has no behaviour of its   *)
(* own: the stages that call these statements are modelled by the modules  *)
(* that extend it.                                                         *)
(***************************************************************************)
EXTENDS Naturals

CONSTANTS
  Node,         \* node ids the site can list
  Content,      \* response bodies a detail page can have, up to checksum
  MaxAttempts,  \* MAX_DETAIL_ATTEMPTS
  NoPage        \* SQL null in fetch_queue.raw_page_id

(***************************************************************************)
(* raw_pages is unique on (url, checksum) and a detail url is a function   *)
(* of its node id, so a row of it, and its id, is a pair of these.         *)
(***************************************************************************)
RawPage == Node \X Content

ASSUME QueueAssumption ==
  /\ MaxAttempts \in Nat \ {0}
  /\ NoPage \notin RawPage

VARIABLES
  rowStatus,  \* fetch_queue.status, "absent" for a node without a row
  attempts,   \* fetch_queue.attempts, saturated at MaxAttempts
  rawPageId,  \* fetch_queue.raw_page_id
  rawPages    \* the detail rows of raw_pages

queueVars == <<rowStatus, attempts, rawPageId, rawPages>>

Status == {"absent", "pending", "fetching", "done", "failed"}

\* (Mutant: the claim's filter lets rows through that are being fetched.)
PendingOrFetching == {n \in Node : rowStatus[n] \in {"pending", "fetching"}}

Pending == {n \in Node : rowStatus[n] = "pending"}

QueueTypeOK ==
  /\ rowStatus \in [Node -> Status]
  /\ attempts \in [Node -> 0..MaxAttempts]
  /\ rawPageId \in [Node -> RawPage \cup {NoPage}]
  /\ rawPages \in SUBSET RawPage

QueueInit ==
  /\ rowStatus = [n \in Node |-> "absent"]
  /\ attempts = [n \in Node |-> 0]
  /\ rawPageId = [n \in Node |-> NoPage]
  /\ rawPages = {}

-----------------------------------------------------------------------------
\* (Mutant: on conflict do update set status = 'pending'.)
EnqueueDetailsReopens(S) ==
  /\ rowStatus' = [n \in Node |-> IF n \in S THEN "pending" ELSE rowStatus[n]]
  /\ UNCHANGED <<attempts, rawPageId, rawPages>>

\* enqueue_details: insert ... on conflict (node_id) do nothing.
EnqueueDetails(S) ==
  /\ rowStatus' = [n \in Node |-> IF n \in S /\ rowStatus[n] = "absent"
                                  THEN "pending" ELSE rowStatus[n]]
  /\ UNCHANGED <<attempts, rawPageId, rawPages>>

\* The column is only ever compared with MaxAttempts, so counting past it
\* changes nothing: the model's counter stops there.
OneMore(k) == IF k < MaxAttempts THEN k + 1 ELSE k

\* claim_pending: one update statement, so a row goes to one claimer.
ClaimPending(B) ==
  /\ B \subseteq Pending
  /\ rowStatus' = [n \in Node |-> IF n \in B THEN "fetching" ELSE rowStatus[n]]
  /\ attempts' = [n \in Node |-> IF n \in B THEN OneMore(attempts[n]) ELSE attempts[n]]
  /\ UNCHANGED <<rawPageId, rawPages>>

\* (Mutant: unique on the url alone, so a page that changed is not stored.)
SaveRawPageOnce(n, c) ==
  /\ rawPages' = IF \E d \in Content : <<n, d>> \in rawPages
                 THEN rawPages ELSE rawPages \cup {<<n, c>>}
  /\ UNCHANGED <<rowStatus, attempts, rawPageId>>

\* save_raw_page: insert ... on conflict do nothing; either way the caller
\* gets the id of the row with this url and checksum.
SaveRawPage(n, c) ==
  /\ rawPages' = rawPages \cup {<<n, c>>}
  /\ UNCHANGED <<rowStatus, attempts, rawPageId>>

\* mark_fetched: the update names the node only, never the status it expects.
MarkFetched(n, id) ==
  /\ rowStatus' = [rowStatus EXCEPT ![n] = "done"]
  /\ rawPageId' = [rawPageId EXCEPT ![n] = id]
  /\ UNCHANGED <<attempts, rawPages>>

\* (Mutant: gives up one attempt early.)
MarkFailedEarly(n) ==
  /\ rowStatus' = [rowStatus EXCEPT ![n] =
                     IF attempts[n] + 1 >= MaxAttempts THEN "failed" ELSE "pending"]
  /\ UNCHANGED <<attempts, rawPageId, rawPages>>

\* mark_failed: back to pending, or failed once the attempts are used up.
MarkFailed(n) ==
  /\ rowStatus' = [rowStatus EXCEPT ![n] =
                     IF attempts[n] >= MaxAttempts THEN "failed" ELSE "pending"]
  /\ UNCHANGED <<attempts, rawPageId, rawPages>>

\* (Mutant: nothing is requeued.)
RequeueNothing == UNCHANGED queueVars

\* requeue_stale_fetching: whoever claimed them, all claims are returned.
RequeueStaleFetching ==
  /\ rowStatus' = [n \in Node |-> IF rowStatus[n] = "fetching"
                                  THEN "pending" ELSE rowStatus[n]]
  /\ UNCHANGED <<attempts, rawPageId, rawPages>>

\* What fetches do to the two tables, with who does it left out.  Only the
\* rows in loose are written while they are not claimed.
FetchWrites(loose) ==
  \/ RequeueStaleFetching
  \/ \E B \in SUBSET Pending : ClaimPending(B)
  \/ \E n \in Node :
       /\ rowStatus[n] = "fetching" \/ n \in loose
       /\ \/ \E c \in Content : SaveRawPage(n, c)
          \/ \E c \in Content : <<n, c>> \in rawPages /\ MarkFetched(n, <<n, c>>)
          \/ MarkFailed(n)
=============================================================================
