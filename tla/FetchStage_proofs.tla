-------------------------- MODULE FetchStage_proofs --------------------------
(***************************************************************************)
(* Theorems about FetchStage and ProxyFetch for every set of nodes, runs   *)
(* and workers.                                                            *)
(*                                                                         *)
(* Parts 1 and 2 hold whatever faults the constant Faults admits, in       *)
(* sequential and in parallel mode, except for NoClaimIsLost, which is     *)
(* about sequential mode when the server does not end the lock's session.  *)
(* Part 3 is about the lanes of ProxyFetch, in sequential mode.            *)
(***************************************************************************)
EXTENDS FetchStage, TLAPS

(***************************************************************************)
(* What a worker or a stray statement carries is what the statement it is  *)
(* at needs.  TypeOK is not inductive without it: an item or a body that   *)
(* is missing would be written to the tables.                              *)
(***************************************************************************)
Carries ==
  \A w \in Worker :
    /\ wpc[w] \in {"idle", "dead"} <=> item[w] = NoNode
    /\ wpc[w] \in {"save_raw_page", "mark_fetched"} => got[w] \in Content
    /\ wpc[w] = "mark_fetched" => <<item[w], got[w]>> \in rawPages

StrayCarries ==
  \A s \in stray :
    /\ s.op \in {"save_raw_page", "mark_fetched"} => s.content \in Content
    /\ s.op = "mark_fetched" => <<s.node, s.content>> \in rawPages

StoredInv ==
  TypeOK /\ Carries /\ StrayCarries /\ DoneHasArchive /\ FailedExhausted

-----------------------------------------------------------------------------
LEMMA StoredInit == Init => StoredInv
  <1> SUFFICES ASSUME Init PROVE StoredInv
    OBVIOUS
  <1> USE DEF Init, RunInit, QueueInit
  <1>1. QueueTypeOK
    BY QueueAssumption DEF QueueTypeOK, Status
  <1>2. TypeOK
    BY <1>1, RunAssumption DEF TypeOK, RunTypeOK
  <1>3. Carries /\ StrayCarries /\ DoneHasArchive /\ FailedExhausted
    BY DEF Carries, StrayCarries, DoneHasArchive, FailedExhausted
  <1> QED
    BY <1>2, <1>3 DEF StoredInv

(***************************************************************************)
(* Letting go of rows keeps every worker well typed and consistent.        *)
(***************************************************************************)
LEMMA LetGoCarries ==
  ASSUME StoredInv, NEW S \in SUBSET Worker, NEW pc \in {"idle", "dead"}, LetGo(S, pc),
         rawPages \subseteq rawPages'
  PROVE  /\ wpc' \in [Worker -> {"idle", "get", "dead"} \cup Statements]
         /\ item' \in [Worker -> Node \cup {NoNode}]
         /\ got' \in [Worker -> Content \cup {NoContent}]
         /\ Carries'
  <1>1. /\ wpc' \in [Worker -> {"idle", "get", "dead"} \cup Statements]
        /\ item' \in [Worker -> Node \cup {NoNode}]
        /\ got' \in [Worker -> Content \cup {NoContent}]
    BY DEF LetGo, StoredInv, TypeOK, RunTypeOK
  <1>2. Carries'
    BY DEF LetGo, StoredInv, Carries, TypeOK, RunTypeOK
  <1> QED
    BY <1>1, <1>2

(***************************************************************************)
(* What a dead client may leave behind is a statement one of its workers   *)
(* was at, with what that worker carried.                                  *)
(***************************************************************************)
LEMMA MayStrayCarries ==
  ASSUME StoredInv, NEW S \in SUBSET Worker, MayStray(S), rawPages' = rawPages
  PROVE  stray' \in SUBSET Stray /\ StrayCarries'
  <1> DEFINE sent == {[op |-> wpc[w], node |-> item[w], content |-> got[w]] :
                        w \in {v \in S : wpc[v] \in Statements}}
  <1>1. ASSUME NEW s \in sent
        PROVE  /\ s \in Stray
               /\ s.op \in {"save_raw_page", "mark_fetched"} => s.content \in Content
               /\ s.op = "mark_fetched" => <<s.node, s.content>> \in rawPages
    <2>1. PICK w \in S : /\ wpc[w] \in Statements
                         /\ s = [op |-> wpc[w], node |-> item[w], content |-> got[w]]
      BY <1>1
    <2>2. item[w] \in Node /\ got[w] \in Content \cup {NoContent}
      BY <2>1 DEF StoredInv, TypeOK, RunTypeOK, Carries, Statements
    <2> QED
      BY <2>1, <2>2 DEF StoredInv, Carries, Stray
  <1>2. PICK T \in SUBSET sent : stray' = stray \cup T
    BY DEF MayStray
  <1>3. stray' \in SUBSET Stray
    BY <1>1, <1>2 DEF StoredInv, TypeOK, RunTypeOK
  <1>4. StrayCarries'
    BY <1>1, <1>2 DEF StoredInv, StrayCarries
  <1> QED
    BY <1>3, <1>4

LEMMA StrayNodes ==
  ASSUME StoredInv, stray' \in SUBSET Stray, LoosenStray
  PROVE  escaped' \in SUBSET Node
  BY DEF LoosenStray, Loosen, Stray, StoredInv, TypeOK

(***************************************************************************)
(* Every step keeps StoredInv.                                             *)
(***************************************************************************)
LEMMA StoredStep == StoredInv /\ [Next]_vars => StoredInv'
  <1> SUFFICES ASSUME StoredInv, [Next]_vars
               PROVE  StoredInv'
    OBVIOUS
  <1>t. TypeOK /\ Carries /\ StrayCarries /\ DoneHasArchive /\ FailedExhausted
    BY DEF StoredInv
  <1> USE <1>t, QueueAssumption, RunAssumption
  <1> USE DEF TypeOK, RunTypeOK, QueueTypeOK, Status, RawPage
  <1>1. ASSUME NEW S \in SUBSET Node, Discover(S), UNCHANGED stageVars
        PROVE  StoredInv'
    <2> USE <1>1 DEF Discover, EnqueueDetails, runVars, workerVars, faultVars, stageVars
    <2>1. TypeOK'
      OBVIOUS
    <2>2. Carries' /\ StrayCarries'
      BY DEF Carries, StrayCarries
    <2>3. DoneHasArchive' /\ FailedExhausted'
      BY DEF DoneHasArchive, FailedExhausted
    <2> QED
      BY <2>1, <2>2, <2>3 DEF StoredInv
  <1>2. ASSUME NEW r \in Run, StartFetch(r), UNCHANGED stageVars
        PROVE  StoredInv'
    <2> USE <1>2 DEF StartFetch, queueVars, workerVars, faultVars, stageVars
    <2>1. TypeOK'
      OBVIOUS
    <2> QED
      BY <2>1 DEF StoredInv, Carries, StrayCarries, DoneHasArchive, FailedExhausted
  <1>3. ASSUME NEW r \in Run, Requeue(r)
        PROVE  StoredInv'
    <2> USE <1>3 DEF Requeue, RequeueStale, RequeueStaleFetching, Loosen, workerVars, faultVars
    <2>1. TypeOK'
      <3>1. \A s \in Run : HeldBy(s) \subseteq Node
        BY DEF HeldBy, Team
      <3>2. escaped' \in SUBSET Node
        BY <3>1
      <3> QED
        BY <3>2
    <2>2. Carries' /\ StrayCarries'
      BY DEF Carries, StrayCarries
    <2>3. DoneHasArchive' /\ FailedExhausted'
      BY DEF DoneHasArchive, FailedExhausted
    <2> QED
      BY <2>1, <2>2, <2>3 DEF StoredInv
  <1>4. ASSUME NEW r \in Run, Claim(r)
        PROVE  StoredInv'
    <2>1. PICK B \in SUBSET Pending :
            /\ ClaimPending(B)
            /\ batch' = [batch EXCEPT ![r] = B]
            /\ stage' = [stage EXCEPT ![r] = IF B = {} THEN "join" ELSE "feed"]
      BY <1>4 DEF Claim
    <2>2. UNCHANGED <<lock, workerVars, faultVars, inbox, escaped>>
      BY <1>4 DEF Claim
    <2> USE <2>1, <2>2 DEF ClaimPending, Pending, OneMore, workerVars, faultVars
    <2>3. TypeOK'
      OBVIOUS
    <2>4. Carries' /\ StrayCarries'
      BY DEF Carries, StrayCarries
    <2>5. DoneHasArchive' /\ FailedExhausted'
      BY DEF DoneHasArchive, FailedExhausted
    <2> QED
      BY <2>3, <2>4, <2>5 DEF StoredInv
  <1>5. ASSUME NEW r \in Run, Put(r)
        PROVE  StoredInv'
    <2> USE <1>5 DEF Put, queueVars, workerVars, faultVars
    <2>1. TypeOK'
      OBVIOUS
    <2> QED
      BY <2>1 DEF StoredInv, Carries, StrayCarries, DoneHasArchive, FailedExhausted
  <1>6. ASSUME NEW w \in Worker, Take(w)
        PROVE  StoredInv'
    <2> USE <1>6 DEF Take, queueVars, faultVars
    <2>1. TypeOK'
      OBVIOUS
    <2>2. Carries' /\ StrayCarries'
      BY DEF Carries, StrayCarries
    <2> QED
      BY <2>1, <2>2 DEF StoredInv, DoneHasArchive, FailedExhausted
  <1>7. ASSUME NEW w \in Worker, Answer(w), UNCHANGED stageVars
        PROVE  StoredInv'
    <2> USE <1>7 DEF Answer, queueVars, faultVars, stageVars
    <2>1. TypeOK'
      BY DEF Statements
    <2>2. Carries'
      <3>1. CASE \E c \in Content : /\ got' = [got EXCEPT ![w] = c]
                                    /\ wpc' = [wpc EXCEPT ![w] = "save_raw_page"]
        BY <3>1 DEF Carries
      <3>2. CASE wpc' = [wpc EXCEPT ![w] = "mark_failed"] /\ UNCHANGED got
        BY <3>2 DEF Carries
      <3> QED
        BY <3>1, <3>2
    <2>3. StrayCarries'
      BY DEF StrayCarries
    <2> QED
      BY <2>1, <2>2, <2>3 DEF StoredInv, DoneHasArchive, FailedExhausted
  <1>8. ASSUME NEW w \in Worker, SavePage(w), UNCHANGED stageVars
        PROVE  StoredInv'
    <2> USE <1>8 DEF SavePage, SaveRawPage, faultVars, stageVars
    <2>1. item[w] \in Node /\ got[w] \in Content
      BY DEF Carries
    <2>2. TypeOK'
      BY <2>1 DEF Statements
    <2>3. Carries' /\ StrayCarries'
      BY <2>1 DEF Carries, StrayCarries
    <2>4. DoneHasArchive' /\ FailedExhausted'
      BY DEF DoneHasArchive, FailedExhausted
    <2> QED
      BY <2>2, <2>3, <2>4 DEF StoredInv
  <1>9. ASSUME NEW w \in Worker, Fetched(w), UNCHANGED stageVars
        PROVE  StoredInv'
    <2> USE <1>9 DEF Fetched, MarkFetched, faultVars, stageVars
    <2>1. item[w] \in Node /\ got[w] \in Content /\ <<item[w], got[w]>> \in rawPages
      BY DEF Carries
    <2>2. Carries' /\ wpc' \in [Worker -> {"idle", "get", "dead"} \cup Statements]
          /\ item' \in [Worker -> Node \cup {NoNode}]
          /\ got' \in [Worker -> Content \cup {NoContent}]
      BY LetGoCarries
    <2>3. TypeOK'
      BY <2>1, <2>2
    <2>4. StrayCarries'
      BY DEF StrayCarries
    <2>5. DoneHasArchive'
      BY <2>1 DEF DoneHasArchive
    <2>6. FailedExhausted'
      BY <2>1 DEF FailedExhausted
    <2> QED
      BY <2>2, <2>3, <2>4, <2>5, <2>6 DEF StoredInv
  <1>10. ASSUME NEW w \in Worker, Bounced(w), UNCHANGED stageVars
         PROVE  StoredInv'
    <2> USE <1>10 DEF Bounced, MarkFailed, faultVars, stageVars
    <2>1. item[w] \in Node
      BY DEF Carries
    <2>2. Carries' /\ wpc' \in [Worker -> {"idle", "get", "dead"} \cup Statements]
          /\ item' \in [Worker -> Node \cup {NoNode}]
          /\ got' \in [Worker -> Content \cup {NoContent}]
      BY LetGoCarries
    <2>3. TypeOK'
      BY <2>1, <2>2
    <2>4. StrayCarries'
      BY DEF StrayCarries
    <2>5. DoneHasArchive'
      BY <2>1 DEF DoneHasArchive
    <2>6. FailedExhausted'
      <3>1. PICK m \in Node : m = item[w]
        BY <2>1
      <3>2. attempts[m] \in 0..MaxAttempts /\ attempts' = attempts
        OBVIOUS
      <3>3. rowStatus' = [rowStatus EXCEPT ![m] =
                            IF attempts[m] >= MaxAttempts THEN "failed" ELSE "pending"]
        BY <3>1
      <3>4. ASSUME NEW n \in Node, rowStatus'[n] = "failed"
            PROVE  attempts[n] = MaxAttempts
        <4>1. CASE n = m
          BY <3>2, <3>3, <3>4, <4>1
        <4>2. CASE n # m
          BY <3>3, <3>4, <4>2 DEF FailedExhausted
        <4> QED
          BY <4>1, <4>2
      <3> QED
        BY <3>2, <3>4 DEF FailedExhausted
    <2> QED
      BY <2>2, <2>3, <2>4, <2>5, <2>6 DEF StoredInv
  <1>11. ASSUME NEW r \in Run, Finish(r)
         PROVE  StoredInv'
    <2> USE <1>11 DEF Finish, Unlock, Team, queueVars, faultVars, stageVars
    <2>1. Carries' /\ wpc' \in [Worker -> {"idle", "get", "dead"} \cup Statements]
          /\ item' \in [Worker -> Node \cup {NoNode}]
          /\ got' \in [Worker -> Content \cup {NoContent}]
      BY LetGoCarries
    <2>2. TypeOK'
      BY <2>1
    <2>3. StrayCarries' /\ DoneHasArchive' /\ FailedExhausted'
      BY DEF StrayCarries, DoneHasArchive, FailedExhausted
    <2> QED
      BY <2>1, <2>2, <2>3 DEF StoredInv
  <1>12. ASSUME NEW w \in Worker, StatementRaises(w), LoosenStray, UNCHANGED <<batch, inbox>>
         PROVE  StoredInv'
    <2> USE <1>12 DEF StatementRaises, Fault, queueVars
    <2>1. stray' \in SUBSET Stray /\ StrayCarries'
      BY MayStrayCarries
    <2>2. Carries' /\ wpc' \in [Worker -> {"idle", "get", "dead"} \cup Statements]
          /\ item' \in [Worker -> Node \cup {NoNode}]
          /\ got' \in [Worker -> Content \cup {NoContent}]
      <3>1. CASE wpc[w] = "mark_failed"
        BY <3>1, LetGoCarries
      <3>2. CASE wpc[w] # "mark_failed"
        <4>1. /\ wpc' = [wpc EXCEPT ![w] = "mark_failed"]
              /\ got' = [got EXCEPT ![w] = NoContent]
              /\ item' = item /\ rawPages' = rawPages
          BY <3>2
        <4>2. wpc[w] \notin {"idle", "dead"}
          BY DEF Statements
        <4> QED
          BY <4>1, <4>2 DEF Carries, Statements
      <3> QED
        BY <3>1, <3>2
    <2>3. TypeOK'
      BY <2>1, <2>2, StrayNodes
    <2>4. DoneHasArchive' /\ FailedExhausted'
      BY DEF DoneHasArchive, FailedExhausted
    <2> QED
      BY <2>1, <2>2, <2>3, <2>4 DEF StoredInv
  <1>e. ASSUME NEW r \in Run,
               MayStray(Team(r)), Unlock(r), Drop(r), UNCHANGED queueVars, faults' \in 0..MaxFaults
        PROVE  StoredInv'
    <2> USE <1>e DEF Unlock, Team, Drop, queueVars
    <2>2. stray' \in SUBSET Stray /\ StrayCarries'
      BY MayStrayCarries
    <2>3. Carries' /\ wpc' \in [Worker -> {"idle", "get", "dead"} \cup Statements]
          /\ item' \in [Worker -> Node \cup {NoNode}]
          /\ got' \in [Worker -> Content \cup {NoContent}]
      BY LetGoCarries
    <2>4. TypeOK'
      BY <2>2, <2>3, StrayNodes
    <2>5. DoneHasArchive' /\ FailedExhausted'
      BY DEF DoneHasArchive, FailedExhausted
    <2> QED
      BY <2>2, <2>3, <2>4, <2>5 DEF StoredInv
  <1>13. ASSUME NEW r \in Run, Die(r)
         PROVE  StoredInv'
    BY <1>13, <1>e DEF Die, Crash, Fault
  <1>x. ASSUME NEW r \in Run, Exit(r), Drop(r)
        PROVE  StoredInv'
    BY <1>x, <1>e DEF Exit
  <1>17. ASSUME NEW r \in Run, UnwindMain(r)
         PROVE  StoredInv'
    <2> USE <1>17 DEF UnwindMain, Unwind, Fault, queueVars, workerVars
    <2>1. TypeOK'
      OBVIOUS
    <2> QED
      BY <2>1 DEF StoredInv, Carries, StrayCarries, DoneHasArchive, FailedExhausted
  <1>14. ASSUME LoseLock, UNCHANGED stageVars
         PROVE  StoredInv'
    <2> USE <1>14 DEF LoseLock, Fault, queueVars, workerVars, stageVars
    <2>1. TypeOK'
      OBVIOUS
    <2> QED
      BY <2>1 DEF StoredInv, Carries, StrayCarries, DoneHasArchive, FailedExhausted
  <1>15. ASSUME NEW s \in stray, CommitStray(s), UNCHANGED stageVars
         PROVE  StoredInv'
    <2> USE <1>15 DEF CommitStray, workerVars, stageVars
    <2>1. /\ s.op \in Statements /\ s.node \in Node
          /\ s.op \in {"save_raw_page", "mark_fetched"} => s.content \in Content
          /\ s.op = "mark_fetched" => <<s.node, s.content>> \in rawPages
      BY DEF Stray, StrayCarries
    <2>2. CASE s.op = "save_raw_page" /\ SaveRawPage(s.node, s.content)
      BY <2>1, <2>2 DEF SaveRawPage, StoredInv, Carries, StrayCarries, DoneHasArchive, FailedExhausted
    <2>3. CASE s.op = "mark_fetched" /\ MarkFetched(s.node, <<s.node, s.content>>)
      <3>1. TypeOK'
        BY <2>1, <2>3 DEF MarkFetched
      <3>2. Carries' /\ StrayCarries' /\ DoneHasArchive' /\ FailedExhausted'
        BY <2>1, <2>3 DEF MarkFetched, Carries, StrayCarries, DoneHasArchive, FailedExhausted
      <3> QED
        BY <3>1, <3>2 DEF StoredInv
    <2>4. CASE s.op = "mark_failed" /\ MarkFailed(s.node)
      <3>1. TypeOK'
        BY <2>1, <2>4 DEF MarkFailed
      <3>2. Carries' /\ StrayCarries'
        BY <2>1, <2>4 DEF MarkFailed, Carries, StrayCarries
      <3>3. DoneHasArchive'
        BY <2>1, <2>4 DEF MarkFailed, DoneHasArchive
      <3>4. FailedExhausted'
        <4>1. PICK m \in Node : m = s.node
          BY <2>1
        <4>2. attempts[m] \in 0..MaxAttempts /\ attempts' = attempts
          BY <2>4 DEF MarkFailed
        <4>3. rowStatus' = [rowStatus EXCEPT ![m] =
                              IF attempts[m] >= MaxAttempts THEN "failed" ELSE "pending"]
          BY <2>4, <4>1 DEF MarkFailed
        <4>4. ASSUME NEW n \in Node, rowStatus'[n] = "failed"
              PROVE  attempts[n] = MaxAttempts
          <5>1. CASE n = m
            BY <4>2, <4>3, <4>4, <5>1
          <5>2. CASE n # m
            BY <4>3, <4>4, <5>2 DEF FailedExhausted
          <5> QED
            BY <5>1, <5>2
        <4> QED
          BY <4>2, <4>4 DEF FailedExhausted
      <3> QED
        BY <3>1, <3>2, <3>3, <3>4 DEF StoredInv
    <2> QED
      BY <2>2, <2>3, <2>4
  <1>16. CASE UNCHANGED vars
    BY <1>16 DEF vars, queueVars, runVars, workerVars, faultVars, stageVars,
                 StoredInv, Carries, StrayCarries, DoneHasArchive, FailedExhausted
  <1>m. ASSUME NEW r \in Run, MainStep(r)
        PROVE  StoredInv'
    BY <1>m, <1>3, <1>4, <1>5, <1>11, <1>x DEF MainStep
  <1>w. ASSUME NEW w \in Worker, WorkerStep(w)
        PROVE  StoredInv'
    BY <1>w, <1>6, <1>7, <1>8, <1>9, <1>10 DEF WorkerStep
  <1>f. ASSUME FaultStep
        PROVE  StoredInv'
    <2>1. CASE \E w \in Worker : StatementRaises(w) /\ LoosenStray /\ UNCHANGED <<batch, inbox>>
      BY <2>1, <1>12
    <2>2. CASE \E r \in Run : Die(r) \/ UnwindMain(r)
      BY <2>2, <1>13, <1>17
    <2>3. CASE LoseLock /\ UNCHANGED stageVars
      BY <2>3, <1>14
    <2>4. CASE \E s \in stray : CommitStray(s) /\ UNCHANGED stageVars
      BY <2>4, <1>15
    <2> QED
      BY <1>f, <2>1, <2>2, <2>3, <2>4 DEF FaultStep
  <1> QED
    BY <1>1, <1>2, <1>m, <1>w, <1>f, <1>16 DEF Next

(***************************************************************************)
(* The variables of the fetch stage keep their types, whatever crashes,    *)
(* errors and late commits happen.                                         *)
(***************************************************************************)
THEOREM TypeCorrect == Spec => []TypeOK
  <1>1. StoredInv => TypeOK
    BY DEF StoredInv
  <1> QED
    BY <1>1, StoredInit, StoredStep, PTL DEF Spec

(***************************************************************************)
(* A row marked done always names an archived page of its own node, under  *)
(* every fault of the model and in both pipeline modes.                    *)
(***************************************************************************)
THEOREM DoneIsArchived == Spec => []DoneHasArchive
  <1>1. StoredInv => DoneHasArchive
    BY DEF StoredInv
  <1> QED
    BY <1>1, StoredInit, StoredStep, PTL DEF Spec

(***************************************************************************)
(* A row is given up on only when its attempts are used up.                *)
(***************************************************************************)
THEOREM GivenUpExhausted == Spec => []FailedExhausted
  <1>1. StoredInv => FailedExhausted
    BY DEF StoredInv
  <1> QED
    BY <1>1, StoredInit, StoredStep, PTL DEF Spec

-----------------------------------------------------------------------------
(***************************************************************************)
(* Part 2.  Hands.  The strengthening of ClaimExclusive: a run that is off *)
(* or has yet to requeue holds nothing, only a run that feeds has a batch, *)
(* and a row that has not escaped is in 'fetching' while it is held, in    *)
(* one place; a statement without a client is about a row that escaped.    *)
(***************************************************************************)
EmptyHanded ==
  \A r \in Run : stage[r] \in {"off", "requeue"} =>
    batch[r] = {} /\ inbox[r] = {} /\ \A w \in Team(r) : item[w] = NoNode

FeedingOnly == \A r \in Run : stage[r] # "feed" => batch[r] = {}

HeldIsFetching ==
  /\ \A r \in Run : \A n \in (batch[r] \cup inbox[r]) \ escaped : rowStatus[n] = "fetching"
  /\ \A w \in Worker : item[w] \notin escaped \cup {NoNode} => rowStatus[item[w]] = "fetching"

OnePlace ==
  /\ \A r, s \in Run : r # s => /\ batch[r] \cap batch[s] \subseteq escaped
                                /\ inbox[r] \cap inbox[s] \subseteq escaped
  /\ \A r, s \in Run : batch[r] \cap inbox[s] \subseteq escaped
  /\ \A w \in Worker, r \in Run : item[w] \notin (batch[r] \cup inbox[r]) \ escaped
  /\ \A v, w \in Worker : v # w /\ item[v] = item[w] => item[w] \in escaped \cup {NoNode}

StrayEscaped == \A s \in stray : s.node \in escaped

HandInv ==
  /\ StoredInv
  /\ EmptyHanded
  /\ FeedingOnly
  /\ HeldIsFetching
  /\ OnePlace
  /\ StrayEscaped

LEMMA HandInit == Init => HandInv
  <1> SUFFICES ASSUME Init PROVE HandInv
    OBVIOUS
  <1>1. StoredInv
    BY StoredInit
  <1>2. StrayEscaped /\ EmptyHanded /\ FeedingOnly
    BY RunAssumption DEF Init, RunInit, StrayEscaped, EmptyHanded, FeedingOnly, Team
  <1>3. HeldIsFetching /\ OnePlace
    BY RunAssumption DEF Init, RunInit, HeldIsFetching, OnePlace
  <1> QED
    BY <1>1, <1>2, <1>3 DEF HandInv

LEMMA HandExclusive == HandInv => ClaimExclusive
  <1> SUFFICES ASSUME HandInv PROVE ClaimExclusive
    OBVIOUS
  <1> USE RunAssumption DEF HandInv
  <1>1. \A r \in Run : \A n \in HeldBy(r) \ escaped : rowStatus[n] = "fetching"
    BY DEF HeldIsFetching, HeldBy, Team
  <1>2. ASSUME NEW r \in Run, NEW s \in Run, r # s, NEW n \in HeldBy(r) \cap HeldBy(s)
        PROVE  n \in escaped
    <2>1. CASE n \in batch[r] \cup inbox[r]
      BY <1>2, <2>1 DEF OnePlace, HeldBy, Team
    <2>2. CASE \E w \in Team(r) : item[w] # NoNode /\ item[w] = n
      BY <1>2, <2>2 DEF OnePlace, HeldBy, Team
    <2> QED
      BY <1>2, <2>1, <2>2 DEF HeldBy
  <1>3. OneHand
    BY DEF OnePlace, OneHand
  <1> QED
    BY <1>1, <1>2, <1>3 DEF ClaimExclusive, HandedOut

(***************************************************************************)
(* A row that escapes in a step is a claimed one.                          *)
(***************************************************************************)
Escapes ==
  /\ escaped \subseteq escaped'
  /\ \A n \in escaped' \ escaped : rowStatus[n] = "fetching"

LEMMA StrayEscapes ==
  ASSUME HandInv, NEW S \in SUBSET Worker, MayStray(S), LoosenStray
  PROVE  /\ Escapes
         /\ StrayEscaped'
  <1>1. StrayEscaped' /\ escaped \subseteq escaped'
    BY DEF LoosenStray, Loosen, StrayEscaped
  <1>2. ASSUME NEW n \in escaped', n \notin escaped
        PROVE  rowStatus[n] = "fetching"
    <2>1. PICK s \in stray' : n = s.node
      BY <1>2 DEF LoosenStray, Loosen
    <2>2. s \notin stray
      BY <1>2, <2>1 DEF HandInv, StrayEscaped
    <2>3. PICK w \in S : wpc[w] \in Statements /\ item[w] = s.node
      BY <2>2 DEF MayStray
    <2>4. item[w] # NoNode
      BY <2>3 DEF HandInv, StoredInv, Carries, Statements
    <2> QED
      BY <1>2, <2>1, <2>3, <2>4 DEF HandInv, HeldIsFetching
  <1> QED
    BY <1>1, <1>2 DEF Escapes

LEMMA RequeueEscapes ==
  ASSUME HandInv, NEW r \in Run, Requeue(r)
  PROVE  Escapes
  <1>1. \A s \in Run : \A n \in HeldBy(s) \ escaped : rowStatus[n] = "fetching"
    BY HandExclusive DEF ClaimExclusive, HandedOut
  <1> QED
    BY <1>1 DEF Requeue, Loosen, Escapes

(***************************************************************************)
(* Every step keeps HandInv, in both modes and under every fault.          *)
(***************************************************************************)
LEMMA HandStep ==
  ASSUME HandInv, [Next]_vars
  PROVE  HandInv'
  <1>t. /\ StoredInv /\ TypeOK /\ Carries /\ StrayEscaped
        /\ EmptyHanded /\ FeedingOnly /\ HeldIsFetching /\ OnePlace
    BY DEF HandInv, StoredInv
  <1>s. StoredInv'
    BY <1>t, StoredStep
  <1> USE <1>t, RunAssumption
  <1> USE DEF TypeOK, RunTypeOK, QueueTypeOK, Team
  <1>q. ASSUME UNCHANGED <<runVars, stageVars>>,
               \A n \in Node : rowStatus[n] = "fetching" => rowStatus'[n] = "fetching"
        PROVE  HandInv'
    <2> USE <1>q DEF runVars, workerVars, faultVars, stageVars
    <2>1. StrayEscaped' /\ EmptyHanded' /\ FeedingOnly'
      BY DEF StrayEscaped, EmptyHanded, FeedingOnly
    <2>2. HeldIsFetching'
      BY DEF HeldIsFetching
    <2>3. OnePlace'
      BY DEF OnePlace
    <2> QED
      BY <1>s, <2>1, <2>2, <2>3 DEF HandInv
  <1>1. ASSUME NEW S \in SUBSET Node, Discover(S), UNCHANGED stageVars
        PROVE  HandInv'
    BY <1>1, <1>q DEF Discover, EnqueueDetails
  <1>2. ASSUME NEW r \in Run, StartFetch(r), UNCHANGED stageVars
        PROVE  HandInv'
    <2> USE <1>2 DEF StartFetch, Live, queueVars, workerVars, faultVars, stageVars
    <2>1. StrayEscaped'
      BY DEF StrayEscaped
    <2>2. EmptyHanded' /\ FeedingOnly'
      BY DEF EmptyHanded, FeedingOnly
    <2>3. HeldIsFetching' /\ OnePlace'
      BY DEF HeldIsFetching, OnePlace
    <2> QED
      BY <1>s, <2>1, <2>2, <2>3 DEF HandInv
  <1>3. ASSUME NEW r \in Run, Requeue(r)
        PROVE  HandInv'
    <2> USE <1>3 DEF Requeue, RequeueStale, Loosen, workerVars, faultVars
    <2>1. StrayEscaped' /\ EmptyHanded' /\ FeedingOnly'
      BY DEF StrayEscaped, EmptyHanded, FeedingOnly
    <2>2. \A s \in Run : HeldBy(s) \subseteq escaped'
      OBVIOUS
    <2>3. /\ \A s \in Run : batch'[s] \cup inbox'[s] \subseteq escaped'
          /\ \A w \in Worker : item'[w] \in escaped' \cup {NoNode}
      BY <2>2 DEF HeldBy
    <2>4. HeldIsFetching' /\ OnePlace'
      BY <2>3 DEF HeldIsFetching, OnePlace
    <2> QED
      BY <1>s, <2>1, <2>4 DEF HandInv
  <1>4. ASSUME NEW r \in Run, Claim(r)
        PROVE  HandInv'
    <2>1. PICK B \in SUBSET Pending :
            /\ ClaimPending(B)
            /\ batch' = [batch EXCEPT ![r] = B]
            /\ stage' = [stage EXCEPT ![r] = IF B = {} THEN "join" ELSE "feed"]
      BY <1>4 DEF Claim
    <2>2. UNCHANGED <<lock, workerVars, faultVars, inbox, escaped>> /\ stage[r] = "crawl"
      BY <1>4 DEF Claim
    <2> USE <2>1, <2>2 DEF ClaimPending, Pending, workerVars, faultVars
    <2>3. StrayEscaped'
      BY DEF StrayEscaped
    <2>4. EmptyHanded' /\ FeedingOnly'
      BY DEF EmptyHanded, FeedingOnly
    <2>5. HeldIsFetching'
      BY DEF HeldIsFetching
    <2>6. OnePlace'
      <3>1. \A n \in B \ escaped : /\ \A s \in Run : n \notin batch[s] \cup inbox[s]
                                   /\ \A w \in Worker : item[w] # n
        BY DEF HeldIsFetching
      <3>2. /\ \A s, u \in Run : s # u => batch'[s] \cap batch'[u] \subseteq escaped
            /\ \A s, u \in Run : batch'[s] \cap inbox'[u] \subseteq escaped
        BY <3>1 DEF OnePlace
      <3>3. \A w \in Worker, s \in Run : item'[w] \notin (batch'[s] \cup inbox'[s]) \ escaped
        BY <3>1 DEF OnePlace
      <3> QED
        BY <3>2, <3>3 DEF OnePlace
    <2> QED
      BY <1>s, <2>3, <2>4, <2>5, <2>6 DEF HandInv
  <1>5. ASSUME NEW r \in Run, Put(r)
        PROVE  HandInv'
    <2>0. PICK n \in batch[r] :
            /\ batch' = [batch EXCEPT ![r] = @ \ {n}]
            /\ inbox' = [inbox EXCEPT ![r] = @ \cup {n}]
            /\ stage' = [stage EXCEPT ![r] = IF batch[r] = {n} THEN "crawl" ELSE "feed"]
      BY <1>5 DEF Put
    <2>1. stage[r] = "feed" /\ UNCHANGED <<queueVars, lock, workerVars, faultVars, escaped>>
      BY <1>5 DEF Put
    <2> USE <2>0, <2>1 DEF queueVars, workerVars, faultVars
    <2>2. StrayEscaped' /\ EmptyHanded' /\ FeedingOnly'
      BY DEF StrayEscaped, EmptyHanded, FeedingOnly
    <2>3. HeldIsFetching'
      BY DEF HeldIsFetching
    <2>4. \A s \in Run : /\ batch'[s] \subseteq batch[s]
                         /\ inbox'[s] \subseteq inbox[s] \cup (IF s = r THEN {n} ELSE {})
      OBVIOUS
    <2>5. n \notin batch'[r] /\ n \in batch[r]
      OBVIOUS
    <2>6. /\ \A s, u \in Run : s # u => /\ batch'[s] \cap batch'[u] \subseteq escaped
                                        /\ inbox'[s] \cap inbox'[u] \subseteq escaped
          /\ \A s, u \in Run : batch'[s] \cap inbox'[u] \subseteq escaped
      BY <2>4, <2>5 DEF OnePlace
    <2>7. \A w \in Worker, s \in Run : item'[w] \notin (batch'[s] \cup inbox'[s]) \ escaped
      BY <2>4, <2>5 DEF OnePlace
    <2>8. OnePlace'
      BY <2>6, <2>7 DEF OnePlace
    <2> QED
      BY <1>s, <2>2, <2>3, <2>8 DEF HandInv
  <1>6. ASSUME NEW w \in Worker, Take(w)
        PROVE  HandInv'
    <2>0. PICK n \in inbox[RunOf[w]] :
            /\ inbox' = [inbox EXCEPT ![RunOf[w]] = @ \ {n}]
            /\ item' = [item EXCEPT ![w] = n]
            /\ wpc' = [wpc EXCEPT ![w] = "get"]
      BY <1>6 DEF Take
    <2>1. UNCHANGED <<queueVars, lock, stage, got, faultVars, batch, escaped>>
      BY <1>6 DEF Take
    <2> USE <2>0, <2>1 DEF queueVars, faultVars
    <2>2. StrayEscaped' /\ FeedingOnly'
      BY DEF StrayEscaped, FeedingOnly
    <2>3. EmptyHanded'
      BY DEF EmptyHanded
    <2>4. HeldIsFetching'
      BY DEF HeldIsFetching
    <2>5. \A s \in Run : inbox'[s] \subseteq inbox[s]
      OBVIOUS
    <2>6. n \notin escaped =>
            /\ \A s \in Run : n \notin batch[s] \cup inbox'[s]
            /\ \A v \in Worker : item[v] # n
      BY DEF OnePlace
    <2>7. \A v \in Worker, s \in Run : item'[v] \notin (batch'[s] \cup inbox'[s]) \ escaped
      BY <2>5, <2>6 DEF OnePlace
    <2>8. \A u, v \in Worker : u # v /\ item'[u] = item'[v] => item'[v] \in escaped \cup {NoNode}
      BY <2>6 DEF OnePlace
    <2>9. OnePlace'
      BY <2>5, <2>7, <2>8 DEF OnePlace
    <2> QED
      BY <1>s, <2>2, <2>3, <2>4, <2>9 DEF HandInv
  <1>7. ASSUME NEW w \in Worker,
               Answer(w) \/ SavePage(w), UNCHANGED stageVars
        PROVE  HandInv'
    <2>1. UNCHANGED <<rowStatus, lock, stage, item, stray, stageVars>>
      BY <1>7 DEF Answer, SavePage, SaveRawPage, queueVars, faultVars
    <2> USE <2>1 DEF stageVars
    <2>2. StrayEscaped' /\ EmptyHanded' /\ FeedingOnly'
      BY DEF StrayEscaped, EmptyHanded, FeedingOnly
    <2>3. HeldIsFetching' /\ OnePlace'
      BY DEF HeldIsFetching, OnePlace
    <2> QED
      BY <1>s, <2>2, <2>3 DEF HandInv
  <1>g. ASSUME NEW w \in Worker, item[w] \in Node, LetGo({w}, "idle"),
               \A n \in Node \ {item[w]} : rowStatus'[n] = rowStatus[n],
               UNCHANGED <<lock, stage, stray, stageVars>>
        PROVE  HandInv'
    <2> USE <1>g DEF LetGo, stageVars
    <2>1. StrayEscaped' /\ EmptyHanded' /\ FeedingOnly'
      BY DEF StrayEscaped, EmptyHanded, FeedingOnly
    <2>2. \A r \in Run : item[w] \notin (batch[r] \cup inbox[r]) \ escaped
      BY DEF OnePlace
    <2>3. HeldIsFetching'
      BY <2>2 DEF HeldIsFetching, OnePlace
    <2>4. OnePlace'
      BY DEF OnePlace
    <2> QED
      BY <1>s, <2>1, <2>3, <2>4 DEF HandInv
  <1>8. ASSUME NEW w \in Worker, Fetched(w), UNCHANGED stageVars
        PROVE  HandInv'
    <2>1. item[w] \in Node
      BY <1>8 DEF Fetched, Carries
    <2> QED
      BY <1>8, <1>g, <2>1 DEF Fetched, MarkFetched, faultVars
  <1>9. ASSUME NEW w \in Worker, Bounced(w), UNCHANGED stageVars
        PROVE  HandInv'
    <2>1. item[w] \in Node
      BY <1>9 DEF Bounced, Carries
    <2> QED
      BY <1>9, <1>g, <2>1 DEF Bounced, MarkFailed, faultVars
  <1>l. ASSUME UNCHANGED rowStatus, escaped \subseteq escaped', StrayEscaped',
               EmptyHanded', FeedingOnly',
               \A r \in Run : batch'[r] \subseteq batch[r] /\ inbox'[r] \subseteq inbox[r],
               \A w \in Worker : item'[w] \in {item[w], NoNode}
        PROVE  HandInv'
    <2> USE <1>l
    <2>1. HeldIsFetching'
      BY DEF HeldIsFetching
    <2>2. OnePlace'
      <3>1. \A w \in Worker : item'[w] # NoNode => item'[w] = item[w]
        OBVIOUS
      <3>2. /\ \A r, s \in Run : r # s => /\ batch'[r] \cap batch'[s] \subseteq escaped'
                                          /\ inbox'[r] \cap inbox'[s] \subseteq escaped'
            /\ \A r, s \in Run : batch'[r] \cap inbox'[s] \subseteq escaped'
        BY DEF OnePlace
      <3>3. \A w \in Worker, r \in Run : item'[w] \notin (batch'[r] \cup inbox'[r]) \ escaped'
        BY <3>1 DEF OnePlace
      <3>4. \A v, w \in Worker : v # w /\ item'[v] = item'[w] => item'[w] \in escaped' \cup {NoNode}
        BY <3>1 DEF OnePlace
      <3> QED
        BY <3>2, <3>3, <3>4 DEF OnePlace
    <2> QED
      BY <1>s, <2>1, <2>2 DEF HandInv
  <1>10. ASSUME NEW r \in Run, Finish(r)
         PROVE  HandInv'
    <2> USE <1>10 DEF Finish, Unlock, LetGo, queueVars, faultVars, stageVars
    <2>1. StrayEscaped'
      BY DEF StrayEscaped
    <2>2. EmptyHanded' /\ FeedingOnly'
      BY DEF EmptyHanded, FeedingOnly
    <2> QED
      BY <1>l, <2>1, <2>2
  <1>11. ASSUME NEW w \in Worker, StatementRaises(w), LoosenStray, UNCHANGED <<batch, inbox>>
         PROVE  HandInv'
    <2> USE <1>11 DEF StatementRaises, LetGo, queueVars
    <2>1. StrayEscaped' /\ escaped \subseteq escaped'
      BY StrayEscapes DEF Escapes
    <2>2. EmptyHanded' /\ FeedingOnly'
      BY DEF EmptyHanded, FeedingOnly
    <2> QED
      BY <1>l, <2>1, <2>2
  <1>e. ASSUME NEW r \in Run,
               MayStray(Team(r)), Unlock(r), Drop(r), UNCHANGED queueVars
        PROVE  HandInv'
    <2> USE <1>e DEF Unlock, LetGo, Drop, queueVars
    <2>2. StrayEscaped' /\ escaped \subseteq escaped'
      BY StrayEscapes DEF Escapes
    <2>3. EmptyHanded' /\ FeedingOnly'
      BY DEF EmptyHanded, FeedingOnly
    <2> QED
      BY <1>l, <2>2, <2>3
  <1>12. ASSUME NEW r \in Run, Die(r)
         PROVE  HandInv'
    BY <1>12, <1>e DEF Die, Crash, Fault
  <1>x. ASSUME NEW r \in Run, Exit(r), Drop(r)
        PROVE  HandInv'
    BY <1>x, <1>e DEF Exit
  <1>13. ASSUME NEW r \in Run, UnwindMain(r)
         PROVE  HandInv'
    <2> USE <1>13 DEF UnwindMain, Unwind, queueVars, workerVars
    <2>1. StrayEscaped'
      BY DEF StrayEscaped
    <2>2. EmptyHanded' /\ FeedingOnly'
      BY DEF EmptyHanded, FeedingOnly
    <2> QED
      BY <1>l, <2>1, <2>2
  <1>14. ASSUME LoseLock, UNCHANGED stageVars
         PROVE  HandInv'
    <2> USE <1>14 DEF LoseLock, queueVars, workerVars, stageVars
    <2>1. StrayEscaped' /\ EmptyHanded' /\ FeedingOnly'
      BY DEF StrayEscaped, EmptyHanded, FeedingOnly
    <2> QED
      BY <1>l, <2>1
  <1>15. ASSUME NEW s \in stray, CommitStray(s), UNCHANGED stageVars
         PROVE  HandInv'
    <2>1. s.node \in escaped /\ \A n \in Node \ {s.node} : rowStatus'[n] = rowStatus[n]
      BY <1>15 DEF CommitStray, SaveRawPage, MarkFetched, MarkFailed, StrayEscaped
    <2>2. stray' \subseteq stray /\ UNCHANGED <<lock, stage, workerVars, stageVars>>
      BY <1>15 DEF CommitStray
    <2> USE <2>1, <2>2 DEF workerVars, stageVars
    <2>3. StrayEscaped' /\ EmptyHanded' /\ FeedingOnly'
      BY DEF StrayEscaped, EmptyHanded, FeedingOnly
    <2>4. HeldIsFetching'
      BY DEF HeldIsFetching
    <2>5. OnePlace'
      BY DEF OnePlace
    <2> QED
      BY <1>s, <2>3, <2>4, <2>5 DEF HandInv
  <1>16. CASE UNCHANGED vars
    BY <1>16, <1>q DEF vars, queueVars
  <1>m. ASSUME NEW r \in Run, MainStep(r)
        PROVE  HandInv'
    BY <1>m, <1>3, <1>4, <1>5, <1>10, <1>x DEF MainStep
  <1>w. ASSUME NEW w \in Worker, WorkerStep(w)
        PROVE  HandInv'
    BY <1>w, <1>6, <1>7, <1>8, <1>9 DEF WorkerStep
  <1>f. ASSUME FaultStep
        PROVE  HandInv'
    <2>1. CASE \E w \in Worker : StatementRaises(w) /\ LoosenStray /\ UNCHANGED <<batch, inbox>>
      BY <2>1, <1>11
    <2>2. CASE \E r \in Run : Die(r) \/ UnwindMain(r)
      BY <2>2, <1>12, <1>13
    <2>3. CASE LoseLock /\ UNCHANGED stageVars
      BY <2>3, <1>14
    <2>4. CASE \E s \in stray : CommitStray(s) /\ UNCHANGED stageVars
      BY <2>4, <1>15
    <2> QED
      BY <1>f, <2>1, <2>2, <2>3, <2>4 DEF FaultStep
  <1> QED
    BY <1>1, <1>2, <1>m, <1>w, <1>f, <1>16 DEF Next

(***************************************************************************)
(* Whatever fails, and with any number of fetches side by side, a row that *)
(* has not escaped is in one pair of hands and its status says so.         *)
(***************************************************************************)
THEOREM ClaimsAreExclusive == Spec => []ClaimExclusive
  <1>1. HandInv /\ [Next]_vars => HandInv'
    BY HandStep
  <1> QED
    BY <1>1, HandInit, HandExclusive, PTL DEF Spec

-----------------------------------------------------------------------------
(***************************************************************************)
(* What a step of the stage does to the two tables: what FetchWrites says, *)
(* of the rows that escaped or are claimed; and rows escape only from      *)
(* 'fetching'.                                                             *)
(***************************************************************************)
Effect ==
  \/ UNCHANGED queueVars /\ Escapes
  \/ (\E S \in SUBSET Node : EnqueueDetails(S)) /\ UNCHANGED escaped
  \/ RequeueStaleFetching /\ Escapes
  \/ FetchWrites(escaped) /\ UNCHANGED escaped

LEMMA EveryEffect ==
  ASSUME HandInv, [Next]_vars
  PROVE  Effect
  <1>t. TypeOK /\ Carries /\ StrayCarries /\ HeldIsFetching /\ StrayEscaped
    BY DEF HandInv, StoredInv
  <1>h. \A w \in Worker : wpc[w] \in Statements =>
          item[w] \in Node /\ (rowStatus[item[w]] = "fetching" \/ item[w] \in escaped)
    <2>1. \A w \in Worker : wpc[w] \in Statements => item[w] \in Node
      BY <1>t DEF TypeOK, RunTypeOK, Carries, Statements
    <2> QED
      BY <1>t, <2>1, RunAssumption DEF HeldIsFetching
  <1>n. ASSUME UNCHANGED escaped
        PROVE  Escapes
    BY <1>n DEF Escapes
  <1>1. ASSUME NEW S \in SUBSET Node, Discover(S), UNCHANGED stageVars
        PROVE  Effect
    BY <1>1 DEF Discover, stageVars, Effect
  <1>2. ASSUME NEW r \in Run, StartFetch(r), UNCHANGED stageVars
        PROVE  Effect
    BY <1>2, <1>n DEF StartFetch, stageVars, Effect
  <1>3. ASSUME NEW r \in Run, Requeue(r)
        PROVE  Effect
    BY <1>3, RequeueEscapes DEF Requeue, RequeueStale, Effect
  <1>4. ASSUME NEW r \in Run, Claim(r)
        PROVE  Effect
    BY <1>4 DEF Claim, FetchWrites, Effect
  <1>5. ASSUME NEW w \in Worker, SavePage(w), UNCHANGED stageVars
        PROVE  Effect
    <2>1. item[w] \in Node /\ got[w] \in Content /\ SaveRawPage(item[w], got[w])
      BY <1>5, <1>t, <1>h DEF SavePage, Carries, Statements
    <2>2. rowStatus[item[w]] = "fetching" \/ item[w] \in escaped
      BY <1>5, <1>h DEF SavePage, Statements
    <2> QED
      BY <1>5, <2>1, <2>2 DEF FetchWrites, stageVars, Effect
  <1>6. ASSUME NEW w \in Worker, Fetched(w), UNCHANGED stageVars
        PROVE  Effect
    <2>1. /\ item[w] \in Node /\ got[w] \in Content /\ <<item[w], got[w]>> \in rawPages
          /\ MarkFetched(item[w], <<item[w], got[w]>>)
      BY <1>6, <1>t, <1>h DEF Fetched, Carries, Statements
    <2>2. rowStatus[item[w]] = "fetching" \/ item[w] \in escaped
      BY <1>6, <1>h DEF Fetched, Statements
    <2> QED
      BY <1>6, <2>1, <2>2 DEF FetchWrites, stageVars, Effect
  <1>7. ASSUME NEW w \in Worker, Bounced(w), UNCHANGED stageVars
        PROVE  Effect
    <2>1. item[w] \in Node /\ MarkFailed(item[w])
      BY <1>7, <1>h DEF Bounced, Statements
    <2>2. rowStatus[item[w]] = "fetching" \/ item[w] \in escaped
      BY <1>7, <1>h DEF Bounced, Statements
    <2> QED
      BY <1>7, <2>1, <2>2 DEF FetchWrites, stageVars, Effect
  <1>8. ASSUME NEW s \in stray, CommitStray(s), UNCHANGED stageVars
        PROVE  Effect
    <2>1. /\ s.node \in Node /\ s.node \in escaped
          /\ s.op \in {"save_raw_page", "mark_fetched"} => s.content \in Content
          /\ s.op = "mark_fetched" => <<s.node, s.content>> \in rawPages
      BY <1>8, <1>t DEF StrayEscaped, StrayCarries, Stray, TypeOK, RunTypeOK
    <2>2. \/ s.op = "save_raw_page" /\ SaveRawPage(s.node, s.content)
          \/ s.op = "mark_fetched" /\ MarkFetched(s.node, <<s.node, s.content>>)
          \/ MarkFailed(s.node)
      BY <1>8 DEF CommitStray
    <2> QED
      BY <1>8, <2>1, <2>2 DEF FetchWrites, stageVars, Effect
  <1>9. ASSUME NEW w \in Worker, StatementRaises(w), LoosenStray
        PROVE  Effect
    BY <1>9, StrayEscapes DEF StatementRaises, Effect
  <1>e. ASSUME NEW r \in Run,
               MayStray(Team(r)), Drop(r), UNCHANGED queueVars
        PROVE  Effect
    BY <1>e, StrayEscapes DEF Drop, Effect, Team
  <1>10. ASSUME NEW r \in Run, Die(r)
         PROVE  Effect
    BY <1>10, <1>e DEF Die, Crash, Fault
  <1>x. ASSUME NEW r \in Run, Exit(r), Drop(r)
        PROVE  Effect
    BY <1>x, <1>e DEF Exit
  <1>11. ASSUME UNCHANGED <<queueVars, escaped>>
         PROVE  Effect
    BY <1>11, <1>n DEF Effect
  <1>m. ASSUME NEW r \in Run, MainStep(r)
        PROVE  Effect
    BY <1>m, <1>3, <1>4, <1>x, <1>11 DEF MainStep, Put, Finish, stageVars
  <1>w. ASSUME NEW w \in Worker, WorkerStep(w)
        PROVE  Effect
    BY <1>w, <1>5, <1>6, <1>7, <1>11 DEF WorkerStep, Take, Answer, stageVars
  <1>f. ASSUME FaultStep
        PROVE  Effect
    <2>1. CASE \E w \in Worker : StatementRaises(w) /\ LoosenStray /\ UNCHANGED <<batch, inbox>>
      BY <2>1, <1>9
    <2>2. CASE \E r \in Run : Die(r) \/ UnwindMain(r)
      BY <2>2, <1>10, <1>11 DEF UnwindMain, Unwind
    <2>3. CASE LoseLock /\ UNCHANGED stageVars
      BY <2>3, <1>11 DEF LoseLock, stageVars
    <2>4. CASE \E s \in stray : CommitStray(s) /\ UNCHANGED stageVars
      BY <2>4, <1>8
    <2> QED
      BY <1>f, <2>1, <2>2, <2>3, <2>4 DEF FaultStep
  <1> QED
    BY <1>1, <1>2, <1>m, <1>w, <1>f, <1>11 DEF Next, vars, stageVars

(***************************************************************************)
(* StageGates stands on this: seen from the gates, a step of the fetch     *)
(* stage is a statement of FetchWrites, new rows, or nothing at all, in    *)
(* any mode and under any fault; and rows escape only while claimed.       *)
(***************************************************************************)
THEOREM FetchDoesNoMore ==
  Spec => [][ /\ \/ FetchWrites(escaped)
                 \/ \E S \in SUBSET Node : EnqueueDetails(S)
                 \/ UNCHANGED queueVars
              /\ Escapes ]_vars
  <1>1. HandInv /\ [Next]_vars => HandInv'
    BY HandStep
  <1>2. HandInv /\ [Next]_vars =>
          [ /\ \/ FetchWrites(escaped)
               \/ \E S \in SUBSET Node : EnqueueDetails(S)
               \/ UNCHANGED queueVars
            /\ Escapes ]_vars
    <2>1. UNCHANGED escaped => Escapes
      BY DEF Escapes
    <2>2. RequeueStaleFetching => FetchWrites(escaped)
      BY DEF FetchWrites
    <2> QED
      BY <2>1, <2>2, EveryEffect DEF Effect
  <1> QED
    BY <1>1, <1>2, HandInit, PTL DEF Spec

(***************************************************************************)
(* No verdict on a row is ever taken back unless the row escaped.          *)
(***************************************************************************)
THEOREM VerdictsAreFinal == Spec => VerdictFinal
  <1>1. HandInv /\ [Next]_vars => HandInv'
    BY HandStep
  <1>2. HandInv /\ [Next]_vars =>
          [\A n \in Node \ escaped :
             rowStatus[n] \in {"done", "failed"} => rowStatus'[n] = rowStatus[n]]_vars
    <2> SUFFICES ASSUME HandInv, [Next]_vars,
                        NEW n \in Node \ escaped, rowStatus[n] \in {"done", "failed"}
                 PROVE  rowStatus'[n] = rowStatus[n]
      OBVIOUS
    <2>1. Effect /\ rowStatus \in [Node -> Status]
      BY EveryEffect DEF HandInv, StoredInv, TypeOK, RunTypeOK, QueueTypeOK
    <2> QED
      BY <2>1 DEF Effect, FetchWrites, EnqueueDetails, RequeueStaleFetching, ClaimPending,
                  Pending, SaveRawPage, MarkFetched, MarkFailed, queueVars
  <1> QED
    BY <1>1, <1>2, HandInit, PTL DEF Spec, VerdictFinal

(***************************************************************************)
(* The stage implements NodeArchive: its steps, seen through Fate,         *)
(* discover, keep, close, abandon or contest a node, or change nothing.    *)
(***************************************************************************)
THEOREM FetchKeepsPromise == Spec => KeepsPromise
  <1> DEFINE fate == [n \in Node |-> IF n \in escaped THEN "contested" ELSE Fate(rowStatus[n])]
  <1>f. /\ Fate("absent") = "unknown" /\ Fate("pending") = "open" /\ Fate("fetching") = "open"
        /\ Fate("done") = "archived" /\ Fate("failed") = "abandoned"
    BY DEF Fate
  <1>1. Init => Promise!Init
    BY DEF Init, RunInit, QueueInit, Promise!Init, Fate
  <1>2. HandInv /\ [Next]_vars => HandInv'
    BY HandStep
  <1>3. HandInv /\ [Next]_vars => [Promise!Next]_(Promise!avars)
    <2> SUFFICES ASSUME HandInv, [Next]_vars
                 PROVE  [Promise!Next]_(Promise!avars)
      OBVIOUS
    <2>1. rowStatus \in [Node -> Status] /\ escaped \subseteq Node /\ Effect
      BY EveryEffect DEF HandInv, StoredInv, TypeOK, RunTypeOK, QueueTypeOK
    <2>g. fate' = [n \in Node |-> IF n \in escaped' THEN "contested" ELSE Fate(rowStatus'[n])]
      OBVIOUS
    <2>c. ASSUME Escapes, UNCHANGED rawPages,
                 \A n \in Node : Fate(rowStatus'[n]) = Fate(rowStatus[n])
          PROVE  [Promise!Next]_(Promise!avars)
      <3>0. PICK S \in SUBSET Node : S = (escaped' \ escaped) \cap Node
        OBVIOUS
      <3>1. \A n \in S : fate[n] = "open"
        BY <3>0, <2>c, <1>f DEF Escapes
      <3>2. fate' = [n \in Node |-> IF n \in S THEN "contested" ELSE fate[n]]
        BY <3>0, <2>c, <2>g DEF Escapes
      <3>3. Promise!Contest(S)
        BY <2>c, <3>1, <3>2 DEF Promise!Contest
      <3> QED
        BY <3>3 DEF Promise!Next
    <2>2. CASE UNCHANGED queueVars /\ Escapes
      BY <2>2, <2>c DEF queueVars
    <2>3. CASE RequeueStaleFetching /\ Escapes
      <3>1. \A n \in Node : Fate(rowStatus'[n]) = Fate(rowStatus[n])
        BY <2>3, <1>f DEF RequeueStaleFetching
      <3> QED
        BY <2>3, <3>1, <2>c DEF RequeueStaleFetching
    <2>4. CASE (\E S \in SUBSET Node : EnqueueDetails(S)) /\ UNCHANGED escaped
      <3>1. PICK S \in SUBSET Node : EnqueueDetails(S)
        BY <2>4
      <3>2. \A n \in Node : Fate(rowStatus[n]) = "unknown" <=> rowStatus[n] = "absent"
        BY <2>1, <1>f DEF Status
      <3>3. \A n \in Node : rowStatus'[n] = IF n \in S /\ rowStatus[n] = "absent"
                                            THEN "pending" ELSE rowStatus[n]
        BY <3>1 DEF EnqueueDetails
      <3>4. fate' = [n \in Node |-> IF n \in S /\ fate[n] = "unknown" THEN "open" ELSE fate[n]]
        BY <1>f, <2>4, <2>g, <3>2, <3>3
      <3>5. Promise!Discover(S)
        BY <3>1, <3>4 DEF Promise!Discover, EnqueueDetails
      <3> QED
        BY <3>5 DEF Promise!Next
    <2>5. ASSUME NEW n \in Node, rowStatus[n] = "fetching" \/ n \in escaped,
                 NEW c \in Content, SaveRawPage(n, c), UNCHANGED escaped
          PROVE  [Promise!Next]_(Promise!avars)
      <3>1. fate[n] \in {"open", "contested"} /\ fate' = fate
        BY <2>5, <2>g, <1>f DEF SaveRawPage
      <3>2. Promise!Keep(n, c)
        BY <2>5, <3>1 DEF Promise!Keep, SaveRawPage
      <3> QED
        BY <3>2 DEF Promise!Next
    <2>m. ASSUME NEW n \in escaped, NEW s \in Status,
                 rowStatus' = [rowStatus EXCEPT ![n] = s], UNCHANGED <<rawPages, escaped>>
          PROVE  [Promise!Next]_(Promise!avars)
      <3>1. fate' = fate
        BY <2>m, <2>1, <2>g
      <3> QED
        BY <2>m, <3>1 DEF Promise!avars
    <2>v. ASSUME NEW n \in Node, NEW s \in Status, n \notin escaped,
                 rowStatus' = [rowStatus EXCEPT ![n] = s], UNCHANGED <<rawPages, escaped>>
          PROVE  fate' = [fate EXCEPT ![n] = Fate(s)]
      BY <2>v, <2>1, <2>g
    <2>6. ASSUME NEW n \in Node, rowStatus[n] = "fetching" \/ n \in escaped,
                 NEW c \in Content, <<n, c>> \in rawPages,
                 MarkFetched(n, <<n, c>>), UNCHANGED escaped
          PROVE  [Promise!Next]_(Promise!avars)
      <3>0. rowStatus' = [rowStatus EXCEPT ![n] = "done"] /\ UNCHANGED rawPages /\ "done" \in Status
        BY <2>6 DEF MarkFetched, Status
      <3>1. CASE n \in escaped
        BY <3>0, <3>1, <2>6, <2>m
      <3>2. CASE n \notin escaped
        <4>1. fate[n] = "open" /\ fate' = [fate EXCEPT ![n] = "archived"]
          BY <3>0, <3>2, <2>6, <2>v, <1>f
        <4>2. Promise!Archived(n)
          BY <2>6, <3>0, <4>1 DEF Promise!Archived
        <4> QED
          BY <4>2 DEF Promise!Next
      <3> QED
        BY <3>1, <3>2
    <2>7. ASSUME NEW n \in Node, rowStatus[n] = "fetching" \/ n \in escaped,
                 MarkFailed(n), UNCHANGED escaped
          PROVE  [Promise!Next]_(Promise!avars)
      <3>0. PICK s \in {"failed", "pending"} : rowStatus' = [rowStatus EXCEPT ![n] = s]
        BY <2>7 DEF MarkFailed
      <3>u. UNCHANGED rawPages /\ s \in Status
        BY <2>7 DEF MarkFailed, Status
      <3>1. CASE n \in escaped
        BY <3>0, <3>u, <3>1, <2>7, <2>m
      <3>2. CASE n \notin escaped /\ s = "failed"
        <4>1. fate[n] = "open" /\ fate' = [fate EXCEPT ![n] = "abandoned"]
          BY <3>0, <3>u, <3>2, <2>7, <2>v, <1>f
        <4>2. Promise!Abandon(n)
          BY <3>u, <4>1 DEF Promise!Abandon
        <4> QED
          BY <4>2 DEF Promise!Next
      <3>3. CASE n \notin escaped /\ s = "pending"
        <4>1. fate[n] = "open" /\ fate' = [fate EXCEPT ![n] = "open"]
          BY <3>0, <3>u, <3>3, <2>7, <2>v, <1>f
        <4>2. fate' = fate
          BY <4>1
        <4> QED
          BY <3>u, <4>2 DEF Promise!avars
      <3> QED
        BY <3>1, <3>2, <3>3
    <2>8. ASSUME NEW B \in SUBSET Pending, ClaimPending(B), UNCHANGED escaped
          PROVE  [Promise!Next]_(Promise!avars)
      <3>1. \A n \in Node : Fate(rowStatus'[n]) = Fate(rowStatus[n])
        BY <2>8, <1>f DEF ClaimPending, Pending
      <3> QED
        BY <2>8, <3>1, <2>c DEF ClaimPending, Escapes
    <2>9. CASE FetchWrites(escaped) /\ UNCHANGED escaped
      <3>1. CASE RequeueStaleFetching
        BY <2>9, <3>1, <2>3 DEF Escapes
      <3> QED
        BY <2>5, <2>6, <2>7, <2>8, <2>9, <3>1 DEF FetchWrites
    <2> QED
      BY <2>1, <2>2, <2>3, <2>4, <2>9 DEF Effect
  <1> QED
    BY <1>1, <1>2, <1>3, HandInit, PTL DEF Spec, KeepsPromise, Promise!Spec

-----------------------------------------------------------------------------
(***************************************************************************)
(* NoLostClaim, in sequential mode while the server keeps the lock's       *)
(* session.  The lock then says which run is live and not closing; a       *)
(* claimed row is in the hands of that run, or excused: Excused is the     *)
(* part of NoLostClaim that does not depend on the row.                    *)
(***************************************************************************)
LockKept == Sequential /\ "lock_drop" \notin Faults

LockIsLive == \A r \in Run : stage[r] \notin {"off", "closing"} <=> lock = r

Excused ==
  /\ faults < MaxFaults
  /\ \A r \in Run : \/ stage[r] \in {"off", "requeue", "closing"}
                    \/ \E w \in Team(r) : wpc[w] = "dead"

Held(n) ==
  \/ \E r \in Run : stage[r] \in {"crawl", "feed", "join"} /\ n \in batch[r] \cup inbox[r]
  \/ \E w \in Worker : stage[RunOf[w]] \in {"crawl", "feed", "join"} /\ item[w] = n

Accounted == \A n \in Node : rowStatus[n] = "fetching" => Held(n) \/ Excused

KeptInv == HandInv /\ LockIsLive /\ Accounted

LEMMA KeptIsNoLostClaim == KeptInv => NoLostClaim
  <1> SUFFICES ASSUME KeptInv, NEW n \in Node, rowStatus[n] = "fetching"
               PROVE  (\E r \in Run : n \in HeldBy(r)) \/ Excused
    BY DEF NoLostClaim, Excused
  <1>1. CASE Held(n)
    BY <1>1, RunAssumption DEF Held, HeldBy, Team
  <1> QED
    BY <1>1 DEF KeptInv, Accounted

LEMMA KeptInit == Init => KeptInv
  <1> SUFFICES ASSUME Init PROVE KeptInv
    OBVIOUS
  <1>1. LockIsLive /\ Accounted
    BY RunAssumption DEF Init, RunInit, QueueInit, LockIsLive, Accounted
  <1> QED
    BY <1>1, HandInit DEF KeptInv

LEMMA KeptStep ==
  ASSUME LockKept, KeptInv, [Next]_vars
  PROVE  KeptInv'
  <1>h. HandInv'
    BY HandStep DEF KeptInv
  <1>t. /\ TypeOK /\ Carries /\ EmptyHanded /\ FeedingOnly /\ LockIsLive /\ Accounted
        /\ faults \in 0..MaxFaults /\ MaxFaults \in Nat
    BY RunAssumption DEF KeptInv, HandInv, StoredInv, TypeOK, RunTypeOK
  <1> USE <1>t, RunAssumption
  <1> USE DEF TypeOK, RunTypeOK, QueueTypeOK, Team
  <1>q. ASSUME UNCHANGED <<lock, stage, wpc, faults, batch, inbox, item>>,
               \A n \in Node : rowStatus'[n] = "fetching" => rowStatus[n] = "fetching"
        PROVE  KeptInv'
    <2>1. LockIsLive' /\ Accounted'
      BY <1>q DEF LockIsLive, Accounted, Held, Excused
    <2> QED
      BY <1>h, <2>1 DEF KeptInv
  <1>1. ASSUME NEW S \in SUBSET Node, Discover(S), UNCHANGED stageVars
        PROVE  KeptInv'
    BY <1>1, <1>q DEF Discover, EnqueueDetails, runVars, workerVars, faultVars, stageVars
  <1>2. ASSUME NEW r \in Run, StartFetch(r), UNCHANGED stageVars
        PROVE  KeptInv'
    <2> USE <1>2 DEF StartFetch, Live, queueVars, workerVars, faultVars, stageVars, LockKept
    <2>1. LockIsLive'
      BY DEF LockIsLive
    <2>2. Excused => Excused'
      BY DEF Excused
    <2>3. \A n \in Node : Held(n) => Held(n)'
      BY DEF Held
    <2>4. Accounted'
      BY <2>2, <2>3 DEF Accounted
    <2> QED
      BY <1>h, <2>1, <2>4 DEF KeptInv
  <1>3. ASSUME NEW r \in Run, Requeue(r)
        PROVE  KeptInv'
    <2> USE <1>3 DEF Requeue, RequeueStale, RequeueStaleFetching, workerVars, faultVars
    <2>1. LockIsLive'
      BY DEF LockIsLive
    <2>2. Accounted'
      BY DEF Accounted
    <2> QED
      BY <1>h, <2>1, <2>2 DEF KeptInv
  <1>4. ASSUME NEW r \in Run, Claim(r)
        PROVE  KeptInv'
    <2>1. PICK B \in SUBSET Pending :
            /\ ClaimPending(B)
            /\ batch' = [batch EXCEPT ![r] = B]
            /\ stage' = [stage EXCEPT ![r] = IF B = {} THEN "join" ELSE "feed"]
      BY <1>4 DEF Claim
    <2>2. UNCHANGED <<lock, workerVars, faultVars, inbox>> /\ stage[r] = "crawl"
      BY <1>4 DEF Claim
    <2> USE <2>1, <2>2 DEF ClaimPending, Pending, workerVars, faultVars
    <2>3. LockIsLive'
      BY DEF LockIsLive
    <2>4. Excused => Excused'
      BY DEF Excused
    <2>5. \A n \in Node : Held(n) => Held(n)'
      BY DEF Held, FeedingOnly
    <2>6. \A n \in B : Held(n)'
      BY DEF Held
    <2>7. Accounted'
      BY <2>4, <2>5, <2>6 DEF Accounted
    <2> QED
      BY <1>h, <2>3, <2>7 DEF KeptInv
  <1>5. ASSUME NEW r \in Run, Put(r)
        PROVE  KeptInv'
    <2> USE <1>5 DEF Put, queueVars, workerVars, faultVars
    <2>1. LockIsLive'
      BY DEF LockIsLive
    <2>2. Excused => Excused'
      BY DEF Excused
    <2>3. \A n \in Node : Held(n) => Held(n)'
      BY DEF Held
    <2>4. Accounted'
      BY <2>2, <2>3 DEF Accounted
    <2> QED
      BY <1>h, <2>1, <2>4 DEF KeptInv
  <1>6. ASSUME NEW w \in Worker, Take(w)
        PROVE  KeptInv'
    <2>0. PICK m \in inbox[RunOf[w]] :
            /\ inbox' = [inbox EXCEPT ![RunOf[w]] = @ \ {m}]
            /\ item' = [item EXCEPT ![w] = m]
            /\ wpc' = [wpc EXCEPT ![w] = "get"]
      BY <1>6 DEF Take
    <2>1. UNCHANGED <<queueVars, lock, stage, faultVars, batch>> /\ wpc[w] = "idle"
      BY <1>6 DEF Take
    <2> USE <2>0, <2>1 DEF queueVars, faultVars
    <2>2. LockIsLive'
      BY DEF LockIsLive
    <2>3. Excused => Excused'
      BY DEF Excused
    <2>4. item[w] = NoNode
      BY DEF Carries
    <2>5. \A n \in Node : Held(n) => Held(n)'
      BY <2>4 DEF Held
    <2>6. Accounted'
      BY <2>3, <2>5 DEF Accounted
    <2> QED
      BY <1>h, <2>2, <2>6 DEF KeptInv
  <1>7. ASSUME NEW w \in Worker, Answer(w) \/ SavePage(w), UNCHANGED stageVars
        PROVE  KeptInv'
    <2>1. /\ UNCHANGED <<rowStatus, lock, stage, item, faults, stageVars>>
          /\ \A v \in Worker : wpc[v] = "dead" => wpc'[v] = "dead"
      BY <1>7 DEF Answer, SavePage, SaveRawPage, queueVars, faultVars
    <2> USE <2>1 DEF stageVars
    <2>2. LockIsLive' /\ (Excused => Excused')
      BY DEF LockIsLive, Excused
    <2>3. \A n \in Node : Held(n) => Held(n)'
      BY DEF Held
    <2>4. Accounted'
      BY <2>2, <2>3 DEF Accounted
    <2> QED
      BY <1>h, <2>2, <2>4 DEF KeptInv
  <1>g. ASSUME NEW w \in Worker, wpc[w] # "dead", item[w] \in Node, LetGo({w}, "idle"),
               rowStatus'[item[w]] # "fetching",
               \A n \in Node \ {item[w]} : rowStatus'[n] = rowStatus[n],
               UNCHANGED <<lock, stage, faults, batch, inbox>>
        PROVE  KeptInv'
    <2> USE <1>g DEF LetGo
    <2>1. LockIsLive' /\ (Excused => Excused')
      BY DEF LockIsLive, Excused
    <2>2. \A n \in Node \ {item[w]} : Held(n) => Held(n)'
      BY DEF Held
    <2>3. Accounted'
      BY <2>1, <2>2 DEF Accounted
    <2> QED
      BY <1>h, <2>1, <2>3 DEF KeptInv
  <1>8. ASSUME NEW w \in Worker, Fetched(w), UNCHANGED stageVars
        PROVE  KeptInv'
    <2>1. item[w] \in Node
      BY <1>8 DEF Fetched, Carries
    <2> QED
      BY <1>8, <1>g, <2>1 DEF Fetched, MarkFetched, faultVars, stageVars
  <1>9. ASSUME NEW w \in Worker, Bounced(w), UNCHANGED stageVars
        PROVE  KeptInv'
    <2>1. item[w] \in Node
      BY <1>9 DEF Bounced, Carries
    <2> QED
      BY <1>9, <1>g, <2>1 DEF Bounced, MarkFailed, faultVars, stageVars
  <1>10. ASSUME NEW r \in Run, Finish(r)
         PROVE  KeptInv'
    <2> USE <1>10 DEF Finish, Unlock, LetGo, queueVars, faultVars, stageVars
    <2>1. LockIsLive'
      BY DEF LockIsLive
    <2>2. \A n \in Node : ~Held(n)
      <3>1. \A s \in Run : stage[s] \in {"crawl", "feed", "join"} => s = r
        BY DEF LockIsLive
      <3>2. batch[r] = {} /\ inbox[r] = {} /\ \A w \in Worker : RunOf[w] = r => item[w] = NoNode
        BY DEF FeedingOnly, Carries
      <3> QED
        BY <3>1, <3>2 DEF Held
    <2>3. Excused => Excused'
      BY DEF Excused
    <2>4. Accounted'
      BY <2>2, <2>3 DEF Accounted
    <2> QED
      BY <1>h, <2>1, <2>4 DEF KeptInv
  <1>11. ASSUME NEW w \in Worker, StatementRaises(w), UNCHANGED <<batch, inbox>>
         PROVE  KeptInv'
    <2> USE <1>11 DEF StatementRaises, LetGo, queueVars
    <2>1. faults' < MaxFaults /\ rowStatus' = rowStatus /\ stage' = stage /\ lock' = lock
      BY DEF Fault
    <2>2. LockIsLive'
      BY <2>1 DEF LockIsLive
    <2>3. CASE wpc[w] = "mark_failed" /\ stage[RunOf[w]] \in {"crawl", "feed", "join"}
      <3>1. wpc' = [v \in Worker |-> IF v \in {w} THEN "dead" ELSE wpc[v]]
        BY <2>3
      <3>2. \A s \in Run \ {RunOf[w]} : stage[s] \in {"off", "closing"}
        BY <2>3 DEF LockIsLive
      <3>3. Excused'
        BY <2>1, <3>1, <3>2 DEF Excused
      <3> QED
        BY <1>h, <2>2, <3>3 DEF KeptInv, Accounted
    <2>4. CASE wpc[w] = "mark_failed" /\ stage[RunOf[w]] \notin {"crawl", "feed", "join"}
      <3>1. /\ wpc' = [v \in Worker |-> IF v \in {w} THEN "dead" ELSE wpc[v]]
            /\ \A v \in Worker : v # w => item'[v] = item[v]
        BY <2>4
      <3>2. Excused => Excused'
        BY <2>1, <3>1 DEF Excused
      <3>3. \A n \in Node : Held(n) => Held(n)'
        BY <2>1, <2>4, <3>1 DEF Held
      <3> QED
        BY <1>h, <2>1, <2>2, <3>2, <3>3 DEF KeptInv, Accounted
    <2>5. CASE wpc[w] # "mark_failed"
      <3>1. /\ wpc' = [wpc EXCEPT ![w] = "mark_failed"]
            /\ UNCHANGED item
        BY <2>5
      <3>2. wpc[w] # "dead"
        BY DEF Statements
      <3>3. Excused => Excused'
        BY <2>1, <3>1, <3>2 DEF Excused
      <3>4. \A n \in Node : Held(n) => Held(n)'
        BY <2>1, <3>1 DEF Held
      <3> QED
        BY <1>h, <2>1, <2>2, <3>3, <3>4 DEF KeptInv, Accounted
    <2> QED
      BY <2>3, <2>4, <2>5
  <1>12. ASSUME NEW r \in Run, Die(r)
         PROVE  KeptInv'
    <2> USE <1>12 DEF Die, Crash, Unlock
    <2>1. LockIsLive'
      BY DEF LockIsLive
    <2>2. CASE stage[r] = "closing"
      <3>1. /\ \A s \in Run : stage'[s] = stage[s] \/ s = r
            /\ \A v \in Worker : RunOf[v] # r => wpc'[v] = wpc[v] /\ item'[v] = item[v]
            /\ \A s \in Run : s # r => batch'[s] = batch[s] /\ inbox'[s] = inbox[s]
            /\ stage'[r] = "off" /\ faults' < MaxFaults /\ rowStatus' = rowStatus
        BY DEF LetGo, Drop, Fault, queueVars
      <3>2. Excused => Excused'
        BY <3>1 DEF Excused
      <3>3. \A n \in Node : Held(n) => Held(n)'
        BY <2>2, <3>1 DEF Held
      <3> QED
        BY <1>h, <2>1, <3>1, <3>2, <3>3 DEF KeptInv, Accounted
    <2>3. CASE stage[r] # "closing"
      <3>1. faults' < MaxFaults /\ stage' = [stage EXCEPT ![r] = "off"]
        BY DEF Fault
      <3>2. \A s \in Run \ {r} : stage[s] \in {"off", "closing"}
        BY <2>3 DEF LockIsLive, Live
      <3>3. Excused'
        BY <3>1, <3>2 DEF Excused
      <3> QED
        BY <1>h, <2>1, <3>3 DEF KeptInv, Accounted
    <2> QED
      BY <2>2, <2>3
  <1>x. ASSUME NEW r \in Run, Exit(r), Drop(r)
        PROVE  KeptInv'
    <2> USE <1>x DEF Exit, Unlock
    <2>1. LockIsLive'
      BY DEF LockIsLive
    <2>2. /\ \A s \in Run : stage'[s] = stage[s] \/ s = r
          /\ \A v \in Worker : RunOf[v] # r => wpc'[v] = wpc[v] /\ item'[v] = item[v]
          /\ \A s \in Run : s # r => batch'[s] = batch[s] /\ inbox'[s] = inbox[s]
          /\ stage'[r] = "off" /\ faults' = faults /\ rowStatus' = rowStatus
      BY DEF LetGo, Drop, queueVars
    <2>3. Excused => Excused'
      BY <2>2 DEF Excused
    <2>4. \A n \in Node : Held(n) => Held(n)'
      BY <2>2 DEF Held
    <2> QED
      BY <1>h, <2>1, <2>2, <2>3, <2>4 DEF KeptInv, Accounted
  <1>13. ASSUME NEW r \in Run, UnwindMain(r)
         PROVE  KeptInv'
    <2> USE <1>13 DEF UnwindMain, Unwind
    <2>1. LockIsLive'
      BY DEF LockIsLive
    <2>2. faults' < MaxFaults
      BY DEF Fault
    <2>3. \A s \in Run \ {r} : stage[s] \in {"off", "closing"}
      BY DEF LockIsLive
    <2>4. Excused'
      BY <2>2, <2>3 DEF Excused
    <2> QED
      BY <1>h, <2>1, <2>4 DEF KeptInv, Accounted
  <1>14. ~LoseLock
    BY DEF LoseLock, Fault, LockKept
  <1>15. ASSUME NEW s \in stray, CommitStray(s), UNCHANGED stageVars
         PROVE  KeptInv'
    <2>1. \A n \in Node : rowStatus'[n] = "fetching" => rowStatus[n] = "fetching"
      BY <1>15 DEF CommitStray, SaveRawPage, MarkFetched, MarkFailed
    <2> QED
      BY <1>15, <1>q, <2>1 DEF CommitStray, workerVars, stageVars
  <1>16. CASE UNCHANGED vars
    BY <1>16, <1>q DEF vars, queueVars, runVars, workerVars, faultVars, stageVars
  <1>m. ASSUME NEW r \in Run, MainStep(r)
        PROVE  KeptInv'
    BY <1>m, <1>3, <1>4, <1>5, <1>10, <1>x DEF MainStep
  <1>w. ASSUME NEW w \in Worker, WorkerStep(w)
        PROVE  KeptInv'
    BY <1>w, <1>6, <1>7, <1>8, <1>9 DEF WorkerStep
  <1>f. ASSUME FaultStep
        PROVE  KeptInv'
    <2>1. CASE \E w \in Worker : StatementRaises(w) /\ LoosenStray /\ UNCHANGED <<batch, inbox>>
      BY <2>1, <1>11
    <2>2. CASE \E r \in Run : Die(r) \/ UnwindMain(r)
      BY <2>2, <1>12, <1>13
    <2>3. CASE \E s \in stray : CommitStray(s) /\ UNCHANGED stageVars
      BY <2>3, <1>15
    <2> QED
      BY <1>f, <1>14, <2>1, <2>2, <2>3 DEF FaultStep
  <1> QED
    BY <1>1, <1>2, <1>m, <1>w, <1>f, <1>16 DEF Next

(***************************************************************************)
(* In sequential mode, unless the server ends the session that holds the   *)
(* lock, the claim loop itself never loses a row: one left in 'fetching'   *)
(* that nobody holds is the trace of a fault, and no run goes on as if     *)
(* nothing had happened.                                                   *)
(***************************************************************************)
THEOREM NoClaimIsLost ==
  ASSUME LockKept
  PROVE  Spec => []NoLostClaim
  <1>1. KeptInv /\ [Next]_vars => KeptInv'
    BY KeptStep
  <1> QED
    BY <1>1, KeptInit, KeptIsNoLostClaim, PTL DEF Spec

-----------------------------------------------------------------------------
(***************************************************************************)
(* Part 3.  The lanes of ProxyFetch, in sequential mode.  They share the   *)
(* tables, the lock and the workers with FetchStage, and have a batch each *)
(* where FetchStage has a batch and a queue for a run.                     *)
(***************************************************************************)
VARIABLES laneBatch, ended

Lanes == INSTANCE ProxyFetch WITH batch <- laneBatch

LaneLock == \A r \in Run : Live(r) <=> lock = r

LaneExcused ==
  /\ faults < MaxFaults
  /\ \A r \in Run : \/ stage[r] \in {"off", "requeue"}
                    \/ \E w \in Worker : RunOf[w] = r /\ wpc[w] = "dead"

(***************************************************************************)
(* A lane that is over, or whose run is not under way, has nothing in its  *)
(* hands; and a fetching row is in some hands unless there was a fault.    *)
(***************************************************************************)
LaneHands ==
  \A w \in Worker :
    /\ wpc[w] \in {"idle", "dead"} <=> item[w] = NoNode
    /\ stage[RunOf[w]] \in {"off", "requeue"} => wpc[w] = "idle" /\ laneBatch[w] = {}
    /\ w \in ended => wpc[w] = "idle" /\ laneBatch[w] = {}
    /\ wpc[w] = "dead" => laneBatch[w] = {}

InLane(n) == \E w \in Worker : n \in laneBatch[w] \/ item[w] = n

LaneRows == \A n \in Node : rowStatus[n] = "fetching" => InLane(n) \/ LaneExcused

LaneTypes ==
  /\ rowStatus \in [Node -> Status]
  /\ stage \in [Run -> {"off", "requeue", "crawl", "feed", "join"}]
  /\ wpc \in [Worker -> {"idle", "get", "dead"} \cup Statements]
  /\ item \in [Worker -> Node \cup {NoNode}]
  /\ laneBatch \in [Worker -> SUBSET Node]
  /\ faults \in 0..MaxFaults

LaneInv == LaneTypes /\ LaneLock /\ LaneHands /\ LaneRows

LEMMA LaneInit == Lanes!Init => LaneInv
  <1> SUFFICES ASSUME Lanes!Init PROVE LaneInv
    OBVIOUS
  <1> USE RunAssumption DEF Lanes!Init, Lanes!RunInit, Lanes!QueueInit
  <1>1. LaneTypes
    BY DEF LaneTypes, Status
  <1>2. LaneLock /\ LaneHands /\ LaneRows
    BY DEF LaneLock, Live, LaneHands, LaneRows
  <1> QED
    BY <1>1, <1>2 DEF LaneInv

LEMMA LaneStep ==
  ASSUME Sequential, LaneInv, [Lanes!Next]_(Lanes!vars)
  PROVE  LaneInv'
  <1>t. LaneTypes /\ LaneLock /\ LaneHands /\ LaneRows
    BY DEF LaneInv
  <1> USE <1>t, RunAssumption DEF LaneTypes
  <1> USE DEF Lanes!queueVars, Lanes!runVars, Lanes!workerVars, Lanes!faultVars, Lanes!laneVars
  \* What a step that loses no row has to show.
  <1>k. ASSUME UNCHANGED <<stage, faults>>,
               \A w \in Worker : wpc[w] = "dead" => wpc'[w] = "dead",
               \A n \in Node : rowStatus'[n] = "fetching" =>
                 InLane(n)' \/ (rowStatus[n] = "fetching" /\ (InLane(n) => InLane(n)'))
        PROVE  LaneRows'
    <2>1. LaneExcused => LaneExcused'
      BY <1>k DEF LaneExcused
    <2> QED
      BY <1>k, <2>1 DEF LaneRows
  <1>1. ASSUME NEW S \in SUBSET Node, Lanes!Discover(S), UNCHANGED <<laneBatch, ended>>
        PROVE  LaneInv'
    <2> USE <1>1 DEF Lanes!Discover, Lanes!EnqueueDetails
    <2>1. LaneTypes'
      BY DEF Status
    <2>2. LaneLock' /\ LaneHands'
      BY DEF LaneLock, Live, LaneHands
    <2>3. LaneRows'
      BY <1>k DEF InLane
    <2> QED
      BY <2>1, <2>2, <2>3 DEF LaneInv
  <1>2. ASSUME NEW r \in Run, Lanes!StartFetch(r), UNCHANGED <<laneBatch, ended>>
        PROVE  LaneInv'
    <2> USE <1>2 DEF Lanes!StartFetch, Lanes!Live
    <2>1. LaneTypes'
      OBVIOUS
    <2>2. LaneLock'
      BY DEF LaneLock, Live
    <2>3. LaneHands'
      BY DEF LaneHands
    <2>4. LaneRows'
      <3>1. LaneExcused => LaneExcused'
        BY DEF LaneExcused
      <3>2. \A n \in Node : InLane(n) => InLane(n)'
        BY DEF InLane
      <3> QED
        BY <3>1, <3>2 DEF LaneRows
    <2> QED
      BY <2>1, <2>2, <2>3, <2>4 DEF LaneInv
  <1>3. ASSUME NEW r \in Run, Lanes!RequeueStale(r), UNCHANGED <<laneBatch, ended>>
        PROVE  LaneInv'
    <2> USE <1>3 DEF Lanes!RequeueStale, Lanes!RequeueStaleFetching
    <2>1. LaneTypes'
      BY DEF Status
    <2>2. LaneLock' /\ LaneHands'
      BY DEF LaneLock, Live, LaneHands
    <2>3. LaneRows'
      BY DEF LaneRows
    <2> QED
      BY <2>1, <2>2, <2>3 DEF LaneInv
  <1>4. ASSUME NEW w \in Worker, Lanes!Claim(w)
        PROVE  LaneInv'
    <2>1. PICK B \in SUBSET Lanes!Pending :
            /\ Lanes!ClaimPending(B)
            /\ laneBatch' = [laneBatch EXCEPT ![w] = B]
            /\ ended' = IF B = {} THEN ended \cup {w} ELSE ended
      BY <1>4 DEF Lanes!Claim
    <2>2. /\ laneBatch[w] = {} /\ wpc[w] = "idle" /\ stage[RunOf[w]] = "crawl" /\ w \notin ended
          /\ UNCHANGED <<lock, stage, wpc, item, faults>>
      BY <1>4 DEF Lanes!Claim, Lanes!Free
    <2> USE <2>1, <2>2 DEF Lanes!ClaimPending, Lanes!Pending
    <2>3. LaneTypes'
      BY DEF Status
    <2>4. LaneLock' /\ LaneHands'
      <3>1. \A v \in Worker \ {w} : laneBatch'[v] = laneBatch[v] /\ (v \in ended' => v \in ended)
        OBVIOUS
      <3>2. laneBatch'[w] = B /\ (w \in ended' => B = {})
        OBVIOUS
      <3>3. LaneHands'
        BY <3>1, <3>2 DEF LaneHands
      <3>4. LaneLock'
        BY DEF LaneLock, Live
      <3> QED
        BY <3>3, <3>4
    <2>5. LaneRows'
      <3>1. \A n \in B : InLane(n)'
        BY DEF InLane
      <3>2. \A n \in Node : InLane(n) => InLane(n)'
        BY DEF InLane
      <3> QED
        BY <1>k, <3>1, <3>2
    <2> QED
      BY <2>3, <2>4, <2>5 DEF LaneInv
  <1>5. ASSUME NEW w \in Worker, Lanes!Take(w)
        PROVE  LaneInv'
    <2>1. PICK m \in laneBatch[w] : /\ laneBatch' = [laneBatch EXCEPT ![w] = @ \ {m}]
                                    /\ item' = [item EXCEPT ![w] = m]
      BY <1>5 DEF Lanes!Take
    <2>2. /\ wpc[w] = "idle" /\ stage[RunOf[w]] = "crawl" /\ w \notin ended
          /\ wpc' = [wpc EXCEPT ![w] = "get"]
          /\ UNCHANGED <<rowStatus, lock, stage, faults, ended>>
      BY <1>5 DEF Lanes!Take, Lanes!Free
    <2> USE <2>1, <2>2
    <2>3. LaneTypes'
      OBVIOUS
    <2>4. LaneLock' /\ LaneHands'
      BY DEF LaneLock, Live, LaneHands
    <2>5. LaneRows'
      <3>1. item[w] = NoNode
        BY DEF LaneHands
      <3>2. \A n \in Node : InLane(n) => InLane(n)'
        BY <3>1 DEF InLane
      <3> QED
        BY <1>k, <3>2
    <2> QED
      BY <2>3, <2>4, <2>5 DEF LaneInv
  <1>6. ASSUME NEW w \in Worker, Lanes!Answer(w) \/ Lanes!SavePage(w),
               UNCHANGED <<laneBatch, ended>>
        PROVE  LaneInv'
    <2>1. /\ UNCHANGED <<rowStatus, lock, stage, item, faults, laneBatch, ended>>
          /\ wpc[w] \in {"get", "save_raw_page"}
          /\ \E pc \in Statements : wpc' = [wpc EXCEPT ![w] = pc]
      BY <1>6 DEF Lanes!Answer, Lanes!SavePage, Lanes!SaveRawPage, Statements
    <2> USE <2>1
    <2>2. LaneTypes'
      OBVIOUS
    <2>3. LaneLock' /\ LaneHands'
      BY DEF LaneLock, Live, LaneHands, Statements
    <2>4. LaneRows'
      BY <1>k DEF InLane
    <2> QED
      BY <2>2, <2>3, <2>4 DEF LaneInv
  \* A row is settled or put back, and its lane goes on or is over.
  <1>g. ASSUME NEW w \in Worker, wpc[w] \notin {"idle", "dead"},
               rowStatus' \in [Node -> Status], rowStatus'[item[w]] # "fetching",
               \A n \in Node \ {item[w]} : rowStatus'[n] = rowStatus[n],
               Lanes!LetGo({w}, "idle"),
               UNCHANGED <<lock, stage, faults, laneBatch, ended>>
        PROVE  LaneInv'
    <2> USE <1>g DEF Lanes!LetGo
    <2>1. LaneTypes'
      OBVIOUS
    <2>2. LaneLock' /\ LaneHands'
      BY DEF LaneLock, Live, LaneHands
    <2>3. LaneRows'
      <3>1. \A n \in Node \ {item[w]} : InLane(n) => InLane(n)'
        BY DEF InLane
      <3> QED
        BY <1>k, <3>1
    <2> QED
      BY <2>1, <2>2, <2>3 DEF LaneInv
  <1>7. ASSUME NEW w \in Worker, Lanes!Fetched(w) \/ Lanes!Bounced(w),
               UNCHANGED <<laneBatch, ended>>
        PROVE  LaneInv'
    <2>1. item[w] \in Node /\ wpc[w] \notin {"idle", "dead"}
      BY <1>7 DEF Lanes!Fetched, Lanes!Bounced, LaneHands
    <2>2. \E s \in {"done", "failed", "pending"} : rowStatus' = [rowStatus EXCEPT ![item[w]] = s]
      BY <1>7 DEF Lanes!Fetched, Lanes!Bounced, Lanes!MarkFetched, Lanes!MarkFailed
    <2>3. /\ rowStatus' \in [Node -> Status] /\ rowStatus'[item[w]] # "fetching"
          /\ \A n \in Node \ {item[w]} : rowStatus'[n] = rowStatus[n]
      BY <2>1, <2>2 DEF Status
    <2>4. Lanes!LetGo({w}, "idle") /\ UNCHANGED <<lock, stage, faults>>
      BY <1>7 DEF Lanes!Fetched, Lanes!Bounced
    <2> QED
      BY <1>7, <1>g, <2>1, <2>3, <2>4
  <1>8. ASSUME NEW r \in Run, Lanes!Finish(r)
        PROVE  LaneInv'
    <2>1. /\ \A w \in Worker : RunOf[w] = r => w \in ended \/ wpc[w] = "dead"
          /\ stage' = [stage EXCEPT ![r] = "off"]
          /\ lock' = IF lock = r THEN NoRun ELSE lock
          /\ wpc' = [w \in Worker |-> IF RunOf[w] = r THEN "idle" ELSE wpc[w]]
          /\ item' = [w \in Worker |-> IF RunOf[w] = r THEN NoNode ELSE item[w]]
          /\ ended' = ended \ {w \in Worker : RunOf[w] = r}
          /\ UNCHANGED <<rowStatus, faults, laneBatch>>
      BY <1>8 DEF Lanes!Finish, Lanes!Over, Lanes!Unlock, Lanes!LetGo, Lanes!Team
    <2>2. stage[r] = "crawl"
      BY <1>8 DEF Lanes!Finish
    <2>3. LaneTypes' /\ LaneLock'
      BY <2>1 DEF LaneLock, Live
    <2>4. LaneHands'
      BY <2>1 DEF LaneHands
    <2>5. \A n \in Node : ~InLane(n)
      <3>1. \A s \in Run \ {r} : stage[s] = "off"
        BY <2>2 DEF LaneLock, Live
      <3> QED
        BY <2>1, <3>1 DEF InLane, LaneHands
    <2>6. LaneExcused => LaneExcused'
      BY <2>1 DEF LaneExcused
    <2>7. LaneRows'
      BY <2>1, <2>5, <2>6 DEF LaneRows
    <2> QED
      BY <2>3, <2>4, <2>7 DEF LaneInv
  <1>9. ASSUME NEW w \in Worker, Lanes!LaneDies(w)
        PROVE  LaneInv'
    <2>1. /\ faults > 0 /\ faults' = faults - 1
          /\ laneBatch[w] = {} /\ wpc[w] = "idle" /\ stage[RunOf[w]] = "crawl" /\ w \notin ended
          /\ wpc' = [v \in Worker |-> IF v \in {w} THEN "dead" ELSE wpc[v]]
          /\ item' = [v \in Worker |-> IF v \in {w} THEN NoNode ELSE item[v]]
          /\ UNCHANGED <<rowStatus, lock, stage, laneBatch, ended>>
      BY <1>9 DEF Lanes!LaneDies, Lanes!Fault, Lanes!Free, Lanes!LetGo
    <2>2. LaneTypes'
      BY <2>1
    <2>3. LaneLock' /\ LaneHands'
      BY <2>1 DEF LaneLock, Live, LaneHands
    <2>4. LaneExcused'
      <3>1. \A s \in Run \ {RunOf[w]} : stage[s] = "off"
        BY <2>1 DEF LaneLock, Live
      <3> QED
        BY <2>1, <3>1 DEF LaneExcused
    <2> QED
      BY <2>2, <2>3, <2>4 DEF LaneInv, LaneRows
  <1>10. ASSUME NEW w \in Worker, Lanes!RowRaises(w)
         PROVE  LaneInv'
    <2>1. /\ faults > 0 /\ faults' = faults - 1 /\ wpc[w] \in Statements
          /\ UNCHANGED <<rowStatus, lock, stage, ended>>
      BY <1>10 DEF Lanes!RowRaises, Lanes!StatementRaises, Lanes!Fault, Lanes!Statements, Statements
    <2>2. item[w] # NoNode /\ stage[RunOf[w]] \notin {"off", "requeue"} /\ w \notin ended
      BY <2>1 DEF LaneHands, Statements
    <2>3. CASE wpc[w] = "mark_failed"
      <3>1. /\ wpc' = [v \in Worker |-> IF v \in {w} THEN "dead" ELSE wpc[v]]
            /\ item' = [v \in Worker |-> IF v \in {w} THEN NoNode ELSE item[v]]
        BY <1>10, <2>3 DEF Lanes!RowRaises, Lanes!StatementRaises, Lanes!LetGo
      <3>2. laneBatch' = [laneBatch EXCEPT ![w] = {}]
        BY <1>10, <3>1 DEF Lanes!RowRaises
      <3>3. LaneTypes'
        BY <2>1, <3>1, <3>2
      <3>4. LaneLock' /\ LaneHands'
        BY <2>1, <2>2, <3>1, <3>2 DEF LaneLock, Live, LaneHands
      <3>5. LaneExcused'
        <4>1. \A s \in Run \ {RunOf[w]} : stage[s] = "off"
          BY <2>2 DEF LaneLock, Live
        <4> QED
          BY <2>1, <3>1, <4>1 DEF LaneExcused
      <3> QED
        BY <3>3, <3>4, <3>5 DEF LaneInv, LaneRows
    <2>4. CASE wpc[w] # "mark_failed"
      <3>1. wpc' = [wpc EXCEPT ![w] = "mark_failed"] /\ item' = item
        BY <1>10, <2>4 DEF Lanes!RowRaises, Lanes!StatementRaises
      <3>2. laneBatch' = laneBatch
        BY <1>10, <3>1 DEF Lanes!RowRaises
      <3>3. LaneTypes'
        BY <2>1, <3>1, <3>2 DEF Statements
      <3>4. LaneLock' /\ LaneHands'
        BY <2>1, <2>2, <3>1, <3>2 DEF LaneLock, Live, LaneHands, Statements
      <3>5. LaneExcused => LaneExcused'
        BY <2>1, <3>1 DEF LaneExcused, Statements
      <3>6. \A n \in Node : InLane(n) => InLane(n)'
        BY <3>1, <3>2 DEF InLane
      <3> QED
        BY <2>1, <3>3, <3>4, <3>5, <3>6 DEF LaneInv, LaneRows
    <2> QED
      BY <2>3, <2>4
  <1>11. ASSUME NEW r \in Run, Lanes!Die(r)
         PROVE  LaneInv'
    <2>1. /\ faults > 0 /\ faults' = faults - 1 /\ stage[r] # "off"
          /\ stage' = [stage EXCEPT ![r] = "off"]
          /\ lock' = IF lock = r THEN NoRun ELSE lock
          /\ wpc' = [w \in Worker |-> IF RunOf[w] = r THEN "idle" ELSE wpc[w]]
          /\ item' = [w \in Worker |-> IF RunOf[w] = r THEN NoNode ELSE item[w]]
          /\ laneBatch' = [w \in Worker |-> IF RunOf[w] = r THEN {} ELSE laneBatch[w]]
          /\ ended' = ended \ {w \in Worker : RunOf[w] = r}
          /\ UNCHANGED rowStatus
      BY <1>11 DEF Lanes!Die, Lanes!Crash, Lanes!Fault, Lanes!Live, Lanes!Unlock,
                   Lanes!LetGo, Lanes!Team
    <2>2. LaneTypes' /\ LaneLock'
      BY <2>1 DEF LaneLock, Live
    <2>3. LaneHands'
      BY <2>1 DEF LaneHands
    <2>4. LaneExcused'
      BY <2>1 DEF LaneExcused, LaneLock, Live
    <2> QED
      BY <2>2, <2>3, <2>4 DEF LaneInv, LaneRows
  <1>12. CASE UNCHANGED Lanes!vars
    <2> USE <1>12 DEF Lanes!vars
    <2>1. LaneTypes' /\ LaneLock' /\ LaneHands'
      BY DEF LaneLock, Live, LaneHands
    <2>2. LaneRows'
      BY <1>k DEF InLane
    <2> QED
      BY <2>1, <2>2 DEF LaneInv
  <1> QED
    BY <1>1, <1>2, <1>3, <1>4, <1>5, <1>6, <1>7, <1>8, <1>9, <1>10, <1>11, <1>12
       DEF Lanes!Next, Lanes!MainStep, Lanes!LaneStep, Lanes!FaultStep

(***************************************************************************)
(* With proxies too, what is left in 'fetching' with nobody to hold it was *)
(* left by a fault, and the next start finds it.                           *)
(***************************************************************************)
THEOREM StrandedOnlyByFault ==
  ASSUME Sequential
  PROVE  Lanes!Spec => []Lanes!StrandedByFault
  <1>1. LaneInv => Lanes!StrandedByFault
    <2> SUFFICES ASSUME LaneInv, NEW n \in Node, rowStatus[n] = "fetching"
                 PROVE  \/ \E w \in Worker : n \in Lanes!Held(w)
                        \/ /\ faults < MaxFaults
                           /\ \A r \in Run : \/ stage[r] \in {"off", "requeue"}
                                             \/ \E w \in Lanes!Team(r) : wpc[w] = "dead"
      BY DEF Lanes!StrandedByFault
    <2>1. InLane(n) \/ LaneExcused
      BY DEF LaneInv, LaneRows
    <2>2. CASE InLane(n)
      BY <2>2 DEF InLane, Lanes!Held
    <2>3. CASE LaneExcused
      BY <2>3 DEF LaneExcused, Lanes!Team
    <2> QED
      BY <2>1, <2>2, <2>3
  <1>2. LaneInv /\ [Lanes!Next]_(Lanes!vars) => LaneInv'
    BY LaneStep
  <1> QED
    BY <1>1, <1>2, LaneInit, PTL DEF Lanes!Spec
=============================================================================
