------------------------------ MODULE FetchRun ------------------------------
(***************************************************************************)
(* One invocation of `stevie_platform.cli fetch`, up to the way its        *)
(* workers are given rows: the network lock, the requeue at startup, what  *)
(* a worker does with a row it holds, and the faults the code runs under.  *)
(* FetchStage (asyncio queue) and ProxyFetch (one lane per proxy) extend   *)
(* it.  A Run is a terminal from which the command is started again and    *)
(* again; RunOf says whose task a worker is.                               *)
(***************************************************************************)
EXTENDS FetchQueue, FiniteSets

CONSTANTS
  Run, Worker, RunOf,
  NoRun, NoNode, NoContent,  \* "nobody", "nothing", "no body yet"
  Sequential,                \* PIPELINE_MODE = 'sequential'
  Faults,                    \* the faults that may happen, see AllFaults
  MaxFaults                  \* how often, all of them together

(***************************************************************************)
(* crash     the process dies                                              *)
(* unwind    a statement of the main coroutine raises, or Ctrl-C cancels   *)
(*           it: the lock is closed while the workers are still there      *)
(* db_error  a statement of a worker raises                                *)
(* stray     a statement whose client is gone may still commit, later      *)
(* lock_drop the server ends the idle session that holds the lock          *)
(***************************************************************************)
AllFaults == {"crash", "unwind", "db_error", "stray", "lock_drop"}

ASSUME RunAssumption ==
  /\ RunOf \in [Worker -> Run]
  /\ NoRun \notin Run
  /\ NoNode \notin Node
  /\ NoContent \notin Content
  /\ Sequential \in BOOLEAN
  /\ Faults \subseteq AllFaults
  /\ MaxFaults \in Nat

VARIABLES
  lock,    \* holder of the advisory lock NETWORK_LOCK_KEY
  stage,   \* where the main coroutine of a run is
  wpc,     \* where a worker is; a statement's name while it is being run
  item,    \* the row a worker holds
  got,     \* the response body it holds
  stray,   \* statements sent by clients that are gone
  faults   \* faults left

workerVars == <<wpc, item, got>>
faultVars == <<stray, faults>>
runVars == <<lock, stage, workerVars, faultVars>>

Statements == {"save_raw_page", "mark_fetched", "mark_failed"}
Stray == [op : Statements, node : Node, content : Content \cup {NoContent}]

RunTypeOK ==
  /\ QueueTypeOK
  /\ lock \in Run \cup {NoRun}
  /\ stage \in [Run -> {"off", "requeue", "crawl", "feed", "join", "closing"}]
  /\ wpc \in [Worker -> {"idle", "get", "dead"} \cup Statements]
  /\ item \in [Worker -> Node \cup {NoNode}]
  /\ got \in [Worker -> Content \cup {NoContent}]
  /\ stray \in SUBSET Stray
  /\ faults \in 0..MaxFaults

RunInit ==
  /\ QueueInit
  /\ lock = NoRun
  /\ stage = [r \in Run |-> "off"]
  /\ wpc = [w \in Worker |-> "idle"]
  /\ item = [w \in Worker |-> NoNode]
  /\ got = [w \in Worker |-> NoContent]
  /\ stray = {}
  /\ faults = MaxFaults

Live(r) == stage[r] # "off"
Team(r) == {w \in Worker : RunOf[w] = r}

Fault(kind) ==
  /\ kind \in Faults
  /\ faults > 0
  /\ faults' = faults - 1

\* Of the statements of these workers, some may reach the server after all.
MayStray(S) ==
  LET sent == {[op |-> wpc[w], node |-> item[w], content |-> got[w]] :
                 w \in {v \in S : wpc[v] \in Statements}}
  IN \E T \in SUBSET sent :
       /\ "stray" \notin Faults => T = {}
       /\ stray' = stray \cup T

\* A worker lets go of its row (task_done) and waits for the next, or is dead.
LetGo(S, pc) ==
  /\ wpc' = [w \in Worker |-> IF w \in S THEN pc ELSE wpc[w]]
  /\ item' = [w \in Worker |-> IF w \in S THEN NoNode ELSE item[w]]
  /\ got' = [w \in Worker |-> IF w \in S THEN NoContent ELSE got[w]]

-----------------------------------------------------------------------------
\* The `harvest` command: rows of a listing page appear, under the same lock.
Discover(S) ==
  /\ Sequential => lock = NoRun
  /\ EnqueueDetails(S)
  /\ UNCHANGED runVars

\* The `fetch` command (its gate may be forced): take the lock or give up.
StartFetch(r) ==
  /\ ~Live(r)
  /\ Sequential => lock = NoRun
  /\ lock' = IF Sequential THEN r ELSE lock
  /\ stage' = [stage EXCEPT ![r] = "requeue"]
  /\ UNCHANGED <<queueVars, workerVars, faultVars>>

RequeueStale(r) ==
  /\ stage[r] = "requeue"
  /\ RequeueStaleFetching
  /\ stage' = [stage EXCEPT ![r] = "crawl"]
  /\ UNCHANGED <<lock, workerVars, faultVars>>

\* Closing the connection that holds the lock, at the end of every path.
Unlock(r) ==
  /\ lock' = IF lock = r THEN NoRun ELSE lock
  /\ stage' = [stage EXCEPT ![r] = "off"]
  /\ LetGo(Team(r), "idle")

-----------------------------------------------------------------------------
\* (Mutant: the status code is not looked at.)
AnswerUnchecked(w) ==
  /\ wpc[w] = "get"
  /\ \E c \in Content \cup {NoContent} : got' = [got EXCEPT ![w] = c]
  /\ wpc' = [wpc EXCEPT ![w] = "save_raw_page"]
  /\ UNCHANGED <<queueVars, lock, stage, item, faultVars>>

\* One GET: a body with status 200, or a status that is not, or an exception.
Answer(w) ==
  /\ wpc[w] = "get"
  /\ \/ \E c \in Content : /\ got' = [got EXCEPT ![w] = c]
                           /\ wpc' = [wpc EXCEPT ![w] = "save_raw_page"]
     \/ /\ wpc' = [wpc EXCEPT ![w] = "mark_failed"]
        /\ UNCHANGED got
  /\ UNCHANGED <<queueVars, lock, stage, item, faultVars>>

SavePage(w) ==
  /\ wpc[w] = "save_raw_page"
  /\ SaveRawPage(item[w], got[w])
  /\ wpc' = [wpc EXCEPT ![w] = "mark_fetched"]
  /\ UNCHANGED <<lock, stage, item, got, faultVars>>

Fetched(w) ==
  /\ wpc[w] = "mark_fetched"
  /\ MarkFetched(item[w], <<item[w], got[w]>>)
  /\ LetGo({w}, "idle")
  /\ UNCHANGED <<lock, stage, faultVars>>

\* (Mutant: the worker returns after a failure.)
BouncedOut(w) ==
  /\ wpc[w] = "mark_failed"
  /\ MarkFailed(item[w])
  /\ LetGo({w}, "dead")
  /\ UNCHANGED <<lock, stage, faultVars>>

Bounced(w) ==
  /\ wpc[w] = "mark_failed"
  /\ MarkFailed(item[w])
  /\ LetGo({w}, "idle")
  /\ UNCHANGED <<lock, stage, faultVars>>

-----------------------------------------------------------------------------
\* A statement raises: the except clause marks the row failed; when that
\* statement raises too, the exception ends the task.
StatementRaises(w) ==
  /\ Fault("db_error")
  /\ wpc[w] \in Statements
  /\ MayStray({w})
  /\ IF wpc[w] = "mark_failed"
     THEN LetGo({w}, "dead")
     ELSE /\ wpc' = [wpc EXCEPT ![w] = "mark_failed"]
          /\ got' = [got EXCEPT ![w] = NoContent]
          /\ UNCHANGED item
  /\ UNCHANGED <<queueVars, lock, stage>>

\* The process is killed.
Crash(r) ==
  /\ Fault("crash")
  /\ Live(r)
  /\ MayStray(Team(r))
  /\ Unlock(r)
  /\ UNCHANGED queueVars

\* The exception leaves `fetch_all` and the lock is closed.  Nobody cancels
\* the workers: they run on while the pool is closed.
Unwind(r) ==
  /\ Fault("unwind")
  /\ stage[r] \in {"requeue", "crawl", "feed", "join"}
  /\ lock' = IF lock = r THEN NoRun ELSE lock
  /\ stage' = [stage EXCEPT ![r] = "closing"]
  /\ UNCHANGED <<queueVars, workerVars, stray>>

\* asyncio.run cancels what is left, and the process is gone.
Exit(r) ==
  /\ stage[r] = "closing"
  /\ MayStray(Team(r))
  /\ Unlock(r)
  /\ UNCHANGED <<queueVars, faults>>

\* Nothing looks at the lock's connection again before it is closed.
LoseLock ==
  /\ Fault("lock_drop")
  /\ lock # NoRun
  /\ lock' = NoRun
  /\ UNCHANGED <<queueVars, stage, workerVars, stray>>

CommitStray(s) ==
  /\ s \in stray
  /\ stray' = stray \ {s}
  /\ \/ s.op = "save_raw_page" /\ SaveRawPage(s.node, s.content)
     \/ s.op = "mark_fetched" /\ MarkFetched(s.node, <<s.node, s.content>>)
     \/ s.op = "mark_failed" /\ MarkFailed(s.node)
  /\ UNCHANGED <<lock, stage, workerVars, faults>>
=============================================================================
