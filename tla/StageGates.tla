----------------------------- MODULE StageGates -----------------------------
(***************************************************************************)
(* The step from fetch to parse: the gate check_fetch_complete reads four  *)
(* counts one after the other, each statement seeing what is committed by  *)
(* then, and parse_all turns the archive into parsed_records.  Neither     *)
(* takes the network lock, so harvests and fetches may be running all the  *)
(* while; of them this module keeps what they do to the tables, which is   *)
(* what FetchStage_proofs!FetchDoesNoMore says of FetchStage.              *)
(***************************************************************************)
EXTENDS FetchQueue, FiniteSets

CONSTANTS
  Reported,   \* meta.reported_total
  MaxCrashes  \* how often a parse dies

\* The queue may hold more rows than the site reports.
ASSUME GateAssumption ==
  /\ IsFiniteSet(Node)
  /\ Reported \in 1..Cardinality(Node)
  /\ MaxCrashes \in Nat

VARIABLES
  parse,    \* the locals of a parse: pc, the next count, the checks so far,
            \* gate or not, pages to do
  parsed,   \* raw pages with a parsed_records row of the current parser version
  crashes,  \* crashes left
  loose,    \* history: rows that escaped, see FetchStage
  moved     \* history: rows that appeared, or were put back, since the
            \* pending ones were counted

histories == <<loose, moved>>
vars == <<queueVars, parse, parsed, crashes, histories>>

\* (Mutant: the rows in flight are counted first.)
OrderSwapped == <<"done", "fetching", "failed", "pending">>

\* The counts of the gate, in the order of their statements.
Order == <<"done", "pending", "failed", "fetching">>

Off == [pc |-> "off", at |-> 1, ok |-> TRUE, gated |-> FALSE, todo |-> {}]

TypeOK ==
  /\ QueueTypeOK
  /\ parse \in [pc : {"off", "gate", "begin", "read", "save"}, at : 1..4, ok : BOOLEAN,
                gated : BOOLEAN, todo : SUBSET RawPage]
  /\ parsed \in SUBSET RawPage
  /\ crashes \in 0..MaxCrashes
  /\ loose \in SUBSET Node /\ moved \in SUBSET Node

Init ==
  /\ QueueInit
  /\ parse = Off /\ parsed = {}
  /\ crashes = MaxCrashes
  /\ loose = {} /\ moved = {}

-----------------------------------------------------------------------------
InStatus(s) == {n \in Node : rowStatus[n] = s}

\* Rows that the counts of a gate can miss: new ones, and those a fetch takes
\* out of 'fetching' other than to 'done'.
PutBack ==
  {n \in Node : \/ rowStatus[n] = "absent" /\ rowStatus'[n] # "absent"
                \/ rowStatus[n] = "fetching" /\ rowStatus'[n] \in {"pending", "failed"}}

Fetch ==
  /\ \/ FetchWrites(loose)
     \/ \E S \in SUBSET Node : EnqueueDetails(S)
     \/ UNCHANGED queueVars
  /\ \E S \in SUBSET InStatus("fetching") : loose' = loose \cup S
  /\ moved' = moved \cup PutBack
  /\ UNCHANGED <<parse, parsed, crashes>>

-----------------------------------------------------------------------------
StartParse(gated) ==
  /\ parse.pc = "off"
  /\ parse' = [Off EXCEPT !.pc = IF gated THEN "gate" ELSE "begin", !.gated = gated]
  /\ UNCHANGED <<queueVars, parsed, crashes, histories>>

Passes(s) ==
  IF s = "done" THEN Cardinality(InStatus(s)) >= Reported ELSE InStatus(s) = {}

\* One count; after the last the gate opens or the command ends.
Count ==
  LET s == Order[parse.at]
      ok == parse.ok /\ Passes(s)
  IN /\ parse.pc = "gate"
     /\ parse' = IF parse.at < 4 THEN [parse EXCEPT !.at = @ + 1, !.ok = ok]
                 ELSE IF ok THEN [parse EXCEPT !.pc = "begin"]
                 ELSE Off
     /\ moved' = IF s = "pending" THEN {} ELSE moved
     /\ UNCHANGED <<queueVars, parsed, crashes, loose>>

\* parse_all: with fresh the parsed rows are dropped first.
Begin ==
  /\ parse.pc = "begin"
  /\ parsed' \in {parsed, {}}
  /\ parse' = [parse EXCEPT !.pc = "read"]
  /\ UNCHANGED <<queueVars, crashes, histories>>

\* The server-side cursor sees the archive as of the moment it is opened.
OpenCursor ==
  /\ parse.pc = "read"
  /\ parse' = [parse EXCEPT !.pc = "save", !.todo = rawPages]
  /\ UNCHANGED <<queueVars, parsed, crashes, histories>>

\* (Mutant: one parsed record per node instead of one per page.)
SaveParsedOnce(p) ==
  /\ parse.pc = "save" /\ p \in parse.todo
  /\ parsed' = IF \E q \in parsed : q[1] = p[1] THEN parsed ELSE parsed \cup {p}
  /\ parse' = [parse EXCEPT !.todo = @ \ {p}]
  /\ UNCHANGED <<queueVars, crashes, histories>>

SaveParsed(p) ==
  /\ parse.pc = "save" /\ p \in parse.todo
  /\ parsed' = parsed \cup {p}
  /\ parse' = [parse EXCEPT !.todo = @ \ {p}]
  /\ UNCHANGED <<queueVars, crashes, histories>>

EndParse ==
  /\ parse.pc = "save" /\ parse.todo = {}
  /\ parse' = Off
  /\ UNCHANGED <<queueVars, parsed, crashes, histories>>

ParseDies ==
  /\ crashes > 0 /\ crashes' = crashes - 1
  /\ parse.pc # "off"
  /\ parse' = Off
  /\ UNCHANGED <<queueVars, parsed, histories>>

Parse ==
  \/ \E gated \in BOOLEAN : StartParse(gated)
  \/ Count \/ Begin \/ OpenCursor \/ (\E p \in RawPage : SaveParsed(p)) \/ EndParse
  \/ ParseDies

Next == Fetch \/ Parse

Spec == Init /\ [][Next]_vars

-----------------------------------------------------------------------------
Behind == parse.gated /\ parse.pc \in {"begin", "read", "save"}

(***************************************************************************)
(* "Every stage operates on a COMPLETE dataset or not at all" (the         *)
(* docstring of preflight), as far as four counts read one after the other *)
(* can see to it: while a parse behind the gate works, as many rows are    *)
(* done as the site reports, and each row of the queue is done, unless it  *)
(* had escaped from its fetch, or appeared or was put back after the       *)
(* pending ones were counted.  A row that is being claimed is never        *)
(* missed, because the rows in flight are counted last.                    *)
(***************************************************************************)
GateHolds ==
  Behind =>
    /\ Cardinality(InStatus("done") \cup loose) >= Reported
    /\ \A n \in Node \ (moved \cup loose) : rowStatus[n] \in {"absent", "done"}

(***************************************************************************)
(* A parse behind the gate that ends has left a parsed record of every     *)
(* such row of the queue, and of the very page the row names, whatever was *)
(* parsed, dropped or fetched before.                                      *)
(***************************************************************************)
ParseCovers ==
  [][EndParse /\ parse.gated =>
       \A n \in Node \ (moved \cup loose) : rowStatus[n] = "absent" \/ rawPageId[n] \in parsed]_vars
=============================================================================
