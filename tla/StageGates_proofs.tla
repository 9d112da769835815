------------------------- MODULE StageGates_proofs -------------------------
(***************************************************************************)
(* Theorems about StageGates for any queue, whatever number of fetches and *)
(* harvests do to it meanwhile, and any number of parses that die.         *)
(***************************************************************************)
EXTENDS StageGates, FiniteSetTheorems, TLAPS

Done == InStatus("done") \cup loose
Working == {"begin", "read", "save"}

\* The gate of this parse has passed the first k counts.
Past(k) == parse.gated /\ parse.ok /\ ((parse.pc = "gate" /\ parse.at > k) \/ parse.pc \in Working)

Others == Node \ (moved \cup loose)

DoneHasPage == \A n \in Node : rowStatus[n] = "done" => rawPageId[n] \in rawPages

(***************************************************************************)
(* What each count leaves behind.  Rows that are done, or escaped, never   *)
(* become fewer; of the others a row becomes pending or failed only by     *)
(* being put back, and is claimed only when it is pending: the order of    *)
(* the counts follows the life of a row backwards.                         *)
(***************************************************************************)
Counted ==
  /\ Past(1) => Cardinality(Done) >= Reported
  /\ Past(2) => \A n \in Others : rowStatus[n] # "pending"
  /\ Past(3) => \A n \in Others : rowStatus[n] # "failed"
  /\ Behind => parse.ok /\ \A n \in Others : rowStatus[n] # "fetching"

\* The cursor of a parse has every page that a done row named at its opening.
PagesInHand ==
  parse.gated /\ parse.pc = "save"
    => \A n \in Others : rowStatus[n] = "absent" \/ rawPageId[n] \in parsed \cup parse.todo

GateInv == TypeOK /\ DoneHasPage /\ Counted /\ PagesInHand

-----------------------------------------------------------------------------
(***************************************************************************)
(* What a statement of a fetch or a harvest does to the rows.              *)
(***************************************************************************)
RowsMove ==
  /\ QueueTypeOK'
  /\ rawPages \subseteq rawPages'
  /\ \A n \in Node \ loose :
       /\ rowStatus'[n] \in {"pending", "failed"} /\ rowStatus'[n] # rowStatus[n] => n \in PutBack
       /\ rowStatus'[n] = "absent" => rowStatus[n] = "absent"
       /\ rowStatus'[n] = "fetching" => rowStatus[n] \in {"fetching", "pending"}
       /\ rowStatus[n] = "done" => rowStatus'[n] = "done" /\ rawPageId'[n] = rawPageId[n]
  /\ DoneHasPage => DoneHasPage'

LEMMA FetchMovesRows ==
  ASSUME QueueTypeOK, Fetch
  PROVE  RowsMove
  <1> USE QueueAssumption DEF QueueTypeOK, DoneHasPage, Status
  <1>1. CASE RequeueStaleFetching
    BY <1>1 DEF RequeueStaleFetching, RowsMove, PutBack
  <1>2. CASE \E B \in SUBSET Pending : ClaimPending(B)
    BY <1>2 DEF ClaimPending, Pending, OneMore, RowsMove, PutBack
  <1>3. ASSUME NEW n \in Node, NEW c \in Content, SaveRawPage(n, c)
        PROVE  RowsMove
    BY <1>3 DEF SaveRawPage, RawPage, RowsMove, PutBack
  <1>4. ASSUME NEW n \in Node, rowStatus[n] = "fetching" \/ n \in loose,
               NEW c \in Content, <<n, c>> \in rawPages, MarkFetched(n, <<n, c>>)
        PROVE  RowsMove
    BY <1>4 DEF MarkFetched, RowsMove, PutBack
  <1>5. ASSUME NEW n \in Node, rowStatus[n] = "fetching" \/ n \in loose, MarkFailed(n)
        PROVE  RowsMove
    <2>1. PICK s \in {"failed", "pending"} : rowStatus' = [rowStatus EXCEPT ![n] = s]
      BY <1>5 DEF MarkFailed
    <2>2. UNCHANGED <<attempts, rawPageId, rawPages>>
      BY <1>5 DEF MarkFailed
    <2> QED
      BY <1>5, <2>1, <2>2 DEF RowsMove, PutBack
  <1>6. CASE \E S \in SUBSET Node : EnqueueDetails(S)
    BY <1>6 DEF EnqueueDetails, RowsMove, PutBack
  <1>7. CASE UNCHANGED queueVars
    BY <1>7 DEF queueVars, RowsMove, PutBack
  <1>8. CASE FetchWrites(loose)
    BY <1>1, <1>2, <1>3, <1>4, <1>5, <1>8 DEF FetchWrites
  <1> QED
    BY <1>6, <1>7, <1>8 DEF Fetch

-----------------------------------------------------------------------------
\* The parse record, as a type of its own.
ParseRecord == [pc : {"off", "gate", "begin", "read", "save"}, at : 1..4, ok : BOOLEAN,
                gated : BOOLEAN, todo : SUBSET RawPage]

LEMMA CountsTo ==
  ASSUME TypeOK, Count
  PROVE  /\ parse.pc = "gate" /\ parse' \in ParseRecord
         /\ \/ /\ parse.at < 4 /\ parse'.pc = "gate" /\ parse'.at = parse.at + 1
               /\ parse'.ok = (parse.ok /\ Passes(Order[parse.at]))
               /\ parse'.gated = parse.gated
            \/ /\ parse.at = 4 /\ parse.ok /\ Passes("fetching")
               /\ parse'.pc = "begin" /\ parse'.ok = parse.ok /\ parse'.gated = parse.gated
            \/ parse'.pc = "off"
  <1>1. parse \in ParseRecord /\ parse.at \in 1..4 /\ parse.ok \in BOOLEAN
    BY DEF TypeOK, ParseRecord
  <1>2. CASE parse.at < 4
    <2> DEFINE ok == parse.ok /\ Passes(Order[parse.at])
    <2>1. parse' = [parse EXCEPT !.at = @ + 1, !.ok = ok] /\ parse.pc = "gate"
      BY <1>2 DEF Count
    <2>2. ok \in BOOLEAN
      OBVIOUS
    <2> HIDE DEF ok
    <2>3. /\ parse' \in ParseRecord /\ parse'.ok = ok /\ parse'.pc = "gate"
          /\ parse'.at = parse.at + 1 /\ parse'.gated = parse.gated
      <3>1. parse' = [pc |-> parse.pc, at |-> parse.at + 1, ok |-> ok,
                      gated |-> parse.gated, todo |-> parse.todo]
        BY <1>1, <2>1 DEF ParseRecord
      <3>2. parse.at + 1 \in 1..4 /\ parse.gated \in BOOLEAN /\ parse.todo \in SUBSET RawPage
        BY <1>1, <1>2 DEF ParseRecord
      <3> QED
        BY <2>1, <2>2, <3>1, <3>2 DEF ParseRecord
    <2> QED
      BY <1>2, <2>1, <2>3 DEF ok
  <1>3. CASE parse.at = 4
    <2>1. Order[parse.at] = "fetching"
      BY <1>3 DEF Order
    <2>2. CASE parse.ok /\ Passes("fetching")
      <3>1. parse' = [parse EXCEPT !.pc = "begin"] /\ parse.pc = "gate"
        BY <1>3, <2>1, <2>2 DEF Count
      <3> QED
        BY <1>1, <1>3, <2>2, <3>1 DEF ParseRecord
    <2>3. CASE ~(parse.ok /\ Passes("fetching"))
      <3>1. parse' = Off /\ parse.pc = "gate"
        BY <1>3, <2>1, <2>3 DEF Count
      <3> QED
        BY <3>1 DEF Off, ParseRecord
    <2> QED
      BY <2>2, <2>3
  <1> QED
    BY <1>1, <1>2, <1>3

LEMMA GateTypeOK == TypeOK /\ [Next]_vars => TypeOK'
  <1> SUFFICES ASSUME TypeOK, [Next]_vars PROVE TypeOK'
    OBVIOUS
  <1>t. /\ QueueTypeOK /\ parse \in ParseRecord /\ parsed \in SUBSET RawPage
        /\ crashes \in 0..MaxCrashes /\ loose \in SUBSET Node /\ moved \in SUBSET Node
    BY DEF TypeOK, ParseRecord
  <1>k. ASSUME QueueTypeOK', parse' \in ParseRecord, parsed' \in SUBSET RawPage,
               crashes' \in 0..MaxCrashes, loose' \in SUBSET Node, moved' \in SUBSET Node
        PROVE  TypeOK'
    BY <1>k DEF TypeOK, ParseRecord
  <1>q. UNCHANGED queueVars => QueueTypeOK'
    BY <1>t DEF queueVars, QueueTypeOK
  <1>o. Off \in ParseRecord
    BY DEF Off, ParseRecord
  <1>1. CASE Fetch
    <2>1. QueueTypeOK'
      BY <1>1, <1>t, FetchMovesRows DEF RowsMove
    <2>2. loose' \in SUBSET Node /\ moved' \in SUBSET Node
      BY <1>1, <1>t DEF Fetch, InStatus, PutBack
    <2> QED
      BY <1>1, <1>k, <1>t, <2>1, <2>2 DEF Fetch
  <1>2. ASSUME NEW gated \in BOOLEAN, StartParse(gated) PROVE TypeOK'
    <2>1. parse' \in ParseRecord
      <3>1. parse' = [pc |-> IF gated THEN "gate" ELSE "begin", at |-> 1, ok |-> TRUE,
                      gated |-> gated, todo |-> {}]
        BY <1>2 DEF StartParse, Off
      <3> QED
        BY <3>1 DEF ParseRecord
    <2> QED
      BY <1>2, <1>k, <1>q, <1>t, <2>1 DEF StartParse, histories
  <1>3. CASE Count
    <2>1. parse' \in ParseRecord
      BY <1>3, CountsTo
    <2>2. moved' \in SUBSET Node
      BY <1>3, <1>t DEF Count
    <2> QED
      BY <1>3, <1>k, <1>q, <1>t, <2>1, <2>2 DEF Count
  <1>4. CASE Begin
    <2>1. parse' \in ParseRecord
      BY <1>4, <1>t DEF Begin, ParseRecord
    <2> QED
      BY <1>4, <1>k, <1>q, <1>t, <2>1 DEF Begin, histories
  <1>5. CASE OpenCursor
    <2>1. parse' \in ParseRecord
      BY <1>5, <1>t DEF OpenCursor, ParseRecord, QueueTypeOK
    <2> QED
      BY <1>5, <1>k, <1>q, <1>t, <2>1 DEF OpenCursor, histories
  <1>6. ASSUME NEW p \in RawPage, SaveParsed(p) PROVE TypeOK'
    <2>1. parse' \in ParseRecord
      BY <1>6, <1>t DEF SaveParsed, ParseRecord
    <2> QED
      BY <1>6, <1>k, <1>q, <1>t, <2>1 DEF SaveParsed, histories
  <1>7. CASE EndParse \/ ParseDies
    <2>1. parse' = Off /\ crashes' \in 0..MaxCrashes
      BY <1>7, <1>t, GateAssumption DEF EndParse, ParseDies
    <2> QED
      BY <1>7, <1>k, <1>q, <1>t, <1>o, <2>1 DEF EndParse, ParseDies, histories
  <1>8. CASE UNCHANGED vars
    BY <1>8, <1>k, <1>q, <1>t DEF vars, histories
  <1> QED
    BY <1>1, <1>2, <1>3, <1>4, <1>5, <1>6, <1>7, <1>8 DEF Next, Parse

-----------------------------------------------------------------------------
\* The rows that are done, or escaped, never become fewer.
LEMMA DoneGrows ==
  ASSUME TypeOK, Fetch
  PROVE  Cardinality(Done) >= Reported => Cardinality(Done)' >= Reported
  <1>1. Done \subseteq Done'
    BY FetchMovesRows DEF RowsMove, Done, InStatus, Fetch, TypeOK
  <1>2. Done' \subseteq Node
    BY GateTypeOK DEF Done, InStatus, TypeOK, Next
  <1>3. IsFiniteSet(Done')
    BY <1>2, GateAssumption, FS_Subset DEF GateAssumption
  <1>4. IsFiniteSet(Done) /\ Cardinality(Done) <= Cardinality(Done')
    BY <1>1, <1>3, FS_Subset
  <1>5. Cardinality(Done) \in Nat /\ Cardinality(Done') \in Nat /\ Reported \in Nat
    BY <1>3, <1>4, FS_CardinalityType, GateAssumption
  <1> QED
    BY <1>4, <1>5

LEMMA CountedDone ==
  ASSUME TypeOK, Passes("done")
  PROVE  Cardinality(Done) >= Reported
  <1>1. Done \subseteq Node
    BY DEF Done, InStatus, TypeOK
  <1>2. IsFiniteSet(Done)
    BY <1>1, GateAssumption, FS_Subset DEF GateAssumption
  <1>3. InStatus("done") \subseteq Done
    BY DEF Done
  <1>4. IsFiniteSet(InStatus("done")) /\ Cardinality(InStatus("done")) <= Cardinality(Done)
    BY <1>2, <1>3, FS_Subset
  <1>5. Cardinality(Done) \in Nat /\ Cardinality(InStatus("done")) \in Nat /\ Reported \in Nat
    BY <1>2, <1>4, FS_CardinalityType, GateAssumption
  <1> QED
    BY <1>4, <1>5 DEF Passes

LEMMA GateInit == Init => GateInv
  <1> SUFFICES ASSUME Init PROVE GateInv
    OBVIOUS
  <1>1. TypeOK
    BY QueueAssumption, GateAssumption DEF Init, QueueInit, TypeOK, QueueTypeOK, Status, Off,
       QueueAssumption, GateAssumption
  <1>2. parse = Off /\ \A n \in Node : rowStatus[n] = "absent"
    BY DEF Init, QueueInit
  <1> QED
    BY <1>1, <1>2 DEF GateInv, DoneHasPage, Counted, PagesInHand, Past, Behind, Off, Working

LEMMA GateStep == GateInv /\ [Next]_vars => GateInv'
  <1> SUFFICES ASSUME GateInv, [Next]_vars PROVE GateInv'
    OBVIOUS
  <1>t. TypeOK /\ TypeOK' /\ QueueTypeOK /\ QueueTypeOK' /\ Counted /\ DoneHasPage /\ PagesInHand
    BY GateTypeOK DEF GateInv, TypeOK
  <1>p. /\ parse \in ParseRecord /\ parse' \in ParseRecord
        /\ {parse.ok, parse.gated, parse'.ok, parse'.gated} \subseteq BOOLEAN
        /\ parse.at \in 1..4 /\ parse'.at \in 1..4
    BY <1>t DEF TypeOK, ParseRecord
  <1>d. UNCHANGED queueVars => DoneHasPage'
    BY <1>t DEF queueVars, DoneHasPage
  <1>b. ASSUME Behind
        PROVE  \A n \in Others : rowStatus[n] \in {"absent", "done"}
    <2>1. Past(2) /\ Past(3)
      BY <1>b, <1>t DEF Counted, Behind, Past, Working
    <2> QED
      BY <1>b, <1>t, <2>1 DEF Counted, QueueTypeOK, Status, Others
  <1>1. CASE Fetch
    <2>1. RowsMove
      BY <1>1, <1>t, FetchMovesRows
    <2>2. /\ Others' \subseteq Others /\ Others \subseteq Node \ loose
          /\ \A n \in Others' : n \notin PutBack
          /\ parse' = parse /\ parsed' = parsed
      BY <1>1 DEF Fetch, Others
    <2>3. \A n \in Others' : n \in Others /\ n \in Node \ loose
      BY <2>2
    <2>4. Counted'
      <3>1. Past(1)' => Cardinality(Done)' >= Reported
        BY <1>1, <1>t, <2>2, DoneGrows DEF Counted, Past
      <3>2. Past(2)' => \A n \in Others' : rowStatus'[n] # "pending"
        BY <1>t, <2>1, <2>2, <2>3 DEF Counted, Past, RowsMove
      <3>3. Past(3)' => \A n \in Others' : rowStatus'[n] # "failed"
        BY <1>t, <2>1, <2>2, <2>3 DEF Counted, Past, RowsMove
      <3>4. Behind' => parse'.ok /\ \A n \in Others' : rowStatus'[n] # "fetching"
        <4>1. Behind' => Behind /\ Past(2)
          BY <1>t, <2>2 DEF Behind, Counted, Past, Working
        <4> QED
          BY <1>t, <2>1, <2>2, <2>3, <4>1 DEF Counted, RowsMove
      <3> QED
        BY <3>1, <3>2, <3>3, <3>4 DEF Counted
    <2>5. PagesInHand'
      <3> SUFFICES ASSUME parse.gated, parse.pc = "save", NEW n \in Others'
                   PROVE  rowStatus'[n] = "absent" \/ rawPageId'[n] \in parsed \cup parse.todo
        BY <2>2 DEF PagesInHand
      <3>1. rowStatus[n] \in {"absent", "done"} /\ n \in Node
        BY <1>b, <2>2 DEF Behind, Others
      <3>2. CASE rowStatus[n] = "done"
        BY <1>t, <2>1, <2>2, <2>3, <3>2 DEF PagesInHand, RowsMove
      <3>3. CASE rowStatus[n] = "absent"
        BY <2>2, <3>1, <3>3 DEF PutBack
      <3> QED
        BY <3>1, <3>2, <3>3
    <2> QED
      BY <1>t, <2>1, <2>4, <2>5 DEF GateInv, RowsMove
  <1>2. CASE Count
    <2>0. UNCHANGED <<queueVars, parsed, crashes, loose>> /\ parse.pc = "gate"
      BY <1>2 DEF Count
    <2>c. /\ Order[1] = "done" /\ Order[2] = "pending" /\ Order[3] = "failed"
          /\ Order[4] = "fetching"
      BY DEF Order
    <2>m. moved' = IF parse.at = 2 THEN {} ELSE moved
      BY <1>2, <1>p, <2>c DEF Count
    <2>e. \A s \in {"pending", "failed", "fetching"} :
            Passes(s) => \A n \in Node : rowStatus[n] # s
      BY DEF Passes, InStatus
    <2>u. rowStatus' = rowStatus /\ Done' = Done
      BY <2>0 DEF queueVars, Done, InStatus
    <2>1. CASE parse'.pc = "off"
      BY <2>0, <2>1, <1>d, <1>t DEF GateInv, Counted, PagesInHand, Past, Behind, Working
    <2>2. CASE /\ parse.at < 4 /\ parse'.pc = "gate" /\ parse'.at = parse.at + 1
               /\ parse'.ok = (parse.ok /\ Passes(Order[parse.at]))
               /\ parse'.gated = parse.gated
      <3>1. Past(1)' => Cardinality(Done)' >= Reported
        <4>1. CASE parse.at = 1
          BY <1>t, <2>2, <2>c, <2>u, <4>1, CountedDone DEF Past
        <4>2. CASE parse.at # 1
          BY <1>t, <1>p, <2>0, <2>2, <2>u, <4>2 DEF Past, Counted
        <4> QED
          BY <4>1, <4>2
      <3>2. Past(2)' => \A n \in Others' : rowStatus'[n] # "pending"
        <4>1. CASE parse.at = 2
          BY <2>2, <2>c, <2>e, <2>u, <4>1 DEF Past, Others
        <4>2. CASE parse.at # 2
          <5>1. Past(2)' => Past(2)
            BY <1>p, <2>0, <2>2, <4>2 DEF Past, Working
          <5>2. Others' = Others
            BY <2>0, <2>m, <4>2 DEF Others
          <5> QED
            BY <1>t, <2>u, <5>1, <5>2 DEF Counted
        <4> QED
          BY <4>1, <4>2
      <3>3. Past(3)' => \A n \in Others' : rowStatus'[n] # "failed"
        <4>1. CASE parse.at = 3
          BY <2>2, <2>c, <2>e, <2>u, <4>1 DEF Past, Others
        <4>2. CASE parse.at # 3
          BY <1>p, <2>2, <4>2 DEF Past, Working
        <4> QED
          BY <4>1, <4>2
      <3>4. ~Behind' /\ PagesInHand'
        BY <2>2 DEF Behind, PagesInHand
      <3> QED
        BY <1>t, <1>d, <2>0, <3>1, <3>2, <3>3, <3>4 DEF GateInv, Counted
    <2>3. CASE /\ parse.at = 4 /\ parse.ok /\ Passes("fetching")
               /\ parse'.pc = "begin" /\ parse'.ok = parse.ok /\ parse'.gated = parse.gated
      <3>1. Past(1)' => Past(1) /\ Past(2) /\ Past(3)
        BY <1>p, <2>0, <2>3 DEF Past
      <3>2. Others' = Others
        BY <2>0, <2>3, <2>m DEF Others
      <3>3. \A n \in Node : rowStatus'[n] # "fetching"
        BY <2>3, <2>e, <2>u
      <3>4. Counted'
        BY <1>t, <2>3, <2>u, <3>1, <3>2, <3>3 DEF Counted, Past, Behind, Others, Working
      <3>5. PagesInHand'
        BY <2>3 DEF PagesInHand
      <3> QED
        BY <1>t, <1>d, <2>0, <3>4, <3>5 DEF GateInv
    <2> QED
      BY <1>2, <1>t, <2>1, <2>2, <2>3, CountsTo
  \* The steps of a parse that is past its gate, or has none.
  <1>k. ASSUME UNCHANGED <<queueVars, histories>>, parse'.ok = parse.ok,
               parse'.gated = parse.gated, parse.pc \in Working, parse'.pc \in Working,
               PagesInHand'
        PROVE  GateInv'
    <2>1. /\ \A k \in {1, 2, 3} : Past(k)' <=> Past(k)
          /\ Behind' <=> Behind
          /\ Others' = Others /\ Done' = Done /\ rowStatus' = rowStatus
      BY <1>k DEF Past, Behind, Working, Others, Done, InStatus, queueVars, histories
    <2>2. Counted'
      BY <1>k, <1>t, <2>1 DEF Counted
    <2> QED
      BY <1>k, <1>t, <1>d, <2>2 DEF GateInv
  <1>3. CASE Begin
    <2>1. /\ parse'.pc = "read" /\ parse.pc = "begin"
          /\ parse'.ok = parse.ok /\ parse'.gated = parse.gated
      BY <1>3, <1>p DEF Begin, ParseRecord
    <2> QED
      BY <1>3, <1>k, <2>1 DEF Begin, Working, PagesInHand
  <1>4. CASE OpenCursor
    <2>1. /\ parse'.pc = "save" /\ parse.pc = "read" /\ parse'.todo = rawPages
          /\ parse'.ok = parse.ok /\ parse'.gated = parse.gated
      BY <1>4, <1>p DEF OpenCursor, ParseRecord
    <2>2. PagesInHand'
      <3> SUFFICES ASSUME parse.gated, NEW n \in Others
                   PROVE  rowStatus[n] = "absent" \/ rawPageId[n] \in rawPages
        BY <1>4, <2>1 DEF OpenCursor, PagesInHand, Others, queueVars, histories
      <3>1. rowStatus[n] \in {"absent", "done"}
        BY <1>b, <2>1 DEF Behind
      <3> QED
        BY <1>t, <3>1 DEF DoneHasPage, Others
    <2> QED
      BY <1>4, <1>k, <2>1, <2>2 DEF OpenCursor, Working
  <1>5. ASSUME NEW p \in RawPage, SaveParsed(p) PROVE GateInv'
    <2>1. /\ parse'.pc = "save" /\ parse.pc = "save"
          /\ parsed \cup parse.todo \subseteq parsed' \cup parse'.todo
          /\ parse'.ok = parse.ok /\ parse'.gated = parse.gated
      BY <1>5, <1>p DEF SaveParsed, ParseRecord
    <2>2. PagesInHand'
      BY <1>5, <1>t, <2>1 DEF PagesInHand, SaveParsed, Others, queueVars, histories
    <2> QED
      BY <1>5, <1>k, <2>1, <2>2 DEF SaveParsed, Working
  <1>6. CASE EndParse \/ ParseDies
    <2>1. parse'.pc = "off" /\ UNCHANGED queueVars
      BY <1>6 DEF EndParse, ParseDies, Off
    <2> QED
      BY <2>1, <1>d, <1>t DEF GateInv, Counted, PagesInHand, Past, Behind, Working
  <1>7. ASSUME NEW gated \in BOOLEAN, StartParse(gated) PROVE GateInv'
    <2>1. /\ IF gated THEN parse'.pc = "gate" ELSE parse'.pc = "begin"
          /\ parse'.gated = gated /\ parse'.at = 1 /\ UNCHANGED queueVars
      BY <1>7 DEF StartParse, Off
    <2> QED
      BY <2>1, <1>d, <1>t DEF GateInv, Counted, PagesInHand, Past, Behind, Working
  <1>8. CASE UNCHANGED vars
    <2>1. UNCHANGED <<queueVars, parse, parsed, loose, moved>>
      BY <1>8 DEF vars, histories
    <2>2. Counted' /\ PagesInHand'
      BY <2>1, <1>t DEF Counted, PagesInHand, Past, Behind, Others, Done, InStatus, queueVars
    <2> QED
      BY <2>1, <2>2, <1>d, <1>t DEF GateInv
  <1> QED
    BY <1>1, <1>2, <1>3, <1>4, <1>5, <1>6, <1>7, <1>8 DEF Next, Parse

THEOREM GateIsSound == Spec => []GateInv
  BY GateInit, GateStep, PTL DEF Spec

-----------------------------------------------------------------------------
(***************************************************************************)
(* Whatever fetches and harvests do between the counts, in any pipeline    *)
(* mode and after any fault, the gate lets a parse through only when as    *)
(* many rows are done as the site reports and no row is open but those     *)
(* that escaped, appeared or were put back since the second count.         *)
(***************************************************************************)
THEOREM GateNeverOpensEarly == Spec => []GateHolds
  <1>1. GateInv => GateHolds
    <2> SUFFICES ASSUME GateInv, Behind
                 PROVE  /\ Cardinality(Done) >= Reported
                        /\ \A n \in Others : rowStatus[n] \in {"absent", "done"}
      BY DEF GateHolds, Done, Others
    <2>1. Past(1) /\ Past(2) /\ Past(3)
      BY DEF GateInv, Counted, Behind, Past, Working
    <2> QED
      BY <2>1 DEF GateInv, Counted, TypeOK, QueueTypeOK, Status, Others
  <1> QED
    BY <1>1, GateIsSound, PTL

(***************************************************************************)
(* When such a parse ends, the page that each row names, but for the same  *)
(* exceptions, has been parsed.                                            *)
(***************************************************************************)
THEOREM ParseMissesNothing == Spec => ParseCovers
  <1>1. GateInv /\ [Next]_vars
          => [EndParse /\ parse.gated =>
                \A n \in Node \ (moved \cup loose) :
                  rowStatus[n] = "absent" \/ rawPageId[n] \in parsed]_vars
    BY DEF GateInv, PagesInHand, EndParse, Others
  <1> QED
    BY <1>1, GateIsSound, PTL DEF Spec, ParseCovers
=============================================================================
