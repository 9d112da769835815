------------------------ MODULE EvidenceBuild_proofs ------------------------
(***************************************************************************)
(* Theorems about EvidenceBuild for any subjects, urls and texts, any      *)
(* answer of the searches and fetches, and any number of faults.           *)
(***************************************************************************)
EXTENDS EvidenceBuild, FiniteSetTheorems, TLAPS

(***************************************************************************)
(* What the task of a hit knows.  It gets a text only from a fetch, which  *)
(* a research run does not make; past save the text is in the archive; and *)
(* once it has looked, the row is not there but for another build's doing. *)
(***************************************************************************)
Holding == {"save", "extract", "insert"}

Clear(s, u) == Stored(s, u) => <<s, u>> \in rivals

Sound(s, u) ==
  /\ mode # "build" => task[s][u] \notin {"fetch", "save", "extract"} /\ doc[s][u] = NoText
  /\ subj[s] \in {"wait", "search"} => task[s][u] = "over" /\ doc[s][u] = NoText
  /\ task[s][u] \in {"wait", "exists", "fetch"} => doc[s][u] = NoText
  /\ mode = "build" /\ task[s][u] \in Holding => doc[s][u] # NoText
  /\ doc[s][u] # NoText => doc[s][u] \in seen
  /\ task[s][u] \in {"extract", "insert"} /\ doc[s][u] # NoText => <<u, doc[s][u]>> \in archive
  /\ task[s][u] \in {"fetch", "save", "extract", "insert"} => Clear(s, u)

\* Two tasks do not hold the same text.
OwnTexts ==
  \A s, q \in Subject, u, v \in Url :
    doc[s][u] = doc[q][v] /\ doc[s][u] # NoText => s = q /\ u = v

\* What was paid for is still in the hands of the task that paid.
PaidHeld == \A a \in paid : a[3] = doc[a[1]][a[2]]

\* A hit whose task is over in a subject that has its hits stays so.
Past(s, u) == task[s][u] = "over" /\ subj[s] \notin {"wait", "search"}

\* The hits counted as stored: this build added their rows, or another did.
Counted(C) ==
  /\ C \subseteq Subject \X Url
  /\ added \subseteq C /\ C \subseteq added \cup rivals
  /\ IsFiniteSet(C) /\ stored = Cardinality(C)
  /\ \A c \in C : Past(c[1], c[2])

CountIsSound == IsFiniteSet(rivals) /\ \E C : Counted(C)

EvidenceInv ==
  /\ TypeOK
  /\ \A s \in Subject, u \in Url : Sound(s, u)
  /\ OwnTexts
  /\ PaidHeld
  /\ EvidenceArchived
  /\ CountIsSound

-----------------------------------------------------------------------------
\* What is past stays past, so the count stays right.
LEMMA CountStays ==
  ASSUME EvidenceInv, UNCHANGED <<stored, added, rivals>>,
         \A s \in Subject, u \in Url : Past(s, u) => Past(s, u)'
  PROVE  CountIsSound'
  <1>1. PICK C : Counted(C)
    BY DEF EvidenceInv, CountIsSound
  <1>2. \A c \in C : c[1] \in Subject /\ c[2] \in Url
    BY <1>1 DEF Counted
  <1>3. \A c \in C : Past(c[1], c[2])'
    BY <1>1, <1>2 DEF Counted
  <1>4. Counted(C)'
    BY <1>1, <1>3 DEF Counted
  <1> QED
    BY <1>4 DEF EvidenceInv, CountIsSound

-----------------------------------------------------------------------------
\* Nothing is under way in a process that has just started.
LEMMA FreshIsSound ==
  ASSUME EvidenceInv, NEW m \in {"off", "build", "research"}, NEW P \in SUBSET Subject,
         Fresh(m, P), UNCHANGED tables, faults' \in 0..MaxFaults
  PROVE  EvidenceInv'
  <1> USE EvidenceAssumption DEF EvidenceInv, Fresh, tables
  <1>1. TypeOK'
    BY DEF TypeOK, Working
  <1>2. ASSUME NEW s \in Subject, NEW u \in Url PROVE Sound(s, u)'
    BY DEF Sound, Holding
  <1>3. OwnTexts' /\ PaidHeld'
    BY DEF OwnTexts, PaidHeld
  <1>4. EvidenceArchived'
    BY DEF EvidenceArchived
  <1>5. CountIsSound'
    <2>1. Counted({})'
      BY FS_EmptySet DEF Counted
    <2> QED
      BY <2>1, FS_EmptySet DEF CountIsSound
  <1> QED
    BY <1>1, <1>2, <1>3, <1>4, <1>5

LEMMA EvidenceInit == Init => EvidenceInv
  <1> SUFFICES ASSUME Init PROVE EvidenceInv
    OBVIOUS
  <1> USE EvidenceAssumption DEF Init
  <1>1. TypeOK
    BY DEF TypeOK, Working
  <1>2. ASSUME NEW s \in Subject, NEW u \in Url PROVE Sound(s, u)
    BY DEF Sound, Holding
  <1>3. OwnTexts /\ PaidHeld /\ EvidenceArchived
    BY DEF OwnTexts, PaidHeld, EvidenceArchived
  <1>4. CountIsSound
    <2>1. Counted({})
      BY FS_EmptySet DEF Counted
    <2> QED
      BY <2>1, FS_EmptySet DEF CountIsSound
  <1> QED
    BY <1>2, <1>1, <1>3, <1>4 DEF EvidenceInv

-----------------------------------------------------------------------------
LEMMA GotoMoves ==
  ASSUME TypeOK, NEW s \in Subject, NEW u \in Url,
         NEW pc \in {"wait", "over"} \cup Working, Goto(s, u, pc)
  PROVE  /\ task' \in [Subject -> [Url -> {"wait", "over"} \cup Working]]
         /\ task'[s][u] = pc
         /\ \A q \in Subject, v \in Url : q # s \/ v # u => task'[q][v] = task[q][v]
  <1> DEFINE PC == {"wait", "over"} \cup Working
  <1>1. task \in [Subject -> [Url -> PC]] /\ pc \in PC
    BY DEF TypeOK
  <1> HIDE DEF PC
  <1>2. task' = [task EXCEPT ![s] = [task[s] EXCEPT ![u] = pc]]
    BY DEF Goto
  <1>3. [task[s] EXCEPT ![u] = pc] \in [Url -> PC]
    BY <1>1
  <1>4. task' \in [Subject -> [Url -> PC]]
    BY <1>1, <1>2, <1>3
  <1>5. task'[s][u] = pc /\ \A q \in Subject, v \in Url : q # s \/ v # u => task'[q][v] = task[q][v]
    BY <1>1, <1>2
  <1> QED
    BY <1>4, <1>5 DEF PC

\* A step that only sends one hit elsewhere, where it may be.
LEMMA OneHitMoves ==
  ASSUME EvidenceInv, NEW s \in Subject, NEW u \in Url,
         NEW pc \in {"wait", "over"} \cup Working, Goto(s, u, pc),
         task[s][u] # "over",
         pc \in {"fetch", "extract"} => mode = "build",
         pc = "save" => FALSE,
         pc \in {"exists", "fetch"} => doc[s][u] = NoText,
         pc = "wait" => FALSE,
         mode = "build" /\ pc \in {"extract", "insert"} =>
           doc[s][u] # NoText /\ <<u, doc[s][u]>> \in archive,
         pc \in {"fetch", "extract", "insert"} => Clear(s, u),
         UNCHANGED <<tables, mode, subj, doc, seen, stored, added, rivals, paid>>,
         faults' \in 0..MaxFaults
  PROVE  EvidenceInv'
  <1> USE DEF EvidenceInv, tables
  <1>1. /\ task' \in [Subject -> [Url -> {"wait", "over"} \cup Working]]
        /\ task'[s][u] = pc
        /\ \A q \in Subject, v \in Url : q # s \/ v # u => task'[q][v] = task[q][v]
    BY GotoMoves
  <1>2. TypeOK'
    BY <1>1 DEF TypeOK
  <1>3. ASSUME NEW q \in Subject, NEW v \in Url PROVE Sound(q, v)'
    <2>1. Sound(q, v) /\ Sound(s, u)
      OBVIOUS
    <2>2. CASE q = s /\ v = u
      BY <1>1, <2>1, <2>2 DEF Sound, Holding, Clear, Stored, Working
    <2>3. CASE q # s \/ v # u
      BY <1>1, <2>1, <2>3 DEF Sound, Clear, Stored
    <2> QED
      BY <2>2, <2>3
  <1>4. OwnTexts' /\ PaidHeld' /\ EvidenceArchived'
    BY DEF OwnTexts, PaidHeld, EvidenceArchived
  <1>5. CountIsSound'
    BY <1>1, CountStays DEF Past
  <1> QED
    BY <1>2, <1>3, <1>4, <1>5

\* A step that only moves a subject, or calls off what waited for it.
LEMMA SubjectMoves ==
  ASSUME EvidenceInv, NEW s \in Subject,
         NEW st \in {"wait", "search", "urls", "over"}, subj' = [subj EXCEPT ![s] = st],
         st \in {"wait", "search"} => subj[s] \in {"wait", "search"},
         UNCHANGED <<tables, mode, task, doc, seen, stored, added, rivals, paid, faults>>
  PROVE  EvidenceInv'
  <1> USE DEF EvidenceInv, tables
  <1>1. subj' \in [Subject -> {"wait", "search", "urls", "over"}]
    BY DEF TypeOK
  <1>2. TypeOK'
    BY <1>1 DEF TypeOK
  <1>3. ASSUME NEW q \in Subject, NEW v \in Url PROVE Sound(q, v)'
    BY DEF TypeOK, Sound, Clear, Stored
  <1>4. OwnTexts' /\ PaidHeld' /\ EvidenceArchived'
    BY DEF OwnTexts, PaidHeld, EvidenceArchived
  <1>5. CountIsSound'
    BY CountStays DEF Past, TypeOK
  <1> QED
    BY <1>2, <1>3, <1>4, <1>5

-----------------------------------------------------------------------------
LEMMA FetchStep ==
  ASSUME EvidenceInv, NEW s \in Subject, NEW u \in Url, Fetch(s, u)
  PROVE  EvidenceInv'
  <1> USE DEF EvidenceInv, tables
  <1>0. Sound(s, u) /\ mode = "build" /\ task[s][u] = "fetch" /\ doc[s][u] = NoText
    BY DEF Fetch, Sound, TypeOK
  <1>1. CASE Goto(s, u, "over") /\ UNCHANGED <<doc, seen>>
    BY <1>0, <1>1, OneHitMoves DEF Fetch, TypeOK
  <1>2. ASSUME NEW t \in Bodies[u] \ seen, seen' = seen \cup {t},
               <<s, u>> \notin Mentions, Goto(s, u, "over"), UNCHANGED doc
        PROVE  EvidenceInv'
    <2>1. /\ task' \in [Subject -> [Url -> {"wait", "over"} \cup Working]]
          /\ task'[s][u] = "over"
          /\ \A q \in Subject, v \in Url : q # s \/ v # u => task'[q][v] = task[q][v]
      BY <1>2, GotoMoves
    <2>2. TypeOK'
      BY <1>2, <2>1, EvidenceAssumption DEF TypeOK, Fetch, EvidenceAssumption
    <2>3. ASSUME NEW q \in Subject, NEW v \in Url PROVE Sound(q, v)'
      <3>1. Sound(q, v)
        OBVIOUS
      <3>2. CASE q = s /\ v = u
        BY <1>0, <1>2, <2>1, <3>2 DEF Fetch, Sound, Holding
      <3>3. CASE q # s \/ v # u
        BY <1>2, <2>1, <3>1, <3>3 DEF Fetch, Sound, Clear, Stored
      <3> QED
        BY <3>2, <3>3
    <2>4. OwnTexts' /\ PaidHeld' /\ EvidenceArchived'
      BY <1>2 DEF Fetch, OwnTexts, PaidHeld, EvidenceArchived
    <2>5. CountIsSound'
      BY <1>0, <2>1, CountStays DEF Fetch, Past
    <2> QED
      BY <2>2, <2>3, <2>4, <2>5
  <1>3. ASSUME NEW t \in Bodies[u] \ seen, seen' = seen \cup {t},
               Goto(s, u, "save"), doc' = [doc EXCEPT ![s][u] = t]
        PROVE  EvidenceInv'
    <2>0. t \in Text /\ t # NoText
      BY EvidenceAssumption DEF EvidenceAssumption
    <2>1. /\ task' \in [Subject -> [Url -> {"wait", "over"} \cup Working]]
          /\ task'[s][u] = "save"
          /\ \A q \in Subject, v \in Url : q # s \/ v # u => task'[q][v] = task[q][v]
      BY <1>3, GotoMoves DEF Working
    <2>2. /\ doc' \in [Subject -> [Url -> Text \cup {NoText}]]
          /\ doc'[s][u] = t
          /\ \A q \in Subject, v \in Url : q # s \/ v # u => doc'[q][v] = doc[q][v]
      <3> DEFINE D == Text \cup {NoText}
      <3>1. doc \in [Subject -> [Url -> D]] /\ t \in D
        BY <2>0 DEF TypeOK
      <3> HIDE DEF D
      <3>2. doc' = [doc EXCEPT ![s] = [doc[s] EXCEPT ![u] = t]]
        BY <1>3
      <3>3. [doc[s] EXCEPT ![u] = t] \in [Url -> D]
        BY <3>1
      <3>4. doc' \in [Subject -> [Url -> D]]
        BY <3>1, <3>2, <3>3
      <3>5. doc'[s][u] = t /\ \A q \in Subject, v \in Url : q # s \/ v # u => doc'[q][v] = doc[q][v]
        BY <3>1, <3>2
      <3> QED
        BY <3>4, <3>5 DEF D
    <2>3. TypeOK'
      BY <1>3, <2>0, <2>1, <2>2 DEF TypeOK, Fetch
    <2>4. ASSUME NEW q \in Subject, NEW v \in Url PROVE Sound(q, v)'
      <3>1. Sound(q, v)
        OBVIOUS
      <3>2. CASE q = s /\ v = u
        BY <1>0, <1>3, <2>0, <2>1, <2>2, <3>2 DEF Fetch, Sound, Holding, Clear, Stored
      <3>3. CASE q # s \/ v # u
        BY <1>3, <2>1, <2>2, <3>1, <3>3 DEF Fetch, Sound, Clear, Stored
      <3> QED
        BY <3>2, <3>3
    <2>5. \A q \in Subject, v \in Url : doc[q][v] # t
      BY <2>0 DEF Sound
    <2>6. OwnTexts'
      <3> SUFFICES ASSUME NEW q \in Subject, NEW r \in Subject, NEW v \in Url, NEW w \in Url,
                          doc'[q][v] = doc'[r][w], doc'[q][v] # NoText
                   PROVE  q = r /\ v = w
        BY DEF OwnTexts
      <3> QED
        BY <2>2, <2>5 DEF OwnTexts
    <2>7. PaidHeld'
      <3> SUFFICES ASSUME NEW a \in paid PROVE a[3] = doc'[a[1]][a[2]]
        BY DEF PaidHeld, Fetch
      <3>1. a[1] \in Subject /\ a[2] \in Url /\ a[3] \in Text /\ a[3] = doc[a[1]][a[2]]
        BY DEF TypeOK, PaidHeld
      <3>2. a[1] # s \/ a[2] # u
        BY <1>0, <3>1, EvidenceAssumption DEF EvidenceAssumption
      <3> QED
        BY <2>2, <3>1, <3>2
    <2>8. EvidenceArchived'
      BY DEF Fetch, EvidenceArchived
    <2>9. CountIsSound'
      BY <1>0, <2>1, CountStays DEF Fetch, Past
    <2> QED
      BY <2>3, <2>4, <2>6, <2>7, <2>8, <2>9
  <1> QED
    BY <1>1, <1>2, <1>3 DEF Fetch

LEMMA SaveStep ==
  ASSUME EvidenceInv, NEW s \in Subject, NEW u \in Url, SaveRawPage(s, u)
  PROVE  EvidenceInv'
  <1> USE DEF EvidenceInv
  <1>0. Sound(s, u) /\ mode = "build" /\ task[s][u] = "save" /\ doc[s][u] \in Text
    BY DEF SaveRawPage, Sound, TypeOK, Holding
  <1>1. /\ task' \in [Subject -> [Url -> {"wait", "over"} \cup Working]]
        /\ task'[s][u] = "extract"
        /\ \A q \in Subject, v \in Url : q # s \/ v # u => task'[q][v] = task[q][v]
    BY GotoMoves DEF Working, SaveRawPage
  <1>2. TypeOK'
    BY <1>0, <1>1 DEF SaveRawPage, TypeOK
  <1>3. ASSUME NEW q \in Subject, NEW v \in Url PROVE Sound(q, v)'
    <2>1. Sound(q, v)
      OBVIOUS
    <2>2. CASE q = s /\ v = u
      BY <1>0, <1>1, <2>2 DEF SaveRawPage, Sound, Holding, Clear, Stored
    <2>3. CASE q # s \/ v # u
      BY <1>1, <2>1, <2>3 DEF SaveRawPage, Sound, Clear, Stored
    <2> QED
      BY <2>2, <2>3
  <1>4. OwnTexts' /\ PaidHeld'
    BY DEF SaveRawPage, OwnTexts, PaidHeld
  <1>5. EvidenceArchived'
    BY DEF SaveRawPage, EvidenceArchived
  <1>6. CountIsSound'
    BY <1>0, <1>1, CountStays DEF SaveRawPage, Past
  <1> QED
    BY <1>2, <1>3, <1>4, <1>5, <1>6

\* The hit is counted: it was not before, its task was not over.
LEMMA CountGrows ==
  ASSUME EvidenceInv, NEW s \in Subject, NEW u \in Url, Store(s, u)
  PROVE  CountIsSound'
  <1>1. PICK C : Counted(C)
    BY DEF EvidenceInv, CountIsSound
  <1>2. /\ task'[s][u] = "over" /\ subj' = subj
        /\ \A q \in Subject, v \in Url : q # s \/ v # u => task'[q][v] = task[q][v]
    BY GotoMoves DEF Store, EvidenceInv
  <1>3. <<s, u>> \notin C
    BY <1>1 DEF Counted, Past, Store
  <1>4. subj[s] \notin {"wait", "search"}
    BY DEF EvidenceInv, Sound, Store
  <1> DEFINE D == C \cup {<<s, u>>}
  <1>5. IsFiniteSet(D) /\ Cardinality(D) = Cardinality(C) + 1
    BY <1>1, <1>3, FS_AddElement DEF Counted
  <1>6. /\ D \subseteq Subject \X Url /\ added' \subseteq D /\ D \subseteq added' \cup rivals'
        /\ stored' = stored + 1 /\ rivals' = rivals
    <2>1. C \subseteq Subject \X Url /\ added \subseteq C /\ C \subseteq added \cup rivals
      BY <1>1 DEF Counted
    <2>2. stored' = stored + 1 /\ rivals' = rivals
      BY DEF Store
    <2>3. CASE Stored(s, u)
      <3>1. <<s, u>> \in rivals /\ added' = added
        BY <2>3 DEF EvidenceInv, Sound, Clear, Store
      <3> QED
        BY <2>1, <2>2, <3>1
    <2>4. CASE ~Stored(s, u)
      <3>1. added' = added \cup {<<s, u>>}
        BY <2>4 DEF Store
      <3> QED
        BY <2>1, <2>2, <3>1
    <2> QED
      BY <2>3, <2>4
  <1>7. ASSUME NEW c \in D PROVE Past(c[1], c[2])'
    <2>1. CASE c = <<s, u>>
      BY <1>2, <1>4, <2>1 DEF Past
    <2>2. CASE c \in C /\ c # <<s, u>>
      <3>1. c \in Subject \X Url /\ Past(c[1], c[2])
        BY <1>1, <2>2 DEF Counted
      <3>2. c[1] \in Subject /\ c[2] \in Url /\ (c[1] # s \/ c[2] # u)
        BY <2>2, <3>1
      <3> QED
        BY <1>2, <3>1, <3>2 DEF Past
    <2> QED
      BY <2>1, <2>2
  <1>8. stored = Cardinality(C)
    BY <1>1 DEF Counted
  <1> HIDE DEF D
  <1>9. Counted(D)'
    BY <1>5, <1>6, <1>7, <1>8 DEF Counted
  <1> QED
    BY <1>6, <1>9 DEF CountIsSound, EvidenceInv

LEMMA StoreStep ==
  ASSUME EvidenceInv, NEW s \in Subject, NEW u \in Url, Store(s, u)
  PROVE  EvidenceInv'
  <1> USE DEF EvidenceInv
  <1> DEFINE row == [subject |-> s, url |-> u, page |-> doc[s][u]]
  <1>0. Sound(s, u) /\ task[s][u] = "insert" /\ doc[s][u] \in Text \cup {NoText}
    BY DEF Store, Sound, TypeOK
  <1>1. /\ stored' = stored + 1
        /\ IF Stored(s, u) THEN evidence' = evidence ELSE evidence' = evidence \cup {row}
    BY <1>0 DEF Store
  <1>r. /\ row \in [subject : Subject, url : Url, page : Text \cup {NoText}]
        /\ row.subject = s /\ row.url = u /\ row.page = doc[s][u]
    BY <1>0
  <1> HIDE DEF row
  <1>2. /\ task' \in [Subject -> [Url -> {"wait", "over"} \cup Working]]
        /\ task'[s][u] = "over"
        /\ \A q \in Subject, v \in Url : q # s \/ v # u => task'[q][v] = task[q][v]
    BY GotoMoves DEF Store
  <1>3. TypeOK'
    <2>1. \A e, f \in evidence' : e.subject = f.subject /\ e.url = f.url => e = f
      BY <1>0, <1>1, <1>r DEF TypeOK, Stored
    <2>2. evidence' \in SUBSET [subject : Subject, url : Url, page : Text \cup {NoText}]
      BY <1>1, <1>r DEF TypeOK
    <2>3. added' \in SUBSET (Subject \X Url)
      BY DEF TypeOK, Store
    <2> QED
      BY <1>1, <1>2, <2>1, <2>2, <2>3 DEF TypeOK, Store
  <1>4. ASSUME NEW q \in Subject, NEW v \in Url PROVE Sound(q, v)'
    <2>1. Sound(q, v)
      OBVIOUS
    <2>2. CASE q = s /\ v = u
      BY <1>0, <1>2, <2>2 DEF Store, Sound, Holding
    <2>3. CASE q # s \/ v # u
      <3>1. Stored(q, v)' => Stored(q, v)
        BY <1>1, <1>r, <2>3 DEF Stored
      <3> QED
        BY <1>2, <2>1, <2>3, <3>1 DEF Store, Sound, Clear
    <2> QED
      BY <2>2, <2>3
  <1>5. OwnTexts' /\ PaidHeld'
    BY DEF Store, OwnTexts, PaidHeld
  <1>6. EvidenceArchived'
    BY <1>0, <1>1, <1>r DEF Store, EvidenceArchived, Sound
  <1>7. CountIsSound'
    BY CountGrows
  <1> QED
    BY <1>3, <1>4, <1>5, <1>6, <1>7

LEMMA RaiseStep ==
  ASSUME EvidenceInv, NEW s \in Subject, NEW u \in Url,
         StatementRaises(s, u) \/ ItemRaises(s, u)
  PROVE  EvidenceInv'
  <1>0. faults' \in 0..MaxFaults
    BY EvidenceAssumption DEF StatementRaises, ItemRaises, EvidenceInv, TypeOK, EvidenceAssumption
  <1>1. CASE StatementRaises(s, u)
    BY <1>0, <1>1, OneHitMoves DEF StatementRaises
  <1>2. CASE ItemRaises(s, u)
    <2> USE <1>2 DEF EvidenceInv
    <2>1. /\ task' \in [Subject -> [Url -> {"wait", "over"} \cup Working]]
          /\ \A q \in Subject, v \in Url : task'[q][v] = IF q = s THEN "over" ELSE task[q][v]
      BY DEF ItemRaises, TypeOK
    <2>2. TypeOK'
      BY <1>0, <2>1 DEF ItemRaises, TypeOK, tables
    <2>3. ASSUME NEW q \in Subject, NEW v \in Url PROVE Sound(q, v)'
      <3>1. Sound(q, v) /\ task'[q][v] = IF q = s THEN "over" ELSE task[q][v]
        BY <2>1
      <3> QED
        BY <3>1 DEF ItemRaises, Sound, Holding, Clear, Stored, tables
    <2>4. OwnTexts' /\ PaidHeld' /\ EvidenceArchived'
      BY DEF ItemRaises, OwnTexts, PaidHeld, EvidenceArchived, tables
    <2>5. CountIsSound'
      BY <2>1, CountStays DEF ItemRaises, Past, tables
    <2> QED
      BY <2>2, <2>3, <2>4, <2>5
  <1> QED
    BY <1>1, <1>2

\* A row of another build: the hits it collides with know.
LEMMA OtherStep ==
  ASSUME EvidenceInv, NEW s \in Subject, NEW u \in Url, OtherStores(s, u)
  PROVE  EvidenceInv'
  <1> USE DEF EvidenceInv
  <1>1. PICK t \in Bodies[u] :
          /\ archive' = archive \cup {<<u, t>>}
          /\ evidence' = evidence \cup {[subject |-> s, url |-> u, page |-> t]}
    BY DEF OtherStores
  <1> DEFINE row == [subject |-> s, url |-> u, page |-> t]
  <1>2. /\ row \in [subject : Subject, url : Url, page : Text \cup {NoText}] /\ t \in Text
        /\ row.subject = s /\ row.url = u /\ row.page = t /\ evidence' = evidence \cup {row}
    BY <1>1, EvidenceAssumption DEF EvidenceAssumption
  <1> HIDE DEF row
  <1>3. TypeOK'
    <2>1. \A e, f \in evidence' : e.subject = f.subject /\ e.url = f.url => e = f
      BY <1>2 DEF TypeOK, Stored, OtherStores
    <2>2. evidence' \in SUBSET [subject : Subject, url : Url, page : Text \cup {NoText}]
      BY <1>2 DEF TypeOK
    <2>3. archive' \in SUBSET (Url \X Text) /\ rivals' \in SUBSET (Subject \X Url)
      BY <1>1, <1>2 DEF TypeOK, OtherStores
    <2>4. faults' \in 0..MaxFaults
      BY EvidenceAssumption DEF TypeOK, OtherStores, EvidenceAssumption
    <2> QED
      BY <2>1, <2>2, <2>3, <2>4 DEF TypeOK, OtherStores
  <1>4. ASSUME NEW q \in Subject, NEW v \in Url PROVE Sound(q, v)'
    <2>1. Sound(q, v)
      OBVIOUS
    <2>2. Clear(q, v) => Clear(q, v)'
      BY <1>2 DEF Clear, Stored, OtherStores
    <2> QED
      BY <1>1, <2>1, <2>2 DEF Sound, OtherStores
  <1>5. OwnTexts' /\ PaidHeld'
    BY DEF OtherStores, OwnTexts, PaidHeld
  <1>6. EvidenceArchived'
    BY <1>1, <1>2 DEF EvidenceArchived
  <1>7. CountIsSound'
    <2>1. PICK C : Counted(C)
      BY DEF CountIsSound
    <2>2. UNCHANGED <<task, subj, added, stored>> /\ rivals' = rivals \cup {<<s, u>>}
      BY DEF OtherStores
    <2>3. Counted(C)'
      BY <2>1, <2>2 DEF Counted, Past
    <2>4. IsFiniteSet(rivals')
      BY <2>2, FS_AddElement DEF CountIsSound
    <2> QED
      BY <2>3, <2>4 DEF CountIsSound
  <1> QED
    BY <1>3, <1>4, <1>5, <1>6, <1>7

-----------------------------------------------------------------------------
LEMMA EvidenceStep == EvidenceInv /\ [Next]_vars => EvidenceInv'
  <1> SUFFICES ASSUME EvidenceInv, [Next]_vars PROVE EvidenceInv'
    OBVIOUS
  <1>t. TypeOK /\ faults \in 0..MaxFaults /\ \A s \in Subject, u \in Url : Sound(s, u)
    BY DEF EvidenceInv, TypeOK
  <1>1. ASSUME NEW skipDone \in BOOLEAN, Build(skipDone) \/ ResearchBuild(skipDone)
        PROVE  EvidenceInv'
    <2>1. Pending(skipDone) \in SUBSET Subject
      BY DEF Pending
    <2> QED
      BY <1>1, <1>t, <2>1, FreshIsSound DEF Build, ResearchBuild
  <1>2. ASSUME NEW s \in Subject, Search(s) PROVE EvidenceInv'
    BY <1>2, SubjectMoves DEF Search
  <1>3. ASSUME NEW s \in Subject, Found(s), subj[s] = "search" PROVE EvidenceInv'
    <2> USE DEF EvidenceInv
    <2>1. PICK H \in SUBSET Hits[s] :
            task' = [task EXCEPT ![s] = [u \in Url |-> IF u \in H THEN "wait" ELSE "over"]]
      BY <1>3 DEF Found
    <2>2. /\ task' \in [Subject -> [Url -> {"wait", "over"} \cup Working]]
          /\ \A q \in Subject, v \in Url :
               IF q = s THEN task'[q][v] \in {"wait", "over"} ELSE task'[q][v] = task[q][v]
      BY <2>1 DEF TypeOK
    <2>3. subj' = [subj EXCEPT ![s] = "urls"] /\ subj[s] = "search"
      BY <1>3 DEF Found
    <2>4. TypeOK'
      BY <1>3, <2>2, <2>3 DEF TypeOK, Found, tables
    <2>5. ASSUME NEW q \in Subject, NEW v \in Url PROVE Sound(q, v)'
      <3>1. Sound(q, v)
        OBVIOUS
      <3>2. CASE q = s
        <4>1. doc[q][v] = NoText /\ subj'[q] = "urls" /\ task'[q][v] \in {"wait", "over"}
          BY <2>2, <2>3, <3>1, <3>2 DEF Sound, TypeOK
        <4> QED
          BY <1>3, <3>1, <4>1 DEF Found, Sound, Holding
      <3>3. CASE q # s
        <4>1. task'[q][v] = task[q][v] /\ subj'[q] = subj[q]
          BY <2>2, <2>3, <3>3 DEF TypeOK
        <4> QED
          BY <1>3, <3>1, <4>1 DEF Found, Sound, Clear, Stored, tables
      <3> QED
        BY <3>2, <3>3
    <2>6. OwnTexts' /\ PaidHeld' /\ EvidenceArchived'
      BY <1>3 DEF Found, OwnTexts, PaidHeld, EvidenceArchived, tables
    <2>7. CountIsSound'
      <3>1. \A q \in Subject, v \in Url : Past(q, v) => Past(q, v)'
        BY <2>2, <2>3 DEF Past, TypeOK
      <3> QED
        BY <1>3, <3>1, CountStays DEF Found
    <2> QED
      BY <2>4, <2>5, <2>6, <2>7
  <1>15. ASSUME NEW s \in Subject, Discovered(s) \/ Researched(s) PROVE EvidenceInv'
    BY <1>3, <1>15 DEF Discovered, Researched
  <1>16. ASSUME NEW s \in Subject, ResearchFails(s) PROVE EvidenceInv'
    BY <1>16, SubjectMoves DEF ResearchFails
  <1>4. ASSUME NEW s \in Subject, SubjectDone(s) PROVE EvidenceInv'
    BY <1>4, SubjectMoves DEF SubjectDone
  <1>5. ASSUME NEW s \in Subject, NEW u \in Url, Handle(s, u) \/ NextItem(s, u) PROVE EvidenceInv'
    <2>1. PICK pc \in {"over", "exists"} : Goto(s, u, pc)
      BY <1>5 DEF Handle, NextItem
    <2>2. task[s][u] = "wait" /\ doc[s][u] = NoText
      BY <1>5, <1>t DEF Handle, NextItem, Sound
    <2> QED
      BY <1>5, <1>t, <2>1, <2>2, OneHitMoves DEF Handle, NextItem, Working
  <1>6. ASSUME NEW s \in Subject, NEW u \in Url, Exists(s, u) \/ ItemExists(s, u) PROVE EvidenceInv'
    <2>1. task[s][u] = "exists" /\ doc[s][u] = NoText
      BY <1>6, <1>t DEF Exists, ItemExists, Sound
    <2>c. ~Stored(s, u) => Clear(s, u)
      BY DEF Clear
    <2>2. CASE Stored(s, u)
      BY <1>6, <1>t, <2>1, <2>2, OneHitMoves DEF Exists, ItemExists
    <2>3. CASE ~Stored(s, u) /\ Exists(s, u)
      BY <1>t, <2>1, <2>c, <2>3, OneHitMoves DEF Exists, Working
    <2>4. CASE ~Stored(s, u) /\ ItemExists(s, u)
      BY <1>t, <2>1, <2>c, <2>4, OneHitMoves DEF ItemExists, Working
    <2> QED
      BY <1>6, <2>2, <2>3, <2>4
  <1>7. ASSUME NEW s \in Subject, NEW u \in Url, Fetch(s, u) PROVE EvidenceInv'
    BY <1>7, FetchStep
  <1>8. ASSUME NEW s \in Subject, NEW u \in Url, SaveRawPage(s, u) PROVE EvidenceInv'
    BY <1>8, SaveStep
  <1>9. ASSUME NEW s \in Subject, NEW u \in Url, Extract(s, u) PROVE EvidenceInv'
    <2>1. PICK pc \in {"insert", "over"} : Goto(s, u, pc)
      BY <1>9 DEF Extract
    <2>2. /\ mode = "build" /\ task[s][u] = "extract" /\ Clear(s, u)
          /\ doc[s][u] # NoText /\ <<u, doc[s][u]>> \in archive
      BY <1>9, <1>t DEF Extract, Sound, Holding
    <2> QED
      BY <1>9, <1>t, <2>1, <2>2, OneHitMoves DEF Extract, Working
  <1>10. ASSUME NEW s \in Subject, NEW u \in Url, Insert(s, u) \/ InsertItem(s, u) PROVE EvidenceInv'
    BY <1>10, StoreStep DEF Insert, InsertItem
  <1>11. ASSUME NEW s \in Subject, NEW u \in Url, StatementRaises(s, u) \/ ItemRaises(s, u)
         PROVE EvidenceInv'
    BY <1>11, RaiseStep
  <1>17. ASSUME NEW s \in Subject, NEW u \in Url, OtherStores(s, u) PROVE EvidenceInv'
    BY <1>17, OtherStep
  <1>12. CASE End
    BY <1>12, <1>t, FreshIsSound DEF End
  <1>13. CASE Crash
    <2>1. faults' \in 0..MaxFaults
      BY <1>13, <1>t, EvidenceAssumption DEF Crash, EvidenceAssumption
    <2> QED
      BY <1>13, <2>1, FreshIsSound DEF Crash
  <1>14. CASE UNCHANGED vars
    <2> USE <1>14 DEF vars, tables, locals
    <2>1. TypeOK' /\ \A s \in Subject, u \in Url : Sound(s, u)'
      BY <1>t DEF TypeOK, Sound, Clear, Stored
    <2>2. OwnTexts' /\ PaidHeld' /\ EvidenceArchived'
      BY DEF EvidenceInv, OwnTexts, PaidHeld, EvidenceArchived
    <2>3. CountIsSound'
      BY CountStays DEF Past
    <2> QED
      BY <2>1, <2>2, <2>3 DEF EvidenceInv
  <1> QED
    BY <1>1, <1>2, <1>4, <1>5, <1>6, <1>7, <1>8, <1>9, <1>10, <1>11, <1>12, <1>13, <1>14, <1>15, <1>16, <1>17
    DEF Next, SubjectStep, HitStep

(***************************************************************************)
(* EvidenceInv holds in every reachable state: tasks own their texts, and  *)
(* what they know of the tables is true.                                   *)
(***************************************************************************)
THEOREM EvidenceIsSound == Spec => []EvidenceInv
  BY EvidenceInit, EvidenceStep, PTL DEF Spec

(***************************************************************************)
(* No text is paid for twice in a run: seen_hashes and what stands before  *)
(* the extractor's call are one step of the event loop.                    *)
(***************************************************************************)
THEOREM EachTextPaidOnce == Spec => []PaidOnce
  <1>1. EvidenceInv => PaidOnce
    <2> SUFFICES ASSUME EvidenceInv, NEW a \in paid, NEW b \in paid, a[3] = b[3]
                 PROVE  a = b
      BY DEF PaidOnce
    <2>0. paid \subseteq Subject \X Url \X Text
      BY DEF EvidenceInv, TypeOK
    <2>1. /\ a \in Subject \X Url \X Text /\ b \in Subject \X Url \X Text
          /\ a[3] = doc[a[1]][a[2]] /\ b[3] = doc[b[1]][b[2]]
      BY <2>0 DEF EvidenceInv, PaidHeld
    <2>2. /\ a[3] # NoText
          /\ a[1] \in Subject /\ b[1] \in Subject /\ a[2] \in Url /\ b[2] \in Url
          /\ doc[a[1]][a[2]] = doc[b[1]][b[2]]
          /\ doc[a[1]][a[2]] # NoText
      BY <2>1, EvidenceAssumption DEF EvidenceAssumption
    <2>o. OwnTexts
      BY DEF EvidenceInv
    <2>3. a[1] = b[1] /\ a[2] = b[2]
      BY <2>o, <2>2 DEF OwnTexts
    <2> QED
      BY <2>1, <2>3
  <1> QED
    BY <1>1, EvidenceIsSound, PTL

(***************************************************************************)
(* The page a row of winner_evidence refers to is in the archive.          *)
(***************************************************************************)
THEOREM EvidenceHasItsPage == Spec => []EvidenceArchived
  <1>1. EvidenceInv => EvidenceArchived
    BY DEF EvidenceInv
  <1> QED
    BY <1>1, EvidenceIsSound, PTL

(***************************************************************************)
(* A build that stores next to another over-counts, by no more than one    *)
(* for each row the other has added since it began; alone, it reports the  *)
(* rows it added.                                                          *)
(***************************************************************************)
THEOREM CountIsNetNew == Spec => []ReportsNetNew
  <1>1. EvidenceInv => ReportsNetNew
    <2> SUFFICES ASSUME EvidenceInv PROVE ReportsNetNew
      OBVIOUS
    <2>1. PICK C : Counted(C)
      BY DEF EvidenceInv, CountIsSound
    <2>2. IsFiniteSet(rivals) /\ IsFiniteSet(C) /\ added \in SUBSET C
      BY <2>1 DEF EvidenceInv, CountIsSound, Counted
    <2>3. IsFiniteSet(added) /\ Cardinality(added) <= Cardinality(C)
      BY <2>2, FS_Subset
    <2>4. /\ IsFiniteSet(added \cup rivals)
          /\ Cardinality(added \cup rivals) =
               Cardinality(added) + Cardinality(rivals) - Cardinality(added \cap rivals)
      BY <2>2, <2>3, FS_Union
    <2>5. Cardinality(C) <= Cardinality(added \cup rivals)
      BY <2>1, <2>4, FS_Subset DEF Counted
    <2>6. /\ IsFiniteSet(added \cap rivals)
          /\ {Cardinality(added), Cardinality(rivals), Cardinality(C),
              Cardinality(added \cap rivals)} \subseteq Nat
      BY <2>2, <2>3, FS_Subset, FS_CardinalityType
    <2>7. stored = Cardinality(C)
      BY <2>1 DEF Counted
    <2> QED
      BY <2>3, <2>4, <2>5, <2>6, <2>7 DEF ReportsNetNew
  <1> QED
    BY <1>1, EvidenceIsSound, PTL
=============================================================================
