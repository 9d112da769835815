------------------------- MODULE MergeReview_proofs -------------------------
(***************************************************************************)
(* Theorems about MergeReview for any names, any number of reviewers and   *)
(* any number of faults.                                                   *)
(***************************************************************************)
EXTENDS MergeReview, FiniteSetTheorems, WellFoundedInduction, TLAPS

(***************************************************************************)
(* Types, as far as the proofs need them.                                  *)
(***************************************************************************)
OneDecisionEach == \A d, e \in decisions : d.loser = e.loser => d = e

Shapes ==
  /\ decisions \in SUBSET Decision /\ OneDecisionEach
  /\ log \in SUBSET (Pair \X Verdict) /\ given \in SUBSET (Pair \X Verdict)
  /\ home = [k \in Key |-> home[k]] /\ alias = [k \in Key |-> alias[k]]
  /\ candidates \subseteq Pair
  /\ rebuild.pc \in {"off", "load", "records", "aliases"}
  /\ rebuild = [pc |-> rebuild.pc, losers |-> rebuild.losers, closure |-> rebuild.closure]
  /\ session \in [Session -> Sitting]

\* The roles in the question a reviewer is asked are those of the pair.
RolesFit(s) ==
  /\ session[s].pc \in {"ask", "log"} => session[s].pair \in Pair
  /\ session[s].pc = "ask" =>
       LET p == session[s].pair IN
       \/ session[s].winner = p[1] /\ session[s].loser = p[2]
       \/ session[s].winner = p[2] /\ session[s].loser = p[1]

\* The records of a rebuild follow the closure it has loaded, and nothing
\* else, and the aliases come last.
RebuildFollows ==
  /\ rebuild.pc = "load" => home = Nowhere
  /\ rebuild.pc = "records" => \A k \in Key : home[k] \in {NoKey, rebuild.closure[k]}
  /\ rebuild.pc = "aliases" => \A k \in Key : home[k] = rebuild.closure[k]
  /\ rebuild.pc # "off" => alias = Nowhere

ReviewInv ==
  /\ Shapes
  /\ \A s \in Session : RolesFit(s)
  /\ RebuildFollows
  /\ MergeLogged
  /\ AliasAgrees

-----------------------------------------------------------------------------
(***************************************************************************)
(* What a reviewer has given a verdict on is not eligible: either the log  *)
(* has the pair, or the decisions have one of its keys.  So with one       *)
(* reviewer the pairs still to come are new.                               *)
(***************************************************************************)
OneReviewer == \A s, q \in Session : s = q

VerdictsRemembered == \A g \in given : ~Eligible(g[1])

Untouched(p) == \A v \in Verdict : <<p, v>> \notin given

QueueUntouched == \A s \in Session : \A p \in session[s].queue : Untouched(p)

\* The pair a reviewer looks at has left the queue.
MovedOn == \A s \in Session : session[s].pair \notin session[s].queue

MemoryInv == VerdictsRemembered /\ MovedOn /\ (OneReviewer => QueueUntouched)

-----------------------------------------------------------------------------
LEMMA PairFacts ==
  ASSUME NEW p \in Pair
  PROVE  /\ p[1] \in Key /\ p[2] \in Key /\ p[1] # p[2]
         /\ p = <<p[1], p[2]>> /\ p # <<>>
<1>1. p \in Key \X Key /\ p[1] < p[2]  BY DEF Pair
<1>2. p[1] \in Key /\ p[2] \in Key /\ p = <<p[1], p[2]>>  BY <1>1
<1>3. p[1] \in Nat /\ p[2] \in Nat  BY <1>2, ReviewAssumption DEF Key
<1>4. p # <<>>  BY <1>2
<1> QED  BY <1>1, <1>2, <1>3, <1>4

\* The pair of a question is dealt with, and nothing else of the sitting moves.
LEMMA TurnMoves ==
  ASSUME session \in [Session -> Sitting], NEW s \in Session, NEW pc \in {"free", "next"},
         Turn(s, pc)
  PROVE  /\ session' \in [Session -> Sitting]
         /\ session'[s].pc = pc /\ session'[s].pair = <<>>
         /\ session'[s].queue = session[s].queue
         /\ \A q \in Session : q # s => session'[q] = session[q]
<1> DEFINE new == [session[s] EXCEPT !.pc = pc, !.pair = <<>>,
                                    !.winner = NoKey, !.loser = NoKey]
<1>1. session' = [session EXCEPT ![s] = new]  BY DEF Turn
<1>2. session[s] \in Sitting  OBVIOUS
<1>3. /\ new \in Sitting /\ new.pc = pc /\ new.pair = <<>>
      /\ new.queue = session[s].queue
  BY <1>2 DEF Sitting
<1> HIDE DEF new
<1> QED  BY <1>1, <1>3

\* No pair, no question: a sitting like that fits by itself.
LEMMA AtLeisure ==
  ASSUME session \in [Session -> Sitting], NEW s \in Session,
         session[s].pc \notin {"ask", "log"}
  PROVE  RolesFit(s)
BY DEF RolesFit

LEMMA OthersFit ==
  ASSUME ReviewInv, NEW s \in Session, session' \in [Session -> Sitting], RolesFit(s)',
         \A q \in Session : q # s => session'[q] = session[q]
  PROVE  \A q \in Session : RolesFit(q)'
<1> TAKE q \in Session
<1>1. CASE q = s  BY <1>1
<1>2. CASE q # s
  <2>1. session'[q] = session[q] /\ RolesFit(q)  BY <1>2 DEF ReviewInv
  <2> QED  BY <2>1 DEF RolesFit
<1> QED  BY <1>1, <1>2

-----------------------------------------------------------------------------
\* What a step of a reviewer leaves alone of the rebuild.
LEMMA RebuildStands ==
  ASSUME ReviewInv, UNCHANGED <<home, alias, rebuild>>
  PROVE  RebuildFollows' /\ AliasAgrees'
<1>1. Organizations' = Organizations  BY DEF Organizations
<1> QED  BY <1>1 DEF ReviewInv, RebuildFollows, AliasAgrees, Nowhere

\* A step of a session that decides nothing.
LEMMA SessionOnly ==
  ASSUME ReviewInv, NEW s \in Session, session' \in [Session -> Sitting], RolesFit(s)',
         \A q \in Session : q # s => session'[q] = session[q],
         UNCHANGED <<tables, rebuild, given>>
  PROVE  ReviewInv'
<1>1. UNCHANGED <<decisions, log, home, alias, candidates, scored, rebuild, given>>  BY DEF tables
<1>2. RebuildFollows' /\ AliasAgrees'  BY <1>1, RebuildStands
<1>3. Shapes'  BY <1>1 DEF ReviewInv, Shapes, OneDecisionEach
<1>4. MergeLogged'  BY <1>1 DEF ReviewInv, MergeLogged, Merges
<1>5. \A q \in Session : RolesFit(q)'  BY OthersFit
<1> QED  BY <1>2, <1>3, <1>4, <1>5 DEF ReviewInv

LEMMA StartKeeps ==
  ASSUME ReviewInv, NEW s \in Session, NEW lane \in {"main", "acronym"}, StartReview(s, lane)
  PROVE  ReviewInv'
<1>1. PICK Q \in SUBSET Queue(lane) :
        session' = [session EXCEPT ![s] = [NoSitting EXCEPT !.pc = "next", !.queue = Q]]
  BY DEF StartReview
<1>2. session \in [Session -> Sitting] /\ candidates \subseteq Pair  BY DEF ReviewInv, Shapes
<1>3. Q \subseteq Pair  BY <1>2 DEF Queue
<1> DEFINE new == [NoSitting EXCEPT !.pc = "next", !.queue = Q]
<1>4. new \in Sitting /\ new.pc = "next"  BY <1>3 DEF NoSitting, Sitting
<1>5. session' = [session EXCEPT ![s] = new]  BY <1>1
<1> HIDE DEF new
<1>6. /\ session' \in [Session -> Sitting] /\ session'[s].pc = "next"
      /\ \A q \in Session : q # s => session'[q] = session[q]
  BY <1>2, <1>4, <1>5
<1>7. RolesFit(s)'  BY <1>6 DEF RolesFit
<1>8. UNCHANGED <<tables, rebuild, given>>  BY DEF StartReview
<1> QED  BY <1>6, <1>7, <1>8, SessionOnly

\* The question of Ask: a pair of the queue, in two opposite roles.
LEMMA AskMoves ==
  ASSUME session \in [Session -> Sitting], NEW s \in Session, Ask(s)
  PROVE  /\ session' \in [Session -> Sitting] /\ session'[s].pc = "ask"
         /\ session'[s].pair \in session[s].queue
         /\ session'[s].queue = session[s].queue \ {session'[s].pair}
         /\ RolesFit(s)'
         /\ \A q \in Session : q # s => session'[q] = session[q]
<1>1. PICK p \in session[s].queue :
        session' = [session EXCEPT ![s] =
          [pc |-> "ask", queue |-> session[s].queue \ {p}, pair |-> p,
           winner |-> Winner(p), loser |-> Other(p, Winner(p))]]
  BY DEF Ask
<1>2. session[s] \in Sitting  OBVIOUS
<1>3. session[s].queue \subseteq Pair  BY <1>2 DEF Sitting
<1>4. p \in Pair  BY <1>3
<1>5. p[1] \in Key /\ p[2] \in Key /\ p[1] # p[2]  BY <1>4, PairFacts
<1> DEFINE win == Winner(p)
           lose == Other(p, win)
           new == [pc |-> "ask", queue |-> session[s].queue \ {p}, pair |-> p,
                   winner |-> win, loser |-> lose]
<1>6. win = p[1] \/ win = p[2]  BY DEF Winner
<1>7. \/ win = p[1] /\ lose = p[2]
      \/ win = p[2] /\ lose = p[1]
  <2> HIDE DEF win
  <2> QED  BY <1>5, <1>6 DEF Other
<1>8. session' = [session EXCEPT ![s] = new]  BY <1>1
<1> HIDE DEF win, lose
<1>9. new \in Sitting  BY <1>3, <1>4, <1>5, <1>7 DEF Sitting
<1>10. /\ new.pc = "ask" /\ new.pair = p /\ new.queue = session[s].queue \ {p}
       /\ new.winner = win /\ new.loser = lose
  OBVIOUS
<1> HIDE DEF new
<1>11. session'[s] = new  BY <1>8
<1>12. RolesFit(s)'  BY <1>4, <1>7, <1>10, <1>11 DEF RolesFit
<1> QED  BY <1>8, <1>9, <1>10, <1>11, <1>12

LEMMA AskKeeps ==
  ASSUME ReviewInv, NEW s \in Session, Ask(s)
  PROVE  ReviewInv'
<1>1. session \in [Session -> Sitting]  BY DEF ReviewInv, Shapes
<1>2. UNCHANGED <<tables, rebuild, given>>  BY DEF Ask
<1> QED  BY <1>1, <1>2, AskMoves, SessionOnly

LEMMA SkipKeeps ==
  ASSUME ReviewInv, NEW s \in Session, Skip(s)
  PROVE  ReviewInv'
<1>1. session \in [Session -> Sitting]  BY DEF ReviewInv, Shapes
<1>2. Turn(s, "next") /\ UNCHANGED <<tables, rebuild, given>>  BY DEF Skip
<1>3. /\ session' \in [Session -> Sitting] /\ session'[s].pc = "next"
      /\ \A q \in Session : q # s => session'[q] = session[q]
  BY <1>1, <1>2, TurnMoves
<1>4. RolesFit(s)'  BY <1>3 DEF RolesFit
<1> QED  BY <1>2, <1>3, <1>4, SessionOnly

\* A session that ends, by itself or by a crash.
LEMMA LeavingKeeps ==
  ASSUME ReviewInv, NEW s \in Session, EndReview(s) \/ SessionDies(s)
  PROVE  ReviewInv'
<1>1. session \in [Session -> Sitting]  BY DEF ReviewInv, Shapes
<1>2. /\ session' = [session EXCEPT ![s] = NoSitting]
      /\ UNCHANGED <<tables, rebuild, given>>
  BY DEF EndReview, SessionDies
<1>3. NoSitting \in Sitting /\ NoSitting.pc = "off"  BY DEF NoSitting, Sitting
<1>4. /\ session' \in [Session -> Sitting] /\ session'[s].pc = "off"
      /\ \A q \in Session : q # s => session'[q] = session[q]
  BY <1>1, <1>2, <1>3
<1>5. RolesFit(s)'  BY <1>4 DEF RolesFit
<1> QED  BY <1>2, <1>4, <1>5, SessionOnly

-----------------------------------------------------------------------------
(***************************************************************************)
(* The steps of a verdict.  With v committed for the pair of s, the tables *)
(* grow by at most one decision between its two names and by the entry.    *)
(***************************************************************************)
LEMMA DecidesKeeps ==
  ASSUME Shapes, NEW l \in Key, NEW w \in Key, l # w,
         NEW v \in {"merge", "distinct"}, Decides(l, w, v)
  PROVE  decisions' \in SUBSET Decision /\ OneDecisionEach'
<1> DEFINE d == [loser |-> l, winner |-> w, verdict |-> v]
<1>1. d \in Decision /\ d.loser = l  BY DEF Decision
<1>2. decisions' = decisions \cup {d} /\ \A e \in decisions : e.loser # l
  BY DEF Decides, Settled
<1>3. decisions' \in SUBSET Decision  BY <1>1, <1>2 DEF Shapes
<1>4. OneDecisionEach'
  <2> SUFFICES ASSUME NEW a \in decisions', NEW b \in decisions', a.loser = b.loser
               PROVE  a = b
    BY DEF OneDecisionEach
  <2> HIDE DEF d
  <2>1. CASE a = d \/ b = d  BY <2>1, <1>1, <1>2
  <2>2. CASE a # d /\ b # d  BY <2>2, <1>2 DEF Shapes, OneDecisionEach
  <2> QED  BY <2>1, <2>2
<1> QED  BY <1>3, <1>4

\* The two names a merge may decide between, in either order.
LEMMA MergeRoles ==
  ASSUME NEW s \in Session, RolesFit(s), session[s].pc = "ask", NEW l \in {session[s].loser, session[s].winner}
  PROVE  LET p == session[s].pair IN
         /\ p \in Pair /\ l \in {p[1], p[2]} /\ Other(p, l) \in {p[1], p[2]}
         /\ l # Other(p, l) /\ {l, Other(p, l)} = {p[1], p[2]}
         /\ l \in Key /\ Other(p, l) \in Key
<1> DEFINE p == session[s].pair
<1>1. p \in Pair  BY DEF RolesFit
<1>2. p[1] \in Key /\ p[2] \in Key /\ p[1] # p[2]  BY <1>1, PairFacts
<1>3. l = session[s].loser \/ l = session[s].winner  OBVIOUS
<1>4. l = p[1] \/ l = p[2]  BY <1>3 DEF RolesFit
<1> HIDE DEF p
<1>5. l # Other(p, l) /\ {l, Other(p, l)} = {p[1], p[2]}  BY <1>2, <1>4 DEF Other
<1>6. Other(p, l) \in {p[1], p[2]}  BY <1>5
<1> QED  BY <1>1, <1>2, <1>4, <1>5, <1>6 DEF p

LEMMA MergeKeeps ==
  ASSUME ReviewInv, NEW s \in Session, Merge(s)
  PROVE  ReviewInv'
<1> DEFINE p == session[s].pair
<1>1. session \in [Session -> Sitting] /\ Shapes /\ RolesFit(s) /\ MergeLogged
  BY DEF ReviewInv, Shapes
<1>2. /\ session[s].pc = "ask" /\ Turn(s, "free")
      /\ given' = given \cup {<<p, "merge">>}
      /\ UNCHANGED <<home, alias, candidates, scored, rebuild>>
  BY DEF Merge, Gives
<1>3. PICK l \in {session[s].loser, session[s].winner} :
        \/ Decides(l, Other(p, l), "merge") /\ Logs(s, "merge")
        \/ l \in Settled /\ UNCHANGED <<decisions, log>>
  BY DEF Merge
<1> DEFINE w == Other(p, l)
<1>4. /\ p \in Pair /\ l \in Key /\ w \in Key /\ l # w
      /\ {l, w} = {p[1], p[2]}
  BY <1>1, <1>2, MergeRoles
<1>5. /\ session' \in [Session -> Sitting] /\ session'[s].pc = "free"
      /\ \A q \in Session : q # s => session'[q] = session[q]
  BY <1>1, <1>2, TurnMoves
<1>6. RolesFit(s)'  BY <1>5 DEF RolesFit
<1>7. \A q \in Session : RolesFit(q)'  BY <1>5, <1>6, OthersFit
<1>8. RebuildFollows' /\ AliasAgrees'  BY <1>2, RebuildStands
<1> HIDE DEF p, w
<1>9. given' \in SUBSET (Pair \X Verdict)
  BY <1>1, <1>2, <1>4 DEF Shapes, Verdict
<1>10. /\ decisions' \in SUBSET Decision /\ OneDecisionEach'
       /\ log' \in SUBSET (Pair \X Verdict) /\ MergeLogged'
  <2>1. CASE Decides(l, w, "merge") /\ Logs(s, "merge")
    <3> DEFINE d == [loser |-> l, winner |-> w, verdict |-> "merge"]
    <3>1. log' = log \cup {<<p, "merge">>}  BY <2>1 DEF Logs, p
    <3>2. decisions' = decisions \cup {d}  BY <2>1 DEF Decides
    <3>3. decisions' \in SUBSET Decision /\ OneDecisionEach'
      BY <1>1, <1>4, <2>1, DecidesKeeps
    <3>4. log' \in SUBSET (Pair \X Verdict)  BY <1>1, <1>4, <3>1 DEF Shapes, Verdict
    <3>5. MergeLogged'
      <4> SUFFICES ASSUME NEW e \in decisions', e.verdict = "merge"
                   PROVE  \E q \in Pair : /\ {e.loser, e.winner} = {q[1], q[2]}
                                         /\ <<q, "merge">> \in log'
        BY DEF MergeLogged, Merges
      <4>1. CASE e \in decisions
        BY <1>1, <3>1, <4>1 DEF MergeLogged, Merges
      <4>2. CASE e = d
        <5>1. {e.loser, e.winner} = {p[1], p[2]}  BY <1>4, <4>2
        <5> QED  BY <1>4, <3>1, <5>1
      <4> QED  BY <3>2, <4>1, <4>2
    <3> QED  BY <3>3, <3>4, <3>5
  <2>2. CASE UNCHANGED <<decisions, log>>
    BY <1>1, <2>2 DEF Shapes, OneDecisionEach, MergeLogged, Merges
  <2> QED  BY <1>3, <2>1, <2>2 DEF p, w
<1>11. Shapes'  BY <1>1, <1>2, <1>5, <1>9, <1>10 DEF Shapes
<1> QED  BY <1>7, <1>8, <1>10, <1>11 DEF ReviewInv

LEMMA DistinctKeeps ==
  ASSUME ReviewInv, NEW s \in Session, Distinct(s)
  PROVE  ReviewInv'
<1> DEFINE p == session[s].pair
<1>1. session \in [Session -> Sitting] /\ Shapes /\ RolesFit(s) /\ MergeLogged
  BY DEF ReviewInv, Shapes
<1>2. /\ session[s].pc = "ask" /\ session' = [session EXCEPT ![s].pc = "log"]
      /\ given' = given \cup {<<p, "distinct">>}
      /\ UNCHANGED <<log, home, alias, candidates, scored, rebuild>>
      /\ \/ Decides(p[1], p[2], "distinct")
         \/ UNCHANGED decisions
  BY DEF Distinct, Gives
<1>3. p \in Pair  BY <1>1, <1>2 DEF RolesFit
<1>4. p[1] \in Key /\ p[2] \in Key /\ p[1] # p[2]  BY <1>3, PairFacts
<1>5. session[s] \in Sitting  BY <1>1
<1>6. /\ session' \in [Session -> Sitting] /\ session'[s].pc = "log"
      /\ session'[s].pair = p
      /\ \A q \in Session : q # s => session'[q] = session[q]
  BY <1>1, <1>2, <1>5 DEF Sitting
<1> HIDE DEF p
<1>7. RolesFit(s)'  BY <1>3, <1>6 DEF RolesFit
<1>8. \A q \in Session : RolesFit(q)'  BY <1>6, <1>7, OthersFit
<1>9. RebuildFollows' /\ AliasAgrees'  BY <1>2, RebuildStands
<1>10. given' \in SUBSET (Pair \X Verdict)
  BY <1>1, <1>2, <1>3 DEF Shapes, Verdict
<1>11. /\ decisions' \in SUBSET Decision /\ OneDecisionEach' /\ MergeLogged'
  <2>1. CASE Decides(p[1], p[2], "distinct")
    <3>1. decisions' \in SUBSET Decision /\ OneDecisionEach'
      BY <1>1, <1>4, <2>1, DecidesKeeps
    <3>2. \A e \in decisions' : e.verdict = "merge" => e \in decisions
      BY <2>1 DEF Decides
    <3>3. MergeLogged'  BY <1>1, <1>2, <3>2 DEF MergeLogged, Merges
    <3> QED  BY <3>1, <3>3
  <2>2. CASE UNCHANGED decisions
    BY <1>1, <1>2, <2>2 DEF Shapes, OneDecisionEach, MergeLogged, Merges
  <2> QED  BY <1>2, <2>1, <2>2
<1>12. Shapes'  BY <1>1, <1>2, <1>6, <1>10, <1>11 DEF Shapes
<1> QED  BY <1>8, <1>9, <1>11, <1>12 DEF ReviewInv

\* The verdicts that only write the log.
LEMMA LoggingKeeps ==
  ASSUME ReviewInv, NEW s \in Session, LogDistinct(s) \/ Related(s)
  PROVE  ReviewInv'
<1> DEFINE p == session[s].pair
<1>1. session \in [Session -> Sitting] /\ Shapes /\ RolesFit(s) /\ MergeLogged
  BY DEF ReviewInv, Shapes
<1>2. /\ session[s].pc \in {"ask", "log"} /\ Turn(s, "free")
      /\ UNCHANGED <<decisions, home, alias, candidates, scored, rebuild>>
  BY DEF LogDistinct, Related
<1>3. PICK v \in Verdict : log' = log \cup {<<p, v>>} /\ given' \in {given, given \cup {<<p, v>>}}
  BY DEF LogDistinct, Related, Logs, Gives, Verdict
<1>4. p \in Pair  BY <1>1, <1>2 DEF RolesFit
<1>5. /\ session' \in [Session -> Sitting] /\ session'[s].pc = "free"
      /\ \A q \in Session : q # s => session'[q] = session[q]
  BY <1>1, <1>2, TurnMoves
<1>6. RolesFit(s)'  BY <1>5 DEF RolesFit
<1>7. \A q \in Session : RolesFit(q)'  BY <1>5, <1>6, OthersFit
<1>8. RebuildFollows' /\ AliasAgrees'  BY <1>2, RebuildStands
<1> HIDE DEF p
<1>9. given' \in SUBSET (Pair \X Verdict) /\ log' \in SUBSET (Pair \X Verdict)
  BY <1>1, <1>3, <1>4 DEF Shapes
<1>10. MergeLogged'  BY <1>1, <1>2, <1>3 DEF MergeLogged, Merges
<1>11. Shapes'  BY <1>1, <1>2, <1>5, <1>9 DEF Shapes, OneDecisionEach
<1> QED  BY <1>7, <1>8, <1>10, <1>11 DEF ReviewInv

-----------------------------------------------------------------------------
\* A step that touches neither the decisions nor the reviewers.
LEMMA ReviewersStand ==
  ASSUME ReviewInv, UNCHANGED <<decisions, log, session, given>>
  PROVE  /\ OneDecisionEach' /\ MergeLogged' /\ \A s \in Session : RolesFit(s)'
         /\ decisions' \in SUBSET Decision
         /\ log' \in SUBSET (Pair \X Verdict) /\ given' \in SUBSET (Pair \X Verdict)
         /\ session' \in [Session -> Sitting]
BY DEF ReviewInv, Shapes, OneDecisionEach, MergeLogged, Merges, RolesFit

LEMMA TruncateKeeps ==
  ASSUME ReviewInv, Truncate
  PROVE  ReviewInv'
<1>1. /\ home' = Nowhere /\ alias' = Nowhere /\ candidates' = {}
      /\ rebuild' = [rebuild EXCEPT !.pc = "load"]
      /\ UNCHANGED <<decisions, log, session, given>>
  BY DEF Truncate
<1>2. rebuild = [pc |-> rebuild.pc, losers |-> rebuild.losers, closure |-> rebuild.closure]
  BY DEF ReviewInv, Shapes
<1>3. rebuild' = [pc |-> "load", losers |-> rebuild.losers, closure |-> rebuild.closure]
  BY <1>1, <1>2
<1>4. rebuild'.pc = "load" /\ rebuild'
        = [pc |-> rebuild'.pc, losers |-> rebuild'.losers, closure |-> rebuild'.closure]
  BY <1>3
<1>5. RebuildFollows' /\ AliasAgrees'
  BY <1>1, <1>4 DEF RebuildFollows, AliasAgrees, Nowhere
<1>6. Shapes'  BY <1>1, <1>4, ReviewersStand DEF Shapes, Nowhere
<1> QED  BY <1>1, <1>5, <1>6, ReviewersStand DEF ReviewInv

LEMMA LoadKeeps ==
  ASSUME ReviewInv, LoadDecisions
  PROVE  ReviewInv'
<1>1. /\ rebuild.pc = "load"
      /\ rebuild' = [pc |-> "records", losers |-> MergedAway, closure |-> Closure]
      /\ UNCHANGED <<tables, session, given>>
  BY DEF LoadDecisions
<1>2. UNCHANGED <<decisions, log, home, alias, candidates>>  BY <1>1 DEF tables
<1>3. rebuild'.pc = "records" /\ rebuild'
        = [pc |-> rebuild'.pc, losers |-> rebuild'.losers, closure |-> rebuild'.closure]
  BY <1>1
<1>4. home = Nowhere /\ alias = Nowhere  BY <1>1 DEF ReviewInv, RebuildFollows
<1>5. RebuildFollows' /\ AliasAgrees'
  BY <1>2, <1>3, <1>4 DEF RebuildFollows, AliasAgrees, Nowhere
<1>6. Shapes'
  BY <1>1, <1>2, <1>3, ReviewersStand DEF ReviewInv, Shapes
<1> QED  BY <1>1, <1>2, <1>5, <1>6, ReviewersStand DEF ReviewInv

LEMMA ResolveKeeps ==
  ASSUME ReviewInv, NEW k \in Key, Resolve(k)
  PROVE  ReviewInv'
<1> DEFINE done == \A j \in Key \ {k} : home[j] # NoKey
           step == IF done THEN "aliases" ELSE "records"
           here == rebuild.closure[k]
<1>1. /\ rebuild.pc = "records"
      /\ home' = [home EXCEPT ![k] = here]
      /\ rebuild' = [rebuild EXCEPT !.pc = step]
      /\ UNCHANGED <<decisions, log, alias, candidates, session, given>>
  BY DEF Resolve
<1>2. /\ rebuild = [pc |-> rebuild.pc, losers |-> rebuild.losers, closure |-> rebuild.closure]
      /\ home = [j \in Key |-> home[j]]
  BY DEF ReviewInv, Shapes
<1>3. step \in {"aliases", "records"} /\ (step = "aliases" => done)  OBVIOUS
<1> HIDE DEF done, step
<1>4. rebuild' = [pc |-> step, losers |-> rebuild.losers, closure |-> rebuild.closure]
  BY <1>1, <1>2
<1>5. /\ rebuild'.pc = step /\ rebuild'.closure = rebuild.closure
      /\ rebuild' = [pc |-> rebuild'.pc, losers |-> rebuild'.losers, closure |-> rebuild'.closure]
  BY <1>4
<1>6. /\ home' = [j \in Key |-> home'[j]] /\ home'[k] = here
      /\ \A j \in Key \ {k} : home'[j] = home[j]
  BY <1>1, <1>2
<1>7. alias = Nowhere /\ \A j \in Key : home[j] \in {NoKey, rebuild.closure[j]}
  BY <1>1 DEF ReviewInv, RebuildFollows
<1>8. \A j \in Key : home'[j] \in {NoKey, rebuild.closure[j]}
  BY <1>6, <1>7
<1>9. step = "aliases" => \A j \in Key : home'[j] = rebuild.closure[j]
  BY <1>3, <1>6, <1>7 DEF done
<1>10. RebuildFollows'
  BY <1>1, <1>3, <1>5, <1>7, <1>8, <1>9 DEF RebuildFollows, Nowhere
<1>11. AliasAgrees'  BY <1>1, <1>7 DEF AliasAgrees, Nowhere
<1>12. Shapes'
  BY <1>1, <1>3, <1>5, <1>6, ReviewersStand DEF ReviewInv, Shapes
<1> QED  BY <1>1, <1>10, <1>11, <1>12, ReviewersStand DEF ReviewInv

LEMMA AliasesKeep ==
  ASSUME ReviewInv, WriteAliases
  PROVE  ReviewInv'
<1>1. /\ rebuild.pc = "aliases" /\ rebuild' = NoRebuild
      /\ alias' = [k \in Key |-> IF k \in rebuild.losers /\ rebuild.closure[k] \in Organizations
                                 THEN rebuild.closure[k] ELSE NoKey]
      /\ UNCHANGED <<decisions, log, home, candidates, session, given>>
  BY DEF WriteAliases
<1>2. \A k \in Key : home[k] = rebuild.closure[k]  BY <1>1 DEF ReviewInv, RebuildFollows
<1>3. Organizations' = Organizations  BY <1>1 DEF Organizations
<1>4. \A k \in Key : alias'[k] # NoKey
        => alias'[k] = rebuild.closure[k] /\ rebuild.closure[k] \in Organizations
  BY <1>1
<1>5. AliasAgrees'  BY <1>1, <1>2, <1>3, <1>4 DEF AliasAgrees
<1>6. /\ rebuild'.pc = "off"
      /\ rebuild' = [pc |-> rebuild'.pc, losers |-> rebuild'.losers, closure |-> rebuild'.closure]
  BY <1>1 DEF NoRebuild
<1>7. RebuildFollows'  BY <1>6 DEF RebuildFollows
<1>8. alias' = [k \in Key |-> alias'[k]]  BY <1>1
<1>9. Shapes'
  BY <1>1, <1>6, <1>8, ReviewersStand DEF ReviewInv, Shapes
<1> QED  BY <1>1, <1>5, <1>7, <1>9, ReviewersStand DEF ReviewInv

LEMMA RebuildDiesKeeps ==
  ASSUME ReviewInv, RebuildDies
  PROVE  ReviewInv'
<1>1. rebuild' = NoRebuild /\ UNCHANGED <<tables, session, given>>  BY DEF RebuildDies
<1>2. UNCHANGED <<decisions, log, home, alias, candidates>>  BY <1>1 DEF tables
<1>3. /\ rebuild'.pc = "off"
      /\ rebuild' = [pc |-> rebuild'.pc, losers |-> rebuild'.losers, closure |-> rebuild'.closure]
  BY <1>1 DEF NoRebuild
<1>4. Organizations' = Organizations  BY <1>2 DEF Organizations
<1>5. RebuildFollows' /\ AliasAgrees'
  BY <1>2, <1>3, <1>4 DEF ReviewInv, RebuildFollows, AliasAgrees
<1>6. Shapes'
  BY <1>1, <1>2, <1>3, ReviewersStand DEF ReviewInv, Shapes
<1> QED  BY <1>1, <1>2, <1>5, <1>6, ReviewersStand DEF ReviewInv

\* `candidates` and `score`, and no step at all.
LEMMA ScoringKeeps ==
  ASSUME ReviewInv, Candidates \/ Score \/ UNCHANGED vars
  PROVE  ReviewInv'
<1>1. UNCHANGED <<decisions, log, home, alias, rebuild, session, given>>
  BY DEF Candidates, Score, vars, tables
<1>2. candidates' \subseteq Pair
  BY DEF Candidates, Score, vars, tables, ReviewInv, Shapes
<1>3. RebuildFollows' /\ AliasAgrees'  BY <1>1, RebuildStands
<1>4. Shapes'  BY <1>1, <1>2, ReviewersStand DEF ReviewInv, Shapes
<1> QED  BY <1>1, <1>3, <1>4, ReviewersStand DEF ReviewInv

-----------------------------------------------------------------------------
LEMMA ReviewInit == Init => ReviewInv
<1> SUFFICES ASSUME Init PROVE ReviewInv  OBVIOUS
<1>1. /\ decisions = {} /\ log = {} /\ given = {} /\ candidates = {}
      /\ home = Itself /\ alias = Nowhere /\ rebuild = NoRebuild
      /\ session = [s \in Session |-> NoSitting]
  BY DEF Init
<1>2. NoSitting \in Sitting /\ NoSitting.pc = "off"  BY DEF NoSitting, Sitting
<1>3. session \in [Session -> Sitting] /\ \A s \in Session : RolesFit(s)
  BY <1>1, <1>2 DEF RolesFit
<1>4. rebuild.pc = "off" /\ rebuild
        = [pc |-> rebuild.pc, losers |-> rebuild.losers, closure |-> rebuild.closure]
  BY <1>1 DEF NoRebuild
<1>5. MergeLogged  BY <1>1 DEF MergeLogged, Merges
<1>6. AliasAgrees  BY <1>1 DEF AliasAgrees, Nowhere
<1>7. RebuildFollows  BY <1>4 DEF RebuildFollows
<1>8. Shapes  BY <1>1, <1>3, <1>4 DEF Shapes, OneDecisionEach, Itself, Nowhere
<1> QED  BY <1>3, <1>5, <1>6, <1>7, <1>8 DEF ReviewInv

LEMMA ReviewStep == ReviewInv /\ [Next]_vars => ReviewInv'
<1> SUFFICES ASSUME ReviewInv, [Next]_vars PROVE ReviewInv'  OBVIOUS
<1>1. CASE Rebuild
  BY <1>1, TruncateKeeps, LoadKeeps, ResolveKeeps, AliasesKeep, RebuildDiesKeeps DEF Rebuild
<1>2. CASE Candidates \/ Score \/ UNCHANGED vars  BY <1>2, ScoringKeeps
<1>3. CASE \E s \in Session : Review(s)
  <2>1. PICK s \in Session : Review(s)  BY <1>3
  <2> QED  BY <2>1, StartKeeps, AskKeeps, SkipKeeps, MergeKeeps, DistinctKeeps,
              LoggingKeeps, LeavingKeeps DEF Review
<1> QED  BY <1>1, <1>2, <1>3 DEF Next

THEOREM ReviewIsSound == Spec => []ReviewInv
BY ReviewInit, ReviewStep, PTL DEF Spec

(***************************************************************************)
(* A merge decision that will be replayed has its entry in the audit log,  *)
(* with any number of reviewers at work and any number of crashes:         *)
(* decision and entry are one transaction in canonical/review.py.          *)
(***************************************************************************)
THEOREM MergesAreLogged == Spec => []MergeLogged
<1>1. ReviewInv => MergeLogged  BY DEF ReviewInv
<1> QED  BY <1>1, ReviewIsSound, PTL

(***************************************************************************)
(* An alias leads to where the records of the retired name are, even when  *)
(* reviewers go on merging while canonical/pipeline.py rebuilds the tables *)
(* and when a rebuild dies halfway.                                        *)
(***************************************************************************)
THEOREM AliasesFollowTheRecords == Spec => []AliasAgrees
<1>1. ReviewInv => AliasAgrees  BY DEF ReviewInv
<1> QED  BY <1>1, ReviewIsSound, PTL

-----------------------------------------------------------------------------
\* Decisions and log entries are never withdrawn, and what one of them rules
\* out stays ruled out.
LEMMA EligibleShrinks ==
  ASSUME decisions \subseteq decisions', log \subseteq log', NEW p, ~Eligible(p)
  PROVE  ~Eligible(p)'
<1>1. Settled \subseteq Settled'  BY DEF Settled
<1>2. Reviewed \subseteq Reviewed'  BY DEF Reviewed
<1> QED  BY <1>1, <1>2 DEF Eligible

\* Steps that give no verdict.
LEMMA NothingGiven ==
  ASSUME MemoryInv, decisions \subseteq decisions', log \subseteq log', given' = given,
         \A s \in Session :
           /\ \A p \in session'[s].queue : p \in session[s].queue \/ Eligible(p)
           /\ session'[s].pair \notin session'[s].queue
  PROVE  MemoryInv'
<1>1. VerdictsRemembered'
  <2> SUFFICES ASSUME NEW g \in given PROVE ~Eligible(g[1])'
    BY DEF VerdictsRemembered
  <2> QED  BY EligibleShrinks DEF MemoryInv, VerdictsRemembered
<1>2. ASSUME NEW p, Eligible(p) PROVE Untouched(p)
  <2> SUFFICES ASSUME NEW v \in Verdict, <<p, v>> \in given PROVE FALSE  BY DEF Untouched
  <2>1. <<p, v>>[1] = p  OBVIOUS
  <2> QED  BY <1>2, <2>1 DEF MemoryInv, VerdictsRemembered
<1>3. OneReviewer => QueueUntouched'
  BY <1>2 DEF MemoryInv, QueueUntouched, Untouched
<1>4. MovedOn'  BY DEF MovedOn
<1> QED  BY <1>1, <1>3, <1>4 DEF MemoryInv, OneReviewer

\* Steps that leave the sittings alone as well.
LEMMA Bystanders ==
  ASSUME MemoryInv, UNCHANGED <<decisions, log, given, session>>
  PROVE  MemoryInv'
BY DEF MemoryInv, VerdictsRemembered, MovedOn, QueueUntouched, Untouched, OneReviewer,
       Eligible, Settled, Reviewed

(***************************************************************************)
(* A verdict v on the pair p of s: afterwards p is not eligible, and with  *)
(* nobody else around the queue holds other pairs only.                    *)
(***************************************************************************)
LEMMA VerdictGiven ==
  ASSUME MemoryInv, NEW s \in Session, NEW v \in Verdict, NEW p,
         session[s].pair = p, <<>> \notin session[s].queue,
         decisions \subseteq decisions', log \subseteq log', ~Eligible(p)',
         given' = given \cup {<<p, v>>},
         session'[s].queue = session[s].queue, session'[s].pair \in {<<>>, p},
         \A q \in Session : q # s => session'[q] = session[q]
  PROVE  MemoryInv'
<1>1. VerdictsRemembered'
  <2> SUFFICES ASSUME NEW g \in given' PROVE ~Eligible(g[1])'
    BY DEF VerdictsRemembered
  <2>1. CASE g \in given  BY <2>1, EligibleShrinks DEF MemoryInv, VerdictsRemembered
  <2>2. CASE g = <<p, v>>
    <3>1. g[1] = p  BY <2>2
    <3> QED  BY <3>1
  <2> QED  BY <2>1, <2>2
<1>2. MovedOn'  BY DEF MemoryInv, MovedOn
<1>3. ASSUME OneReviewer PROVE QueueUntouched'
  <2> SUFFICES ASSUME NEW q \in Session, NEW r \in session'[q].queue, NEW x \in Verdict
               PROVE  <<r, x>> \notin given'
    BY DEF QueueUntouched, Untouched
  <2>1. q = s  BY <1>3 DEF OneReviewer
  <2>2. r \in session[s].queue  BY <2>1
  <2>3. r # p /\ <<r, x>> \notin given
    BY <1>3, <2>2 DEF MemoryInv, MovedOn, QueueUntouched, Untouched
  <2> QED  BY <2>3
<1> QED  BY <1>1, <1>2, <1>3 DEF MemoryInv, OneReviewer

LEMMA QueueOfPairs ==
  ASSUME ReviewInv, NEW s \in Session
  PROVE  session[s].queue \subseteq Pair /\ <<>> \notin session[s].queue
<1>1. session[s] \in Sitting  BY DEF ReviewInv, Shapes
<1>2. session[s].queue \subseteq Pair  BY <1>1 DEF Sitting
<1> QED  BY <1>2, PairFacts

LEMMA MemoryMerge ==
  ASSUME ReviewInv, MemoryInv, NEW s \in Session, Merge(s)
  PROVE  MemoryInv'
<1>1. session \in [Session -> Sitting] /\ RolesFit(s)  BY DEF ReviewInv, Shapes
<1>2. PICK p : p = session[s].pair  OBVIOUS
<1>3. /\ session[s].pc = "ask" /\ Turn(s, "free")
      /\ given' = given \cup {<<p, "merge">>}
  BY <1>2 DEF Merge, Gives
<1>4. PICK l \in {session[s].loser, session[s].winner} :
        \/ Decides(l, Other(session[s].pair, l), "merge") /\ Logs(s, "merge")
        \/ l \in Settled /\ UNCHANGED <<decisions, log>>
  BY DEF Merge
<1>5. l \in {p[1], p[2]}  BY <1>1, <1>2, <1>3, MergeRoles
<1>6. /\ session'[s].pair = <<>> /\ session'[s].queue = session[s].queue
      /\ \A q \in Session : q # s => session'[q] = session[q]
  BY <1>1, <1>3, TurnMoves
<1>7. decisions \subseteq decisions' /\ log \subseteq log'
  BY <1>4 DEF Decides, Logs
<1>8. l \in Settled'
  <2>1. CASE Decides(l, Other(session[s].pair, l), "merge")
    <3> DEFINE d == [loser |-> l, winner |-> Other(session[s].pair, l), verdict |-> "merge"]
    <3>1. PICK e : e = d  OBVIOUS
    <3>2. e \in decisions' /\ e.loser = l  BY <2>1, <3>1 DEF Decides
    <3> HIDE DEF d
    <3> QED  BY <3>2 DEF Settled
  <2>2. CASE l \in Settled /\ UNCHANGED <<decisions, log>>  BY <2>2 DEF Settled
  <2> QED  BY <1>4, <2>1, <2>2
<1>9. ~Eligible(p)'  BY <1>5, <1>8 DEF Eligible
<1>10. "merge" \in Verdict  BY DEF Verdict
<1> QED  BY <1>2, <1>3, <1>6, <1>7, <1>9, <1>10, QueueOfPairs, VerdictGiven

LEMMA MemoryDistinct ==
  ASSUME ReviewInv, MemoryInv, NEW s \in Session, Distinct(s)
  PROVE  MemoryInv'
<1>1. session \in [Session -> Sitting]  BY DEF ReviewInv, Shapes
<1>2. PICK p : p = session[s].pair  OBVIOUS
<1>3. /\ session' = [session EXCEPT ![s].pc = "log"]
      /\ given' = given \cup {<<p, "distinct">>} /\ UNCHANGED log
      /\ \/ Decides(p[1], p[2], "distinct")
         \/ p[1] \in Settled /\ UNCHANGED decisions
  BY <1>2 DEF Distinct, Gives
<1>4. session[s] \in Sitting  BY <1>1
<1>5. /\ session'[s].pair = p /\ session'[s].queue = session[s].queue
      /\ \A q \in Session : q # s => session'[q] = session[q]
  BY <1>1, <1>2, <1>3, <1>4 DEF Sitting
<1>6. decisions \subseteq decisions' /\ log \subseteq log'
  BY <1>3 DEF Decides
<1>7. p[1] \in Settled'
  <2>1. CASE Decides(p[1], p[2], "distinct")
    <3>1. PICK e : e = [loser |-> p[1], winner |-> p[2], verdict |-> "distinct"]  OBVIOUS
    <3>2. e \in decisions' /\ e.loser = p[1]  BY <2>1, <3>1 DEF Decides
    <3> QED  BY <3>2 DEF Settled
  <2>2. CASE p[1] \in Settled /\ UNCHANGED decisions  BY <2>2 DEF Settled
  <2> QED  BY <1>3, <2>1, <2>2
<1>8. ~Eligible(p)'  BY <1>7 DEF Eligible
<1>9. "distinct" \in Verdict  BY DEF Verdict
<1> QED  BY <1>2, <1>3, <1>5, <1>6, <1>8, <1>9, QueueOfPairs, VerdictGiven

LEMMA MemoryRelated ==
  ASSUME ReviewInv, MemoryInv, NEW s \in Session, Related(s)
  PROVE  MemoryInv'
<1>1. session \in [Session -> Sitting]  BY DEF ReviewInv, Shapes
<1>2. PICK p : p = session[s].pair  OBVIOUS
<1>3. /\ Turn(s, "free") /\ UNCHANGED decisions
      /\ given' = given \cup {<<p, "related">>}
      /\ log' = log \cup {<<p, "related">>}
  BY <1>2 DEF Related, Gives, Logs
<1>4. /\ session'[s].pair = <<>> /\ session'[s].queue = session[s].queue
      /\ \A q \in Session : q # s => session'[q] = session[q]
  BY <1>1, <1>3, TurnMoves
<1>5. p \in Reviewed'
  <2>1. PICK g : g = <<p, "related">>  OBVIOUS
  <2>2. g \in log' /\ g[1] = p  BY <1>3, <2>1
  <2> QED  BY <2>2 DEF Reviewed
<1>6. ~Eligible(p)'  BY <1>5 DEF Eligible
<1>7. "related" \in Verdict  BY DEF Verdict
<1> QED  BY <1>2, <1>3, <1>4, <1>6, <1>7, QueueOfPairs, VerdictGiven

\* How the queue and the question of s move in the other steps of a session.
LEMMA QuietMoves ==
  ASSUME ReviewInv, MemoryInv, NEW s \in Session,
         \/ \E lane \in {"main", "acronym"} : StartReview(s, lane)
         \/ Ask(s) \/ Skip(s) \/ LogDistinct(s) \/ EndReview(s) \/ SessionDies(s)
  PROVE  /\ \A p \in session'[s].queue : p \in session[s].queue \/ Eligible(p)
         /\ session'[s].pair \notin session'[s].queue
         /\ \A q \in Session : q # s => session'[q] = session[q]
<1>1. session \in [Session -> Sitting] /\ <<>> \notin session[s].queue
  BY QueueOfPairs DEF ReviewInv, Shapes
<1>2. ASSUME NEW lane \in {"main", "acronym"}, StartReview(s, lane)
      PROVE  /\ \A p \in session'[s].queue : Eligible(p)
             /\ session'[s].pair \notin session'[s].queue
             /\ \A q \in Session : q # s => session'[q] = session[q]
  <2>1. PICK Q \in SUBSET Queue(lane) :
          session' = [session EXCEPT ![s] = [NoSitting EXCEPT !.pc = "next", !.queue = Q]]
    BY <1>2 DEF StartReview
  <2> DEFINE new == [NoSitting EXCEPT !.pc = "next", !.queue = Q]
  <2>2. new.queue = Q /\ new.pair = <<>>  BY DEF NoSitting
  <2>3. \A p \in Q : p \in candidates /\ Eligible(p)  BY DEF Queue
  <2>4. <<>> \notin Q  BY <2>3, PairFacts DEF ReviewInv, Shapes
  <2>5. session' = [session EXCEPT ![s] = new]  BY <2>1
  <2> HIDE DEF new
  <2> QED  BY <1>1, <2>2, <2>3, <2>4, <2>5
<1>3. CASE Ask(s)  BY <1>1, <1>3, AskMoves
<1>4. CASE Skip(s) \/ LogDistinct(s)
  <2>1. PICK pc \in {"free", "next"} : Turn(s, pc)  BY <1>4 DEF Skip, LogDistinct
  <2> QED  BY <1>1, <2>1, TurnMoves
<1>5. CASE EndReview(s) \/ SessionDies(s)
  <2>1. session' = [session EXCEPT ![s] = NoSitting]  BY <1>5 DEF EndReview, SessionDies
  <2>2. NoSitting.queue = {}  BY DEF NoSitting
  <2> QED  BY <1>1, <2>1, <2>2
<1> QED  BY <1>2, <1>3, <1>4, <1>5

LEMMA MemoryQuiet ==
  ASSUME ReviewInv, MemoryInv, NEW s \in Session,
         \/ \E lane \in {"main", "acronym"} : StartReview(s, lane)
         \/ Ask(s) \/ Skip(s) \/ LogDistinct(s) \/ EndReview(s) \/ SessionDies(s)
  PROVE  MemoryInv'
<1>1. decisions' = decisions /\ log \subseteq log' /\ given' = given
  BY DEF StartReview, Ask, Skip, LogDistinct, Logs, EndReview, SessionDies, tables
<1>2. ASSUME NEW q \in Session
      PROVE  /\ \A p \in session'[q].queue : p \in session[q].queue \/ Eligible(p)
             /\ session'[q].pair \notin session'[q].queue
  <2>1. CASE q = s  BY <2>1, QuietMoves
  <2>2. CASE q # s  BY <2>2, QuietMoves DEF MemoryInv, MovedOn
  <2> QED  BY <2>1, <2>2
<1> QED  BY <1>1, <1>2, NothingGiven

-----------------------------------------------------------------------------
LEMMA MemoryInit == Init => MemoryInv
<1>1. NoSitting.queue = {} /\ NoSitting.pair = <<>>  BY DEF NoSitting
<1> QED  BY <1>1 DEF Init, MemoryInv, VerdictsRemembered, MovedOn, QueueUntouched

LEMMA MemoryStep == ReviewInv /\ MemoryInv /\ [Next]_vars => MemoryInv'
<1> SUFFICES ASSUME ReviewInv, MemoryInv, [Next]_vars PROVE MemoryInv'  OBVIOUS
<1>1. CASE Rebuild \/ Candidates \/ Score \/ UNCHANGED vars
  <2>1. UNCHANGED <<decisions, log, given, session>>
    BY <1>1 DEF Rebuild, Truncate, LoadDecisions, WriteAliases, Resolve, RebuildDies,
                Candidates, Score, vars, tables
  <2> QED  BY <2>1, Bystanders
<1>2. CASE \E s \in Session : Review(s)
  <2>1. PICK s \in Session : Review(s)  BY <1>2
  <2> QED  BY <2>1, MemoryMerge, MemoryDistinct, MemoryRelated, MemoryQuiet DEF Review
<1> QED  BY <1>1, <1>2 DEF Next

THEOREM VerdictsStay == Spec => [](ReviewInv /\ MemoryInv)
<1>1. Init => ReviewInv /\ MemoryInv  BY ReviewInit, MemoryInit
<1>2. ReviewInv /\ MemoryInv /\ [Next]_vars => (ReviewInv /\ MemoryInv)'
  BY ReviewStep, MemoryStep
<1> QED  BY <1>1, <1>2, PTL DEF Spec

\* A pair is asked about only by Ask, which takes it from the queue.
LEMMA AskedAnew ==
  ASSUME OneReviewer, ReviewInv, MemoryInv, [Next]_vars, NEW s \in Session,
         session[s].pc # "ask", session'[s].pc = "ask"
  PROVE  Untouched(session'[s].pair)
<1>1. session \in [Session -> Sitting]  BY DEF ReviewInv, Shapes
<1>2. PICK q \in Session : Review(q)
  BY DEF Next, Rebuild, Truncate, LoadDecisions, WriteAliases, Resolve, RebuildDies,
         Candidates, Score, vars, tables
<1>3. q = s  BY DEF OneReviewer
<1>4. CASE Ask(s)
  <2>1. session'[s].pair \in session[s].queue  BY <1>1, <1>4, AskMoves
  <2> QED  BY <2>1 DEF MemoryInv, QueueUntouched
<1>5. ASSUME NEW pc \in {"free", "next"}, Turn(s, pc) PROVE FALSE
  BY <1>1, <1>5, TurnMoves
<1>6. CASE Merge(s) \/ Skip(s) \/ Related(s) \/ LogDistinct(s)
  BY <1>5, <1>6 DEF Merge, Skip, Related, LogDistinct
<1>7. CASE Distinct(s)  BY <1>7 DEF Distinct
<1>8. NoSitting.pc = "off" /\ \A Q : [NoSitting EXCEPT !.pc = "next", !.queue = Q].pc = "next"
  BY DEF NoSitting
<1>9. CASE EndReview(s) \/ SessionDies(s)  BY <1>1, <1>8, <1>9 DEF EndReview, SessionDies
<1>10. ASSUME NEW lane \in {"main", "acronym"}, StartReview(s, lane) PROVE FALSE
  BY <1>1, <1>8, <1>10 DEF StartReview
<1> QED  BY <1>2, <1>3, <1>4, <1>6, <1>7, <1>9, <1>10 DEF Review

(***************************************************************************)
(* One reviewer at a time is never asked about a pair that already got a   *)
(* verdict, whichever of decision and log entry a conflict or a crash took *)
(* away (is_eligible in canonical/review.py).  With two, the queue of one  *)
(* grows stale while the other answers, so the hypothesis is needed.       *)
(***************************************************************************)
THEOREM NeverAskedTwice == ASSUME OneReviewer PROVE Spec => NeverReasked
<1>1. ReviewInv /\ MemoryInv /\ [Next]_vars
        => [\A s \in Session :
              session[s].pc # "ask" /\ session'[s].pc = "ask"
                => \A v \in Verdict : <<session'[s].pair, v>> \notin given]_vars
  <2> SUFFICES ASSUME ReviewInv, MemoryInv, [Next]_vars, NEW s \in Session,
                      session[s].pc # "ask", session'[s].pc = "ask"
               PROVE  \A v \in Verdict : <<session'[s].pair, v>> \notin given
    OBVIOUS
  <2> QED  BY AskedAnew DEF Untouched
<1> QED  BY <1>1, VerdictsStay, PTL DEF Spec, NeverReasked

-----------------------------------------------------------------------------
(***************************************************************************)
(* Following the winners, for any function that takes a key to a key: each *)
(* lemma is about Chain and Follow alone, cycles included.                 *)
(***************************************************************************)
\* Induction on the naturals, for a set of them.
LEMMA LeastOf ==
  ASSUME NEW T, T \subseteq Nat, T # {}
  PROVE  \E i \in T : \A j \in T : i <= j
<1>1. \E i \in T : \A j \in T : ~(<<j, i>> \in OpToRel(<, Nat))
  BY NatLessThanWellFounded, WFMin
<1>2. \A i, j \in Nat : j < i => <<j, i>> \in OpToRel(<, Nat)  BY DEF OpToRel
<1>3. PICK i \in T : \A j \in T : ~(<<j, i>> \in OpToRel(<, Nat))  BY <1>1
<1>4. ASSUME NEW j \in T PROVE i <= j
  <2>1. i \in Nat /\ j \in Nat  OBVIOUS
  <2>2. ~(j < i)  BY <1>2, <1>3, <2>1
  <2> QED  BY <2>1, <2>2
<1> QED  BY <1>4

LEMMA Counting ==
  ASSUME NEW T \in SUBSET Nat, 0 \in T, \A n \in T : n + 1 \in T
  PROVE  T = Nat
<1> SUFFICES ASSUME Nat \ T # {} PROVE FALSE  OBVIOUS
<1>1. PICK i \in Nat \ T : \A j \in Nat \ T : i <= j  BY LeastOf
<1>2. i # 0 /\ i - 1 \in Nat  BY <1>1
<1>3. i - 1 \in T  BY <1>1, <1>2
<1>4. (i - 1) + 1 = i  BY <1>1
<1> QED  BY <1>1, <1>3, <1>4

LEMMA LeastIsMin ==
  ASSUME NEW S \in SUBSET Nat, S # {}
  PROVE  Min(S) \in S /\ \A x \in S : Min(S) <= x
<1>1. \E x \in S : \A y \in S : x =< y  BY LeastOf
<1> QED  BY <1>1, Zenon DEF Min

LEMMA KeysAre == Keys \in Nat \ {0}
BY ReviewAssumption

\* Chain is what its recursion says: chains of each length exist, by counting.
LEMMA ChainIs ==
  ASSUME NEW up, NEW k
  PROVE  Chain(up, k) = [i \in 0..Keys |-> IF i = 0 THEN k ELSE up[Chain(up, k)[i - 1]]]
<1> DEFINE Fits(n, f) == f = [i \in 0..n |-> IF i = 0 THEN k ELSE up[f[i - 1]]]
           T == {n \in Nat : \E f : Fits(n, f)}
<1>1. 0 \in T
  <2> DEFINE f == [i \in 0..0 |-> k]
  <2>1. Fits(0, f)  OBVIOUS
  <2> QED  BY <2>1
<1>2. ASSUME NEW n \in T PROVE n + 1 \in T
  <2>1. PICK f : Fits(n, f)  OBVIOUS
  <2> DEFINE g == [i \in 0..(n + 1) |-> IF i = n + 1 THEN up[f[n]] ELSE f[i]]
  <2>2. \A i \in 0..n : g[i] = IF i = 0 THEN k ELSE up[g[i - 1]]
    <3> TAKE i \in 0..n
    <3>1. g[i] = f[i]  OBVIOUS
    <3>2. f[i] = IF i = 0 THEN k ELSE up[f[i - 1]]  BY <2>1
    <3>3. i # 0 => g[i - 1] = f[i - 1]  OBVIOUS
    <3> QED  BY <3>1, <3>2, <3>3
  <2>3. g[n + 1] = up[g[n]]  OBVIOUS
  <2>4. g = [i \in 0..(n + 1) |-> g[i]]  OBVIOUS
  <2>5. \A i \in 0..(n + 1) : i \in 0..n \/ i = n + 1  OBVIOUS
  <2> HIDE DEF g
  <2>6. Fits(n + 1, g)
    <3>1. n + 1 # 0 /\ (n + 1) - 1 = n  OBVIOUS
    <3>2. \A i \in 0..(n + 1) : g[i] = IF i = 0 THEN k ELSE up[g[i - 1]]
      BY <2>2, <2>3, <2>5, <3>1
    <3> QED  BY <2>4, <3>2
  <2> QED  BY <2>6
<1>3. T = Nat
  <2> HIDE DEF T
  <2>1. T \in SUBSET Nat  BY DEF T
  <2> QED  BY <1>1, <1>2, <2>1, Counting
<1>4. \E f : Fits(Keys, f)  BY <1>3, ReviewAssumption
<1>5. Chain(up, k) = CHOOSE f : Fits(Keys, f)  BY DEF Chain
<1>6. Fits(Keys, CHOOSE f : Fits(Keys, f))  BY <1>4
<1> QED  BY <1>5, <1>6

LEMMA ChainSteps ==
  ASSUME NEW up \in [Key -> Key], NEW k \in Key
  PROVE  LET c == Chain(up, k) IN
         /\ c[0] = k
         /\ \A i \in 0..Keys : c[i] \in Key
         /\ \A i \in 0..(Keys - 1) : c[i + 1] = up[c[i]]
<1>1. PICK c : c = Chain(up, k)  OBVIOUS
<1>2. Keys \in Nat \ {0}  BY KeysAre
<1>3. \A i \in 0..Keys : c[i] = IF i = 0 THEN k ELSE up[c[i - 1]]
  <2>1. c = [i \in 0..Keys |-> IF i = 0 THEN k ELSE up[c[i - 1]]]  BY <1>1, ChainIs
  <2> QED  BY <2>1
<1>4. c[0] = k  BY <1>2, <1>3
<1>5. \A i \in 0..(Keys - 1) : c[i + 1] = up[c[i]]
  <2> TAKE i \in 0..(Keys - 1)
  <2>1. i + 1 \in 0..Keys /\ i + 1 # 0 /\ (i + 1) - 1 = i  BY <1>2
  <2> QED  BY <1>3, <2>1
<1> DEFINE T == {n \in Nat : n \in 0..Keys => c[n] \in Key}
<1>6. 0 \in T  BY <1>4
<1>7. ASSUME NEW n \in T PROVE n + 1 \in T
  <2> SUFFICES ASSUME n + 1 \in 0..Keys PROVE c[n + 1] \in Key  OBVIOUS
  <2>1. n \in 0..Keys /\ n \in 0..(Keys - 1)  BY <1>2
  <2>2. c[n] \in Key  BY <2>1
  <2> QED  BY <1>5, <2>1, <2>2
<1>8. T = Nat
  <2> HIDE DEF T
  <2>1. T \in SUBSET Nat  BY DEF T
  <2> QED  BY <1>6, <1>7, <2>1, Counting
<1>9. \A i \in 0..Keys : c[i] \in Key  BY <1>2, <1>8
<1> QED  BY <1>1, <1>4, <1>5, <1>9

\* The chain of the next key is the same chain, one step on.
LEMMA ChainShift ==
  ASSUME NEW up \in [Key -> Key], NEW k \in Key
  PROVE  \A i \in 0..(Keys - 1) : Chain(up, up[k])[i] = Chain(up, k)[i + 1]
<1>1. PICK c, e : c = Chain(up, k) /\ e = Chain(up, up[k])  OBVIOUS
<1>2. /\ Keys \in Nat \ {0} /\ c[0] = k /\ e[0] = up[k]
      /\ \A i \in 0..(Keys - 1) : c[i + 1] = up[c[i]] /\ e[i + 1] = up[e[i]]
  BY <1>1, ChainSteps, KeysAre
<1> DEFINE T == {i \in Nat : i + 1 <= Keys => e[i] = c[i + 1]}
<1>3. 0 \in T
  <2>1. 0 \in 0..(Keys - 1)  BY <1>2
  <2>2. c[0 + 1] = e[0]  BY <1>2, <2>1
  <2> QED  BY <2>2
<1>4. ASSUME NEW i \in T PROVE i + 1 \in T
  <2> SUFFICES ASSUME (i + 1) + 1 <= Keys PROVE e[i + 1] = c[(i + 1) + 1]  OBVIOUS
  <2>1. i \in 0..(Keys - 1) /\ i + 1 \in 0..(Keys - 1) /\ i + 1 <= Keys  BY <1>2
  <2>2. e[i] = c[i + 1]  BY <2>1
  <2> QED  BY <1>2, <2>1, <2>2
<1>5. T = Nat
  <2> HIDE DEF T
  <2>1. T \in SUBSET Nat  BY DEF T
  <2> QED  BY <1>3, <1>4, <2>1, Counting
<1> QED  BY <1>1, <1>2, <1>5

\* From a key that comes up again the chain goes on as it did before.
LEMMA ChainRepeats ==
  ASSUME NEW up \in [Key -> Key], NEW k \in Key,
         NEW x \in 0..Keys, NEW y \in 0..Keys, x <= y,
         Chain(up, k)[x] = Chain(up, k)[y], NEW t \in Nat, y + t <= Keys
  PROVE  Chain(up, k)[x + t] = Chain(up, k)[y + t]
<1>1. PICK c : c = Chain(up, k)  OBVIOUS
<1>2. /\ Keys \in Nat \ {0} /\ \A i \in 0..(Keys - 1) : c[i + 1] = up[c[i]]
  BY <1>1, ChainSteps, KeysAre
<1> DEFINE T == {i \in Nat : y + i <= Keys => c[x + i] = c[y + i]}
<1>3. 0 \in T  BY <1>1
<1>4. ASSUME NEW i \in T PROVE i + 1 \in T
  <2> SUFFICES ASSUME y + (i + 1) <= Keys PROVE c[x + (i + 1)] = c[y + (i + 1)]  OBVIOUS
  <2>1. /\ x + i \in 0..(Keys - 1) /\ y + i \in 0..(Keys - 1) /\ y + i <= Keys
        /\ x + (i + 1) = (x + i) + 1 /\ y + (i + 1) = (y + i) + 1
    BY <1>2
  <2>2. c[x + i] = c[y + i]  BY <2>1
  <2> QED  BY <1>2, <2>1, <2>2
<1>5. T = Nat
  <2> HIDE DEF T
  <2>1. T \in SUBSET Nat  BY DEF T
  <2> QED  BY <1>3, <1>4, <2>1, Counting
<1>6. t \in T  BY <1>5
<1> QED  BY <1>1, <1>6

\* At a key that leads to itself the chain stays.
LEMMA ChainStays ==
  ASSUME NEW up \in [Key -> Key], NEW k \in Key, NEW i \in 0..Keys,
         up[Chain(up, k)[i]] = Chain(up, k)[i], NEW j \in i..Keys
  PROVE  Chain(up, k)[j] = Chain(up, k)[i]
<1>1. PICK c : c = Chain(up, k)  OBVIOUS
<1>2. /\ Keys \in Nat \ {0} /\ \A n \in 0..(Keys - 1) : c[n + 1] = up[c[n]]
  BY <1>1, ChainSteps, KeysAre
<1> DEFINE T == {n \in Nat : i + n <= Keys => c[i + n] = c[i]}
<1>3. 0 \in T  BY <1>1
<1>4. ASSUME NEW n \in T PROVE n + 1 \in T
  <2> SUFFICES ASSUME i + (n + 1) <= Keys PROVE c[i + (n + 1)] = c[i]  OBVIOUS
  <2>1. i + n \in 0..(Keys - 1) /\ i + n <= Keys /\ i + (n + 1) = (i + n) + 1  BY <1>2
  <2>2. c[i + n] = c[i]  BY <2>1
  <2> QED  BY <1>1, <1>2, <2>1, <2>2
<1>5. T = Nat
  <2> HIDE DEF T
  <2>1. T \in SUBSET Nat  BY DEF T
  <2> QED  BY <1>3, <1>4, <2>1, Counting
<1>6. j - i \in Nat /\ i + (j - i) = j /\ j <= Keys  BY <1>2
<1>7. j - i \in T  BY <1>5, <1>6
<1> QED  BY <1>1, <1>6, <1>7

\* Keys + 1 places on the chain, and Keys keys: one of them comes up again.
LEMMA RepeatThere ==
  ASSUME NEW up \in [Key -> Key], NEW k \in Key
  PROVE  LET R == Repeats(Chain(up, k)) IN
         R \subseteq 1..Keys /\ Min(R) \in R /\ \A i \in R : Min(R) <= i
<1>1. PICK c : c = Chain(up, k)  OBVIOUS
<1>2. Keys \in Nat \ {0} /\ \A i \in 0..Keys : c[i] \in Key
  BY <1>1, ChainSteps, KeysAre
<1> DEFINE R == Repeats(c)
<1>3. R \subseteq 1..Keys  BY DEF Repeats
<1>4. R # {}
  <2> DEFINE f == [i \in 0..Keys |-> c[i]]
  <2>1. f \in [0..Keys -> Key]  BY <1>2
  <2>2. /\ IsFiniteSet(Key) /\ Cardinality(Key) = Keys
        /\ IsFiniteSet(0..Keys) /\ Cardinality(0..Keys) = Keys + 1
    <3>1. IsFiniteSet(1..Keys) /\ Cardinality(1..Keys) = Keys
      <4>1. 1 \in Int /\ Keys \in Int /\ ~(1 > Keys) /\ Keys - 1 + 1 = Keys  BY <1>2
      <4> QED  BY <4>1, FS_Interval
    <3>2. IsFiniteSet(0..Keys) /\ Cardinality(0..Keys) = Keys + 1
      <4>1. 0 \in Int /\ Keys \in Int /\ ~(0 > Keys) /\ Keys - 0 + 1 = Keys + 1  BY <1>2
      <4> QED  BY <4>1, FS_Interval
    <3> QED  BY <3>1, <3>2 DEF Key
  <2>3. Cardinality(Key) < Cardinality(0..Keys)  BY <1>2, <2>2
  <2> HIDE DEF f
  <2>4. \E x, y \in 0..Keys : x # y /\ f[x] = f[y]  BY <2>1, <2>2, <2>3, FS_PigeonHole
  <2>5. PICK x \in 0..Keys, y \in 0..Keys : x # y /\ c[x] = c[y]  BY <2>4 DEF f
  <2>6. (x \in 0..(y - 1) /\ y \in 1..Keys) \/ (y \in 0..(x - 1) /\ x \in 1..Keys)
    BY <1>2, <2>5
  <2>7. x \in R \/ y \in R  BY <2>5, <2>6 DEF Repeats
  <2> QED  BY <2>7
<1>5. R \in SUBSET Nat  BY <1>3
<1> HIDE DEF R
<1>6. Min(R) \in R /\ \A i \in R : Min(R) <= i  BY <1>4, <1>5, LeastIsMin
<1> QED  BY <1>1, <1>3, <1>6 DEF R

\* Where a chain ends and where it repeats itself is the same key.
LEMMA FirstRepeat ==
  ASSUME NEW up \in [Key -> Key], NEW k \in Key
  PROVE  /\ Follow(up)[k] = Chain(up, k)[Min(Repeats(Chain(up, k)))]
         /\ Follow(up)[k] \in Key
<1>1. PICK c, r : c = Chain(up, k) /\ r = Min(Repeats(c))  OBVIOUS
<1>2. /\ Keys \in Nat \ {0} /\ c[0] = k /\ \A i \in 0..Keys : c[i] \in Key
      /\ r \in Repeats(c) /\ r \in 1..Keys
  BY <1>1, ChainSteps, RepeatThere, KeysAre
<1>3. Follow(up)[k] = IF up[c[Keys]] = c[Keys] THEN c[Keys] ELSE c[r]  BY <1>1 DEF Follow
<1>4. ASSUME up[c[Keys]] = c[Keys] PROVE c[r] = c[Keys]
  <2> SUFFICES ASSUME c[r] # c[Keys] PROVE FALSE  OBVIOUS
  <2>1. PICK j \in 0..(r - 1) : c[j] = c[r]  BY <1>2 DEF Repeats
  <2> DEFINE T == {i \in 0..Keys : c[i] = c[Keys]}
  <2>2. T \subseteq Nat /\ Keys \in T  BY <1>2
  <2>3. PICK n \in T : \A i \in T : n <= i
    <3> HIDE DEF T
    <3> QED  BY <2>2, LeastOf
  <2>4. n \in 0..Keys /\ c[n] = c[Keys]  OBVIOUS
  <2>5. ~(n <= r)
    <3> SUFFICES ASSUME n <= r PROVE FALSE  OBVIOUS
    <3>1. r \in n..Keys  BY <1>2, <2>4
    <3> QED  BY <1>1, <1>4, <2>4, <3>1, ChainStays
  <2>6. /\ n - r \in Nat /\ r + (n - r) = n /\ j \in 0..Keys /\ r \in 0..Keys /\ j <= r
        /\ j + (n - r) \in 0..Keys /\ ~(n <= j + (n - r)) /\ r + (n - r) <= Keys
    BY <1>2, <2>1, <2>4, <2>5
  <2>7. c[j + (n - r)] = c[n]  BY <1>1, <2>1, <2>6, ChainRepeats
  <2>8. j + (n - r) \in T  BY <2>4, <2>6, <2>7
  <2> QED  BY <2>3, <2>6, <2>8
<1>5. Follow(up)[k] = c[r]  BY <1>3, <1>4
<1> QED  BY <1>1, <1>2, <1>5

\* A key that leads to itself is where all the keys end whose chain meets it.
LEMMA EndsThere ==
  ASSUME NEW up \in [Key -> Key], NEW k \in Key, NEW l \in Key, up[l] = l
  PROVE  (Follow(up)[k] = l) <=> (\E i \in 0..Keys : Chain(up, k)[i] = l)
<1>1. PICK c, r : c = Chain(up, k) /\ r = Min(Repeats(c))  OBVIOUS
<1>2. Keys \in Nat \ {0} /\ r \in 0..Keys  BY <1>1, RepeatThere, KeysAre
<1>3. Follow(up)[k] = c[r]  BY <1>1, FirstRepeat
<1>4. ASSUME NEW i \in 0..Keys, c[i] = l PROVE Follow(up)[k] = l
  <2>1. Keys \in i..Keys  BY <1>2
  <2>2. c[Keys] = l  BY <1>1, <1>4, <2>1, ChainStays
  <2> QED  BY <1>1, <2>2 DEF Follow
<1> QED  BY <1>1, <1>2, <1>3, <1>4

\* So does the next key on the way there, and the key before it.
LEMMA OneOn ==
  ASSUME NEW up \in [Key -> Key], NEW j \in Key, NEW l \in Key, up[l] = l, j # l
  PROVE  (Follow(up)[j] = l) <=> (Follow(up)[up[j]] = l)
<1>1. PICK c, e : c = Chain(up, j) /\ e = Chain(up, up[j])  OBVIOUS
<1>2. /\ Keys \in Nat \ {0} /\ c[0] = j /\ up[j] \in Key
      /\ \A i \in 0..(Keys - 1) : e[i] = c[i + 1]
  BY <1>1, ChainSteps, ChainShift, KeysAre
<1>3. ASSUME NEW i \in 0..Keys, c[i] = l PROVE Follow(up)[up[j]] = l
  <2>1. i # 0  BY <1>2, <1>3
  <2>2. i - 1 \in 0..(Keys - 1) /\ i - 1 \in 0..Keys /\ (i - 1) + 1 = i  BY <1>2, <2>1
  <2>3. e[i - 1] = l  BY <1>2, <1>3, <2>2
  <2> QED  BY <1>1, <1>2, <2>2, <2>3, EndsThere
<1>4. ASSUME NEW i \in 0..Keys, e[i] = l PROVE Follow(up)[j] = l
  <2> DEFINE T == {n \in 0..Keys : e[n] = l}
  <2>1. T \subseteq Nat /\ i \in T  BY <1>2, <1>4
  <2>2. PICK n \in T : \A m \in T : n <= m
    <3> HIDE DEF T
    <3> QED  BY <2>1, LeastOf
  <2>3. n \in 0..Keys /\ e[n] = l  OBVIOUS
  <2>4. n # Keys
    <3> SUFFICES ASSUME n = Keys PROVE FALSE  OBVIOUS
    <3>1. PICK y : y \in Repeats(e) /\ y \in 1..Keys  BY <1>1, <1>2, RepeatThere
    <3>2. PICK x \in 0..(y - 1) : e[x] = e[y]  BY <3>1 DEF Repeats
    <3>3. /\ x \in 0..Keys /\ y \in 0..Keys /\ x <= y /\ Keys - y \in Nat /\ y + (Keys - y) <= Keys
          /\ y + (Keys - y) = Keys /\ x + (Keys - y) \in 0..Keys /\ ~(Keys <= x + (Keys - y))
      BY <1>2, <3>1, <3>2
    <3>4. e[x + (Keys - y)] = e[Keys]
      <4>1. PICK t \in Nat : t = Keys - y  BY <3>3
      <4>2. Chain(up, up[j])[x] = Chain(up, up[j])[y] /\ y + t <= Keys  BY <1>1, <3>2, <3>3, <4>1
      <4>3. Chain(up, up[j])[x + t] = Chain(up, up[j])[y + t]  BY <1>2, <3>3, <4>2, ChainRepeats
      <4> QED  BY <1>1, <3>3, <4>1, <4>3
    <3>5. x + (Keys - y) \in T  BY <2>3, <3>3, <3>4
    <3> QED  BY <2>2, <3>3, <3>5
  <2>5. n \in 0..(Keys - 1) /\ n + 1 \in 0..Keys  BY <1>2, <2>3, <2>4
  <2>6. c[n + 1] = l  BY <1>2, <2>3, <2>5
  <2> QED  BY <1>1, <2>5, <2>6, EndsThere
<1> QED  BY <1>1, <1>2, <1>3, <1>4, EndsThere

\* A key that does not come up again goes where the next one goes.
LEMMA FollowStep ==
  ASSUME NEW up \in [Key -> Key], NEW k \in Key, \A i \in 1..Keys : Chain(up, k)[i] # k
  PROVE  Follow(up)[k] = Follow(up)[up[k]]
<1>1. PICK c, e : c = Chain(up, k) /\ e = Chain(up, up[k])  OBVIOUS
<1>2. /\ Keys \in Nat \ {0} /\ c[0] = k /\ up[k] \in Key
      /\ \A i \in 0..(Keys - 1) : e[i] = c[i + 1]
  BY <1>1, ChainSteps, ChainShift, KeysAre
<1>3. PICK r, q : r = Min(Repeats(c)) /\ q = Min(Repeats(e))  OBVIOUS
<1>4. /\ r \in Repeats(c) /\ r \in 1..Keys /\ \A i \in Repeats(c) : r <= i
      /\ q \in Repeats(e) /\ q \in 1..Keys /\ \A i \in Repeats(e) : q <= i
  BY <1>1, <1>2, <1>3, RepeatThere
<1>5. q <= r - 1
  <2>1. PICK j \in 0..(r - 1) : c[j] = c[r]  BY <1>4 DEF Repeats
  <2>2. j # 0  BY <1>1, <1>2, <1>4, <2>1
  <2>3. /\ r - 1 \in 1..Keys /\ j - 1 \in 0..((r - 1) - 1) /\ j - 1 \in 0..(Keys - 1)
        /\ r - 1 \in 0..(Keys - 1) /\ (j - 1) + 1 = j /\ (r - 1) + 1 = r
    BY <1>2, <1>4, <2>1, <2>2
  <2>4. e[j - 1] = e[r - 1]  BY <1>2, <2>1, <2>3
  <2>5. r - 1 \in Repeats(e)  BY <2>3, <2>4 DEF Repeats
  <2> QED  BY <1>4, <2>5
<1>6. q + 1 \in 1..Keys /\ q \in 0..(Keys - 1)  BY <1>2, <1>4, <1>5
<1>7. r <= q + 1
  <2>1. PICK j \in 0..(q - 1) : e[j] = e[q]  BY <1>4 DEF Repeats
  <2>2. j \in 0..(Keys - 1) /\ j + 1 \in 0..((q + 1) - 1)  BY <1>2, <1>4, <1>6, <2>1
  <2>3. c[j + 1] = c[q + 1]  BY <1>2, <1>6, <2>1, <2>2
  <2>4. q + 1 \in Repeats(c)  BY <1>6, <2>2, <2>3 DEF Repeats
  <2> QED  BY <1>4, <2>4
<1>8. r = q + 1  BY <1>4, <1>5, <1>7
<1>9. c[r] = e[q]  BY <1>2, <1>6, <1>8
<1> QED  BY <1>1, <1>2, <1>3, <1>9, FirstRepeat

-----------------------------------------------------------------------------
(***************************************************************************)
(* One key more is led on: l, which led to itself, now leads to w.         *)
(***************************************************************************)
LEMMA OthersStay ==
  ASSUME NEW up \in [Key -> Key], NEW l \in Key, NEW w \in Key, up[l] = l,
         NEW k \in Key, Follow(up)[k] # l
  PROVE  Follow([up EXCEPT ![l] = w])[k] = Follow(up)[k]
<1>1. PICK new : new = [up EXCEPT ![l] = w]  OBVIOUS
<1>2. new \in [Key -> Key] /\ \A x \in Key : x # l => new[x] = up[x]  BY <1>1
<1>3. PICK c, e : c = Chain(up, k) /\ e = Chain(new, k)  OBVIOUS
<1>4. /\ Keys \in Nat \ {0} /\ c[0] = k /\ e[0] = k
      /\ \A i \in 0..Keys : c[i] \in Key
      /\ \A i \in 0..(Keys - 1) : c[i + 1] = up[c[i]] /\ e[i + 1] = new[e[i]]
  BY <1>2, <1>3, ChainSteps, KeysAre
<1>5. \A i \in 0..Keys : c[i] # l  BY <1>3, EndsThere
<1> DEFINE T == {i \in Nat : i <= Keys => e[i] = c[i]}
<1>6. 0 \in T  BY <1>4
<1>7. ASSUME NEW i \in T PROVE i + 1 \in T
  <2> SUFFICES ASSUME i + 1 <= Keys PROVE e[i + 1] = c[i + 1]  OBVIOUS
  <2>1. i \in 0..(Keys - 1) /\ i \in 0..Keys /\ i <= Keys  BY <1>4
  <2>2. e[i] = c[i] /\ c[i] # l /\ c[i] \in Key  BY <1>4, <1>5, <2>1
  <2> QED  BY <1>2, <1>4, <2>1, <2>2
<1>8. T = Nat
  <2> HIDE DEF T
  <2>1. T \in SUBSET Nat  BY DEF T
  <2> QED  BY <1>6, <1>7, <2>1, Counting
<1>9. \A i \in 0..Keys : e[i] = c[i]  BY <1>4, <1>8
<1>10. e = c
  <2>1. c = [i \in 0..Keys |-> IF i = 0 THEN k ELSE up[c[i - 1]]]  BY <1>3, ChainIs
  <2>2. e = [i \in 0..Keys |-> IF i = 0 THEN k ELSE new[e[i - 1]]]  BY <1>3, ChainIs
  <2>3. c = [i \in 0..Keys |-> c[i]]  BY <2>1
  <2>4. e = [i \in 0..Keys |-> e[i]]  BY <2>2
  <2> QED  BY <1>9, <2>3, <2>4
<1>11. Keys \in 0..Keys  BY <1>4
<1>12. new[c[Keys]] = up[c[Keys]]  BY <1>2, <1>4, <1>5, <1>11
<1>13. Follow(new)[k] = IF new[e[Keys]] = e[Keys] THEN e[Keys] ELSE e[Min(Repeats(e))]
  BY <1>3 DEF Follow
<1>14. Follow(up)[k] = IF up[c[Keys]] = c[Keys] THEN c[Keys] ELSE c[Min(Repeats(c))]
  BY <1>3 DEF Follow
<1> QED  BY <1>1, <1>10, <1>12, <1>13, <1>14

\* When w ends at l, the keys that do stay among themselves.
LEMMA Entangled ==
  ASSUME NEW up \in [Key -> Key], NEW l \in Key, NEW w \in Key, up[l] = l, Follow(up)[w] = l,
         NEW k \in Key, Follow(up)[k] = l
  PROVE  LET end == Follow([up EXCEPT ![l] = w])[k] IN end \in Key /\ Follow(up)[end] = l
<1>1. PICK new : new = [up EXCEPT ![l] = w]  OBVIOUS
<1>2. new \in [Key -> Key] /\ new[l] = w /\ \A x \in Key : x # l => new[x] = up[x]  BY <1>1
<1>3. PICK e, r : e = Chain(new, k) /\ r = Min(Repeats(e))  OBVIOUS
<1>4. /\ Keys \in Nat \ {0} /\ e[0] = k /\ r \in 0..Keys
      /\ \A i \in 0..Keys : e[i] \in Key
      /\ \A i \in 0..(Keys - 1) : e[i + 1] = new[e[i]]
  BY <1>2, <1>3, ChainSteps, RepeatThere, KeysAre
<1> DEFINE T == {i \in Nat : i <= Keys => Follow(up)[e[i]] = l}
<1>5. 0 \in T  BY <1>4
<1>6. ASSUME NEW i \in T PROVE i + 1 \in T
  <2> SUFFICES ASSUME i + 1 <= Keys PROVE Follow(up)[e[i + 1]] = l  OBVIOUS
  <2>1. i \in 0..(Keys - 1) /\ i \in 0..Keys /\ i <= Keys  BY <1>4
  <2>2. Follow(up)[e[i]] = l /\ e[i] \in Key /\ e[i + 1] = new[e[i]]  BY <1>4, <2>1
  <2>3. CASE e[i] = l  BY <1>2, <2>2, <2>3
  <2>4. CASE e[i] # l
    <3>1. e[i + 1] = up[e[i]]  BY <1>2, <2>2, <2>4
    <3> QED  BY <2>2, <2>4, <3>1, OneOn
  <2> QED  BY <2>3, <2>4
<1>7. T = Nat
  <2> HIDE DEF T
  <2>1. T \in SUBSET Nat  BY DEF T
  <2> QED  BY <1>5, <1>6, <2>1, Counting
<1>8. e[r] \in Key /\ Follow(up)[e[r]] = l
  <2>1. r \in T  BY <1>4, <1>7
  <2> QED  BY <1>4, <2>1
<1>9. Follow(new)[k] = e[r]  BY <1>2, <1>3, FirstRepeat
<1> QED  BY <1>1, <1>8, <1>9

\* Otherwise none of the keys that end at l comes up again on its new chain.
LEMMA NoReturn ==
  ASSUME NEW up \in [Key -> Key], NEW l \in Key, NEW w \in Key, up[l] = l, Follow(up)[w] # l,
         NEW k \in Key, Follow(up)[k] = l, NEW i \in 1..Keys
  PROVE  Chain([up EXCEPT ![l] = w], k)[i] # k
<1>1. PICK new : new = [up EXCEPT ![l] = w]  OBVIOUS
<1>2. new \in [Key -> Key] /\ new[l] = w /\ \A x \in Key : x # l => new[x] = up[x]  BY <1>1
<1>3. PICK c, e : c = Chain(up, k) /\ e = Chain(new, k)  OBVIOUS
<1>4. /\ Keys \in Nat \ {0} /\ c[0] = k /\ e[0] = k
      /\ \A j \in 0..Keys : c[j] \in Key /\ e[j] \in Key
      /\ \A j \in 0..(Keys - 1) : c[j + 1] = up[c[j]] /\ e[j + 1] = new[e[j]]
  BY <1>2, <1>3, ChainSteps, KeysAre
<1> DEFINE At == {j \in 0..Keys : c[j] = l}
<1>5. At \subseteq Nat /\ At # {}  BY <1>3, <1>4, EndsThere
<1>6. PICK n \in At : \A j \in At : n <= j
  <2> HIDE DEF At
  <2> QED  BY <1>5, LeastOf
<1>7. n \in 0..Keys /\ c[n] = l /\ \A j \in 0..Keys : c[j] = l => n <= j  BY <1>6
\* Up to l the two chains are one.
<1> DEFINE T == {j \in Nat : j <= n => e[j] = c[j]}
<1>8. T = Nat
  <2>1. 0 \in T  BY <1>4
  <2>2. ASSUME NEW j \in T PROVE j + 1 \in T
    <3> SUFFICES ASSUME j + 1 <= n PROVE e[j + 1] = c[j + 1]  OBVIOUS
    <3>1. j \in 0..(Keys - 1) /\ j \in 0..Keys /\ j <= n /\ ~(n <= j)  BY <1>4, <1>7
    <3>2. e[j] = c[j] /\ c[j] # l /\ c[j] \in Key  BY <1>4, <1>7, <3>1
    <3> QED  BY <1>2, <1>4, <3>1, <3>2
  <2> HIDE DEF T
  <2>3. T \in SUBSET Nat  BY DEF T
  <2> QED  BY <2>1, <2>2, <2>3, Counting
\* From w on no key ends at l.
<1> DEFINE U == {j \in Nat : (n + 1) + j <= Keys => Follow(up)[e[(n + 1) + j]] # l}
<1>9. U = Nat
  <2>1. 0 \in U
    <3> SUFFICES ASSUME n + 1 <= Keys PROVE Follow(up)[e[n + 1]] # l  BY <1>7
    <3>1. n \in 0..(Keys - 1) /\ n \in T  BY <1>4, <1>7, <1>8
    <3>2. e[n] = l  BY <1>7, <3>1
    <3>3. e[n + 1] = w  BY <1>2, <1>4, <3>1, <3>2
    <3> QED  BY <3>3
  <2>2. ASSUME NEW j \in U PROVE j + 1 \in U
    <3> DEFINE m == (n + 1) + j
    <3> SUFFICES ASSUME m + 1 <= Keys PROVE Follow(up)[e[m + 1]] # l
      <4>1. (n + 1) + (j + 1) = m + 1  BY <1>7
      <4> QED  BY <4>1
    <3>1. m \in 0..(Keys - 1) /\ m \in 0..Keys /\ m <= Keys  BY <1>4, <1>7
    <3>2. Follow(up)[e[m]] # l /\ e[m] \in Key  BY <1>4, <3>1
    <3> HIDE DEF m
    <3>3. e[m] # l
      <4>1. Follow(up)[l] = l
        <5>1. Chain(up, l)[0] = l /\ 0 \in 0..Keys  BY <1>4, ChainSteps
        <5> QED  BY <5>1, EndsThere
      <4> QED  BY <3>2, <4>1
    <3>4. e[m + 1] = up[e[m]]  BY <1>2, <1>4, <3>1, <3>2, <3>3
    <3> QED  BY <3>2, <3>3, <3>4, OneOn
  <2> HIDE DEF U
  <2>3. U \in SUBSET Nat  BY DEF U
  <2> QED  BY <2>1, <2>2, <2>3, Counting
<1>10. ASSUME e[i] = k PROVE FALSE
  <2>1. CASE i <= n
    <3>1. i \in T /\ i \in 0..Keys  BY <1>4, <1>8
    <3>2. c[0] = c[i]  BY <1>4, <1>10, <2>1, <3>1
    <3>3. /\ 0 \in 0..Keys /\ 0 <= i /\ n - i \in Nat /\ i + (n - i) = n /\ n <= Keys
          /\ 0 + (n - i) = n - i /\ n - i \in 0..Keys /\ ~(n <= n - i)
      BY <1>4, <1>7, <2>1
    <3>4. c[0 + (n - i)] = c[i + (n - i)]  BY <1>3, <3>1, <3>2, <3>3, ChainRepeats
    <3> QED  BY <1>7, <3>3, <3>4
  <2>2. CASE ~(i <= n)
    <3>1. i - (n + 1) \in Nat /\ (n + 1) + (i - (n + 1)) = i /\ i <= Keys  BY <1>4, <1>7, <2>2
    <3>2. i - (n + 1) \in U  BY <1>9, <3>1
    <3> QED  BY <1>10, <3>1, <3>2
  <2> QED  BY <2>1, <2>2
<1> QED  BY <1>1, <1>3, <1>10

\* They all end where w does.
LEMMA Absorbed ==
  ASSUME NEW up \in [Key -> Key], NEW l \in Key, NEW w \in Key, up[l] = l, Follow(up)[w] # l,
         NEW k \in Key, Follow(up)[k] = l
  PROVE  Follow([up EXCEPT ![l] = w])[k] = Follow(up)[w]
<1>1. PICK new : new = [up EXCEPT ![l] = w]  OBVIOUS
<1>2. new \in [Key -> Key] /\ new[l] = w /\ \A x \in Key : x # l => new[x] = up[x]  BY <1>1
<1>3. ASSUME NEW j \in Key, Follow(up)[j] = l PROVE Follow(new)[j] = Follow(new)[new[j]]
  <2>1. \A i \in 1..Keys : Chain([up EXCEPT ![l] = w], j)[i] # j  BY <1>3, NoReturn
  <2>2. new \in [Key -> Key] /\ \A i \in 1..Keys : Chain(new, j)[i] # j  BY <1>1, <1>2, <2>1
  <2> QED  BY <2>2, FollowStep
<1>0. Follow([up EXCEPT ![l] = w])[w] = Follow(up)[w]  BY OthersStay
<1> DEFINE T == {n \in 0..Keys : \E j \in Key : /\ Chain(up, j)[n] = l
                                               /\ Follow(new)[j] # Follow(up)[w]}
<1>4. T = {}
  <2> SUFFICES ASSUME T # {} PROVE FALSE  OBVIOUS
  <2>0. Keys \in Nat \ {0}  BY KeysAre
  <2>1. T \subseteq Nat  BY <2>0
  <2>2. PICK n \in T : \A m \in T : n <= m
    <3> HIDE DEF T
    <3> QED  BY <2>1, LeastOf
  <2>3. n \in 0..Keys /\ n \in Nat  BY <2>0
  <2>4. PICK j \in Key : Chain(up, j)[n] = l /\ Follow(new)[j] # Follow(up)[w]  OBVIOUS
  <2>5. Follow(up)[j] = l  BY <2>3, <2>4, EndsThere
  <2>6. Follow(new)[j] = Follow(new)[new[j]]  BY <1>3, <2>5
  <2>7. CASE j = l
    <3>1. Follow(new)[w] = Follow(up)[w]  BY <1>1, <1>0
    <3> QED  BY <1>2, <2>4, <2>6, <2>7, <3>1
  <2>8. CASE j # l
    <3>1. new[j] = up[j] /\ up[j] \in Key  BY <1>2, <2>8
    <3>2. n # 0  BY <2>4, <2>8, ChainSteps
    <3>3. n - 1 \in 0..(Keys - 1) /\ n - 1 \in 0..Keys /\ (n - 1) + 1 = n /\ ~(n <= n - 1)
      BY <2>0, <2>3, <3>2
    <3>4. Chain(up, up[j])[n - 1] = l  BY <2>4, <3>3, ChainShift
    <3>5. n - 1 \in T  BY <2>4, <2>6, <3>1, <3>3, <3>4
    <3> QED  BY <2>2, <3>3, <3>5
  <2> QED  BY <2>7, <2>8
<1>5. PICK i \in 0..Keys : Chain(up, k)[i] = l  BY EndsThere
<1>6. i \notin T  BY <1>4
<1>7. Follow(new)[k] = Follow(up)[w]  BY <1>5, <1>6
<1> QED  BY <1>1, <1>7

-----------------------------------------------------------------------------
(***************************************************************************)
(* The decisions as such a function, and what each step does to it.        *)
(***************************************************************************)
LEMMA UpIs ==
  ASSUME Shapes
  PROVE  /\ Up \in [Key -> Key] /\ \A k \in Key : k \notin MergedAway => Up[k] = k
         /\ \A d \in Merges : d.loser \in Key /\ Up[d.loser] = d.winner
<1>1. \A d \in Merges : d \in decisions /\ d.loser \in Key /\ d.winner \in Key
  BY DEF Shapes, Merges, Decision
<1>2. \A d, e \in Merges : d.loser = e.loser => d = e  BY <1>1 DEF Shapes, OneDecisionEach
<1>3. ASSUME NEW d \in Merges PROVE d.loser \in Key /\ Up[d.loser] = d.winner
  <2>1. d.loser \in MergedAway  BY DEF MergedAway
  <2>2. Up[d.loser] = (CHOOSE e \in Merges : e.loser = d.loser).winner  BY <1>1, <2>1 DEF Up
  <2>3. PICK c : c = CHOOSE e \in Merges : e.loser = d.loser  OBVIOUS
  <2>4. c \in Merges /\ c.loser = d.loser  BY <2>3
  <2> QED  BY <1>1, <1>2, <2>2, <2>3, <2>4
<1>4. ASSUME NEW k \in Key, k \notin MergedAway PROVE Up[k] = k  BY <1>4 DEF Up
<1>5. ASSUME NEW k \in Key PROVE Up[k] \in Key
  <2>1. CASE k \in MergedAway
    <3>1. PICK d \in Merges : d.loser = k  BY <2>1 DEF MergedAway
    <3> QED  BY <1>1, <1>3, <3>1
  <2> QED  BY <1>4, <2>1
<1>6. Up = [k \in Key |-> Up[k]]  BY DEF Up
<1>7. Up \in [Key -> Key]  BY <1>5, <1>6
<1> QED  BY <1>3, <1>4, <1>7

LEMMA ClosureIs ==
  ASSUME Shapes
  PROVE  Closure = Follow(Up) /\ Closure \in [Key -> Key]
<1>1. Closure = Follow(Up)  BY DEF Closure
<1>2. Follow(Up) = [k \in Key |-> Follow(Up)[k]]  BY DEF Follow
<1>3. \A k \in Key : Follow(Up)[k] \in Key  BY UpIs, FirstRepeat
<1> QED  BY <1>1, <1>2, <1>3

LEMMA SameMerges ==
  ASSUME Merges' = Merges
  PROVE  Closure' = Closure
<1>1. MergedAway' = MergedAway  BY DEF MergedAway
<1>2. Up' = Up  BY <1>1 DEF Up
<1> QED  BY <1>2 DEF Closure

\* The decision that l is merged into w.
Decided(l, w) ==
  /\ l \notin Settled
  /\ decisions' = decisions \cup {[loser |-> l, winner |-> w, verdict |-> "merge"]}

LEMMA UpGrows ==
  ASSUME Shapes, NEW l \in Key, NEW w \in Key, Decided(l, w)
  PROVE  /\ Up' = [Up EXCEPT ![l] = w] /\ Up[l] = l
         /\ \E d \in Merges' \ Merges : d.loser = l /\ d.winner = w
<1>1. PICK d : d = [loser |-> l, winner |-> w, verdict |-> "merge"]  OBVIOUS
<1>2. Merges' = Merges \cup {d} /\ d.loser = l /\ d.winner = w  BY <1>1 DEF Merges, Decided
<1>3. \A e \in Merges : e.loser # l  BY DEF Decided, Settled, Merges
<1>4. MergedAway' = MergedAway \cup {l} /\ l \notin MergedAway  BY <1>2, <1>3 DEF MergedAway
<1>5. Up[l] = l  BY <1>4, UpIs
<1>6. Up'[l] = w
  <2>1. Up'[l] = (CHOOSE e \in Merges' : e.loser = l).winner  BY <1>4 DEF Up
  <2>2. PICK c : c = CHOOSE e \in Merges' : e.loser = l  OBVIOUS
  <2>3. c \in Merges' /\ c.loser = l  BY <1>2, <2>2
  <2>4. c = d  BY <1>2, <1>3, <2>3
  <2> QED  BY <1>2, <2>1, <2>2, <2>4
<1>7. ASSUME NEW k \in Key, k # l PROVE Up'[k] = Up[k]
  <2>1. CASE k \in MergedAway
    <3>1. PICK e \in Merges : e.loser = k  BY <2>1 DEF MergedAway
    <3>2. Up'[k] = (CHOOSE f \in Merges' : f.loser = k).winner  BY <1>4, <2>1 DEF Up
    <3>3. PICK c : c = CHOOSE f \in Merges' : f.loser = k  OBVIOUS
    <3>4. c \in Merges' /\ c.loser = k  BY <1>2, <3>1, <3>3
    <3>5. c \in Merges  BY <1>2, <1>7, <3>4
    <3> QED  BY <3>2, <3>3, <3>4, <3>5, UpIs
  <2>2. CASE k \notin MergedAway
    <3>1. k \notin MergedAway'  BY <1>4, <1>7, <2>2
    <3>2. Up'[k] = k  BY <3>1 DEF Up
    <3> QED  BY <2>2, <3>2, UpIs
  <2> QED  BY <2>1, <2>2
<1>8. Up' = [k \in Key |-> Up'[k]]  BY DEF Up
<1>9. Up \in [Key -> Key]  BY UpIs
<1>10. Up' = [Up EXCEPT ![l] = w]  BY <1>6, <1>7, <1>8, <1>9
<1>11. d \in Merges' \ Merges  BY <1>2, <1>3
<1> QED  BY <1>2, <1>5, <1>10, <1>11

\* A reviewer's step decides a merge of two names, or leaves the merges alone.
LEMMA ReviewMerges ==
  ASSUME ReviewInv, NEW s \in Session, Review(s)
  PROVE  /\ home' = home /\ rebuild' = rebuild
         /\ Merges' = Merges \/ \E l, w \in Key : Decided(l, w)
<1>1. home' = home /\ rebuild' = rebuild
  BY DEF Review, StartReview, Ask, Skip, Merge, Distinct, LogDistinct, Related, EndReview,
         SessionDies, tables
<1>2. CASE Merge(s)
  <2> DEFINE p == session[s].pair
  <2>1. session[s].pc = "ask"  BY <1>2 DEF Merge
  <2>2. PICK l \in {session[s].loser, session[s].winner} :
          \/ Decides(l, Other(p, l), "merge")
          \/ UNCHANGED decisions
    BY <1>2 DEF Merge
  <2>3. l \in Key /\ Other(p, l) \in Key  BY <2>1, MergeRoles DEF ReviewInv
  <2>4. CASE Decides(l, Other(p, l), "merge")
    <3>1. Decided(l, Other(p, l))  BY <2>4 DEF Decides, Decided
    <3> QED  BY <1>1, <2>3, <3>1
  <2>5. CASE UNCHANGED decisions  BY <1>1, <2>5 DEF Merges
  <2> QED  BY <2>2, <2>4, <2>5
<1>3. CASE Distinct(s)
  BY <1>1, <1>3 DEF Distinct, Decides, Merges
<1>4. CASE ~Merge(s) /\ ~Distinct(s)
  <2>1. decisions' = decisions
    BY <1>4 DEF Review, StartReview, Ask, Skip, LogDistinct, Related, EndReview, SessionDies, tables
  <2> QED  BY <1>1, <2>1 DEF Merges
<1> QED  BY <1>2, <1>3, <1>4

\* What the decision does to the closure: the keys that ended at l end where w
\* does, or stay among themselves if w ends at l.
LEMMA ClosureGrows ==
  ASSUME Shapes, NEW l \in Key, NEW w \in Key, Decided(l, w)
  PROVE  /\ Closure[l] = l
         /\ \A k \in Key : Closure[k] # l => Closure'[k] = Closure[k]
         /\ Closure[w] # l => \A k \in Key : Closure[k] = l => Closure'[k] = Closure[w]
         /\ Closure[w] = l => \A k \in Key : Closure[k] = l => Closure'[k] \in Key /\ Closure[Closure'[k]] = l
<1>1. Up \in [Key -> Key] /\ Up[l] = l /\ Up' = [Up EXCEPT ![l] = w]  BY UpIs, UpGrows
<1>2. PICK up : up = Up  OBVIOUS
<1>3. up \in [Key -> Key] /\ up[l] = l  BY <1>1, <1>2
<1>4. Closure = Follow(up)  BY <1>2 DEF Closure
<1>5. Closure' = Follow([up EXCEPT ![l] = w])
  <2>1. Closure' = Follow(Up')  BY DEF Closure
  <2> QED  BY <1>1, <1>2, <2>1
<1>6. Follow(up)[l] = l
  <2>1. Chain(up, l)[0] = l  BY <1>3, ChainSteps
  <2>2. 0 \in 0..Keys  BY KeysAre
  <2> QED  BY <1>3, <2>1, <2>2, EndsThere
<1>7. \A k \in Key : Follow(up)[k] # l => Follow([up EXCEPT ![l] = w])[k] = Follow(up)[k]
  BY <1>3, OthersStay
<1>8. Follow(up)[w] # l => \A k \in Key : Follow(up)[k] = l
                              => Follow([up EXCEPT ![l] = w])[k] = Follow(up)[w]
  BY <1>3, Absorbed
<1>9. Follow(up)[w] = l => \A k \in Key : Follow(up)[k] = l
                              => /\ Follow([up EXCEPT ![l] = w])[k] \in Key
                                 /\ Follow(up)[Follow([up EXCEPT ![l] = w])[k]] = l
  BY <1>3, Entangled
<1> QED  BY <1>4, <1>5, <1>6, <1>7, <1>8, <1>9

(***************************************************************************)
(* Names once merged stay together in every later replay, for any number   *)
(* of reviewers, swaps, conflicts, crashes and rebuilds, unless a verdict  *)
(* closes a cycle (build_merge_closure over the decisions there are).      *)
(***************************************************************************)
THEOREM MergesStayTogether == Spec => MergesStick
<1>1. ReviewInv /\ [Next]_vars
        => [decisions' # decisions /\ ~ClosesCycle =>
              LET before == Closure
                  after == Closure'
              IN \A j, k \in Key : before[j] = before[k] => after[j] = after[k]]_vars
  <2> SUFFICES ASSUME ReviewInv, Next, ~ClosesCycle, decisions' # decisions,
                      NEW j \in Key, NEW k \in Key, Closure[j] = Closure[k]
               PROVE  Closure'[j] = Closure'[k]
    BY DEF vars, tables
  <2>1. PICK s \in Session : Review(s)
    BY DEF Next, Rebuild, Truncate, LoadDecisions, WriteAliases, Resolve, RebuildDies, Candidates,
           Score, tables
  <2>2. CASE Merges' = Merges  BY <2>2, SameMerges
  <2>3. ASSUME NEW l \in Key, NEW w \in Key, Decided(l, w)
        PROVE  Closure'[j] = Closure'[k]
    <3>1. Shapes  BY DEF ReviewInv
    <3>2. Closure[w] # l  BY <2>3, <3>1, UpGrows DEF ClosesCycle
    <3> QED  BY <2>3, <3>1, <3>2, ClosureGrows
  <2> QED  BY <2>1, <2>2, <2>3, ReviewMerges
<1> QED  BY <1>1, ReviewIsSound, PTL DEF Spec, MergesStick

-----------------------------------------------------------------------------
(***************************************************************************)
(* The partition: its roots are the ends of the closure, and a rebuild     *)
(* files by the closure it has loaded.                                     *)
(***************************************************************************)
FiledByKeys == Filing => rebuild.closure \in [Key -> Key]

LEMMA MergeUnites ==
  ASSUME Shapes, Shapes', home' = home, rebuild' = rebuild,
         NEW l \in Key, NEW w \in Key, Decided(l, w), Closure' # Closure,
         Closure' \in [Key -> Key]
  PROVE  Classes!Unite
<1>1. Closure \in [Key -> Key]  BY ClosureIs
<1>2. \A k \in Key : Closure[k] # l => Closure'[k] = Closure[k]  BY ClosureGrows
<1>3. Closure[l] = l  BY ClosureGrows
<1>4. UNCHANGED <<IF Filing THEN rebuild.closure ELSE Nowhere, home>>  BY DEF Filing, Nowhere
<1>5. CASE Closure[w] # l
  <2>1. \A k \in Key : Closure'[k] = IF Closure[k] = l THEN Closure[w] ELSE Closure[k]
    BY <1>2, <1>5, ClosureGrows
  <2>2. Closure' = [k \in Key |-> IF Closure[k] = l THEN Closure[w] ELSE Closure[k]]  BY <2>1
  <2>3. Classes!Absorb(l, w)  BY <1>3, <1>5, <2>2 DEF Classes!Absorb
  <2> QED  BY <1>4, <2>3 DEF Classes!Unite
<1>6. CASE Closure[w] = l
  <2>1. \A k \in Key : IF Closure[k] = l THEN Closure[Closure'[k]] = l ELSE Closure'[k] = Closure[k]
    BY <1>2, <1>6, ClosureGrows
  <2>2. Classes!Entangle(l, w)  BY <1>3, <1>6, <2>1 DEF Classes!Entangle
  <2> QED  BY <1>4, <2>2 DEF Classes!Unite
<1> QED  BY <1>5, <1>6

LEMMA RebuildFiles ==
  ASSUME ReviewInv, FiledByKeys, Rebuild \/ Candidates \/ Score \/ UNCHANGED vars
  PROVE  FiledByKeys' /\ [Classes!Next]_(Classes!vars)
<1> DEFINE filed == IF Filing THEN rebuild.closure ELSE Nowhere
<1>1. decisions' = decisions
  BY DEF Rebuild, Truncate, LoadDecisions, WriteAliases, Resolve, RebuildDies, Candidates, Score,
         vars, tables
<1>2. Closure' = Closure  BY <1>1, SameMerges DEF Merges
<1>3. rebuild = [pc |-> rebuild.pc, losers |-> rebuild.losers, closure |-> rebuild.closure]
  BY DEF ReviewInv, Shapes
<1>4. Nowhere' = Nowhere  BY DEF Nowhere
<1>5. CASE Truncate
  <2>1. rebuild.pc = "off" /\ rebuild'.pc = "load"  BY <1>3, <1>5 DEF Truncate
  <2>2. filed' = filed /\ ~Filing'  BY <1>4, <2>1 DEF Filing
  <2>3. Classes!Withdraw  BY <1>2, <1>5, <2>2 DEF Truncate, Nowhere, Classes!Withdraw, Classes!Nothing
  <2> QED  BY <2>2, <2>3 DEF FiledByKeys, Classes!Next
<1>6. CASE LoadDecisions
  <2>1. rebuild.pc = "load" /\ rebuild'.pc = "records" /\ rebuild'.closure = Closure /\ home' = home
    BY <1>6 DEF LoadDecisions, tables
  <2>2. home = Nowhere  BY <2>1 DEF ReviewInv, RebuildFollows
  <2>3. filed' = Closure /\ Filing'  BY <2>1 DEF Filing
  <2>4. Classes!Open  BY <1>2, <2>1, <2>2, <2>3 DEF Nowhere, Classes!Open, Classes!Nothing
  <2>5. Closure \in [Key -> Key]  BY ClosureIs DEF ReviewInv
  <2> QED  BY <2>1, <2>4, <2>5 DEF FiledByKeys, Classes!Next
<1>7. ASSUME NEW k \in Key, Resolve(k)
      PROVE  FiledByKeys' /\ [Classes!Next]_(Classes!vars)
  <2>1. /\ rebuild.pc = "records" /\ home[k] = NoKey
        /\ home' = [home EXCEPT ![k] = rebuild.closure[k]]
    BY <1>7 DEF Resolve
  <2>2. rebuild'.closure = rebuild.closure /\ rebuild'.pc \in {"records", "aliases"}
    BY <1>3, <1>7 DEF Resolve
  <2>3. Filing /\ Filing' /\ filed = rebuild.closure /\ filed' = filed  BY <2>1, <2>2 DEF Filing
  <2>4. rebuild.closure[k] # NoKey
    <3>1. rebuild.closure[k] \in Key  BY <2>3 DEF FiledByKeys
    <3> QED  BY <3>1, ReviewAssumption DEF Key, NoKey
  <2>5. Classes!Show(k)  BY <1>2, <2>1, <2>3, <2>4 DEF Classes!Show
  <2>6. FiledByKeys'  BY <2>2, <2>3 DEF FiledByKeys
  <2> QED  BY <2>5, <2>6 DEF Classes!Next
<1>8. CASE WriteAliases \/ RebuildDies
  <2>1. rebuild'.pc = "off" /\ home' = home
    BY <1>8 DEF WriteAliases, RebuildDies, NoRebuild, tables
  <2>2. filed' = Nowhere /\ ~Filing'  BY <1>4, <2>1 DEF Filing
  <2>3. Classes!Close  BY <1>2, <2>1, <2>2 DEF Nowhere, Classes!Close, Classes!Nothing
  <2> QED  BY <2>2, <2>3 DEF FiledByKeys, Classes!Next
<1>9. CASE Candidates \/ Score \/ UNCHANGED vars
  <2>1. rebuild' = rebuild /\ home' = home
    BY <1>9 DEF Candidates, Score, vars, tables
  <2>2. filed' = filed /\ Filing' = Filing  BY <1>4, <2>1 DEF Filing
  <2>3. FiledByKeys'  BY <2>1, <2>2 DEF FiledByKeys
  <2> QED  BY <1>2, <2>1, <2>2, <2>3 DEF Classes!vars
<1> QED  BY <1>5, <1>6, <1>7, <1>8, <1>9 DEF Rebuild

(***************************************************************************)
(* The review, the replay and the rebuilds implement a partition of the    *)
(* names that is united class by class, for any number of reviewers who    *)
(* swap winners and decide during rebuilds; only a cycle of merges takes a *)
(* class apart, and no other class with it.                                *)
(***************************************************************************)
THEOREM ReviewIsAPartition == Spec => ImplementsClasses
<1>1. Init => Classes!Init /\ FiledByKeys
  <2> SUFFICES ASSUME Init PROVE Classes!Init /\ FiledByKeys  OBVIOUS
  <2>1. MergedAway = {}  BY DEF Init, MergedAway, Merges
  <2>2. home = [k \in Key |-> k] /\ ~Filing  BY DEF Init, Itself, NoRebuild, Filing
  <2>3. Shapes  BY ReviewInit DEF ReviewInv
  <2>4. \A k \in Key : Closure[k] = k
    <3> TAKE k \in Key
    <3>1. Up \in [Key -> Key] /\ Up[k] = k  BY <2>1, <2>3, UpIs
    <3>2. Chain(Up, k)[0] = k  BY <3>1, ChainSteps
    <3>3. 0 \in 0..Keys  BY KeysAre
    <3>4. Follow(Up)[k] = k  BY <3>1, <3>2, <3>3, EndsThere
    <3> QED  BY <3>4 DEF Closure
  <2>5. Closure = [k \in Key |-> k]  BY <2>3, <2>4, ClosureIs
  <2> QED  BY <2>2, <2>5 DEF Classes!Init, Classes!Nothing, Nowhere, FiledByKeys
<1>2. Shapes => Closure \in [Key -> Key]  BY ClosureIs
<1>3. /\ ReviewInv /\ FiledByKeys /\ [Next]_vars /\ ReviewInv' /\ (Closure \in [Key -> Key])'
      => FiledByKeys' /\ [Classes!Next]_(Classes!vars)
  <2> SUFFICES ASSUME ReviewInv, FiledByKeys, [Next]_vars, ReviewInv', Closure' \in [Key -> Key]
               PROVE  FiledByKeys' /\ [Classes!Next]_(Classes!vars)
    OBVIOUS
  <2>1. CASE \E s \in Session : Review(s)
    <3>1. PICK s \in Session : Review(s)  BY <2>1
    <3>2. home' = home /\ rebuild' = rebuild  BY <3>1, ReviewMerges
    <3>3. FiledByKeys'  BY <3>2 DEF FiledByKeys, Filing
    <3>4. (IF Filing THEN rebuild.closure ELSE Nowhere)' = IF Filing THEN rebuild.closure ELSE Nowhere
      BY <3>2 DEF Filing, Nowhere
    <3>5. CASE Closure' = Closure  BY <3>2, <3>3, <3>4, <3>5 DEF Classes!vars
    <3>6. CASE Closure' # Closure
      <4>1. PICK l \in Key, w \in Key : Decided(l, w)  BY <3>1, <3>6, ReviewMerges, SameMerges
      <4>2. Classes!Unite  BY <3>2, <3>6, <4>1, MergeUnites DEF ReviewInv
      <4> QED  BY <3>3, <4>2 DEF Classes!Next
    <3> QED  BY <3>5, <3>6
  <2>2. CASE ~(\E s \in Session : Review(s))  BY <2>2, RebuildFiles DEF Next
  <2> QED  BY <2>1, <2>2
<1>4. ReviewInv => Closure \in [Key -> Key]  BY <1>2 DEF ReviewInv
<1> QED  BY <1>1, <1>3, <1>4, ReviewIsSound, PTL DEF Spec, ImplementsClasses, Classes!Spec
=============================================================================
