----------------------- MODULE ModelLifecycle_proofs -----------------------
(***************************************************************************)
(* Theorems about ModelLifecycle for any terminals, versions, pairs and    *)
(* corpora, any number of commands, rounds and crashes.                    *)
(***************************************************************************)
EXTENDS ModelLifecycle, WellFoundedInduction, TLAPS

-----------------------------------------------------------------------------
(***************************************************************************)
(* Part 1, whatever runs at once.  A registered version has an artifact,   *)
(* and what a command carries fits together.                               *)
(***************************************************************************)
Registered == \A v \in Version : registry[v] # NoRow => artifact[v] # NoFile

FileFits(v) ==
  artifact[v] # NoFile /\ artifact[v].platt # NoPlatt => artifact[v].platt.of = artifact[v].model

ScoresFit(v) ==
  \A p \in Pair : preds[v][p] # NoScore =>
    IF preds[v][p].platt = NoPlatt THEN p \in Gold2
                                   ELSE preds[v][p].platt.of = preds[v][p].model

LocalFits(c) ==
  /\ c.op \in {"calibrate", "evaluate", "score"} => registry[c.v] # NoRow
  /\ c.op \in {"train", "calibrate", "fit"} /\ c.pc = "commit" => artifact[c.v] # NoFile
  /\ c.op = "calibrate" /\ c.pc = "commit" => c.platt.of = c.model
  /\ c.op = "score" => c.with.platt # NoPlatt /\ c.with.platt.of = c.with.model
  /\ c.op = "fit" /\ c.pc = "commit" => c.with.platt # NoPlatt

FitInv ==
  /\ TypeOK
  /\ Registered
  /\ \A v \in Version : FileFits(v) /\ ScoresFit(v)
  /\ \A t \in Terminal : LocalFits(cmd[t])

-----------------------------------------------------------------------------
(***************************************************************************)
(* Part 2, as long as no two commands have run at once.  What the one that *)
(* runs has read of its version is still so.                               *)
(***************************************************************************)
LocalCalm(c) ==
  /\ \/ c.op \in {"calibrate", "fit"}
     \/ c.op = "train" /\ (c.pc = "fit" => c.persist)
     => ~Frozen(c.v)
  /\ c.op = "train" /\ c.pc = "commit" => artifact[c.v].platt = NoPlatt
  /\ c.op = "calibrate" /\ c.pc = "commit" =>
       artifact[c.v].model = c.model /\ artifact[c.v].platt = c.platt
  /\ c.op = "fit" /\ c.pc = "commit" => artifact[c.v] = c.with
  /\ c.op = "evaluate" =>
       /\ c.frozen = Frozen(c.v)
       /\ c.read = [p \in {q \in Bench : preds[c.v][q] # NoScore} |-> preds[c.v][p]]
  /\ c.op = "score" =>
       /\ c.with = artifact[c.v]
       /\ c.v \notin rescored => \A p \in c.todo : preds[c.v][p] = NoScore

\* A command has written v's file and is about to commit its rows.
Committing(v) == \E t \in Terminal : Go(t, "commit") /\ cmd[t].v = v

\* The held-out predictions of a version that can still be evaluated come
\* from its artifact, unless a command has died half way.
Aligned(v) ==
  v \notin torn /\ ~Frozen(v) /\ ~Committing(v) /\ artifact[v] # NoFile /\ artifact[v].platt # NoPlatt
    => \A p \in Bench : preds[v][p] # NoScore =>
         preds[v][p].model = artifact[v].model /\ preds[v][p].platt = artifact[v].platt

ReportStands(v) ==
  Frozen(v) /\ registry[v].how = "evaluate" /\ v \notin rescored =>
    \A p \in DOMAIN registry[v].report : preds[v][p] = registry[v].report[p]

FileReported(v) ==
  Frozen(v) /\ v \notin torn /\ artifact[v].platt # NoPlatt =>
    \A p \in DOMAIN registry[v].report :
      /\ registry[v].report[p].model = artifact[v].model
      /\ registry[v].report[p].platt = artifact[v].platt

Calm ==
  /\ \A t, u \in Terminal : cmd[t] # Off /\ cmd[u] # Off => t = u
  /\ \A t \in Terminal : LocalCalm(cmd[t])
  /\ \A v \in Version : Aligned(v) /\ ReportStands(v) /\ FileReported(v)

CalmInv == FitInv /\ (~overlapped => Calm)

-----------------------------------------------------------------------------
(***************************************************************************)
(* What is in the locals of a command.                                     *)
(***************************************************************************)
LEMMA LocalsShape ==
  ASSUME NEW c \in Locals
  PROVE  /\ c.op \in {"off", "export", "train", "calibrate", "score", "evaluate", "fit"}
         /\ c.op = "off" => c = Off
         /\ c.op = "export" => c.pc = "register" /\ c.round \in Round
         /\ c.op \in {"train", "calibrate", "score", "evaluate", "fit"} => c.v \in Version
         /\ c.op = "train" /\ c.pc = "commit" => c.model \in Model /\ c.feat \in 1..MaxFeat
         /\ c.op = "calibrate" => c.model \in Model
         /\ c.op = "calibrate" /\ c.pc = "commit" => c.platt \in Platt
         /\ c.op = "score" => /\ c.pc = "batch" /\ c.with \in Artifact
                              /\ c.feat \in 1..MaxFeat /\ c.todo \subseteq Pair
         /\ c.op = "evaluate" => c.pc = "report" /\ c.frozen \in BOOLEAN /\ c.read \in Report
         /\ c.op = "fit" /\ c.pc = "commit" => c.with \in Artifact
         /\ c.op \in {"train", "calibrate", "fit"} => c.pc \in {"fit", "commit"}
         /\ c.op = "score" =>
              c = [op |-> "score", pc |-> "batch", v |-> c.v, with |-> c.with, feat |-> c.feat,
                   todo |-> c.todo]
  <1>1. CASE c = Off
    BY <1>1 DEF Off
  <1>2. CASE c \in [op : {"export"}, pc : {"register"}, round : Round]
    BY <1>2
  <1>3. CASE c \in [op : {"train"}, pc : {"fit"}, v : Version, persist : BOOLEAN]
    BY <1>3
  <1>4. CASE c \in [op : {"train"}, pc : {"commit"}, v : Version, model : Model, feat : 1..MaxFeat]
    BY <1>4
  <1>5. CASE c \in [op : {"calibrate"}, pc : {"fit"}, v : Version, model : Model]
    BY <1>5
  <1>6. CASE c \in [op : {"calibrate"}, pc : {"commit"}, v : Version, model : Model, platt : Platt]
    BY <1>6
  <1>7. CASE c \in [op : {"score"}, pc : {"batch"}, v : Version, with : Artifact, feat : 1..MaxFeat,
                    todo : SUBSET Pair]
    BY <1>7
  <1>8. CASE c \in [op : {"evaluate"}, pc : {"report"}, v : Version, frozen : BOOLEAN, read : Report]
    BY <1>8
  <1>9. CASE c \in [op : {"fit"}, pc : {"fit"}, v : Version]
    BY <1>9
  <1>10. CASE c \in [op : {"fit"}, pc : {"commit"}, v : Version, with : Artifact]
    BY <1>10
  <1> QED
    BY <1>1, <1>2, <1>3, <1>4, <1>5, <1>6, <1>7, <1>8, <1>9, <1>10 DEF Locals

StoreOK ==
  /\ feat \in 1..MaxFeat
  /\ decided \subseteq Pair /\ file \in [Round -> SUBSET Pair] /\ components \in Seq(Round)
  /\ registry \in [Version -> Row \cup {NoRow}]
  /\ artifact \in [Version -> Artifact \cup {NoFile}]
  /\ preds \in [Version -> [Pair -> Score \cup {NoScore}]]
  /\ overlapped \in BOOLEAN /\ torn \subseteq Version /\ rescored \subseteq Version
  /\ left \in [commands : 0..MaxCommands, crashes : 0..MaxCrashes]

VersionCalm(v) == Aligned(v) /\ ReportStands(v) /\ FileReported(v)

-----------------------------------------------------------------------------
(***************************************************************************)
(* Frames: what a step has to show when it only moves the command of t.    *)
(***************************************************************************)
LEMMA OffIsCalm == ASSUME NEW t \in Terminal, cmd[t] = Off
                   PROVE  LocalFits(cmd[t]) /\ LocalCalm(cmd[t])
  BY DEF Off, LocalFits, LocalCalm

LEMMA OneCommandFits ==
  ASSUME FitInv, NEW t \in Terminal, cmd' = [cmd EXCEPT ![t] = cmd'[t]], cmd'[t] \in Locals,
         StoreOK', LocalFits(cmd[t])', Registered',
         \A v \in Version : registry[v] # NoRow => registry'[v] # NoRow,
         \A v \in Version : artifact[v] # NoFile => artifact'[v] # NoFile,
         \A v \in Version : (FileFits(v) /\ ScoresFit(v))'
  PROVE  FitInv'
  <1>1. cmd \in [Terminal -> Locals] /\ \A u \in Terminal : LocalFits(cmd[u])
    BY DEF FitInv, TypeOK
  <1>2. cmd' \in [Terminal -> Locals] /\ \A u \in Terminal \ {t} : cmd'[u] = cmd[u]
    BY <1>1
  <1>3. TypeOK'
    BY <1>2 DEF TypeOK, StoreOK
  <1>4. ASSUME NEW u \in Terminal, u # t PROVE LocalFits(cmd[u])'
    <2>1. cmd'[u] = cmd[u] /\ cmd[u] \in Locals /\ LocalFits(cmd[u])
      BY <1>1, <1>2, <1>4
    <2>2. cmd[u].op \in {"train", "calibrate", "score", "evaluate", "fit"} => cmd[u].v \in Version
      BY <2>1, LocalsShape
    <2> QED
      BY <2>1, <2>2 DEF LocalFits
  <1>5. \A u \in Terminal : LocalFits(cmd[u])'
    BY <1>4
  <1> QED
    BY <1>3, <1>5 DEF FitInv

LEMMA OneCommandCalm ==
  ASSUME FitInv, Calm, NEW t \in Terminal, cmd' = [cmd EXCEPT ![t] = cmd'[t]],
         \A u \in Terminal \ {t} : cmd[u] = Off,
         LocalCalm(cmd[t])', \A v \in Version : VersionCalm(v)'
  PROVE  Calm'
  <1>1. \A u \in Terminal \ {t} : cmd'[u] = Off
    BY DEF FitInv, TypeOK
  <1>2. \A u \in Terminal : LocalCalm(cmd[u])'
    <2> SUFFICES ASSUME NEW u \in Terminal, u # t PROVE LocalCalm(cmd[u])'
      OBVIOUS
    <2>1. cmd'[u] = Off
      BY <1>1
    <2> QED
      BY <2>1 DEF Off, LocalCalm
  <1> QED
    BY <1>1, <1>2 DEF Calm, VersionCalm

\* Nothing a version's part of Calm looks at changes.
LEMMA VersionKept ==
  ASSUME NEW v \in Version, VersionCalm(v),
         registry'[v] = registry[v], artifact'[v] = artifact[v], preds'[v] = preds[v],
         v \in rescored => v \in rescored', v \in torn => v \in torn',
         Committing(v) => Committing(v)' \/ v \in torn'
  PROVE  VersionCalm(v)'
  <1>1. Aligned(v)'
    BY DEF VersionCalm, Aligned, Frozen
  <1>2. ReportStands(v)' /\ FileReported(v)'
    BY DEF VersionCalm, ReportStands, FileReported, Frozen
  <1> QED
    BY <1>1, <1>2 DEF VersionCalm

\* The store stays, and no command moves.
LEMMA NothingMoves ==
  ASSUME CalmInv, StoreOK', UNCHANGED <<store, cmd, torn, rescored, overlapped>>
  PROVE  CalmInv'
  <1>0. /\ registry' = registry /\ artifact' = artifact /\ preds' = preds /\ cmd' = cmd
        /\ torn' = torn /\ rescored' = rescored /\ overlapped' = overlapped
    BY DEF store
  <1>1. TypeOK'
    BY <1>0 DEF CalmInv, FitInv, TypeOK, StoreOK
  <1>2. Registered' /\ (\A v \in Version : (FileFits(v) /\ ScoresFit(v))')
    BY <1>0 DEF CalmInv, FitInv, Registered, FileFits, ScoresFit
  <1>3. \A t \in Terminal : LocalFits(cmd[t])'
    BY <1>0 DEF CalmInv, FitInv, LocalFits
  <1>4. ASSUME ~overlapped PROVE Calm'
    <2>1. \A t \in Terminal : LocalCalm(cmd[t])'
      BY <1>0, <1>4 DEF CalmInv, Calm, LocalCalm, Frozen
    <2>2. \A v \in Version : VersionCalm(v) /\ (Committing(v) => Committing(v)')
      BY <1>0, <1>4 DEF CalmInv, Calm, VersionCalm, Committing, Go
    <2>3. \A v \in Version : VersionCalm(v)'
      BY <1>0, <2>2, VersionKept
    <2> QED
      BY <1>0, <1>4, <2>1, <2>3 DEF CalmInv, Calm, VersionCalm
  <1> QED
    BY <1>0, <1>1, <1>2, <1>3, <1>4 DEF CalmInv, FitInv

\* A command begins; what it has read fits.
LEMMA CommandBegins ==
  ASSUME CalmInv, NEW t \in Terminal, cmd[t] = Off, cmd' = [cmd EXCEPT ![t] = cmd'[t]],
         overlapped' = (overlapped \/ \E u \in Terminal \ {t} : cmd[u] # Off),
         UNCHANGED <<store, torn>>, rescored \subseteq rescored', StoreOK',
         cmd'[t] \in Locals, cmd'[t].pc # "commit", LocalFits(cmd[t])',
         LocalCalm(cmd[t])'
  PROVE  CalmInv'
  <1>1. FitInv'
    <2>1. FitInv /\ registry' = registry /\ artifact' = artifact /\ preds' = preds
      BY DEF CalmInv, store
    <2>2. Registered' /\ \A v \in Version : (FileFits(v) /\ ScoresFit(v))'
      BY <2>1 DEF FitInv, Registered, FileFits, ScoresFit
    <2> QED
      BY <2>1, <2>2, OneCommandFits
  <1>2. ASSUME ~overlapped' PROVE Calm'
    <2>1. FitInv /\ Calm /\ \A u \in Terminal \ {t} : cmd[u] = Off
      BY <1>2 DEF CalmInv
    <2>2. ASSUME NEW v \in Version PROVE VersionCalm(v)'
      <3>1. ~Committing(v)
        BY <2>1 DEF Committing, Go, Off
      <3>2. VersionCalm(v)
        BY <2>1 DEF Calm, VersionCalm
      <3> QED
        BY <3>1, <3>2, VersionKept DEF store
    <2> QED
      BY <2>1, <2>2, OneCommandCalm
  <1> QED
    BY <1>1, <1>2 DEF CalmInv

\* The command of t is the only one that can be committing.
LEMMA OthersIdle ==
  ASSUME CalmInv, ~overlapped, NEW t \in Terminal, cmd[t] # Off
  PROVE  /\ \A u \in Terminal \ {t} : cmd[u] = Off
         /\ LocalCalm(cmd[t])
         /\ \A v \in Version : VersionCalm(v) /\ (Committing(v) => Go(t, "commit") /\ cmd[t].v = v)
  <1>1. \A u \in Terminal \ {t} : cmd[u] = Off
    BY DEF CalmInv, Calm
  <1>2. \A v \in Version : Committing(v) => Go(t, "commit") /\ cmd[t].v = v
    BY <1>1 DEF Committing, Go, Off
  <1> QED
    BY <1>1, <1>2 DEF CalmInv, Calm, VersionCalm

(***************************************************************************)
(* A step of the command of t that only touches its version.               *)
(***************************************************************************)
LEMMA CommandActs ==
  ASSUME CalmInv, NEW t \in Terminal, NEW v \in Version,
         cmd[t].op \notin {"off", "export"}, cmd[t].v = v,
         cmd' = [cmd EXCEPT ![t] = cmd'[t]], cmd'[t] \in Locals, LocalFits(cmd[t])',
         overlapped' = overlapped, rescored' = rescored, StoreOK',
         \A w \in Version \ {v} : /\ registry'[w] = registry[w] /\ artifact'[w] = artifact[w]
                                  /\ preds'[w] = preds[w]
                                  /\ w \in torn => w \in torn',
         registry[v] # NoRow => registry'[v] # NoRow,
         artifact[v] # NoFile => artifact'[v] # NoFile,
         registry'[v] # NoRow => artifact'[v] # NoFile,
         FileFits(v)', ScoresFit(v)',
         ~overlapped /\ LocalCalm(cmd[t]) /\ VersionCalm(v) => LocalCalm(cmd[t])' /\ VersionCalm(v)'
  PROVE  CalmInv'
  <1>1. FitInv'
    <2>1. FitInv
      BY DEF CalmInv
    <2>2. Registered' /\ \A w \in Version : (FileFits(w) /\ ScoresFit(w))'
      <3> SUFFICES ASSUME NEW w \in Version
                   PROVE  (registry'[w] # NoRow => artifact'[w] # NoFile) /\ (FileFits(w) /\ ScoresFit(w))'
        BY DEF Registered
      <3>1. CASE w = v
        BY <3>1
      <3>2. CASE w # v
        BY <2>1, <3>2 DEF FitInv, Registered, FileFits, ScoresFit
      <3> QED
        BY <3>1, <3>2
    <2>3. /\ \A w \in Version : registry[w] # NoRow => registry'[w] # NoRow
          /\ \A w \in Version : artifact[w] # NoFile => artifact'[w] # NoFile
      OBVIOUS
    <2> QED
      BY <2>1, <2>2, <2>3, OneCommandFits
  <1>2. ASSUME ~overlapped' PROVE Calm'
    <2>1. cmd[t] # Off
      BY DEF Off
    <2>2. /\ \A u \in Terminal \ {t} : cmd[u] = Off
          /\ LocalCalm(cmd[t])
          /\ \A w \in Version : VersionCalm(w) /\ (Committing(w) => Go(t, "commit") /\ cmd[t].v = w)
      BY <1>2, <2>1, OthersIdle
    <2>3. LocalCalm(cmd[t])' /\ VersionCalm(v)'
      BY <1>2, <2>2
    <2>4. ASSUME NEW w \in Version, w # v PROVE VersionCalm(w)'
      <3>1. ~Committing(w)
        BY <2>2, <2>4
      <3> QED
        BY <2>2, <2>4, <3>1, VersionKept
    <2>5. FitInv /\ Calm
      BY <1>2 DEF CalmInv
    <2> QED
      BY <2>2, <2>3, <2>4, <2>5, OneCommandCalm
  <1> QED
    BY <1>1, <1>2 DEF CalmInv

(***************************************************************************)
(* A command ends without a last change of the store, or dies.             *)
(***************************************************************************)
LEMMA CommandEnds ==
  ASSUME CalmInv, NEW t \in Terminal, cmd[t].op # "off", End(t), StoreOK',
         UNCHANGED <<store, overlapped, rescored>>, torn \subseteq torn',
         Go(t, "commit") => cmd[t].v \in torn'
  PROVE  CalmInv'
  <1>0. /\ registry' = registry /\ artifact' = artifact /\ preds' = preds
        /\ cmd \in [Terminal -> Locals] /\ FitInv
    BY DEF store, CalmInv, FitInv, TypeOK
  <1>1. cmd'[t] = Off /\ cmd' = [cmd EXCEPT ![t] = cmd'[t]] /\ cmd'[t] \in Locals
    BY <1>0 DEF End, Locals
  <1>2. LocalFits(cmd[t])' /\ LocalCalm(cmd[t])'
    BY <1>1 DEF Off, LocalFits, LocalCalm
  <1>3. FitInv'
    <2>1. Registered' /\ \A v \in Version : (FileFits(v) /\ ScoresFit(v))'
      BY <1>0 DEF FitInv, Registered, FileFits, ScoresFit
    <2> QED
      BY <1>0, <1>1, <1>2, <2>1, OneCommandFits
  <1>4. ASSUME ~overlapped' PROVE Calm'
    <2>1. cmd[t] # Off /\ ~overlapped
      BY <1>4 DEF Off
    <2>2. /\ \A u \in Terminal \ {t} : cmd[u] = Off
          /\ \A w \in Version : VersionCalm(w) /\ (Committing(w) => Go(t, "commit") /\ cmd[t].v = w)
      BY <2>1, OthersIdle
    <2>3. \A w \in Version : VersionCalm(w)'
      BY <1>0, <2>2, VersionKept
    <2>4. Calm
      BY <2>1 DEF CalmInv
    <2> QED
      BY <1>0, <1>1, <1>2, <2>2, <2>3, <2>4, OneCommandCalm
  <1> QED
    BY <1>3, <1>4 DEF CalmInv

-----------------------------------------------------------------------------
(***************************************************************************)
(* The commands' first steps.                                              *)
(***************************************************************************)
LEMMA StoreIsOK == CalmInv => StoreOK /\ cmd \in [Terminal -> Locals]
  BY DEF CalmInv, FitInv, TypeOK, StoreOK

LEMMA BeginShape ==
  ASSUME CalmInv, NEW t \in Terminal, NEW c \in Locals, Begin(t, c)
  PROVE  /\ cmd[t] = Off /\ cmd'[t] = c /\ cmd' = [cmd EXCEPT ![t] = cmd'[t]]
         /\ overlapped' = (overlapped \/ \E u \in Terminal \ {t} : cmd[u] # Off)
         /\ overlapped' \in BOOLEAN
         /\ left' \in [commands : 0..MaxCommands, crashes : 0..MaxCrashes]
  <1>1. StoreOK /\ cmd \in [Terminal -> Locals]
    BY StoreIsOK
  <1>2. left.commands \in 0..MaxCommands /\ left.crashes \in 0..MaxCrashes /\ left.commands > 0
        /\ left' = [left EXCEPT !.commands = left.commands - 1]
    BY <1>1 DEF Begin, StoreOK
  <1>3. left.commands - 1 \in 0..MaxCommands
    BY <1>2, ModelsAssumption DEF ModelsAssumption
  <1>4. left' \in [commands : 0..MaxCommands, crashes : 0..MaxCrashes]
    BY <1>1, <1>2, <1>3 DEF StoreOK
  <1>5. overlapped' \in BOOLEAN
    BY DEF Begin
  <1> QED
    BY <1>1, <1>4, <1>5 DEF Begin

LEMMA WriteRoundStep ==
  ASSUME CalmInv, NEW t \in Terminal, NEW n \in Round, WriteRound(t, n)
  PROVE  CalmInv'
  <1> DEFINE c == [op |-> "export", pc |-> "register", round |-> n]
  <1>1. c \in Locals /\ c.op = "export" /\ c.pc = "register"
    BY DEF Locals
  <1>2. Begin(t, c) /\ UNCHANGED <<feat, decided, components, store, torn, rescored>>
        /\ file' = [file EXCEPT ![n] = decided \ Gold2]
    BY DEF WriteRound
  <1> HIDE DEF c
  <1>3. StoreOK'
    BY <1>1, <1>2, StoreIsOK, BeginShape DEF StoreOK, store
  <1>4. LocalFits(cmd[t])' /\ LocalCalm(cmd[t])'
    BY <1>1, <1>2, BeginShape DEF LocalFits, LocalCalm
  <1> QED
    BY <1>1, <1>2, <1>3, <1>4, BeginShape, CommandBegins

LEMMA StartTrainStep ==
  ASSUME CalmInv, NEW t \in Terminal, NEW v \in Version, NEW persist \in BOOLEAN,
         StartTrain(t, v, persist)
  PROVE  CalmInv'
  <1> DEFINE c == [op |-> "train", pc |-> "fit", v |-> v, persist |-> persist]
  <1>1. c \in Locals /\ c.op = "train" /\ c.pc = "fit" /\ c.v = v /\ c.persist = persist
    BY DEF Locals
  <1>2. Begin(t, c) /\ UNCHANGED <<feat, labels, store, torn, rescored>>
        /\ (persist => ~Frozen(v))
    BY DEF StartTrain
  <1> HIDE DEF c
  <1>3. StoreOK'
    BY <1>1, <1>2, StoreIsOK, BeginShape DEF StoreOK, store, labels
  <1>4. LocalFits(cmd[t])' /\ LocalCalm(cmd[t])'
    BY <1>1, <1>2, BeginShape DEF LocalFits, LocalCalm, Frozen, store
  <1> QED
    BY <1>1, <1>2, <1>3, <1>4, BeginShape, CommandBegins

LEMMA StartCalibrateStep ==
  ASSUME CalmInv, NEW t \in Terminal, NEW v \in Version, StartCalibrate(t, v)
  PROVE  CalmInv'
  <1> DEFINE c == [op |-> "calibrate", pc |-> "fit", v |-> v, model |-> artifact[v].model]
  <1>0. artifact[v] \in Artifact
    BY DEF StartCalibrate, CalmInv, FitInv, TypeOK, Registered
  <1>1. c \in Locals /\ c.op = "calibrate" /\ c.pc = "fit" /\ c.v = v
    BY <1>0 DEF Locals, Artifact
  <1>2. Begin(t, c) /\ UNCHANGED <<feat, labels, store, torn, rescored>>
        /\ registry[v] # NoRow /\ ~Frozen(v)
    BY DEF StartCalibrate
  <1> HIDE DEF c
  <1>3. StoreOK'
    BY <1>1, <1>2, StoreIsOK, BeginShape DEF StoreOK, store, labels
  <1>4. LocalFits(cmd[t])' /\ LocalCalm(cmd[t])'
    BY <1>1, <1>2, BeginShape DEF LocalFits, LocalCalm, Frozen, store
  <1> QED
    BY <1>1, <1>2, <1>3, <1>4, BeginShape, CommandBegins

LEMMA StartEvaluateStep ==
  ASSUME CalmInv, NEW t \in Terminal, NEW v \in Version, StartEvaluate(t, v)
  PROVE  CalmInv'
  <1> DEFINE r == [p \in {q \in Bench : preds[v][q] # NoScore} |-> preds[v][p]]
             c == [op |-> "evaluate", pc |-> "report", v |-> v, frozen |-> Frozen(v), read |-> r]
  <1>0. r \in Report
    <2>1. preds[v] \in [Pair -> Score \cup {NoScore}] /\ Bench \subseteq Pair
      BY ModelsAssumption DEF CalmInv, FitInv, TypeOK, ModelsAssumption
    <2> DEFINE S == {q \in Bench : preds[v][q] # NoScore}
    <2>2. r \in [S -> Score] /\ S \in SUBSET Bench
      BY <2>1
    <2> QED
      BY <2>2 DEF Report
  <1> HIDE DEF r
  <1>f. Frozen(v) \in BOOLEAN
    BY DEF Frozen
  <1>1. c \in Locals
    BY <1>0, <1>f DEF Locals
  <1>c. c.op = "evaluate" /\ c.pc = "report" /\ c.v = v /\ c.frozen = Frozen(v) /\ c.read = r
    OBVIOUS
  <1>2. Begin(t, c) /\ UNCHANGED <<feat, labels, store, torn, rescored>> /\ registry[v] # NoRow
    BY DEF StartEvaluate, r
  <1> HIDE DEF c
  <1>3. StoreOK'
    BY <1>1, <1>2, StoreIsOK, BeginShape DEF StoreOK, store, labels
  <1>4. LocalFits(cmd[t])'
    BY <1>1, <1>c, <1>2, BeginShape DEF LocalFits, store
  <1>5. LocalCalm(cmd[t])'
    <2>1. /\ cmd'[t].op = "evaluate" /\ cmd'[t].v = v
          /\ cmd'[t].frozen = Frozen(v)' /\ preds' = preds
          /\ cmd'[t].read = [p \in {q \in Bench : preds[v][q] # NoScore} |-> preds[v][p]]
      BY <1>1, <1>c, <1>2, BeginShape DEF Frozen, store, r
    <2> QED
      BY <2>1 DEF LocalCalm, Frozen
  <1> QED
    BY <1>1, <1>c, <1>2, <1>3, <1>4, <1>5, BeginShape, CommandBegins

LEMMA StartScoreStep ==
  ASSUME CalmInv, NEW t \in Terminal, NEW v \in Version, NEW rescore \in BOOLEAN,
         StartScore(t, v, rescore)
  PROVE  CalmInv'
  <1> DEFINE todo == IF rescore THEN Pair ELSE {p \in Pair : preds[v][p] = NoScore}
             c == [op |-> "score", pc |-> "batch", v |-> v, with |-> artifact[v], feat |-> feat,
                   todo |-> todo]
  <1>0. artifact[v] \in Artifact /\ feat \in 1..MaxFeat /\ todo \in SUBSET Pair
        /\ artifact[v].platt # NoPlatt /\ artifact[v].platt.of = artifact[v].model
    BY DEF StartScore, CalmInv, FitInv, TypeOK, Registered, FileFits
  <1>1. rescore \/ \A p \in todo : preds[v][p] = NoScore
    OBVIOUS
  <1> HIDE DEF todo
  <1>2. c \in Locals
    BY <1>0 DEF Locals
  <1>c. c.op = "score" /\ c.pc = "batch" /\ c.v = v /\ c.with = artifact[v] /\ c.todo = todo
    OBVIOUS
  <1>3. Begin(t, c) /\ UNCHANGED <<feat, labels, store, torn>> /\ registry[v] # NoRow
        /\ rescored' = IF rescore THEN rescored \cup {v} ELSE rescored
    BY DEF StartScore, todo
  <1> HIDE DEF c
  <1>4. StoreOK' /\ rescored \subseteq rescored'
    BY <1>2, <1>3, StoreIsOK, BeginShape DEF StoreOK, store, labels
  <1>5. LocalFits(cmd[t])' /\ LocalCalm(cmd[t])'
    BY <1>0, <1>1, <1>2, <1>c, <1>3, BeginShape DEF LocalFits, LocalCalm, store
  <1> QED
    BY <1>2, <1>c, <1>3, <1>4, <1>5, BeginShape, CommandBegins

LEMMA StartFitStep ==
  ASSUME CalmInv, NEW t \in Terminal, NEW v \in Version, StartFit(t, v)
  PROVE  CalmInv'
  <1> DEFINE c == [op |-> "fit", pc |-> "fit", v |-> v]
  <1>1. c \in Locals /\ c.op = "fit" /\ c.pc = "fit" /\ c.v = v
    BY DEF Locals
  <1>2. Begin(t, c) /\ UNCHANGED <<feat, labels, store, torn, rescored>> /\ ~Frozen(v)
    BY DEF StartFit
  <1> HIDE DEF c
  <1>3. StoreOK'
    BY <1>1, <1>2, StoreIsOK, BeginShape DEF StoreOK, store, labels
  <1>4. LocalFits(cmd[t])' /\ LocalCalm(cmd[t])'
    BY <1>1, <1>2, BeginShape DEF LocalFits, LocalCalm, Frozen, store
  <1> QED
    BY <1>1, <1>2, <1>3, <1>4, BeginShape, CommandBegins

LEMMA EndsStep ==
  ASSUME CalmInv, NEW t \in Terminal, RegisterRound(t) \/ EndScore(t) \/ Crash(t)
  PROVE  CalmInv'
  <1>0. StoreOK /\ cmd[t] \in Locals
    BY StoreIsOK
  <1>l. /\ cmd[t].op = "off" => cmd[t] = Off
        /\ cmd[t].op = "export" => cmd[t].pc = "register" /\ cmd[t].round \in Round
        /\ cmd[t].op \in {"train", "calibrate", "score", "evaluate", "fit"} => cmd[t].v \in Version
        /\ cmd[t].op \in {"off", "export", "train", "calibrate", "score", "evaluate", "fit"}
        /\ cmd[t].op = "score" => cmd[t].pc = "batch"
        /\ cmd[t].op = "evaluate" => cmd[t].pc = "report"
        /\ cmd[t].op \in {"train", "calibrate", "fit"} => cmd[t].pc \in {"fit", "commit"}
    BY <1>0, LocalsShape
  <1>1. CASE RegisterRound(t)
    <2>1. cmd[t].op = "export" /\ cmd[t].round \in Round /\ ~Go(t, "commit") /\ cmd[t].op # "off"
      BY <1>1, <1>l DEF RegisterRound, Go
    <2>2. components' \in Seq(Round)
      BY <1>0, <1>1, <2>1 DEF RegisterRound, StoreOK
    <2>3. StoreOK'
      BY <1>0, <1>1, <2>2 DEF RegisterRound, StoreOK, store
    <2> QED
      BY <1>1, <2>1, <2>3, CommandEnds DEF RegisterRound
  <1>2. CASE EndScore(t)
    <2>1. StoreOK' /\ cmd[t].op # "off" /\ ~Go(t, "commit")
      BY <1>0, <1>2 DEF EndScore, StoreOK, store, labels, Go
    <2> QED
      BY <1>2, <2>1, CommandEnds DEF EndScore
  <1>3. CASE Crash(t)
    <2>1. cmd[t].op # "off"
      BY <1>3, <1>l DEF Crash
    <2>2. Go(t, "commit") => cmd[t].v \in Version
      BY <1>l DEF Go
    <2>3. torn \subseteq torn' /\ torn' \subseteq Version /\ (Go(t, "commit") => cmd[t].v \in torn')
      BY <1>0, <1>3, <2>2 DEF Crash, StoreOK
    <2>4. left' \in [commands : 0..MaxCommands, crashes : 0..MaxCrashes]
      <3>1. left.crashes \in 0..MaxCrashes /\ left.crashes > 0
            /\ left' = [left EXCEPT !.crashes = left.crashes - 1]
        BY <1>0, <1>3 DEF Crash, StoreOK
      <3>2. left.crashes - 1 \in 0..MaxCrashes
        BY <3>1, ModelsAssumption DEF ModelsAssumption
      <3> QED
        BY <1>0, <3>1, <3>2 DEF StoreOK
    <2>5. StoreOK'
      BY <1>0, <1>3, <2>3, <2>4 DEF Crash, StoreOK, store, labels
    <2> QED
      BY <1>3, <2>1, <2>3, <2>5, CommandEnds DEF Crash
  <1> QED
    BY <1>1, <1>2, <1>3

-----------------------------------------------------------------------------
(***************************************************************************)
(* The commands at work.                                                   *)
(***************************************************************************)
LEMMA TrainFitStep ==
  ASSUME CalmInv, NEW t \in Terminal, NEW v \in Version, cmd[t].v = v, TrainFit(t)
  PROVE  CalmInv'
  <1> DEFINE m == [by |-> "train", feat |-> feat, gold |-> Gold2]
             a == [model |-> m, platt |-> NoPlatt]
             c == IF cmd[t].persist
                  THEN [op |-> "train", pc |-> "commit", v |-> v, model |-> m, feat |-> feat]
                  ELSE Off
  <1>0. StoreOK /\ cmd \in [Terminal -> Locals] /\ cmd[t] \in Locals
    BY StoreIsOK
  <1>1. v \in Version /\ cmd[t].op = "train" /\ cmd[t].pc = "fit" /\ feat \in 1..MaxFeat
    BY <1>0, LocalsShape DEF TrainFit, Go, StoreOK
  <1>2. m \in Model
    BY <1>1, ModelsAssumption DEF Model, ModelsAssumption
  <1>3. /\ artifact' = [artifact EXCEPT ![v] = a] /\ cmd' = [cmd EXCEPT ![t] = c]
        /\ UNCHANGED <<feat, labels, registry, preds, overlapped, torn, rescored, left>>
    BY DEF TrainFit, End
  <1> HIDE DEF m
  <1>4. a \in Artifact /\ a.platt = NoPlatt /\ a # NoFile
    BY <1>2, ModelsAssumption DEF Artifact, ModelsAssumption
  <1>5. /\ c \in Locals
        /\ c # Off => /\ c.op = "train" /\ c.pc = "commit" /\ c.v = v /\ cmd[t].persist
    BY <1>1, <1>2 DEF Locals
  <1>o. Off.op = "off"
    BY DEF Off
  <1> HIDE DEF a, c
  <1>6. /\ cmd'[t] = c /\ cmd' = [cmd EXCEPT ![t] = cmd'[t]]
        /\ artifact'[v] = a /\ \A w \in Version \ {v} : artifact'[w] = artifact[w]
    BY <1>0, <1>1, <1>3 DEF StoreOK
  <1>7. StoreOK'
    BY <1>0, <1>3, <1>4 DEF StoreOK, labels
  <1>8. FileFits(v)' /\ ScoresFit(v)'
    BY <1>1, <1>3, <1>4, <1>6 DEF FileFits, ScoresFit, CalmInv, FitInv
  <1>9. LocalFits(cmd[t])'
    BY <1>4, <1>5, <1>o, <1>6 DEF LocalFits
  <1>10. ASSUME LocalCalm(cmd[t]), VersionCalm(v) PROVE LocalCalm(cmd[t])' /\ VersionCalm(v)'
    <2>1. c # Off => ~Frozen(v)
      BY <1>1, <1>5, <1>10 DEF LocalCalm
    <2>2. LocalCalm(cmd[t])'
      BY <1>3, <1>4, <1>5, <1>o, <1>6, <2>1 DEF LocalCalm, Frozen
    <2>3. VersionCalm(v)'
      BY <1>3, <1>4, <1>6, <1>10 DEF VersionCalm, Aligned, ReportStands, FileReported, Frozen
    <2> QED
      BY <2>2, <2>3
  <1> QED
    BY <1>1, <1>3, <1>4, <1>5, <1>6, <1>7, <1>8, <1>9, <1>10, CommandActs

LEMMA CalibrateFitStep ==
  ASSUME CalmInv, NEW t \in Terminal, NEW v \in Version, cmd[t].v = v, CalibrateFit(t)
  PROVE  CalmInv'
  <1> DEFINE m == cmd[t].model
             platt == [of |-> m, feat |-> feat]
             a == [model |-> m, platt |-> platt]
             c == [op |-> "calibrate", pc |-> "commit", v |-> v, model |-> m, platt |-> platt]
  <1>0. StoreOK /\ cmd \in [Terminal -> Locals] /\ cmd[t] \in Locals
    BY StoreIsOK
  <1>1. /\ v \in Version /\ cmd[t].op = "calibrate" /\ cmd[t].pc = "fit" /\ feat \in 1..MaxFeat
        /\ m \in Model
    BY <1>0, LocalsShape DEF CalibrateFit, Go, StoreOK
  <1>2. registry[v] # NoRow
    BY <1>1 DEF CalmInv, FitInv, LocalFits
  <1>3. /\ artifact' = [artifact EXCEPT ![v] = a] /\ cmd' = [cmd EXCEPT ![t] = c]
        /\ UNCHANGED <<feat, labels, registry, preds, overlapped, torn, rescored, left>>
    BY DEF CalibrateFit
  <1>p. platt \in Platt /\ platt.of = m
    BY <1>1 DEF Platt
  <1> HIDE DEF platt, m
  <1>4. a \in Artifact /\ a.platt = platt /\ a.model = m /\ a # NoFile
    BY <1>1, <1>p, ModelsAssumption DEF Artifact, ModelsAssumption
  <1>5. /\ c \in Locals /\ c.op = "calibrate" /\ c.pc = "commit" /\ c.v = v
        /\ c.model = m /\ c.platt = platt
    BY <1>1, <1>p DEF Locals
  <1> HIDE DEF a, c
  <1>6. /\ cmd'[t] = c /\ cmd' = [cmd EXCEPT ![t] = cmd'[t]]
        /\ artifact'[v] = a /\ \A w \in Version \ {v} : artifact'[w] = artifact[w]
    BY <1>0, <1>1, <1>3 DEF StoreOK
  <1>7. StoreOK'
    BY <1>0, <1>3, <1>4 DEF StoreOK, labels
  <1>8. FileFits(v)' /\ ScoresFit(v)'
    BY <1>1, <1>3, <1>4, <1>p, <1>6 DEF FileFits, ScoresFit, CalmInv, FitInv
  <1>9. LocalFits(cmd[t])'
    BY <1>2, <1>3, <1>p, <1>4, <1>5, <1>6 DEF LocalFits
  <1>10. ASSUME LocalCalm(cmd[t]), VersionCalm(v) PROVE LocalCalm(cmd[t])' /\ VersionCalm(v)'
    <2>1. ~Frozen(v)
      BY <1>1, <1>10 DEF LocalCalm
    <2>2. LocalCalm(cmd[t])'
      BY <1>3, <1>4, <1>5, <1>6, <2>1 DEF LocalCalm, Frozen
    <2>3. Committing(v)'
      BY <1>5, <1>6 DEF Committing, Go
    <2>4. VersionCalm(v)'
      BY <1>3, <2>1, <2>3 DEF VersionCalm, Aligned, ReportStands, FileReported, Frozen
    <2> QED
      BY <2>2, <2>4
  <1> QED
    BY <1>1, <1>3, <1>4, <1>5, <1>6, <1>7, <1>8, <1>9, <1>10, CommandActs

LEMMA FitFitStep ==
  ASSUME CalmInv, NEW t \in Terminal, NEW v \in Version, cmd[t].v = v, FitFit(t)
  PROVE  CalmInv'
  <1> DEFINE m == [by |-> "fit", feat |-> feat, gold |-> Gold3]
             platt == [of |-> m, feat |-> feat]
             a == [model |-> m, platt |-> platt]
             c == [op |-> "fit", pc |-> "commit", v |-> v, with |-> a]
  <1>0. StoreOK /\ cmd \in [Terminal -> Locals] /\ cmd[t] \in Locals
    BY StoreIsOK
  <1>1. v \in Version /\ cmd[t].op = "fit" /\ cmd[t].pc = "fit" /\ feat \in 1..MaxFeat
    BY <1>0, LocalsShape DEF FitFit, Go, StoreOK
  <1>2. m \in Model
    BY <1>1, ModelsAssumption DEF Model, ModelsAssumption, Gold3
  <1>3. /\ artifact' = [artifact EXCEPT ![v] = a] /\ cmd' = [cmd EXCEPT ![t] = c]
        /\ UNCHANGED <<feat, labels, registry, preds, overlapped, torn, rescored, left>>
    BY DEF FitFit
  <1> HIDE DEF m
  <1>p. platt \in Platt /\ platt.of = m
    BY <1>1, <1>2 DEF Platt
  <1> HIDE DEF platt
  <1>4. a \in Artifact /\ a.platt = platt /\ a.model = m /\ a # NoFile
    BY <1>2, <1>p, ModelsAssumption DEF Artifact, ModelsAssumption
  <1> HIDE DEF a
  <1>5. c \in Locals /\ c.op = "fit" /\ c.pc = "commit" /\ c.v = v /\ c.with = a
    BY <1>1, <1>4 DEF Locals
  <1> HIDE DEF c
  <1>6. /\ cmd'[t] = c /\ cmd' = [cmd EXCEPT ![t] = cmd'[t]]
        /\ artifact'[v] = a /\ \A w \in Version \ {v} : artifact'[w] = artifact[w]
    BY <1>0, <1>1, <1>3 DEF StoreOK
  <1>7. StoreOK'
    BY <1>0, <1>3, <1>4 DEF StoreOK, labels
  <1>8. FileFits(v)' /\ ScoresFit(v)'
    BY <1>1, <1>3, <1>4, <1>p, <1>6 DEF FileFits, ScoresFit, CalmInv, FitInv
  <1>9. LocalFits(cmd[t])'
    BY <1>4, <1>p, <1>5, <1>6, ModelsAssumption DEF LocalFits, ModelsAssumption
  <1>10. ASSUME LocalCalm(cmd[t]), VersionCalm(v) PROVE LocalCalm(cmd[t])' /\ VersionCalm(v)'
    <2>1. ~Frozen(v)
      BY <1>1, <1>10 DEF LocalCalm
    <2>2. LocalCalm(cmd[t])'
      BY <1>3, <1>5, <1>6, <2>1 DEF LocalCalm, Frozen
    <2>3. Committing(v)'
      BY <1>5, <1>6 DEF Committing, Go
    <2>4. VersionCalm(v)'
      BY <1>3, <2>1, <2>3 DEF VersionCalm, Aligned, ReportStands, FileReported, Frozen
    <2> QED
      BY <2>2, <2>4
  <1> QED
    BY <1>1, <1>3, <1>4, <1>5, <1>6, <1>7, <1>8, <1>9, <1>10, CommandActs

(***************************************************************************)
(* The predictions after Supersede: the held-out pairs and those for       *)
(* calibration, all of them labelled, have the new score.                  *)
(***************************************************************************)
LEMMA Superseded ==
  ASSUME CalmInv, NEW v \in Version, NEW m \in Model, NEW platt \in Platt \cup {NoPlatt},
         NEW f \in 1..MaxFeat, preds' = Supersede(v, m, platt, f)
  PROVE  /\ preds' \in [Version -> [Pair -> Score \cup {NoScore}]]
         /\ \A w \in Version \ {v} : preds'[w] = preds[w]
         /\ \A p \in Bench : preds'[v][p].model = m /\ preds'[v][p].platt = platt
         /\ platt = NoPlatt \/ platt.of = m => ScoresFit(v)'
  <1> DEFINE s == [model |-> m, platt |-> platt, feat |-> f]
             row == [p \in Pair |-> IF p \in Bench \cup Calib THEN s ELSE preds[v][p]]
  <1>1. preds \in [Version -> [Pair -> Score \cup {NoScore}]]
    BY DEF CalmInv, FitInv, TypeOK
  <1>2. s \in Score /\ s.model = m /\ s.platt = platt
    BY DEF Score
  <1>3. preds' = [preds EXCEPT ![v] = row]
    BY DEF Supersede
  <1>4. Bench \cup Calib \subseteq Gold2 /\ Gold2 \subseteq Pair /\ NoScore \notin Score
    BY ModelsAssumption DEF ModelsAssumption
  <1>5. \A p \in Pair : preds[v][p] # NoScore =>
          IF preds[v][p].platt = NoPlatt THEN p \in Gold2
                                         ELSE preds[v][p].platt.of = preds[v][p].model
    BY DEF CalmInv, FitInv, ScoresFit
  <1> HIDE DEF s
  <1>6. row \in [Pair -> Score \cup {NoScore}]
    BY <1>1, <1>2
  <1>7. \A p \in Bench : row[p] = s
    BY <1>4
  <1>8. \A p \in Pair : row[p] = IF p \in Bench \cup Calib THEN s ELSE preds[v][p]
    OBVIOUS
  <1> HIDE DEF row
  <1>9. preds'[v] = row /\ preds' \in [Version -> [Pair -> Score \cup {NoScore}]]
        /\ \A w \in Version \ {v} : preds'[w] = preds[w]
    BY <1>1, <1>3, <1>6
  <1>10. ASSUME platt = NoPlatt \/ platt.of = m PROVE ScoresFit(v)'
    <2> SUFFICES ASSUME NEW p \in Pair, row[p] # NoScore
                 PROVE  IF row[p].platt = NoPlatt THEN p \in Gold2
                                                  ELSE row[p].platt.of = row[p].model
      BY <1>9 DEF ScoresFit
    <2>1. CASE p \in Bench \cup Calib
      <3>1. row[p] = s /\ p \in Gold2
        BY <2>1, <1>4, <1>8
      <3> QED
        BY <1>2, <1>10, <3>1
    <2>2. CASE p \notin Bench \cup Calib
      <3>1. row[p] = preds[v][p]
        BY <2>2, <1>8
      <3> QED
        BY <1>5, <3>1
    <2> QED
      BY <2>1, <2>2
  <1> QED
    BY <1>2, <1>7, <1>9, <1>10

LEMMA TrainCommitStep ==
  ASSUME CalmInv, NEW t \in Terminal, NEW v \in Version, cmd[t].v = v, TrainCommit(t)
  PROVE  CalmInv'
  <1> DEFINE m == cmd[t].model
             r == IF registry[v] = NoRow
                  THEN [model |-> m, platt |-> NoPlatt, report |-> NoReport, how |-> "none"]
                  ELSE [registry[v] EXCEPT !.model = m]
  <1>0. StoreOK /\ cmd \in [Terminal -> Locals] /\ cmd[t] \in Locals
    BY StoreIsOK
  <1>1. /\ cmd[t].op = "train" /\ cmd[t].pc = "commit"
        /\ m \in Model /\ cmd[t].feat \in 1..MaxFeat
    BY <1>0, LocalsShape DEF TrainCommit, Go
  <1>2. /\ preds' = Supersede(v, m, NoPlatt, cmd[t].feat)
        /\ registry' = [registry EXCEPT ![v] = r]
        /\ torn' = torn \ {v} /\ cmd' = [cmd EXCEPT ![t] = Off]
        /\ UNCHANGED <<feat, labels, artifact, overlapped, rescored, left>>
    BY DEF TrainCommit, End
  <1>3. /\ preds' \in [Version -> [Pair -> Score \cup {NoScore}]]
        /\ \A w \in Version \ {v} : preds'[w] = preds[w]
        /\ ScoresFit(v)'
    BY <1>1, <1>2, Superseded
  <1>4. r \in Row
    <2>1. CASE registry[v] = NoRow
      BY <1>1, <2>1 DEF Row
    <2>2. CASE registry[v] # NoRow
      <3>1. registry[v] \in Row
        BY <1>0, <2>2 DEF StoreOK
      <3> QED
        BY <1>1, <2>2, <3>1 DEF Row
    <2> QED
      BY <2>1, <2>2
  <1>5. artifact[v] # NoFile
    BY <1>1 DEF CalmInv, FitInv, LocalFits
  <1> HIDE DEF r, m
  <1>6. /\ cmd'[t] = Off /\ cmd' = [cmd EXCEPT ![t] = cmd'[t]] /\ Off \in Locals
        /\ registry' \in [Version -> Row \cup {NoRow}]
        /\ registry'[v] = r /\ \A w \in Version \ {v} : registry'[w] = registry[w]
    BY <1>0, <1>2, <1>4 DEF StoreOK, Locals
  <1>7. StoreOK'
    BY <1>0, <1>2, <1>3, <1>6 DEF StoreOK, labels
  <1>8. FileFits(v)'
    BY <1>2 DEF FileFits, CalmInv, FitInv
  <1>9. LocalFits(cmd[t])' /\ LocalCalm(cmd[t])'
    BY <1>6 DEF LocalFits, LocalCalm, Off
  <1>10. ASSUME LocalCalm(cmd[t]), VersionCalm(v) PROVE VersionCalm(v)'
    <2>1. ~Frozen(v) /\ artifact[v].platt = NoPlatt
      BY <1>1, <1>10 DEF LocalCalm
    <2>2. ~Frozen(v)'
      <3>1. CASE registry[v] = NoRow
        BY <3>1, <1>6 DEF Frozen, r
      <3>2. CASE registry[v] # NoRow
        <4>1. registry[v].report = NoReport /\ registry[v] \in Row
          BY <1>0, <2>1, <3>2 DEF Frozen, StoreOK
        <4>2. r.report = NoReport
          BY <3>2, <4>1 DEF r, Row
        <4> QED
          BY <1>6, <4>2 DEF Frozen
      <3> QED
        BY <3>1, <3>2
    <2> QED
      BY <1>2, <2>1, <2>2 DEF VersionCalm, Aligned, ReportStands, FileReported
  <1>11. r # NoRow
    BY <1>4, ModelsAssumption DEF ModelsAssumption
  <1> QED
    BY <1>1, <1>2, <1>3, <1>5, <1>6, <1>7, <1>8, <1>9, <1>10, <1>11, CommandActs

LEMMA CalibrateCommitStep ==
  ASSUME CalmInv, NEW t \in Terminal, NEW v \in Version, cmd[t].v = v, CalibrateCommit(t)
  PROVE  CalmInv'
  <1> DEFINE m == cmd[t].model
             platt == cmd[t].platt
             r == [registry[v] EXCEPT !.platt = platt]
  <1>0. StoreOK /\ cmd \in [Terminal -> Locals] /\ cmd[t] \in Locals
    BY StoreIsOK
  <1>1. /\ cmd[t].op = "calibrate" /\ cmd[t].pc = "commit"
        /\ m \in Model /\ platt \in Platt /\ platt.feat \in 1..MaxFeat
    BY <1>0, LocalsShape DEF CalibrateCommit, Go, Platt
  <1>2. /\ preds' = Supersede(v, m, platt, platt.feat)
        /\ registry' = [registry EXCEPT ![v] = r]
        /\ torn' = torn \ {v} /\ cmd' = [cmd EXCEPT ![t] = Off]
        /\ UNCHANGED <<feat, labels, artifact, overlapped, rescored, left>>
    BY DEF CalibrateCommit, End
  <1>5. /\ artifact[v] # NoFile /\ registry[v] # NoRow /\ platt.of = m
    BY <1>1 DEF CalmInv, FitInv, LocalFits
  <1>3. /\ preds' \in [Version -> [Pair -> Score \cup {NoScore}]]
        /\ \A w \in Version \ {v} : preds'[w] = preds[w]
        /\ \A p \in Bench : preds'[v][p].model = m /\ preds'[v][p].platt = platt
        /\ ScoresFit(v)'
    BY <1>1, <1>2, <1>5, Superseded
  <1>4. r \in Row /\ r.report = registry[v].report
    <2>1. registry[v] \in Row
      BY <1>0, <1>5 DEF StoreOK
    <2> QED
      BY <1>1, <2>1 DEF Row
  <1> HIDE DEF r, m, platt
  <1>6. /\ cmd'[t] = Off /\ cmd' = [cmd EXCEPT ![t] = cmd'[t]] /\ Off \in Locals
        /\ registry' \in [Version -> Row \cup {NoRow}]
        /\ registry'[v] = r /\ \A w \in Version \ {v} : registry'[w] = registry[w]
    BY <1>0, <1>2, <1>4 DEF StoreOK, Locals
  <1>7. StoreOK'
    BY <1>0, <1>2, <1>3, <1>6 DEF StoreOK, labels
  <1>8. FileFits(v)'
    BY <1>2 DEF FileFits, CalmInv, FitInv
  <1>9. LocalFits(cmd[t])' /\ LocalCalm(cmd[t])'
    BY <1>6 DEF LocalFits, LocalCalm, Off
  <1>10. ASSUME LocalCalm(cmd[t]), VersionCalm(v) PROVE VersionCalm(v)'
    <2>1. ~Frozen(v) /\ artifact[v].model = m /\ artifact[v].platt = platt
      BY <1>1, <1>10 DEF LocalCalm, m, platt
    <2>2. ~Frozen(v)'
      BY <1>4, <1>5, <1>6, <2>1 DEF Frozen
    <2> QED
      BY <1>2, <1>3, <2>1, <2>2 DEF VersionCalm, Aligned, ReportStands, FileReported
  <1>11. r # NoRow
    BY <1>4, ModelsAssumption DEF ModelsAssumption
  <1> QED
    BY <1>1, <1>2, <1>3, <1>5, <1>6, <1>7, <1>8, <1>9, <1>10, <1>11, CommandActs

LEMMA FitCommitStep ==
  ASSUME CalmInv, NEW t \in Terminal, NEW v \in Version, cmd[t].v = v, FitCommit(t)
  PROVE  CalmInv'
  <1> DEFINE a == cmd[t].with
             s == [model |-> a.model, platt |-> a.platt, feat |-> a.platt.feat]
             rep == [p \in Bench |-> s]
             r == [model |-> a.model, platt |-> a.platt, report |-> rep, how |-> "fit"]
  <1>0. StoreOK /\ cmd \in [Terminal -> Locals] /\ cmd[t] \in Locals
    BY StoreIsOK
  <1>1. /\ cmd[t].op = "fit" /\ cmd[t].pc = "commit" /\ a \in Artifact
        /\ artifact[v] # NoFile /\ a.platt # NoPlatt
    BY <1>0, LocalsShape DEF FitCommit, Go, CalmInv, FitInv, LocalFits
  <1>2. /\ registry' = [registry EXCEPT ![v] = r]
        /\ torn' = torn \ {v} /\ cmd' = [cmd EXCEPT ![t] = Off]
        /\ UNCHANGED <<feat, labels, artifact, preds, overlapped, rescored, left>>
    BY DEF FitCommit, End
  <1>3. \A p \in DOMAIN rep : rep[p].model = a.model /\ rep[p].platt = a.platt
    OBVIOUS
  <1>4. r.report = rep /\ r.how = "fit"
    OBVIOUS
  <1>5. s \in Score
    BY <1>1 DEF Artifact, Platt, Score
  <1> HIDE DEF s
  <1>6. rep \in Report /\ rep # NoReport
    <2>1. rep \in [Bench -> Score]
      BY <1>5
    <2>2. rep \in Report
      BY <2>1 DEF Report
    <2> QED
      BY <2>2, ModelsAssumption DEF ModelsAssumption
  <1> HIDE DEF rep
  <1>7. r \in Row /\ r # NoRow
    <2>1. r \in Row
      BY <1>1, <1>6 DEF Row, Artifact
    <2> QED
      BY <2>1, ModelsAssumption DEF ModelsAssumption
  <1> HIDE DEF r, a
  <1>8. /\ cmd'[t] = Off /\ cmd' = [cmd EXCEPT ![t] = cmd'[t]] /\ Off \in Locals
        /\ registry' \in [Version -> Row \cup {NoRow}]
        /\ registry'[v] = r /\ \A w \in Version \ {v} : registry'[w] = registry[w]
    BY <1>0, <1>2, <1>7 DEF StoreOK, Locals
  <1>9. StoreOK'
    BY <1>0, <1>2, <1>8 DEF StoreOK, labels
  <1>10. ASSUME LocalCalm(cmd[t]), VersionCalm(v) PROVE VersionCalm(v)'
    <2>1. artifact'[v] = a
      BY <1>1, <1>2, <1>10 DEF LocalCalm, a
    <2>2. FileReported(v)'
      BY <1>3, <1>4, <1>8, <2>1 DEF FileReported
    <2>3. ReportStands(v)'
      BY <1>4, <1>8 DEF ReportStands
    <2>4. Aligned(v)'
      BY <1>4, <1>6, <1>7, <1>8 DEF Aligned, Frozen
    <2> QED
      BY <2>2, <2>3, <2>4 DEF VersionCalm
  <1>11. FileFits(v)' /\ ScoresFit(v)'
    BY <1>2 DEF FileFits, ScoresFit, CalmInv, FitInv
  <1>12. LocalFits(cmd[t])' /\ LocalCalm(cmd[t])'
    BY <1>8 DEF LocalFits, LocalCalm, Off
  <1> QED
    BY <1>1, <1>2, <1>7, <1>8, <1>9, <1>10, <1>11, <1>12, CommandActs

LEMMA EvaluateWriteStep ==
  ASSUME CalmInv, NEW t \in Terminal, NEW v \in Version, cmd[t].v = v, EvaluateWrite(t)
  PROVE  CalmInv'
  <1> DEFINE rep == cmd[t].read
             r == IF cmd[t].frozen THEN registry[v]
                  ELSE [[registry[v] EXCEPT !.report = rep] EXCEPT !.how = "evaluate"]
  <1>0. StoreOK /\ cmd \in [Terminal -> Locals] /\ cmd[t] \in Locals
    BY StoreIsOK
  <1>1. /\ cmd[t].op = "evaluate" /\ cmd[t].pc = "report" /\ rep \in Report
        /\ registry[v] # NoRow /\ registry[v] \in Row /\ artifact[v] # NoFile
    <2>1. cmd[t].op = "evaluate" /\ cmd[t].pc = "report" /\ rep \in Report
      BY <1>0, LocalsShape DEF EvaluateWrite, Go
    <2>2. registry[v] # NoRow
      BY <2>1 DEF CalmInv, FitInv, LocalFits
    <2> QED
      BY <1>0, <2>1, <2>2 DEF StoreOK, CalmInv, FitInv, Registered
  <1>2. /\ registry' = [registry EXCEPT ![v] = r]
        /\ cmd' = [cmd EXCEPT ![t] = Off]
        /\ UNCHANGED <<feat, labels, artifact, preds, overlapped, torn, rescored, left>>
    <2>1. CASE cmd[t].frozen
      BY <1>0, <2>1 DEF EvaluateWrite, End, StoreOK
    <2>2. CASE ~cmd[t].frozen
      BY <1>0, <2>2 DEF EvaluateWrite, End, StoreOK
    <2> QED
      BY <2>1, <2>2
  <1>3. r \in Row /\ r # NoRow
        /\ (~cmd[t].frozen => r.report = rep)
    <2>1. r \in Row /\ (~cmd[t].frozen => r.report = rep)
      <3>1. CASE cmd[t].frozen
        BY <1>1, <3>1
      <3>2. CASE ~cmd[t].frozen
        BY <1>1, <3>2 DEF Row
      <3> QED
        BY <3>1, <3>2
    <2> QED
      BY <2>1, ModelsAssumption DEF ModelsAssumption
  <1>4. cmd[t].frozen => r = registry[v]
    OBVIOUS
  <1> HIDE DEF r
  <1>8. /\ cmd'[t] = Off /\ cmd' = [cmd EXCEPT ![t] = cmd'[t]] /\ Off \in Locals
        /\ registry' \in [Version -> Row \cup {NoRow}]
        /\ registry'[v] = r /\ \A w \in Version \ {v} : registry'[w] = registry[w]
    BY <1>0, <1>2, <1>3 DEF StoreOK, Locals
  <1>9. StoreOK'
    BY <1>0, <1>2, <1>8 DEF StoreOK, labels
  <1>10. ASSUME ~overlapped, LocalCalm(cmd[t]), VersionCalm(v) PROVE VersionCalm(v)'
    <2>1. CASE cmd[t].frozen
      <3>1. Frozen(v)
        BY <1>1, <1>10, <2>1 DEF LocalCalm
      <3> QED
        BY <1>2, <1>4, <1>8, <1>10, <2>1, <3>1 DEF VersionCalm, Aligned, ReportStands,
           FileReported, Frozen
    <2>2. CASE ~cmd[t].frozen
      <3>1. ~Frozen(v) /\ rep = [p \in {q \in Bench : preds[v][q] # NoScore} |-> preds[v][p]]
        BY <1>1, <1>10, <2>2 DEF LocalCalm
      <3>2. registry'[v].report = rep /\ rep # NoReport /\ registry'[v] # NoRow
        BY <1>1, <1>3, <1>8, <2>2, ModelsAssumption DEF ModelsAssumption
      <3>3. \A p \in DOMAIN rep : p \in Bench /\ preds[v][p] # NoScore /\ rep[p] = preds[v][p]
        BY <3>1
      <3> HIDE DEF rep
      <3>4. Aligned(v)' /\ ReportStands(v)'
        BY <1>2, <3>2, <3>3 DEF Aligned, ReportStands, Frozen
      <3>5. ~Committing(v)
        <4>1. Committing(v) => Go(t, "commit")
          BY <1>1, <1>10, OthersIdle DEF Off
        <4> QED
          BY <1>1, <4>1 DEF Go
      <3>6. FileReported(v)'
        BY <1>1, <1>2, <1>10, <3>1, <3>2, <3>3, <3>5 DEF VersionCalm, Aligned, FileReported
      <3> QED
        BY <3>4, <3>6 DEF VersionCalm
    <2> QED
      BY <2>1, <2>2
  <1>11. FileFits(v)' /\ ScoresFit(v)'
    BY <1>2 DEF FileFits, ScoresFit, CalmInv, FitInv
  <1>12. LocalFits(cmd[t])' /\ LocalCalm(cmd[t])'
    BY <1>8 DEF LocalFits, LocalCalm, Off
  <1> QED
    BY <1>1, <1>2, <1>3, <1>8, <1>9, <1>10, <1>11, <1>12, CommandActs

LEMMA ScoreBatchStep ==
  ASSUME CalmInv, NEW t \in Terminal, NEW v \in Version, cmd[t].v = v,
         NEW batch \in SUBSET Pair, ScoreBatch(t, batch)
  PROVE  CalmInv'
  <1> DEFINE a == cmd[t].with
             f == cmd[t].feat
             rest == cmd[t].todo \ batch
             s == [model |-> a.model, platt |-> a.platt, feat |-> f]
             row == [p \in Pair |-> IF p \in batch THEN s ELSE preds[v][p]]
             c == [op |-> "score", pc |-> "batch", v |-> v, with |-> a, feat |-> f, todo |-> rest]
  <1>0. StoreOK /\ cmd \in [Terminal -> Locals] /\ cmd[t] \in Locals
    BY StoreIsOK
  <1>1. /\ cmd[t].op = "score" /\ cmd[t].pc = "batch" /\ a \in Artifact /\ f \in 1..MaxFeat
        /\ cmd[t].todo \subseteq Pair /\ batch \subseteq cmd[t].todo
        /\ cmd[t] = [op |-> "score", pc |-> "batch", v |-> v, with |-> a, feat |-> f,
                     todo |-> cmd[t].todo]
    BY <1>0, LocalsShape DEF ScoreBatch, Go
  <1>2. /\ registry[v] # NoRow /\ artifact[v] # NoFile
        /\ a.platt # NoPlatt /\ a.platt.of = a.model
    BY <1>1 DEF CalmInv, FitInv, LocalFits, Registered
  <1>3. /\ preds' = [preds EXCEPT ![v] = row]
        /\ UNCHANGED <<feat, labels, registry, artifact, overlapped, torn, rescored, left>>
    BY DEF ScoreBatch
  <1>4. cmd' = [cmd EXCEPT ![t] = c]
    <2>1. cmd' = [cmd EXCEPT ![t] = [cmd[t] EXCEPT !.todo = rest]]
      BY DEF ScoreBatch
    <2>2. [cmd[t] EXCEPT !.todo = rest] = c
      BY <1>1
    <2> QED
      BY <2>1, <2>2
  <1>5. s \in Score /\ s.model = a.model /\ s.platt = a.platt
    BY <1>1 DEF Artifact, Score
  <1>6. /\ c \in Locals /\ c.op = "score" /\ c.pc = "batch" /\ c.v = v
        /\ c.with = a /\ c.todo = rest
    BY <1>1 DEF Locals
  <1>7. \A p \in Pair : row[p] = IF p \in batch THEN s ELSE preds[v][p]
    OBVIOUS
  <1>8. row \in [Pair -> Score \cup {NoScore}]
    BY <1>0, <1>5 DEF StoreOK
  <1>9. rest \subseteq cmd[t].todo /\ rest \cap batch = {}
    OBVIOUS
  <1> HIDE DEF a, f, rest, s, row, c
  <1>10. /\ cmd'[t] = c /\ cmd' = [cmd EXCEPT ![t] = cmd'[t]]
         /\ preds' \in [Version -> [Pair -> Score \cup {NoScore}]]
         /\ preds'[v] = row /\ \A w \in Version \ {v} : preds'[w] = preds[w]
    BY <1>0, <1>3, <1>4, <1>8 DEF StoreOK
  <1>11. StoreOK'
    BY <1>0, <1>3, <1>10 DEF StoreOK, labels
  <1>12. FileFits(v)' /\ ScoresFit(v)'
    <2>1. FileFits(v)'
      BY <1>3 DEF FileFits, CalmInv, FitInv
    <2>2. ScoresFit(v)'
      <3> SUFFICES ASSUME NEW p \in Pair, row[p] # NoScore
                   PROVE  IF row[p].platt = NoPlatt THEN p \in Gold2
                                                    ELSE row[p].platt.of = row[p].model
        BY <1>10 DEF ScoresFit
      <3>1. CASE p \in batch
        BY <1>2, <1>5, <1>7, <3>1
      <3>2. CASE p \notin batch
        <4>1. row[p] = preds[v][p]
          BY <1>7, <3>2
        <4> QED
          BY <4>1 DEF CalmInv, FitInv, ScoresFit
      <3> QED
        BY <3>1, <3>2
    <2> QED
      BY <2>1, <2>2
  <1>13. LocalFits(cmd[t])'
    BY <1>2, <1>3, <1>6, <1>10 DEF LocalFits
  <1>14. ASSUME LocalCalm(cmd[t]), VersionCalm(v) PROVE LocalCalm(cmd[t])' /\ VersionCalm(v)'
    <2>1. a = artifact[v] /\ (v \notin rescored => \A p \in cmd[t].todo : preds[v][p] = NoScore)
      BY <1>1, <1>14 DEF LocalCalm, a
    <2>2. LocalCalm(cmd[t])'
      <3>1. v \notin rescored => \A p \in rest : row[p] = NoScore
        BY <1>1, <1>7, <1>9, <2>1
      <3> QED
        BY <1>3, <1>6, <1>10, <2>1, <3>1 DEF LocalCalm
    <2>3. Frozen(v)' <=> Frozen(v)
      BY <1>3 DEF Frozen
    <2>4. Aligned(v)'
      <3> SUFFICES ASSUME v \notin torn, ~Frozen(v), ~Committing(v)', artifact[v] # NoFile,
                          artifact[v].platt # NoPlatt, NEW p \in Bench, row[p] # NoScore
                   PROVE  row[p].model = artifact[v].model /\ row[p].platt = artifact[v].platt
        BY <1>3, <1>10, <2>3 DEF Aligned
      <3>0. p \in Pair
        BY ModelsAssumption DEF ModelsAssumption
      <3>1. CASE p \in batch
        BY <1>5, <1>7, <2>1, <3>0, <3>1
      <3>2. CASE p \notin batch
        <4>1. row[p] = preds[v][p]
          BY <1>7, <3>0, <3>2
        <4>2. ~Committing(v)
          BY <1>0, <1>1, <1>10 DEF Committing, Go
        <4> QED
          BY <1>14, <4>1, <4>2 DEF VersionCalm, Aligned
      <3> QED
        BY <3>1, <3>2
    <2>5. ReportStands(v)'
      <3> SUFFICES ASSUME Frozen(v), registry[v].how = "evaluate", v \notin rescored,
                          NEW p \in DOMAIN registry[v].report
                   PROVE  row[p] = registry[v].report[p]
        BY <1>3, <1>10, <2>3 DEF ReportStands
      <3>1. preds[v][p] = registry[v].report[p]
        BY <1>14 DEF VersionCalm, ReportStands
      <3>2. registry[v].report \in Report
        BY <1>0, <1>2 DEF StoreOK, Row, Frozen
      <3>3. PICK S \in SUBSET Bench : registry[v].report \in [S -> Score]
        BY <3>2 DEF Report
      <3>4. p \in Pair /\ preds[v][p] # NoScore
        BY <3>1, <3>3, ModelsAssumption DEF ModelsAssumption
      <3>5. p \notin batch
        BY <1>1, <2>1, <3>4
      <3> QED
        BY <1>7, <3>1, <3>4, <3>5
    <2>6. FileReported(v)'
      BY <1>3, <1>14, <2>3 DEF VersionCalm, FileReported
    <2> QED
      BY <2>2, <2>4, <2>5, <2>6 DEF VersionCalm
  <1> QED
    BY <1>1, <1>2, <1>3, <1>6, <1>10, <1>11, <1>12, <1>13, <1>14, CommandActs

-----------------------------------------------------------------------------
(***************************************************************************)
(* Together.                                                               *)
(***************************************************************************)
LEMMA CalmInit == Init => CalmInv
  <1> SUFFICES ASSUME Init PROVE CalmInv
    OBVIOUS
  <1>1. TypeOK
    <2>1. feat \in 1..MaxFeat /\ left \in [commands : 0..MaxCommands, crashes : 0..MaxCrashes]
      BY ModelsAssumption DEF Init, ModelsAssumption
    <2>2. decided \subseteq Pair /\ file \in [Round -> SUBSET Pair] /\ components \in Seq(Round)
      BY DEF Init
    <2>3. Off \in Locals
      BY DEF Locals
    <2>4. cmd \in [Terminal -> Locals]
      BY <2>3 DEF Init
    <2>5. /\ registry \in [Version -> Row \cup {NoRow}]
          /\ artifact \in [Version -> Artifact \cup {NoFile}]
          /\ preds \in [Version -> [Pair -> Score \cup {NoScore}]]
          /\ overlapped \in BOOLEAN /\ torn \subseteq Version /\ rescored \subseteq Version
      BY DEF Init
    <2> QED
      BY <2>1, <2>2, <2>4, <2>5 DEF TypeOK
  <1>2. Registered /\ (\A v \in Version : FileFits(v) /\ ScoresFit(v))
    BY DEF Init, Registered, FileFits, ScoresFit
  <1>3. \A t \in Terminal : cmd[t] = Off
    BY DEF Init
  <1>4. \A t \in Terminal : LocalFits(cmd[t]) /\ LocalCalm(cmd[t])
    BY <1>3, OffIsCalm
  <1>5. \A v \in Version : Aligned(v) /\ ReportStands(v) /\ FileReported(v)
    BY DEF Init, Aligned, ReportStands, FileReported, Frozen
  <1> QED
    BY <1>1, <1>2, <1>3, <1>4, <1>5 DEF CalmInv, FitInv, Calm

LEMMA CalmStep == CalmInv /\ [Next]_vars => CalmInv'
  <1> SUFFICES ASSUME CalmInv, [Next]_vars PROVE CalmInv'
    OBVIOUS
  <1>0. StoreOK /\ cmd \in [Terminal -> Locals]
    BY StoreIsOK
  <1>1. CASE Features
    <2>1. StoreOK'
      BY <1>0, <1>1, ModelsAssumption DEF Features, StoreOK, labels, store, ModelsAssumption
    <2> QED
      BY <1>1, <2>1, NothingMoves DEF Features
  <1>2. ASSUME NEW p \in Pair, Decide(p) PROVE CalmInv'
    <2>1. StoreOK'
      BY <1>0, <1>2 DEF Decide, StoreOK, store
    <2> QED
      BY <1>2, <2>1, NothingMoves DEF Decide
  <1>3. CASE UNCHANGED vars
    <2>1. StoreOK'
      BY <1>0, <1>3 DEF vars, StoreOK, labels, store
    <2> QED
      BY <1>3, <2>1, NothingMoves DEF vars
  <1>4. ASSUME NEW t \in Terminal, RegisterRound(t) \/ EndScore(t) \/ Crash(t) PROVE CalmInv'
    BY <1>4, EndsStep
  <1>5. ASSUME NEW t \in Terminal, NEW n \in Round, WriteRound(t, n) PROVE CalmInv'
    BY <1>5, WriteRoundStep
  <1>6. ASSUME NEW t \in Terminal, NEW v \in Version, NEW flag \in BOOLEAN,
               \/ StartTrain(t, v, flag) \/ StartScore(t, v, flag)
               \/ StartCalibrate(t, v) \/ StartEvaluate(t, v) \/ StartFit(t, v)
        PROVE  CalmInv'
    BY <1>6, StartTrainStep, StartScoreStep, StartCalibrateStep, StartEvaluateStep, StartFitStep
  <1>7. ASSUME NEW t \in Terminal,
               \/ TrainFit(t) \/ TrainCommit(t) \/ CalibrateFit(t) \/ CalibrateCommit(t)
               \/ EvaluateWrite(t) \/ FitFit(t) \/ FitCommit(t)
               \/ \E batch \in SUBSET Pair : ScoreBatch(t, batch)
        PROVE  CalmInv'
    <2>1. cmd[t].op \in {"train", "calibrate", "score", "evaluate", "fit"}
      <3>1. /\ cmd[t].op \notin {"off"}
            /\ cmd[t].op \in {"train", "calibrate", "fit"} \/ cmd[t].pc \in {"report", "batch"}
        BY <1>7 DEF TrainFit, TrainCommit, CalibrateFit, CalibrateCommit, EvaluateWrite, FitFit,
           FitCommit, ScoreBatch, Go
      <3> QED
        BY <1>0, <3>1, LocalsShape
    <2>2. PICK v \in Version : cmd[t].v = v
      BY <1>0, <2>1, LocalsShape
    <2> QED
      BY <1>7, <2>2, TrainFitStep, TrainCommitStep, CalibrateFitStep, CalibrateCommitStep,
         EvaluateWriteStep, FitFitStep, FitCommitStep, ScoreBatchStep
  <1> QED
    BY <1>1, <1>2, <1>3, <1>4, <1>5, <1>6, <1>7 DEF Next, Done

(***************************************************************************)
(* CalmInv holds in every reachable state: what commands carry fits        *)
(* together, and without overlaps what they have read is still so.         *)
(***************************************************************************)
THEOREM ModelsAreSound == Spec => []CalmInv
  BY CalmInit, CalmStep, PTL DEF Spec

THEOREM ModelsTypeOK == Spec => []TypeOK
  <1>1. CalmInv => TypeOK
    BY DEF CalmInv, FitInv
  <1> QED
    BY <1>1, ModelsAreSound, PTL

(***************************************************************************)
(* A calibrator is only ever applied to the model it was fitted to,        *)
(* whatever ran at once and whoever died.                                  *)
(***************************************************************************)
THEOREM CalibratorFitsItsModel == Spec => []PlattFits
  <1>1. CalmInv => PlattFits
    BY DEF CalmInv, FitInv, FileFits, ScoresFit, PlattFits
  <1> QED
    BY <1>1, ModelsAreSound, PTL

(***************************************************************************)
(* Without overlapping commands and --rescore, the predictions a frozen    *)
(* report was made from stay as they were.                                 *)
(***************************************************************************)
THEOREM FrozenReportStands == Spec => []FrozenReport
  <1>1. CalmInv => FrozenReport
    BY DEF CalmInv, Calm, ReportStands, FrozenReport
  <1> QED
    BY <1>1, ModelsAreSound, PTL

\* Only a batch of score changes the predictions of a frozen version, and it
\* takes them from the artifact.
LEMMA ScoresOfFrozen ==
  ASSUME CalmInv, [Next]_vars, ~overlapped, NEW v \in Version, Frozen(v), v \notin torn,
         NEW p \in Pair, preds'[v][p] # preds[v][p]
  PROVE  artifact[v].platt # NoPlatt /\ preds'[v][p].model = artifact[v].model
           /\ preds'[v][p].platt = artifact[v].platt
  <1>0. /\ preds \in [Version -> [Pair -> Score \cup {NoScore}]] /\ cmd \in [Terminal -> Locals]
        /\ \A t \in Terminal : LocalFits(cmd[t]) /\ LocalCalm(cmd[t])
    BY DEF CalmInv, FitInv, TypeOK, Calm
  <1>1. ASSUME NEW t \in Terminal, TrainCommit(t) PROVE FALSE
    <2>1. cmd[t].op = "train" /\ cmd[t].pc = "commit" /\ cmd[t].v \in Version
      BY <1>0, <1>1, LocalsShape DEF TrainCommit, Go
    <2>2. ~Frozen(cmd[t].v)
      BY <1>0, <2>1 DEF LocalCalm
    <2>3. preds'[v] = preds[v]
      BY <1>0, <1>1, <2>1, <2>2 DEF TrainCommit, Supersede
    <2> QED
      BY <2>3
  <1>2. ASSUME NEW t \in Terminal, CalibrateCommit(t) PROVE FALSE
    <2>1. cmd[t].op = "calibrate" /\ cmd[t].pc = "commit" /\ cmd[t].v \in Version
      BY <1>0, <1>2, LocalsShape DEF CalibrateCommit, Go
    <2>2. ~Frozen(cmd[t].v)
      BY <1>0, <2>1 DEF LocalCalm
    <2>3. preds'[v] = preds[v]
      BY <1>0, <1>2, <2>1, <2>2 DEF CalibrateCommit, Supersede
    <2> QED
      BY <2>3
  <1>3. ASSUME NEW t \in Terminal, NEW batch \in SUBSET Pair, ScoreBatch(t, batch)
        PROVE  artifact[v].platt # NoPlatt /\ preds'[v][p].model = artifact[v].model
                 /\ preds'[v][p].platt = artifact[v].platt
    <2>1. cmd[t].op = "score" /\ cmd[t].v \in Version
      <3>1. cmd[t].op # "off" /\ cmd[t].pc = "batch" /\ cmd[t] \in Locals
        BY <1>0, <1>3 DEF ScoreBatch, Go
      <3> QED
        BY <3>1, LocalsShape
    <2>2. cmd[t].with = artifact[cmd[t].v] /\ cmd[t].with.platt # NoPlatt
      BY <1>0, <2>1 DEF LocalCalm, LocalFits
    <2>3. cmd[t].v = v
      BY <1>0, <1>3, <2>1 DEF ScoreBatch
    <2>4. preds'[v][p] = [model |-> cmd[t].with.model, platt |-> cmd[t].with.platt, feat |-> cmd[t].feat]
      BY <1>0, <1>3, <2>1, <2>3 DEF ScoreBatch
    <2> QED
      BY <2>2, <2>3, <2>4
  <1>4. CASE UNCHANGED preds
    BY <1>4
  <1>5. UNCHANGED preds \/ \E t \in Terminal :
          TrainCommit(t) \/ CalibrateCommit(t) \/ \E batch \in SUBSET Pair : ScoreBatch(t, batch)
    BY DEF Next, Features, Decide, WriteRound, RegisterRound, StartTrain, StartScore, StartCalibrate,
       StartEvaluate, StartFit, TrainFit, CalibrateFit, EvaluateWrite, FitFit, FitCommit, EndScore,
       Crash, Done, vars, store
  <1> QED
    BY <1>1, <1>2, <1>3, <1>4, <1>5

(***************************************************************************)
(* Without overlapping commands, every score a frozen version is given is  *)
(* that of the model and the calibrator its report is about, unless a      *)
(* command died between its file and its rows.                             *)
(***************************************************************************)
THEOREM ProductionIsReported == Spec => ScoresReported
  <1>1. ASSUME CalmInv, [Next]_vars, NEW v \in Version, Frozen(v), v \notin torn, ~overlapped,
               NEW p \in Pair, NEW q \in DOMAIN registry[v].report, preds'[v][p] # preds[v][p]
        PROVE  /\ preds'[v][p].model = registry[v].report[q].model
               /\ preds'[v][p].platt = registry[v].report[q].platt
    <2>1. FileReported(v)
      BY <1>1 DEF CalmInv, Calm
    <2> QED
      BY <1>1, <2>1, ScoresOfFrozen DEF FileReported
  <1>2. CalmInv /\ [Next]_vars =>
          [\A v \in Version : Frozen(v) /\ v \notin torn /\ ~overlapped =>
             \A p \in Pair, q \in DOMAIN registry[v].report : preds'[v][p] # preds[v][p] =>
               /\ preds'[v][p].model = registry[v].report[q].model
               /\ preds'[v][p].platt = registry[v].report[q].platt]_vars
    BY <1>1
  <1> QED
    BY <1>2, ModelsAreSound, PTL DEF Spec, ScoresReported

-----------------------------------------------------------------------------
(***************************************************************************)
(* Part 3: the rounds of labels.  An export writes every decision there    *)
(* is, and decisions stay; so no file ever loses a pair.                   *)
(***************************************************************************)
RoundsInv ==
  /\ TypeOK
  /\ \A n \in Round : file[n] \subseteq decided \ Gold2

LEMMA LeastOf ==
  ASSUME NEW T, T \subseteq Nat, T # {}
  PROVE  \E i \in T : \A j \in T : i <= j
  <1>1. \E i \in T : \A j \in T : ~(<<j, i>> \in OpToRel(<, Nat))
    BY NatLessThanWellFounded, WFMin
  <1>2. \A i, j \in Nat : j < i => <<j, i>> \in OpToRel(<, Nat)
    BY DEF OpToRel
  <1>3. PICK i \in T : \A j \in T : ~(<<j, i>> \in OpToRel(<, Nat))
    BY <1>1
  <1>4. ASSUME NEW j \in T PROVE i <= j
    <2>1. i \in Nat /\ j \in Nat
      OBVIOUS
    <2>2. ~(j < i)
      BY <1>2, <1>3, <2>1
    <2> QED
      BY <2>1, <2>2
  <1> QED
    BY <1>4

\* A pair's round is that of the first registered file that has it.
LEMMA RoundOfFirst ==
  ASSUME NEW p, NEW files \in [Round -> SUBSET Pair], NEW comps \in Seq(Round),
         NEW i \in DOMAIN comps, p \in files[comps[i]],
         \A j \in DOMAIN comps : p \in files[comps[j]] => i <= j
  PROVE  RoundOf(p, files, comps) = comps[i]
  <1> DEFINE having == {k \in DOMAIN comps : p \in files[comps[k]]}
  <1>1. DOMAIN comps \subseteq Nat /\ i \in having /\ \A j \in having : i <= j
    OBVIOUS
  <1>2. (CHOOSE k \in having : \A j \in having : k <= j) = i
    BY <1>1
  <1> QED
    BY <1>1, <1>2 DEF RoundOf

LEMMA RoundOfNone ==
  ASSUME NEW p, NEW files, NEW comps, RoundOf(p, files, comps) # 0
  PROVE  \E i \in DOMAIN comps : p \in files[comps[i]]
  BY DEF RoundOf

LEMMA RoundsInit == Init => RoundsInv
  <1> SUFFICES ASSUME Init PROVE RoundsInv
    OBVIOUS
  <1>1. TypeOK
    BY CalmInit DEF CalmInv, FitInv
  <1>2. \A n \in Round : file[n] = {}
    BY DEF Init
  <1> QED
    BY <1>1, <1>2 DEF RoundsInv

\* What a step does to the rounds.
LEMMA RoundsMove ==
  ASSUME [Next]_vars
  PROVE  \/ UNCHANGED <<file, components>> /\ decided \subseteq decided'
         \/ \E t \in Terminal : RegisterRound(t) \/ \E n \in Round : WriteRound(t, n)
  <1>1. CASE Features \/ Done \/ UNCHANGED vars \/ \E p \in Pair : Decide(p)
    BY <1>1 DEF Features, Done, Decide, vars, labels
  <1>2. ASSUME NEW t \in Terminal,
               \/ TrainFit(t) \/ TrainCommit(t) \/ CalibrateFit(t) \/ CalibrateCommit(t)
               \/ EvaluateWrite(t) \/ EndScore(t) \/ FitFit(t) \/ FitCommit(t) \/ Crash(t)
               \/ \E batch \in SUBSET Pair : ScoreBatch(t, batch)
        PROVE  UNCHANGED labels
    BY <1>2 DEF TrainFit, TrainCommit, CalibrateFit, CalibrateCommit, EvaluateWrite, FitFit,
       FitCommit, EndScore, Crash, ScoreBatch
  <1>3. ASSUME NEW t \in Terminal, NEW v \in Version, NEW flag \in BOOLEAN,
               \/ StartTrain(t, v, flag) \/ StartScore(t, v, flag)
               \/ StartCalibrate(t, v) \/ StartEvaluate(t, v) \/ StartFit(t, v)
        PROVE  UNCHANGED labels
    BY <1>3 DEF StartTrain, StartScore, StartCalibrate, StartEvaluate, StartFit
  <1>4. UNCHANGED labels => UNCHANGED <<file, components>> /\ decided \subseteq decided'
    BY DEF labels
  <1> QED
    BY <1>1, <1>2, <1>3, <1>4 DEF Next

LEMMA RoundsStep == RoundsInv /\ TypeOK' /\ [Next]_vars => RoundsInv'
  <1> SUFFICES ASSUME RoundsInv, TypeOK', [Next]_vars PROVE RoundsInv'
    OBVIOUS
  <1>1. CASE UNCHANGED <<file, components>> /\ decided \subseteq decided'
    BY <1>1 DEF RoundsInv
  <1>2. ASSUME NEW t \in Terminal, NEW n \in Round, WriteRound(t, n) PROVE RoundsInv'
    <2>1. /\ file \in [Round -> SUBSET Pair] /\ decided' = decided
          /\ \A m \in Round : file'[m] = IF m = n THEN decided \ Gold2 ELSE file[m]
      BY <1>2 DEF WriteRound, RoundsInv, TypeOK
    <2> QED
      BY <2>1 DEF RoundsInv
  <1>3. ASSUME NEW t \in Terminal, RegisterRound(t) PROVE RoundsInv'
    BY <1>3 DEF RegisterRound, RoundsInv
  <1> QED
    BY <1>1, <1>2, <1>3, RoundsMove

LEMMA RoundsAreSound == Spec => []RoundsInv
  <1>1. CalmInv => TypeOK
    BY DEF CalmInv, FitInv
  <1> QED
    BY <1>1, RoundsInit, RoundsStep, ModelsAreSound, PTL DEF Spec

\* The first registered file that has p.
LEMMA FirstFile ==
  ASSUME NEW p, NEW files \in [Round -> SUBSET Pair], NEW comps \in Seq(Round),
         NEW k \in DOMAIN comps, p \in files[comps[k]]
  PROVE  \E i \in DOMAIN comps :
           /\ i <= k /\ p \in files[comps[i]] /\ RoundOf(p, files, comps) = comps[i]
           /\ \A j \in DOMAIN comps : p \in files[comps[j]] => i <= j
  <1> DEFINE having == {j \in DOMAIN comps : p \in files[comps[j]]}
  <1>1. having # {} /\ having \subseteq Nat
    OBVIOUS
  <1>2. PICK i \in having : \A j \in having : i <= j
    BY <1>1, LeastOf
  <1>3. i \in DOMAIN comps /\ p \in files[comps[i]] /\ i <= k
        /\ \A j \in DOMAIN comps : p \in files[comps[j]] => i <= j
    BY <1>2
  <1>4. RoundOf(p, files, comps) = comps[i]
    BY <1>3, RoundOfFirst
  <1> QED
    BY <1>3, <1>4

LEMMA RoundStays ==
  ASSUME RoundsInv, RoundsInv', [Next]_vars, NEW p \in Pair,
         RoundOf(p, file, components) # 0,
         RoundOf(p, file', components') # RoundOf(p, file, components)
  PROVE  /\ \E i, j \in DOMAIN components :
              /\ i < j /\ components[i] = RoundOf(p, file', components')
              /\ components[j] = RoundOf(p, file, components)
         /\ file'[RoundOf(p, file', components')] # file[RoundOf(p, file', components')]
  <1>0. /\ file \in [Round -> SUBSET Pair] /\ components \in Seq(Round)
        /\ file' \in [Round -> SUBSET Pair] /\ components' \in Seq(Round)
        /\ DOMAIN components \subseteq Nat
    BY DEF RoundsInv, TypeOK
  <1>1. PICK i \in DOMAIN components :
          /\ p \in file[components[i]] /\ RoundOf(p, file, components) = components[i]
          /\ \A j \in DOMAIN components : p \in file[components[j]] => i <= j
    BY <1>0, RoundOfNone, FirstFile
  <1>2. components[i] \in Round
    BY <1>0
  <1>3. ~UNCHANGED <<file, components>>
    OBVIOUS
  <1>4. ASSUME NEW t \in Terminal, RegisterRound(t) PROVE FALSE
    <2>1. cmd[t].round \in Round
      <3>1. cmd[t].op # "off" /\ cmd[t].pc = "register" /\ cmd[t] \in Locals
        BY <1>4 DEF RegisterRound, Go, RoundsInv, TypeOK
      <3> QED
        BY <3>1, LocalsShape
    <2>2. /\ file' = file
          /\ DOMAIN components \subseteq DOMAIN components'
          /\ \A j \in DOMAIN components : components'[j] = components[j]
          /\ \A j \in DOMAIN components' \ DOMAIN components : i <= j
      BY <1>0, <1>4, <2>1 DEF RegisterRound
    <2>3. /\ i \in DOMAIN components' /\ p \in file'[components'[i]]
          /\ \A j \in DOMAIN components' : p \in file'[components'[j]] => i <= j
      BY <1>1, <2>2
    <2>4. RoundOf(p, file', components') = components'[i]
      BY <1>0, <2>3, RoundOfFirst
    <2> QED
      BY <1>1, <2>2, <2>4
  <1>5. PICK t \in Terminal, n \in Round : WriteRound(t, n)
    BY <1>3, <1>4, RoundsMove
  <1>6. /\ components' = components
        /\ \A m \in Round : file'[m] = IF m = n THEN decided \ Gold2 ELSE file[m]
    BY <1>0, <1>5 DEF WriteRound
  <1>7. p \in file'[components'[i]] /\ i \in DOMAIN components'
    BY <1>1, <1>2, <1>6 DEF RoundsInv
  <1>8. PICK k \in DOMAIN components :
          k <= i /\ p \in file'[components[k]] /\ RoundOf(p, file', components') = components[k]
    BY <1>0, <1>6, <1>7, FirstFile
  <1>9. k < i
    <2>1. k # i
      BY <1>1, <1>8
    <2> QED
      BY <1>0, <1>8, <2>1
  <1>10. p \notin file[components[k]]
    <2>1. ~(i <= k)
      BY <1>0, <1>9
    <2> QED
      BY <1>1, <2>1
  <1> QED
    BY <1>1, <1>8, <1>9, <1>10

(***************************************************************************)
(* A label that is in corpus v3 stays in it, and under its round, unless   *)
(* the file of a round registered earlier is written again.                *)
(***************************************************************************)
THEOREM LabelsKeepTheirRound == Spec => RoundKept
  <1>1. RoundsInv /\ RoundsInv' /\ [Next]_vars
          => [~overlapped' => \A p \in Pair :
                LET before == RoundOf(p, file, components)
                    after == RoundOf(p, file', components')
                IN before # 0 /\ after # before =>
                     /\ \E i, j \in DOMAIN components :
                          i < j /\ components[i] = after /\ components[j] = before
                     /\ file'[after] # file[after]]_vars
    BY RoundStays
  <1> QED
    BY <1>1, RoundsAreSound, PTL DEF Spec, RoundKept
=============================================================================
