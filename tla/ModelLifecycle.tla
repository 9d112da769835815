---------------------------- MODULE ModelLifecycle ----------------------------
(***************************************************************************)
(* The merge models (scorer.py, calibration.py, scorer_eval.py,            *)
(* predict.py, scorer_v2.py) and the labels they learn from                *)
(* (active_learning.py).  A version of a model is three things no          *)
(* transaction joins: its row in model_registry, frozen once the row has a *)
(* report; its artifact, a file; its rows in model_predictions.  The       *)
(* commands take no lock: each reads, works for minutes, writes the file,  *)
(* commits the rows, and any may run beside another or die on the way.     *)
(***************************************************************************)
EXTENDS Naturals, Sequences, FiniteSets

CONSTANTS
  Terminal,                \* where commands run, one at a time in each
  Version,                 \* model versions
  Pair,                    \* candidate pairs, those of the corpora included
  Gold2, Bench,            \* corpus v2, and its pairs held out for evaluation
  Calib,                   \* its pairs for calibration
  Scored,                  \* pairs that a version outside Version has scored
  MaxFeat,                 \* how often the features are computed
  MaxRound,                \* rounds of exported labels
  MaxCommands, MaxCrashes,
  NoRow, NoFile, NoPlatt, NoScore, NoReport

\* What a fit depends on; it is deterministic.
Model == [by : {"train", "fit"}, feat : 1..MaxFeat, gold : SUBSET Pair]
Platt == [of : Model, feat : 1..MaxFeat]
Artifact == [model : Model, platt : Platt \cup {NoPlatt}]
Score == [model : Model, platt : Platt \cup {NoPlatt}, feat : 1..MaxFeat]

\* A report holds the scores of the held-out pairs that had one.
Report == UNION {[S -> Score] : S \in SUBSET Bench}
Row == [model : Model, platt : Platt \cup {NoPlatt}, report : Report \cup {NoReport},
        how : {"none", "evaluate", "fit"}]

ASSUME ModelsAssumption ==
  /\ Gold2 \cup Scored \subseteq Pair /\ Bench \subseteq Gold2 /\ Calib \subseteq Gold2 \ Bench
  /\ MaxFeat \in Nat \ {0} /\ {MaxRound, MaxCommands, MaxCrashes} \subseteq Nat
  /\ NoFile \notin Artifact /\ NoPlatt \notin Platt /\ NoScore \notin Score
  /\ NoReport \notin Report /\ NoRow \notin Row

VARIABLES
  feat,       \* which computation of the features the candidates carry
  decided,    \* pairs with a reviewed decision
  file,       \* file[n]: the pairs in the exported file of round n
  components, \* the rounds registered under corpus v3, in order
  registry, artifact, preds,
  cmd,        \* the locals of each running command
  overlapped, \* history: two commands have run at once
  torn,       \* history: versions whose last writer died after its file
  rescored,   \* history: versions scored anew by --rescore
  left        \* commands and crashes left

store == <<registry, artifact, preds>>
labels == <<decided, file, components>>
vars == <<feat, labels, store, cmd, overlapped, torn, rescored, left>>

Off == [op |-> "off"]
Round == 1..MaxRound

Init ==
  /\ feat = 1 /\ decided = {}
  /\ file = [n \in Round |-> {}] /\ components = <<>>
  /\ registry = [v \in Version |-> NoRow] /\ artifact = [v \in Version |-> NoFile]
  /\ preds = [v \in Version |-> [p \in Pair |-> NoScore]]
  /\ cmd = [t \in Terminal |-> Off]
  /\ overlapped = FALSE /\ torn = {} /\ rescored = {}
  /\ left = [commands |-> MaxCommands, crashes |-> MaxCrashes]

Frozen(v) == registry[v] # NoRow /\ registry[v].report # NoReport

\* A command starts in a terminal of its own, beside whatever runs.
Begin(t, locals) ==
  /\ cmd[t] = Off /\ left.commands > 0
  /\ left' = [left EXCEPT !.commands = @ - 1]
  /\ overlapped' = (overlapped \/ \E u \in Terminal \ {t} : cmd[u] # Off)
  /\ cmd' = [cmd EXCEPT ![t] = locals]

Go(t, pc) == cmd[t].op # "off" /\ cmd[t].pc = pc
End(t) == cmd' = [cmd EXCEPT ![t] = Off]

-----------------------------------------------------------------------------
\* `features`, after the organizations changed.
Features ==
  /\ feat < MaxFeat /\ feat' = feat + 1
  /\ UNCHANGED <<labels, store, cmd, overlapped, torn, rescored, left>>

\* `review`: a pair some model has scored is decided.
Decide(p) ==
  /\ p \notin decided
  /\ p \in Scored \/ \E v \in Version : preds[v][p] # NoScore
  /\ decided' = decided \cup {p}
  /\ UNCHANGED <<feat, file, components, store, cmd, overlapped, torn, rescored, left>>

\* `export-labels`: every decision that is not in corpus v2, whichever round
\* has it already.  Any round may be exported, and be exported again.
WriteRound(t, n) ==
  /\ Begin(t, [op |-> "export", pc |-> "register", round |-> n])
  /\ file' = [file EXCEPT ![n] = decided \ Gold2]
  /\ UNCHANGED <<feat, decided, components, store, torn, rescored>>

RegisterRound(t) ==
  /\ Go(t, "register")
  /\ components' = IF \E i \in DOMAIN components : components[i] = cmd[t].round
                   THEN components ELSE Append(components, cmd[t].round)
  /\ End(t)
  /\ UNCHANGED <<feat, decided, file, store, overlapped, torn, rescored, left>>

\* (Mutant: a later file's row wins.)
RoundOfLast(p, files, comps) ==
  LET having == {i \in DOMAIN comps : p \in files[comps[i]]}
  IN IF having = {} THEN 0 ELSE comps[CHOOSE i \in having : \A j \in having : i >= j]

\* load_corpus("v3"): the first file that has a pair speaks for it.
RoundOf(p, files, comps) ==
  LET having == {i \in DOMAIN comps : p \in files[comps[i]]}
  IN IF having = {} THEN 0 ELSE comps[CHOOSE i \in having : \A j \in having : i <= j]

Gold3 == Gold2 \cup {p \in Pair : RoundOf(p, file, components) # 0}

-----------------------------------------------------------------------------
\* `train`.  (Mutant: the frozen check is forgotten.)
StartTrainAlways(t, v, persist) ==
  /\ Begin(t, [op |-> "train", pc |-> "fit", v |-> v, persist |-> persist])
  /\ UNCHANGED <<feat, labels, store, torn, rescored>>

\* A frozen version is refused, unless nothing is to be persisted.
StartTrain(t, v, persist) ==
  /\ persist => ~Frozen(v)
  /\ Begin(t, [op |-> "train", pc |-> "fit", v |-> v, persist |-> persist])
  /\ UNCHANGED <<feat, labels, store, torn, rescored>>

\* The artifact is written whether the rows are to be or not.
TrainFit(t) ==
  /\ Go(t, "fit") /\ cmd[t].op = "train"
  /\ LET m == [by |-> "train", feat |-> feat, gold |-> Gold2]
     IN /\ artifact' = [artifact EXCEPT ![cmd[t].v] = [model |-> m, platt |-> NoPlatt]]
        /\ IF cmd[t].persist
           THEN cmd' = [cmd EXCEPT ![t] = [op |-> "train", pc |-> "commit", v |-> @.v, model |-> m,
                                           feat |-> feat]]
           ELSE End(t)
  /\ UNCHANGED <<feat, labels, registry, preds, overlapped, torn, rescored, left>>

\* Scores of the held-out pairs, with m raw or through a calibrator.
Supersede(v, m, platt, f) ==
  [preds EXCEPT ![v] = [p \in Pair |-> IF p \in Bench \cup Calib
                                       THEN [model |-> m, platt |-> platt, feat |-> f] ELSE @[p]]]

\* The predictions and the row, one transaction; what the row says of a
\* calibration or of a report is not reset.
TrainCommit(t) ==
  /\ Go(t, "commit") /\ cmd[t].op = "train"
  /\ LET v == cmd[t].v
     IN /\ preds' = Supersede(v, cmd[t].model, NoPlatt, cmd[t].feat)
        /\ registry' = [registry EXCEPT ![v] =
             IF @ = NoRow THEN [model |-> cmd[t].model, platt |-> NoPlatt, report |-> NoReport, how |-> "none"]
             ELSE [@ EXCEPT !.model = cmd[t].model]]
        /\ torn' = torn \ {v}
  /\ End(t)
  /\ UNCHANGED <<feat, labels, artifact, overlapped, rescored, left>>

\* (Mutant: a frozen version may be calibrated again.)
StartCalibrateAny(t, v) ==
  /\ registry[v] # NoRow
  /\ Begin(t, [op |-> "calibrate", pc |-> "fit", v |-> v, model |-> artifact[v].model])
  /\ UNCHANGED <<feat, labels, store, torn, rescored>>

\* `calibrate`: the row must be there, and not frozen; the artifact is read.
StartCalibrate(t, v) ==
  /\ registry[v] # NoRow /\ ~Frozen(v)
  /\ Begin(t, [op |-> "calibrate", pc |-> "fit", v |-> v, model |-> artifact[v].model])
  /\ UNCHANGED <<feat, labels, store, torn, rescored>>

\* (Mutant: the calibrator is added to the artifact there is by now.)
CalibrateInPlace(t) ==
  /\ Go(t, "fit") /\ cmd[t].op = "calibrate"
  /\ LET platt == [of |-> cmd[t].model, feat |-> feat]
     IN /\ artifact' = [artifact EXCEPT ![cmd[t].v].platt = platt]
        /\ cmd' = [cmd EXCEPT ![t] = [op |-> "calibrate", pc |-> "commit", v |-> @.v,
                                      model |-> @.model, platt |-> platt]]
  /\ UNCHANGED <<feat, labels, registry, preds, overlapped, torn, rescored, left>>

\* The whole artifact is written back, with the model that was read.
CalibrateFit(t) ==
  /\ Go(t, "fit") /\ cmd[t].op = "calibrate"
  /\ LET platt == [of |-> cmd[t].model, feat |-> feat]
     IN /\ artifact' = [artifact EXCEPT ![cmd[t].v] = [model |-> cmd[t].model, platt |-> platt]]
        /\ cmd' = [cmd EXCEPT ![t] = [op |-> "calibrate", pc |-> "commit", v |-> @.v,
                                      model |-> @.model, platt |-> platt]]
  /\ UNCHANGED <<feat, labels, registry, preds, overlapped, torn, rescored, left>>

\* The predictions were computed with the features of the fit.
CalibrateCommit(t) ==
  /\ Go(t, "commit") /\ cmd[t].op = "calibrate"
  /\ LET v == cmd[t].v
     IN /\ preds' = Supersede(v, cmd[t].model, cmd[t].platt, cmd[t].platt.feat)
        /\ registry' = [registry EXCEPT ![v].platt = cmd[t].platt]
        /\ torn' = torn \ {v}
  /\ End(t)
  /\ UNCHANGED <<feat, labels, artifact, overlapped, rescored, left>>

\* `evaluate`: the row and the predictions are read, then the connection is
\* given back.  That the version was calibrated is not asked.
StartEvaluate(t, v) ==
  /\ registry[v] # NoRow
  /\ Begin(t, [op |-> "evaluate", pc |-> "report", v |-> v, frozen |-> Frozen(v),
               read |-> [p \in {q \in Bench : preds[v][q] # NoScore} |-> preds[v][p]]])
  /\ UNCHANGED <<feat, labels, store, torn, rescored>>

\* The report freezes the version, unless it was frozen when it was read.
EvaluateWrite(t) ==
  /\ Go(t, "report")
  /\ registry' = IF cmd[t].frozen THEN registry
                 ELSE [registry EXCEPT ![cmd[t].v].report = cmd[t].read, ![cmd[t].v].how = "evaluate"]
  /\ End(t)
  /\ UNCHANGED <<feat, labels, artifact, preds, overlapped, torn, rescored, left>>

-----------------------------------------------------------------------------
\* `score`: the artifact must have a calibrator; the pairs with no
\* prediction, or all, are read with their features.
StartScore(t, v, rescore) ==
  /\ registry[v] # NoRow /\ artifact[v].platt # NoPlatt
  /\ Begin(t, [op |-> "score", pc |-> "batch", v |-> v, with |-> artifact[v], feat |-> feat,
               todo |-> IF rescore THEN Pair ELSE {p \in Pair : preds[v][p] = NoScore}])
  /\ rescored' = IF rescore THEN rescored \cup {v} ELSE rescored
  /\ UNCHANGED <<feat, labels, store, torn>>

\* A batch commits.
ScoreBatch(t, batch) ==
  /\ Go(t, "batch") /\ batch # {} /\ batch \subseteq cmd[t].todo
  /\ preds' = [preds EXCEPT ![cmd[t].v] = [p \in Pair |->
       IF p \in batch THEN [model |-> cmd[t].with.model, platt |-> cmd[t].with.platt, feat |-> cmd[t].feat]
       ELSE @[p]]]
  /\ cmd' = [cmd EXCEPT ![t].todo = @ \ batch]
  /\ UNCHANGED <<feat, labels, registry, artifact, overlapped, torn, rescored, left>>

EndScore(t) ==
  /\ Go(t, "batch") /\ cmd[t].todo = {}
  /\ End(t)
  /\ UNCHANGED <<feat, labels, store, overlapped, torn, rescored, left>>

\* `fit-v2`: a frozen version is refused; a dry run leaves nothing.
StartFit(t, v) ==
  /\ ~Frozen(v)
  /\ Begin(t, [op |-> "fit", pc |-> "fit", v |-> v])
  /\ UNCHANGED <<feat, labels, store, torn, rescored>>

\* Train, calibrate and evaluate on corpus v3, then the artifact.
FitFit(t) ==
  /\ Go(t, "fit") /\ cmd[t].op = "fit"
  /\ LET m == [by |-> "fit", feat |-> feat, gold |-> Gold3]
         a == [model |-> m, platt |-> [of |-> m, feat |-> feat]]
     IN /\ artifact' = [artifact EXCEPT ![cmd[t].v] = a]
        /\ cmd' = [cmd EXCEPT ![t] = [op |-> "fit", pc |-> "commit", v |-> @.v, with |-> a]]
  /\ UNCHANGED <<feat, labels, registry, preds, overlapped, torn, rescored, left>>

\* The row, calibrated and frozen at once; no predictions.
FitCommit(t) ==
  /\ Go(t, "commit") /\ cmd[t].op = "fit"
  /\ LET v == cmd[t].v
         a == cmd[t].with
         s == [model |-> a.model, platt |-> a.platt, feat |-> a.platt.feat]
     IN /\ registry' = [registry EXCEPT ![v] = [model |-> a.model, platt |-> a.platt,
                                                report |-> [p \in Bench |-> s], how |-> "fit"]]
        /\ torn' = torn \ {v}
  /\ End(t)
  /\ UNCHANGED <<feat, labels, artifact, preds, overlapped, rescored, left>>

\* A command dies; one that had its file written leaves the version torn.
Crash(t) ==
  /\ cmd[t] # Off /\ left.crashes > 0
  /\ left' = [left EXCEPT !.crashes = @ - 1]
  /\ torn' = IF Go(t, "commit") THEN torn \cup {cmd[t].v} ELSE torn
  /\ End(t)
  /\ UNCHANGED <<feat, labels, store, overlapped, rescored>>

\* Nothing runs and nothing is left to run.
Done ==
  /\ \A t \in Terminal : cmd[t] = Off
  /\ left.commands = 0
  /\ UNCHANGED vars

Next ==
  \/ Features
  \/ \E p \in Pair : Decide(p)
  \/ \E t \in Terminal :
       \/ RegisterRound(t) \/ TrainFit(t) \/ TrainCommit(t) \/ CalibrateFit(t) \/ CalibrateCommit(t)
       \/ EvaluateWrite(t) \/ EndScore(t) \/ FitFit(t) \/ FitCommit(t) \/ Crash(t)
       \/ \E n \in Round : WriteRound(t, n)
       \/ \E batch \in SUBSET Pair : ScoreBatch(t, batch)
       \/ \E v \in Version :
            \/ StartCalibrate(t, v) \/ StartEvaluate(t, v) \/ StartFit(t, v)
            \/ \E flag \in BOOLEAN : StartTrain(t, v, flag) \/ StartScore(t, v, flag)
  \/ Done

Spec == Init /\ [][Next]_vars

-----------------------------------------------------------------------------
Locals ==
  {Off} \cup
  [op : {"export"}, pc : {"register"}, round : Round] \cup
  [op : {"train"}, pc : {"fit"}, v : Version, persist : BOOLEAN] \cup
  [op : {"train"}, pc : {"commit"}, v : Version, model : Model, feat : 1..MaxFeat] \cup
  [op : {"calibrate"}, pc : {"fit"}, v : Version, model : Model] \cup
  [op : {"calibrate"}, pc : {"commit"}, v : Version, model : Model, platt : Platt] \cup
  [op : {"score"}, pc : {"batch"}, v : Version, with : Artifact, feat : 1..MaxFeat, todo : SUBSET Pair] \cup
  [op : {"evaluate"}, pc : {"report"}, v : Version, frozen : BOOLEAN, read : Report] \cup
  [op : {"fit"}, pc : {"fit"}, v : Version] \cup
  [op : {"fit"}, pc : {"commit"}, v : Version, with : Artifact]

TypeOK ==
  /\ feat \in 1..MaxFeat
  /\ decided \subseteq Pair /\ file \in [Round -> SUBSET Pair] /\ components \in Seq(Round)
  /\ registry \in [Version -> Row \cup {NoRow}]
  /\ artifact \in [Version -> Artifact \cup {NoFile}]
  /\ preds \in [Version -> [Pair -> Score \cup {NoScore}]]
  /\ cmd \in [Terminal -> Locals]
  /\ overlapped \in BOOLEAN /\ torn \subseteq Version /\ rescored \subseteq Version
  /\ left \in [commands : 0..MaxCommands, crashes : 0..MaxCrashes]

(***************************************************************************)
(* Whatever ran at once, and whoever died: a calibrator is never applied   *)
(* to another model than the one it was fitted to, neither in an artifact  *)
(* nor in a prediction, and a pair nobody has labelled has no raw score.   *)
(* (calibrate writes the whole artifact back; score asks for the           *)
(* calibrator.)                                                            *)
(***************************************************************************)
PlattFits ==
  \A v \in Version :
    /\ artifact[v] # NoFile /\ artifact[v].platt # NoPlatt =>
         artifact[v].platt.of = artifact[v].model
    /\ \A p \in Pair : preds[v][p] # NoScore =>
         IF preds[v][p].platt = NoPlatt THEN p \in Gold2
                                        ELSE preds[v][p].platt.of = preds[v][p].model

(***************************************************************************)
(* "so a past evaluation stays reproducible" (migration 011): the stored   *)
(* predictions of the held-out pairs are those a frozen report was made    *)
(* from, through any sequence of commands and crashes, as long as no two   *)
(* commands overlap and nobody asks for --rescore.  (The frozen checks of  *)
(* train and calibrate; score adds only what is missing.)                  *)
(***************************************************************************)
FrozenReport ==
  \A v \in Version :
    Frozen(v) /\ registry[v].how = "evaluate" /\ ~overlapped /\ v \notin rescored =>
      \A p \in DOMAIN registry[v].report : preds[v][p] = registry[v].report[p]

(***************************************************************************)
(* A frozen version is used in production (predict.py): every score it is  *)
(* given from then on is that of the model and the calibrator its report   *)
(* is about.  A dry run of train may have replaced its artifact, by one    *)
(* that cannot be scored with.  Unless commands overlapped, or one died    *)
(* between the artifact and its rows and none that finished came after it. *)
(***************************************************************************)
ScoresReported ==
  [][\A v \in Version : Frozen(v) /\ v \notin torn /\ ~overlapped =>
       \A p \in Pair, q \in DOMAIN registry[v].report : preds'[v][p] # preds[v][p] =>
         /\ preds'[v][p].model = registry[v].report[q].model
         /\ preds'[v][p].platt = registry[v].report[q].platt]_vars

(***************************************************************************)
(* `train --no-persist`: "train + report only, don't write                 *)
(* registry/artifact/predictions" (cli.py).                                *)
(***************************************************************************)
DryRunLeavesNothing ==
  [][\A t \in Terminal : cmd[t].op = "train" /\ cmd[t].pc = "fit" /\ ~cmd[t].persist /\ cmd'[t] # cmd[t]
       => store' = store]_vars

(***************************************************************************)
(* A label that is in corpus v3 stays in it, and under its round, although *)
(* other rounds export the same decision again and an export may die       *)
(* before its file is registered; only a round registered earlier takes it *)
(* over, when its file is written again.  (load_corpus drops a pair that   *)
(* an earlier file has.  Two exports at once may lose a registration.)     *)
(***************************************************************************)
RoundKept ==
  [][~overlapped' => \A p \in Pair :
       LET before == RoundOf(p, file, components)
           after == RoundOf(p, file', components')
       IN before # 0 /\ after # before =>
            /\ \E i, j \in DOMAIN components : i < j /\ components[i] = after /\ components[j] = before
            /\ file'[after] # file[after]]_vars
=============================================================================
