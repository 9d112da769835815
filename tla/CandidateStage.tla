---------------------------- MODULE CandidateStage ----------------------------
(***************************************************************************)
(* From names to scored pairs: the organizations canonicalize makes of raw *)
(* names (normalize.py), the pairs `candidates` finds among them           *)
(* (candidates.py), the features of a pair (features.py), and the          *)
(* predictions that refer to it (predict.py).  The commands take no lock   *)
(* of their own and may overlap; each works within transactions.  A name   *)
(* is a sequence of words, some with a comma after them; norm_key makes    *)
(* tokens of a word, of "&" none, of "L.L.C." three.                     *)
(***************************************************************************)
EXTENDS Naturals, Sequences, FiniteSets, SequencesExt

CONSTANTS
  Token, Letter, Spelling,     \* tokens of norm_key, and how they are spelled
  Word, Keyed,                 \* words of names, and what norm_key makes of them
  Suffix, Stop,                \* legal suffixes, as norm_key has them; stopwords
  Parts,                       \* what normalize_for_features makes of a token
  Record, Words, Commas,       \* the name of each record, where it has commas
  Places,                      \* what is known as a place to each, in norm_key
  BrandOf,                     \* the bare name each was written from
  Closures,                    \* what the merge decisions may come to
  KeyOrder,                    \* the keys there can be, in their order
  Alike,                       \* pairs of keys whose names pg_trgm finds alike
  MinTokenLen, MaxDocFreq, AcronymMin, AcronymMax,
  MaxRuns,
  NoFeatures, NoPrediction

\* candidate_id when it is null.
Null == 0

ASSUME CandidateAssumption ==
  /\ Spelling \in [Token -> Seq(Letter \cup {"-"}) \ {<<>>}]
  /\ Parts \in [Token -> Seq(Token)]
  /\ Keyed \in [Word -> Seq(Token)] /\ Suffix \subseteq Seq(Token) /\ Stop \subseteq Token
  /\ Words \in [Record -> Seq(Word) \ {<<>>}]
  /\ \A r \in Record : Commas[r] \subseteq 1..(Len(Words[r]) - 1) /\ Places[r] \subseteq Seq(Token)
  /\ {MinTokenLen, MaxDocFreq, AcronymMin, AcronymMax, MaxRuns} \subseteq Nat

VARIABLES
  orgs,     \* norm_key of every organization, by id
  rows,     \* organization_merge_candidate
  lastId,   \* its id sequence
  preds,    \* model_predictions of a version, by pair of keys
  filed,    \* the organization each record went to, 0 when it has none
  closure,  \* merge decisions, as the last canonicalize has loaded them
  canon,    \* a canonicalize is filling the tables
  found,    \* the locals of `candidates`: its step, what the blockers returned
  computed, \* the rows `features` has read, with their features
  scoring,  \* the locals of `score`
  steady,   \* history: no organization came or went since `candidates` began
  fresh,    \* history: nor since the one that wrote the rows began
  slipped,  \* history: a truncate came between two batches of `score`
  remerged, \* history: the tables were filled under more than one closure
  left      \* commands left

locals == <<canon, found, computed, scoring>>
history == <<steady, fresh, slipped>>
naming == <<filed, closure, remerged>>
vars == <<orgs, rows, lastId, preds, naming, locals, history, left>>

-----------------------------------------------------------------------------
TokensOf(words) == FlattenSeq([i \in DOMAIN words |-> Keyed[words[i]]])
Or(key, fallback) == IF key = <<>> THEN fallback ELSE key

\* The segment after a comma is a place, or nothing that norm_key sees.
PlaceAfter(r, c) ==
  LET ends == {d \in Commas[r] \cup {Len(Words[r])} : d > c}
  IN TokensOf(SubSeq(Words[r], c + 1, Min(ends))) \in Places[r] \cup {<<>>}

\* (Mutant: one place is stripped, not all of them.)
StripLastPlace(r) ==
  LET last == Max({0} \cup Commas[r])
  IN IF last > 0 /\ PlaceAfter(r, last) THEN SubSeq(Words[r], 1, last) ELSE Words[r]

\* strip_location_clause: trailing segments that are places, but not the first.
StripLocation(r) ==
  SubSeq(Words[r], 1, Min({Len(Words[r])} \cup
    {c \in Commas[r] : \A d \in Commas[r] : d >= c => PlaceAfter(r, d)}))

\* split_legal_suffix: trailing words that are suffixes, across commas, but
\* not the first word.
StripSuffix(words) ==
  SubSeq(words, 1, Max({1} \cup {i \in DOMAIN words : Keyed[words[i]] \notin Suffix}))

\* _collapse_repeated_tail_tokens.
Collapse(toks) ==
  SubSeq(toks, 1, Min({Len(toks)} \cup {i \in DOMAIN toks : \A j \in i..Len(toks) : toks[j] = Last(toks)}))

\* normalize_org, of a name whose first segment has a word.
KeyOf(r) == Or(Collapse(TokensOf(StripSuffix(StripLocation(r)))), TokensOf(Words[r]))

\* KeyOrder lists every key there can be, once, as a database column sorts.
ASSUME KeyAssumption ==
  /\ KeyOrder \in Seq(Seq(Token)) /\ IsInjective(KeyOrder)
  /\ \A r \in Record : KeyOf(r) \in Range(KeyOrder)
  /\ Closures \subseteq [Range(KeyOrder) -> Range(KeyOrder)] /\ Closures # {}

-----------------------------------------------------------------------------
Key == Range(KeyOrder)
OrgId == DOMAIN orgs
Before(j, k) == \E m, n \in DOMAIN KeyOrder : m < n /\ KeyOrder[m] = j /\ KeyOrder[n] = k
Pair == {p \in Key \X Key : Before(p[1], p[2])}
Reason == {"trigram", "rare_token", "acronym"}

\* order_pair.
Ordered(j, k) == IF Before(k, j) THEN <<k, j>> ELSE <<j, k>>

IsAlpha(t) == \A i \in DOMAIN Spelling[t] : Spelling[t][i] \in Letter
Initials(toks) == [i \in DOMAIN toks |-> Spelling[toks[i]][1]]
Content(key) == {t \in Range(key) : Len(Spelling[t]) >= MinTokenLen}

\* Both initialisms of an expansion, with its stopwords and without.
Initialisms(key) == {Initials(key), Initials(SelectSeq(key, LAMBDA t : t \notin Stop))}

\* is_acronym_expansion, of one pair.
Spells(short, long) ==
  /\ Len(short) = 1 /\ IsAlpha(short[1])
  /\ Len(Spelling[short[1]]) \in AcronymMin..AcronymMax
  /\ Len(long) >= 2 /\ Spelling[short[1]] \in Initialisms(long)
IsAcronymExpansion(j, k) == Spells(j, k) \/ Spells(k, j)

\* A token is rare by its occurrences in all keys.
RareTokens ==
  {t \in UNION {Content(orgs[i]) : i \in OrgId} :
     Cardinality({o \in OrgId \X (1..Max({Len(orgs[i]) : i \in OrgId})) :
                    o[2] \in DOMAIN orgs[o[1]] /\ orgs[o[1]][o[2]] = t}) <= MaxDocFreq}

\* What a blocker finds: pairs of ids.
TrigramBlocker == {p \in OrgId \X OrgId : p[1] < p[2] /\ {orgs[p[1]], orgs[p[2]]} \in Alike}
RareTokenBlocker ==
  {p \in OrgId \X OrgId :
     p[1] < p[2] /\ Range(orgs[p[1]]) \cap Range(orgs[p[2]]) \cap RareTokens # {}}

\* acronym_pairs: the expansions by their initialisms, then the acronyms.
AcronymBlocker ==
  LET sized(ini) == Len(ini) \in AcronymMin..AcronymMax
      index == {e \in UNION {Initialisms(orgs[i]) \X {i} : i \in OrgId} :
                  sized(e[1]) /\ Len(orgs[e[2]]) >= 2}
      acronyms == {i \in OrgId : /\ Len(orgs[i]) = 1 /\ IsAlpha(orgs[i][1])
                                 /\ sized(Spelling[orgs[i][1]])}
  IN {p \in acronyms \X OrgId : <<Spelling[orgs[p[1]][1]], p[2]>> \in index}

\* (Mutant: the keys are put in order, their ids are not.)
RawUnswapped(pairs, reason) ==
  {[pair |-> Ordered(orgs[p[1]], orgs[p[2]]), reason |-> reason, ids |-> p] : p \in pairs}

\* What the blocker returns: rows of keys and ids, with its reason.
Raw(pairs, reason) ==
  {[pair |-> Ordered(orgs[p[1]], orgs[p[2]]), reason |-> reason,
    ids |-> IF Before(orgs[p[2]], orgs[p[1]]) THEN <<p[2], p[1]>> ELSE p] : p \in pairs}

\* (Mutant: a pair has the reason of the first blocker that found it.)
MergePairsFirst(raw) ==
  {[pair |-> x.pair, ids |-> x.ids, reasons |-> {x.reason}] :
     x \in {y \in raw : /\ y.pair[1] # y.pair[2]
                        /\ \A z \in raw : z.pair = y.pair /\ y.reason # "trigram" => z.reason # "trigram"}}

\* merge_pairs.
MergePairs(raw) ==
  {[pair |-> x.pair, ids |-> x.ids, reasons |-> {y.reason : y \in {z \in raw : z.pair = x.pair}}] :
     x \in {y \in raw : y.pair[1] # y.pair[2]}}

-----------------------------------------------------------------------------
\* normalize_for_features, on the tokens of a key.
ForFeatures(key) == FlattenSeq([i \in DOMAIN key |-> Parts[key[i]]])

\* extract_features, as far as it repeats what the blockers said.
Features(row, rare) ==
  LET j == ForFeatures(row.pair[1])
      k == ForFeatures(row.pair[2])
  IN [pair |-> row.pair, blocked |-> row.reasons,
      acronym |-> IsAcronymExpansion(j, k),
      sharedRare |-> Cardinality(Content(j) \cap Content(k) \cap rare)]

\* The pointers of predictions to rows that are gone are null.
Unpoint(gone) ==
  preds' = [p \in Pair |-> IF preds[p] # NoPrediction /\ preds[p].candidate \in gone
                           THEN [preds[p] EXCEPT !.candidate = Null] ELSE preds[p]]

Ids == {row.id : row \in rows}

Idle == [pc |-> "off", raw |-> {}]
IdleScore == [pc |-> "off", todo |-> {}]

Init ==
  /\ orgs = <<>> /\ rows = {} /\ lastId = 0
  /\ preds = [p \in Pair |-> NoPrediction]
  /\ filed = [r \in Record |-> 0] /\ closure \in Closures /\ remerged = FALSE
  /\ canon = FALSE /\ found = Idle /\ computed = NoFeatures /\ scoring = IdleScore
  /\ steady = FALSE /\ fresh = FALSE /\ slipped = FALSE
  /\ left = MaxRuns

Begin == left > 0 /\ left' = left - 1

\* `canonicalize`: the truncate waits for every transaction that has read
\* one of its tables, and the decisions are loaded.  Ids start again at 1.
Truncate(decided) ==
  /\ Begin /\ ~canon /\ found.pc = "off" /\ computed = NoFeatures /\ scoring.pc # "first"
  /\ orgs' = <<>> /\ rows' = {} /\ lastId' = 0
  /\ filed' = [r \in Record |-> 0] /\ closure' = decided /\ remerged' = FALSE
  /\ Unpoint(Ids)
  /\ canon' = TRUE /\ steady' = FALSE /\ fresh' = FALSE /\ slipped' = (slipped \/ scoring.pc = "rest")
  /\ UNCHANGED <<found, computed, scoring>>

\* `canonicalize --keep`: nothing is dropped.
Keep(decided) ==
  /\ Begin /\ ~canon
  /\ closure' = decided /\ remerged' = (remerged \/ (orgs # <<>> /\ decided # closure))
  /\ canon' = TRUE
  /\ UNCHANGED <<orgs, rows, lastId, preds, filed, found, computed, scoring, history>>

\* The organization of a record is found or created, by its key or by that
\* of the winner.  A record that has been filed fails: its node is there.
Target(r) == closure[KeyOf(r)]

GetOrg(r) ==
  /\ canon /\ filed[r] = 0
  /\ \E i \in OrgId : orgs[i] = Target(r) /\ filed' = [filed EXCEPT ![r] = i]
  /\ UNCHANGED <<orgs, rows, lastId, preds, closure, remerged, locals, history, left>>

CreateOrg(r) ==
  /\ canon /\ filed[r] = 0 /\ Target(r) \notin Range(orgs)
  /\ orgs' = Append(orgs, Target(r)) /\ filed' = [filed EXCEPT ![r] = Len(orgs) + 1]
  /\ steady' = FALSE /\ fresh' = FALSE
  /\ UNCHANGED <<rows, lastId, preds, closure, remerged, locals, slipped, left>>

\* It ends, or dies, with any of its records.
EndCanonicalize ==
  /\ canon /\ canon' = FALSE
  /\ UNCHANGED <<orgs, rows, lastId, preds, found, computed, scoring, naming, history, left>>

-----------------------------------------------------------------------------
\* `candidates`: a statement for each blocker, in one transaction.
StartCandidates ==
  /\ Begin /\ found.pc = "off"
  /\ found' = [pc |-> "rare_token", raw |-> Raw(TrigramBlocker, "trigram")]
  /\ steady' = TRUE
  /\ UNCHANGED <<orgs, rows, lastId, preds, canon, computed, scoring, naming, fresh, slipped>>

NextBlocker ==
  /\ found.pc \in {"rare_token", "acronym"}
  /\ found' = IF found.pc = "rare_token"
              THEN [pc |-> "acronym", raw |-> found.raw \cup Raw(RareTokenBlocker, "rare_token")]
              ELSE [pc |-> "persist", raw |-> found.raw \cup Raw(AcronymBlocker, "acronym")]
  /\ UNCHANGED <<orgs, rows, lastId, preds, canon, computed, scoring, naming, history, left>>

\* (Mutants: the ids restart; the predictions keep their pointers.)
PersistRestarts ==
  /\ found.pc = "persist"
  /\ LET pairs == SetToSeq(MergePairs(found.raw))
     IN /\ rows' = {[id |-> i, pair |-> pairs[i].pair, ids |-> pairs[i].ids,
                     reasons |-> pairs[i].reasons, features |-> NoFeatures] : i \in DOMAIN pairs}
        /\ lastId' = Len(pairs)
  /\ Unpoint(Ids)
  /\ found' = Idle /\ fresh' = steady
  /\ UNCHANGED <<orgs, canon, computed, scoring, naming, steady, slipped, left>>

PersistPointers ==
  /\ found.pc = "persist"
  /\ LET pairs == SetToSeq(MergePairs(found.raw))
     IN /\ rows' = {[id |-> lastId + i, pair |-> pairs[i].pair, ids |-> pairs[i].ids,
                     reasons |-> pairs[i].reasons, features |-> NoFeatures] : i \in DOMAIN pairs}
        /\ lastId' = lastId + Len(pairs)
  /\ found' = Idle /\ fresh' = steady
  /\ UNCHANGED <<orgs, preds, canon, computed, scoring, naming, steady, slipped, left>>

\* The old rows are deleted and the new ones inserted; the ids go on.
Persist ==
  /\ found.pc = "persist"
  /\ LET pairs == SetToSeq(MergePairs(found.raw))
     IN /\ rows' = {[id |-> lastId + i, pair |-> pairs[i].pair, ids |-> pairs[i].ids,
                     reasons |-> pairs[i].reasons, features |-> NoFeatures] : i \in DOMAIN pairs}
        /\ lastId' = lastId + Len(pairs)
  /\ Unpoint(Ids)
  /\ found' = Idle /\ fresh' = steady
  /\ UNCHANGED <<orgs, canon, computed, scoring, naming, steady, slipped, left>>

\* `features`: the rare tokens and the rows are read, in a transaction that
\* stays open until the features are written.
ReadRows ==
  /\ Begin /\ computed = NoFeatures
  /\ computed' = {[id |-> row.id, features |-> Features(row, RareTokens)] : row \in rows}
  /\ UNCHANGED <<orgs, rows, lastId, preds, canon, found, scoring, naming, history>>

\* Rows that are gone by then are not updated.
PersistFeatures ==
  /\ computed # NoFeatures
  /\ rows' = {IF \E c \in computed : c.id = row.id
              THEN [row EXCEPT !.features = (CHOOSE c \in computed : c.id = row.id).features]
              ELSE row : row \in rows}
  /\ computed' = NoFeatures
  /\ UNCHANGED <<orgs, lastId, preds, canon, found, scoring, naming, history, left>>

-----------------------------------------------------------------------------
\* `score`: the rows with features and no prediction, or all with features.
StartScore(rescore) ==
  /\ Begin /\ scoring.pc = "off"
  /\ scoring' = [pc |-> "first", todo |->
       {row \in rows : row.features # NoFeatures /\ (rescore \/ preds[row.pair] = NoPrediction)}]
  /\ UNCHANGED <<orgs, rows, lastId, preds, canon, found, computed, naming, history>>

\* A batch commits, and gives up the tables until the next; the foreign key
\* refuses it when one of its rows is gone.
ScoreBatch(batch) ==
  /\ scoring.pc # "off" /\ batch # {} /\ batch \subseteq scoring.todo
  /\ \A row \in batch : row.id \in Ids
  /\ preds' = [p \in Pair |->
       IF \E row \in batch : row.pair = p
       THEN LET row == CHOOSE x \in batch : x.pair = p
            IN [candidate |-> row.id, snapshot |-> row.features]
       ELSE preds[p]]
  /\ scoring' = [pc |-> "rest", todo |-> scoring.todo \ batch]
  /\ UNCHANGED <<orgs, rows, lastId, canon, found, computed, naming, history, left>>

\* It is through, refused or killed.
EndScore ==
  /\ scoring.pc # "off" /\ scoring' = IdleScore
  /\ UNCHANGED <<orgs, rows, lastId, preds, canon, found, computed, naming, history, left>>

\* `candidates` or `features` dies before its commit.
Abort ==
  /\ found.pc # "off" \/ computed # NoFeatures
  /\ found' = Idle /\ computed' = NoFeatures
  /\ UNCHANGED <<orgs, rows, lastId, preds, canon, scoring, naming, history, left>>

Done ==
  /\ left = 0 /\ ~canon /\ found.pc = "off" /\ computed = NoFeatures /\ scoring.pc = "off"
  /\ UNCHANGED vars

Next ==
  \/ EndCanonicalize
  \/ \E decided \in Closures : Truncate(decided) \/ Keep(decided)
  \/ \E r \in Record : GetOrg(r) \/ CreateOrg(r)
  \/ StartCandidates \/ NextBlocker \/ Persist
  \/ ReadRows \/ PersistFeatures
  \/ \E rescore \in BOOLEAN : StartScore(rescore)
  \/ \E batch \in SUBSET scoring.todo : ScoreBatch(batch)
  \/ EndScore \/ Abort \/ Done

Spec == Init /\ [][Next]_vars

-----------------------------------------------------------------------------
FeatureSet == [pair : Pair, blocked : SUBSET Reason, acronym : BOOLEAN, sharedRare : Nat]

RowOK(row) ==
  /\ row.id \in 1..lastId /\ row.pair \in Pair /\ row.ids \in Nat \X Nat
  /\ row.reasons \in SUBSET Reason \ {{}}
  /\ row.features \in FeatureSet \cup {NoFeatures}

TypeOK ==
  /\ orgs \in Seq(Key) /\ lastId \in Nat
  /\ \A row \in rows : RowOK(row)
  /\ preds \in [Pair -> [candidate : Nat, snapshot : FeatureSet] \cup {NoPrediction}]
  /\ filed \in [Record -> Nat] /\ closure \in Closures
  /\ found.pc \in {"off", "rare_token", "acronym", "persist"}
  /\ scoring.pc \in {"off", "first", "rest"}
  /\ {canon, steady, fresh, slipped, remerged} \subseteq BOOLEAN /\ left \in 0..MaxRuns

(***************************************************************************)
(* A record names its brand when its name is words that norm_key makes the *)
(* bare name of, the last token repeated or not, then words that are legal *)
(* suffixes, commas anywhere among them, then segments that are places:    *)
(* "Cisco Systems, Inc., San Jose, CA".                                    *)
(***************************************************************************)
NamesBrand(r) ==
  LET name == Words[r]
      brand == BrandOf[r]
      n == Len(brand)
  IN /\ brand \in Seq(Token) \ {<<>>} /\ (n > 1 => brand[n - 1] # brand[n])
     /\ \E c \in Commas[r] \cup {Len(name)} :
          /\ \A d \in Commas[r] : d >= c => PlaceAfter(r, d)
          /\ \A b \in Commas[r] : b < c => \E d \in Commas[r] : d \in b..(c - 1) /\ ~PlaceAfter(r, d)
          /\ \E m \in 1..c :
               /\ \A i \in (m + 1)..c : Keyed[name[i]] \in Suffix
               /\ m = 1 \/ Keyed[name[m]] \notin Suffix
               /\ LET toks == TokensOf(SubSeq(name, 1, m))
                  IN /\ toks \in Seq(Token) /\ Len(toks) >= n
                     /\ toks = [i \in 1..Len(toks) |-> IF i <= n THEN brand[i] ELSE brand[n]]

(***************************************************************************)
(* Two records are filed under one organization exactly when their brands  *)
(* are the same or the decisions have merged them, however their names are *)
(* spelled and in whatever order, over whatever runs of canonicalize they  *)
(* come, --keep and runs that died included; unless other decisions were   *)
(* loaded over organizations that were kept.  ("Cisco Systems Inc" ==      *)
(* "Cisco Systems"; normalize_org, closure.get.)                           *)
(***************************************************************************)
OneOrgPerBrand ==
  ~remerged => \A r, q \in Record : filed[r] # 0 /\ filed[q] # 0 =>
    (filed[r] = filed[q] <=> closure[BrandOf[r]] = closure[BrandOf[q]])

(***************************************************************************)
(* A candidate is an ordered pair of two organizations, there once, and    *)
(* its ids are the ids of its keys, although canonicalize restarts them    *)
(* and may fill the tables while the blockers read them one by one.        *)
(* (merge_pairs, and truncate_canonical, which drops the candidates with   *)
(* the organizations.)                                                     *)
(***************************************************************************)
RowsTrue ==
  \A row \in rows :
    /\ row.ids[1] \in DOMAIN orgs /\ row.ids[2] \in DOMAIN orgs
    /\ row.pair = <<orgs[row.ids[1]], orgs[row.ids[2]]>>
    /\ \A other \in rows : other.id = row.id \/ other.pair = row.pair => other = row

(***************************************************************************)
(* While the organizations are those the blockers read, a row gives every  *)
(* reason there is for its pair and no other, and no pair with a reason    *)
(* is missing: the index the acronym blocker builds over all names finds   *)
(* what a comparison of every two finds.  (generate.)                      *)
(***************************************************************************)
Why(j, k) ==
  {reason \in Reason :
     \/ reason = "trigram" /\ {j, k} \in Alike
     \/ reason = "rare_token" /\ Content(j) \cap Content(k) \cap RareTokens # {}
     \/ reason = "acronym" /\ IsAcronymExpansion(j, k)}

ReasonsExact ==
  fresh =>
    \A p \in Pair : p[1] \in Range(orgs) /\ p[2] \in Range(orgs) =>
      IF Why(p[1], p[2]) = {} THEN \A row \in rows : row.pair # p
                              ELSE \E row \in rows : row.pair = p /\ row.reasons = Why(p[1], p[2])

(***************************************************************************)
(* The features of a row are those of its own pair and reasons, although   *)
(* `features` writes by id and the candidates may be found anew in the     *)
(* meantime; and for keys that the preprocessing leaves alone they agree   *)
(* with the blockers on what an acronym and what a rare token is.          *)
(* (persist deletes and never restarts the ids.)                           *)
(***************************************************************************)
Agrees(row) ==
  /\ row.features.acronym <=> "acronym" \in row.reasons
  /\ row.features.sharedRare > 0 <=> "rare_token" \in row.reasons

FeaturesOwn ==
  \A row \in rows : row.features # NoFeatures =>
    /\ row.features.pair = row.pair /\ row.features.blocked = row.reasons
    /\ fresh /\ (\A k \in {row.pair[1], row.pair[2]} : ForFeatures(k) = k) => Agrees(row)

(***************************************************************************)
(* A prediction's candidate_id is null or the row of the very pair it is   *)
(* about, through rebuilds that restart the ids and regenerations that do  *)
(* not, unless a rebuild slips in between two batches of one `score`.      *)
(* (truncate_canonical, ON DELETE SET NULL.)                               *)
(***************************************************************************)
PointsHome ==
  ~slipped => \A p \in Pair : preds[p] # NoPrediction /\ preds[p].candidate # Null =>
    \E row \in rows : row.id = preds[p].candidate /\ row.pair = p

=============================================================================
