------------------------ MODULE CandidateStage_proofs ------------------------
(***************************************************************************)
(* Theorems about CandidateStage for every vocabulary, every set of names  *)
(* and every relation of likeness between keys.                            *)
(*                                                                         *)
(* Part 1 is about the blockers as functions of the organizations, part 2  *)
(* about the rows they end in, part 3 about what is computed from the rows *)
(* in later commands.                                                      *)
(***************************************************************************)
EXTENDS CandidateStage, FiniteSetTheorems, TLAPS

-----------------------------------------------------------------------------
(***************************************************************************)
(* No key is there twice.                                                  *)
(***************************************************************************)
OrgsOK == orgs \in Seq(Key) /\ IsInjective(orgs) /\ lastId \in Nat

\* A row of a blocker or of the table names two organizations, twice over.
NamesIts(x) ==
  /\ x.ids = <<x.ids[1], x.ids[2]>>
  /\ x.ids[1] \in DOMAIN orgs /\ x.ids[2] \in DOMAIN orgs
  /\ x.pair = <<orgs[x.ids[1]], orgs[x.ids[2]]>>
  /\ ~Before(x.pair[2], x.pair[1])

(***************************************************************************)
(* The order of keys is strict.                                            *)
(***************************************************************************)
LEMMA BeforeIsStrict == \A j, k : ~(Before(j, k) /\ Before(k, j))
  <1> SUFFICES ASSUME NEW j, NEW k, Before(j, k), Before(k, j)
               PROVE  FALSE
    OBVIOUS
  <1>1. PICK m, n \in DOMAIN KeyOrder : m < n /\ KeyOrder[m] = j /\ KeyOrder[n] = k
    BY DEF Before
  <1>2. PICK u, v \in DOMAIN KeyOrder : u < v /\ KeyOrder[u] = k /\ KeyOrder[v] = j
    BY DEF Before
  <1>3. u = n /\ v = m
    BY <1>1, <1>2, KeyAssumption DEF IsInjective
  <1> QED
    BY <1>1, <1>2, <1>3, KeyAssumption

(***************************************************************************)
(* A finite set is listed by SetToSeq, each of its elements once.          *)
(***************************************************************************)
LEMMA SetToSeqLists ==
  ASSUME NEW S, IsFiniteSet(S)
  PROVE  /\ Cardinality(S) \in Nat
         /\ SetToSeq(S) \in [1..Cardinality(S) -> S]
         /\ Len(SetToSeq(S)) = Cardinality(S)
         /\ \A i, j \in 1..Cardinality(S) : SetToSeq(S)[i] = SetToSeq(S)[j] => i = j
         /\ \A x \in S : \E i \in 1..Cardinality(S) : SetToSeq(S)[i] = x
  <1> DEFINE n == Cardinality(S)
             f == SetToSeq(S)
  <1>1. n \in Nat /\ ExistsBijection(1..n, S)
    BY FS_CardinalityType
  <1>2. \E g \in [1..n -> S] : IsInjective(g)
    <2>1. PICK g \in Bijection(1..n, S) : TRUE
      BY <1>1 DEF ExistsBijection
    <2> QED
      BY <2>1 DEF Bijection, Injection
  <1>3. f \in [1..n -> S] /\ IsInjective(f)
    BY <1>2 DEF SetToSeq
  <1>4. f \in Injection(1..n, S)
    BY <1>3 DEF Injection
  <1>5. Cardinality(1..n) = n
    BY <1>1, FS_Interval
  <1>6. f \in Surjection(1..n, S)
    BY <1>4, <1>5, FS_Injection
  <1>7. Len(f) = n
    <2> HIDE DEF f, n
    <2> QED
      BY <1>1, <1>3
  <1> QED
    BY <1>1, <1>3, <1>6, <1>7 DEF IsInjective, Surjection

(***************************************************************************)
(* What a blocker returns, for any set of pairs of ids that it found:      *)
(* finitely many rows, each naming two organizations by key and by id.     *)
(***************************************************************************)
LEMMA RawIsFinite ==
  ASSUME NEW pairs, IsFiniteSet(pairs), NEW reason
  PROVE  IsFiniteSet(Raw(pairs, reason))
  <1> DEFINE Row(p) == [pair |-> Ordered(orgs[p[1]], orgs[p[2]]), reason |-> reason,
                        ids |-> IF Before(orgs[p[2]], orgs[p[1]]) THEN <<p[2], p[1]>> ELSE p]
             f == [p \in pairs |-> Row(p)]
  <1>1. Raw(pairs, reason) = {Row(p) : p \in pairs}
    BY DEF Raw
  <1> HIDE DEF Row
  <1>2. f \in Surjection(pairs, {Row(p) : p \in pairs})
    BY DEF Surjection
  <1> QED
    BY <1>1, <1>2, FS_Surjection

LEMMA RawNames ==
  ASSUME NEW pairs \in SUBSET (OrgId \X OrgId), NEW reason, NEW x \in Raw(pairs, reason)
  PROVE  NamesIts(x) /\ x.reason = reason
  <1>1. PICK p \in pairs :
          x = [pair |-> Ordered(orgs[p[1]], orgs[p[2]]), reason |-> reason,
               ids |-> IF Before(orgs[p[2]], orgs[p[1]]) THEN <<p[2], p[1]>> ELSE p]
    BY DEF Raw
  <1>2. p = <<p[1], p[2]>> /\ p[1] \in DOMAIN orgs /\ p[2] \in DOMAIN orgs
    BY DEF OrgId
  <1>3. CASE Before(orgs[p[2]], orgs[p[1]])
    BY <1>1, <1>2, <1>3, BeforeIsStrict DEF NamesIts, Ordered
  <1>4. CASE ~Before(orgs[p[2]], orgs[p[1]])
    BY <1>1, <1>2, <1>4 DEF NamesIts, Ordered
  <1> QED
    BY <1>3, <1>4

LEMMA BlockersFindIds ==
  ASSUME OrgsOK, NEW pairs \in {TrigramBlocker, RareTokenBlocker, AcronymBlocker}, NEW reason
  PROVE  pairs \in SUBSET (OrgId \X OrgId) /\ IsFiniteSet(Raw(pairs, reason))
  <1>1. pairs \in SUBSET (OrgId \X OrgId)
    BY DEF TrigramBlocker, RareTokenBlocker, AcronymBlocker
  <1>2. OrgId = 1..Len(orgs) /\ Len(orgs) \in Nat
    BY DEF OrgsOK, OrgId
  <1>3. IsFiniteSet(OrgId)
    BY <1>2, FS_Interval
  <1>4. IsFiniteSet(pairs)
    BY <1>1, <1>3, FS_Product, FS_Subset
  <1> QED
    BY <1>1, <1>4, RawIsFinite

(***************************************************************************)
(* The index that the acronym blocker builds over all names finds the very *)
(* pairs that a comparison of every two names finds.                       *)
(***************************************************************************)
LEMMA AcronymIndexIsExact ==
  AcronymBlocker = {p \in OrgId \X OrgId : Spells(orgs[p[1]], orgs[p[2]])}
  BY DEF AcronymBlocker, Spells

(***************************************************************************)
(* Whether a blocker returns a row for a pair of keys depends on whether   *)
(* it found their ids, in either order.                                    *)
(***************************************************************************)
LEMMA RawHasPair ==
  ASSUME OrgsOK, NEW pairs \in SUBSET (OrgId \X OrgId), NEW reason,
         NEW i \in OrgId, NEW j \in OrgId, Before(orgs[i], orgs[j])
  PROVE  (\E x \in Raw(pairs, reason) : x.pair = <<orgs[i], orgs[j]>>)
           <=> <<i, j>> \in pairs \/ <<j, i>> \in pairs
  <1>1. ~Before(orgs[j], orgs[i])
    BY BeforeIsStrict
  <1>2. ASSUME NEW x \in Raw(pairs, reason), x.pair = <<orgs[i], orgs[j]>>
        PROVE  <<i, j>> \in pairs \/ <<j, i>> \in pairs
    <2>1. PICK p \in pairs : x.pair = Ordered(orgs[p[1]], orgs[p[2]])
      BY DEF Raw
    <2>2. p = <<p[1], p[2]>> /\ p[1] \in OrgId /\ p[2] \in OrgId
      OBVIOUS
    <2>3. \/ orgs[p[1]] = orgs[i] /\ orgs[p[2]] = orgs[j]
          \/ orgs[p[1]] = orgs[j] /\ orgs[p[2]] = orgs[i]
      BY <1>2, <2>1 DEF Ordered
    <2>4. p = <<i, j>> \/ p = <<j, i>>
      BY <2>2, <2>3 DEF OrgsOK, IsInjective, OrgId
    <2> QED
      BY <2>4
  <1>3. ASSUME <<i, j>> \in pairs \/ <<j, i>> \in pairs
        PROVE  \E x \in Raw(pairs, reason) : x.pair = <<orgs[i], orgs[j]>>
    <2>1. PICK p \in pairs : p = <<i, j>> \/ p = <<j, i>>
      BY <1>3
    <2>2. Ordered(orgs[p[1]], orgs[p[2]]) = <<orgs[i], orgs[j]>>
      BY <1>1, <2>1 DEF Ordered
    <2> DEFINE y == [pair |-> Ordered(orgs[p[1]], orgs[p[2]]), reason |-> reason,
                     ids |-> IF Before(orgs[p[2]], orgs[p[1]]) THEN <<p[2], p[1]>> ELSE p]
    <2>3. y \in Raw(pairs, reason)
      BY DEF Raw
    <2> QED
      BY <2>2, <2>3
  <1> QED
    BY <1>2, <1>3

(***************************************************************************)
(* For two organizations in the order of their keys, the three blockers    *)
(* find exactly the reasons of Why.                                        *)
(***************************************************************************)
AllRaw ==
  Raw(TrigramBlocker, "trigram") \cup Raw(RareTokenBlocker, "rare_token")
    \cup Raw(AcronymBlocker, "acronym")

LEMMA TrigramHits ==
  ASSUME OrgsOK, NEW i \in OrgId, NEW j \in OrgId, i # j
  PROVE  <<i, j>> \in TrigramBlocker \/ <<j, i>> \in TrigramBlocker
           <=> {orgs[i], orgs[j]} \in Alike
  <1>1. i \in Nat /\ j \in Nat
    BY DEF OrgsOK, OrgId
  <1>2. i < j \/ j < i
    BY <1>1
  <1>3. {orgs[i], orgs[j]} = {orgs[j], orgs[i]}
    OBVIOUS
  <1> QED
    BY <1>1, <1>2, <1>3 DEF TrigramBlocker

LEMMA RareHits ==
  ASSUME OrgsOK, NEW i \in OrgId, NEW j \in OrgId, i # j
  PROVE  <<i, j>> \in RareTokenBlocker \/ <<j, i>> \in RareTokenBlocker
           <=> Content(orgs[i]) \cap Content(orgs[j]) \cap RareTokens # {}
  <1>1. i \in Nat /\ j \in Nat
    BY DEF OrgsOK, OrgId
  <1>2. i < j \/ j < i
    BY <1>1
  <1>3. \A t \in RareTokens : \E k \in OrgId : t \in Content(orgs[k])
    BY DEF RareTokens
  <1>4. Content(orgs[i]) \cap Content(orgs[j]) \cap RareTokens
          = Range(orgs[i]) \cap Range(orgs[j]) \cap RareTokens
    BY <1>3 DEF Content
  <1>5. Range(orgs[i]) \cap Range(orgs[j]) \cap RareTokens
          = Range(orgs[j]) \cap Range(orgs[i]) \cap RareTokens
    OBVIOUS
  <1> QED
    BY <1>1, <1>2, <1>4, <1>5 DEF RareTokenBlocker

LEMMA AcronymHits ==
  ASSUME NEW i \in OrgId, NEW j \in OrgId
  PROVE  <<i, j>> \in AcronymBlocker \/ <<j, i>> \in AcronymBlocker
           <=> IsAcronymExpansion(orgs[i], orgs[j])
  BY AcronymIndexIsExact DEF IsAcronymExpansion

LEMMA ReasonsFound ==
  ASSUME OrgsOK, NEW i \in OrgId, NEW j \in OrgId, Before(orgs[i], orgs[j])
  PROVE  {y.reason : y \in {z \in AllRaw : z.pair = <<orgs[i], orgs[j]>>}} = Why(orgs[i], orgs[j])
  <1> DEFINE Has(pairs, reason) == \E x \in Raw(pairs, reason) : x.pair = <<orgs[i], orgs[j]>>
             found_(reason) == \E y \in AllRaw : y.pair = <<orgs[i], orgs[j]>> /\ y.reason = reason
  <1>1. i # j
    BY BeforeIsStrict
  <1>2. /\ TrigramBlocker \in SUBSET (OrgId \X OrgId)
        /\ RareTokenBlocker \in SUBSET (OrgId \X OrgId)
        /\ AcronymBlocker \in SUBSET (OrgId \X OrgId)
    BY BlockersFindIds
  <1>3. /\ \A x \in Raw(TrigramBlocker, "trigram") : x.reason = "trigram"
        /\ \A x \in Raw(RareTokenBlocker, "rare_token") : x.reason = "rare_token"
        /\ \A x \in Raw(AcronymBlocker, "acronym") : x.reason = "acronym"
    BY <1>2, RawNames
  <1>4. /\ Has(TrigramBlocker, "trigram") <=> {orgs[i], orgs[j]} \in Alike
        /\ Has(RareTokenBlocker, "rare_token")
             <=> Content(orgs[i]) \cap Content(orgs[j]) \cap RareTokens # {}
        /\ Has(AcronymBlocker, "acronym") <=> IsAcronymExpansion(orgs[i], orgs[j])
    <2>1. ASSUME NEW pairs \in SUBSET (OrgId \X OrgId), NEW reason
          PROVE  Has(pairs, reason) <=> <<i, j>> \in pairs \/ <<j, i>> \in pairs
      BY RawHasPair
    <2> HIDE DEF Has
    <2>2. Has(TrigramBlocker, "trigram") <=> {orgs[i], orgs[j]} \in Alike
      BY <1>1, <1>2, <2>1, TrigramHits
    <2>3. Has(RareTokenBlocker, "rare_token")
            <=> Content(orgs[i]) \cap Content(orgs[j]) \cap RareTokens # {}
      BY <1>1, <1>2, <2>1, RareHits
    <2>4. Has(AcronymBlocker, "acronym") <=> IsAcronymExpansion(orgs[i], orgs[j])
      BY <1>2, <2>1, AcronymHits
    <2> QED
      BY <2>2, <2>3, <2>4
  <1>5. /\ found_("trigram") <=> Has(TrigramBlocker, "trigram")
        /\ found_("rare_token") <=> Has(RareTokenBlocker, "rare_token")
        /\ found_("acronym") <=> Has(AcronymBlocker, "acronym")
    BY <1>3 DEF AllRaw
  <1>6. \A reason : found_(reason) => reason \in Reason
    BY <1>3 DEF AllRaw, Reason
  <1> HIDE DEF Has
  <1>7. \A reason : found_(reason) <=> reason \in Why(orgs[i], orgs[j])
    BY <1>4, <1>5, <1>6 DEF Why, Reason
  <1> HIDE DEF found_
  <1>8. \A reason : reason \in {y.reason : y \in {z \in AllRaw : z.pair = <<orgs[i], orgs[j]>>}}
                      <=> found_(reason)
    BY DEF found_
  <1> QED
    BY <1>7, <1>8

-----------------------------------------------------------------------------
(***************************************************************************)
(* Part 2.  What a row says is true of the organizations, and ids of rows  *)
(* and of keys do not repeat.  While `candidates` is under way, what it    *)
(* holds is true of them too: a truncate waits for its transaction.        *)
(***************************************************************************)
FoundOK ==
  /\ found.pc \in {"off", "rare_token", "acronym", "persist"}
  /\ IsFiniteSet(found.raw)
  /\ found.pc = "off" => found.raw = {}
  /\ \A x \in found.raw : NamesIts(x)

RowsOK ==
  /\ \A row \in rows :
       /\ row = [id |-> row.id, pair |-> row.pair, ids |-> row.ids,
                 reasons |-> row.reasons, features |-> row.features]
       /\ row.id \in 1..lastId
       /\ NamesIts(row) /\ row.pair \in Pair
  /\ \A row, other \in rows : other.id = row.id \/ other.pair = row.pair => other = row

RowsInv == OrgsOK /\ FoundOK /\ RowsOK /\ closure \in Closures

(***************************************************************************)
(* The union of the blockers' rows: finite, true, and with one element for *)
(* a pair, because a pair of keys determines the ids.                      *)
(***************************************************************************)
LEMMA MergedNames ==
  ASSUME OrgsOK, FoundOK
  PROVE  /\ IsFiniteSet(MergePairs(found.raw))
         /\ \A m \in MergePairs(found.raw) : NamesIts(m) /\ m.pair \in Pair
         /\ \A m, o \in MergePairs(found.raw) : m.pair = o.pair => m = o
  <1> DEFINE Why_(q) == {y.reason : y \in {z \in found.raw : z.pair = q}}
             Merged(x) == [pair |-> x.pair, ids |-> x.ids, reasons |-> Why_(x.pair)]
             S == {y \in found.raw : y.pair[1] # y.pair[2]}
             f == [x \in S |-> Merged(x)]
  <1>1. MergePairs(found.raw) = {Merged(x) : x \in S}
    BY DEF MergePairs
  <1>2. IsFiniteSet(S)
    BY FS_Subset DEF FoundOK
  <1>3. IsFiniteSet({Merged(x) : x \in S})
    <2> HIDE DEF Merged, S
    <2>1. f \in Surjection(S, {Merged(x) : x \in S})
      BY DEF Surjection
    <2> QED
      BY <1>2, <2>1, FS_Surjection
  <1>4. ASSUME NEW x \in S
        PROVE  NamesIts(Merged(x)) /\ Merged(x).pair \in Pair
    <2>1. NamesIts(x) /\ x.pair[1] # x.pair[2]
      BY DEF FoundOK
    <2> HIDE DEF Why_
    <2>2. NamesIts(Merged(x))
      BY <2>1 DEF NamesIts
    <2>3. x.pair = <<x.pair[1], x.pair[2]>> /\ x.pair[1] \in Key /\ x.pair[2] \in Key
      BY <2>1 DEF NamesIts, OrgsOK
    <2>4. Before(x.pair[1], x.pair[2])
      <3>1. PICK m, n \in DOMAIN KeyOrder : KeyOrder[m] = x.pair[1] /\ KeyOrder[n] = x.pair[2]
        BY <2>3 DEF Key, Range
      <3>2. m \in Nat /\ n \in Nat /\ m # n
        BY <2>1, <3>1, KeyAssumption
      <3>3. ~(n < m)
        BY <2>1, <3>1 DEF NamesIts, Before
      <3>4. m < n
        BY <3>2, <3>3
      <3> QED
        BY <3>1, <3>4 DEF Before
    <2> QED
      BY <2>2, <2>3, <2>4 DEF Pair
  <1>5. ASSUME NEW x \in S, NEW y \in S, x.pair = y.pair
        PROVE  Merged(x) = Merged(y)
    <2>1. NamesIts(x) /\ NamesIts(y)
      BY DEF FoundOK
    <2>2. orgs[x.ids[1]] = orgs[y.ids[1]] /\ orgs[x.ids[2]] = orgs[y.ids[2]]
      <3>1. <<orgs[x.ids[1]], orgs[x.ids[2]]>> = <<orgs[y.ids[1]], orgs[y.ids[2]]>>
        BY <1>5, <2>1 DEF NamesIts
      <3> QED
        BY <3>1
    <2>3. x.ids[1] = y.ids[1] /\ x.ids[2] = y.ids[2]
      BY <2>1, <2>2 DEF NamesIts, OrgsOK, IsInjective
    <2>4. x.ids = y.ids
      BY <2>1, <2>3 DEF NamesIts
    <2> QED
      BY <1>5, <2>4
  <1>6. \A x \in S : Merged(x).pair = x.pair
    OBVIOUS
  <1> HIDE DEF Merged, S
  <1> QED
    BY <1>1, <1>3, <1>4, <1>5, <1>6

(***************************************************************************)
(* The rows persist inserts are the elements of that union, each once, and *)
(* their ids are new.                                                      *)
(***************************************************************************)
LEMMA PersistInserts ==
  ASSUME OrgsOK, FoundOK, Persist
  PROVE  /\ lastId' \in Nat /\ lastId <= lastId'
         /\ \A row \in rows' :
              /\ row = [id |-> row.id, pair |-> row.pair, ids |-> row.ids,
                        reasons |-> row.reasons, features |-> NoFeatures]
              /\ row.id \in 1..lastId' /\ lastId < row.id
              /\ [pair |-> row.pair, ids |-> row.ids, reasons |-> row.reasons]
                   \in MergePairs(found.raw)
         /\ \A row, other \in rows' : other.id = row.id \/ other.pair = row.pair => other = row
         /\ \A m \in MergePairs(found.raw) :
              \E row \in rows' : row.pair = m.pair /\ row.reasons = m.reasons
  <1> DEFINE M == MergePairs(found.raw)
             n == Cardinality(M)
             pairs == SetToSeq(M)
             Row(i) == [id |-> lastId + i, pair |-> pairs[i].pair, ids |-> pairs[i].ids,
                        reasons |-> pairs[i].reasons, features |-> NoFeatures]
  <1>1. /\ n \in Nat /\ pairs \in [1..n -> M] /\ Len(pairs) = n
        /\ \A i, j \in 1..n : pairs[i] = pairs[j] => i = j
        /\ \A m \in M : \E i \in 1..n : pairs[i] = m
    BY MergedNames, SetToSeqLists
  <1>2. \A m \in M : m = [pair |-> m.pair, ids |-> m.ids, reasons |-> m.reasons]
    BY DEF MergePairs
  <1>3. \A m, o \in M : m.pair = o.pair => m = o
    BY MergedNames
  <1>4. rows' = {Row(i) : i \in DOMAIN pairs} /\ lastId' = lastId + Len(pairs)
    BY DEF Persist
  <1>5. lastId \in Nat
    BY DEF OrgsOK
  <1>6. DOMAIN pairs = 1..n
    BY <1>1
  <1> HIDE DEF M, n, pairs
  <1>7. rows' = {Row(i) : i \in 1..n} /\ lastId' = lastId + n
    BY <1>1, <1>4, <1>6
  <1>8. \A i \in 1..n : /\ Row(i).id = lastId + i /\ Row(i).pair = pairs[i].pair
                        /\ Row(i).ids = pairs[i].ids /\ Row(i).reasons = pairs[i].reasons
                        /\ Row(i).features = NoFeatures
                        /\ Row(i) = [id |-> Row(i).id, pair |-> Row(i).pair, ids |-> Row(i).ids,
                                     reasons |-> Row(i).reasons, features |-> NoFeatures]
    OBVIOUS
  <1> HIDE DEF Row
  <1>9. ASSUME NEW row \in rows'
        PROVE  /\ row = [id |-> row.id, pair |-> row.pair, ids |-> row.ids,
                         reasons |-> row.reasons, features |-> NoFeatures]
               /\ row.id \in 1..lastId' /\ lastId < row.id
               /\ [pair |-> row.pair, ids |-> row.ids, reasons |-> row.reasons] \in M
    <2>1. PICK i \in 1..n : row = Row(i)
      BY <1>7
    <2>2. pairs[i] \in M
      BY <1>1
    <2>3. pairs[i] = [pair |-> pairs[i].pair, ids |-> pairs[i].ids, reasons |-> pairs[i].reasons]
      BY <1>2, <2>2
    <2>4. [pair |-> row.pair, ids |-> row.ids, reasons |-> row.reasons] \in M
      BY <1>8, <2>1, <2>2, <2>3
    <2>5. row.id = lastId + i
      BY <1>8, <2>1
    <2>6. row.id \in 1..lastId' /\ lastId < row.id
      BY <1>1, <1>5, <1>7, <2>5
    <2> QED
      BY <1>8, <2>1, <2>4, <2>6
  <1>10. ASSUME NEW row \in rows', NEW other \in rows', other.id = row.id \/ other.pair = row.pair
         PROVE  other = row
    <2>1. PICK i \in 1..n : row = Row(i)
      BY <1>7
    <2>2. PICK j \in 1..n : other = Row(j)
      BY <1>7
    <2>3. CASE other.id = row.id
      <3>1. lastId + j = lastId + i
        BY <1>8, <2>1, <2>2, <2>3
      <3>2. i = j
        BY <1>1, <1>5, <3>1
      <3> QED
        BY <2>1, <2>2, <3>2
    <2>4. CASE other.pair = row.pair
      <3>1. pairs[j].pair = pairs[i].pair /\ pairs[i] \in M /\ pairs[j] \in M
        BY <1>1, <1>8, <2>1, <2>2, <2>4
      <3>2. i = j
        BY <1>1, <1>3, <3>1
      <3> QED
        BY <2>1, <2>2, <3>2
    <2> QED
      BY <1>10, <2>3, <2>4
  <1>11. ASSUME NEW m \in M
         PROVE  \E row \in rows' : row.pair = m.pair /\ row.reasons = m.reasons
    <2>1. PICK i \in 1..n : pairs[i] = m
      BY <1>1
    <2> QED
      BY <1>7, <1>8, <2>1
  <1>12. lastId' \in Nat /\ lastId <= lastId'
    BY <1>1, <1>5, <1>7
  <1> QED
    BY <1>9, <1>10, <1>11, <1>12 DEF M

(***************************************************************************)
(* persist_features changes the features of a row, to those it holds for   *)
(* this id, and nothing else.                                              *)
(***************************************************************************)
LEMMA PersistUpdates ==
  ASSUME RowsOK, PersistFeatures
  PROVE  /\ \A y \in rows' : \E row \in rows :
              /\ y = [id |-> row.id, pair |-> row.pair, ids |-> row.ids,
                      reasons |-> row.reasons, features |-> y.features]
              /\ \/ y = row
                 \/ \E c \in computed : c.id = row.id /\ y.features = c.features
         /\ \A row \in rows : \E y \in rows' :
              y.id = row.id /\ y.pair = row.pair /\ y.reasons = row.reasons
         /\ \A y, z \in rows' : y.id = z.id \/ y.pair = z.pair => y = z
  <1> DEFINE c(row) == CHOOSE x \in computed : x.id = row.id
             New(row) == IF \E x \in computed : x.id = row.id
                         THEN [row EXCEPT !.features = c(row).features] ELSE row
  <1>1. rows' = {New(row) : row \in rows}
    BY DEF PersistFeatures
  <1>2. \A row \in rows : row = [id |-> row.id, pair |-> row.pair, ids |-> row.ids,
                                 reasons |-> row.reasons, features |-> row.features]
    BY DEF RowsOK
  <1>3. ASSUME NEW row \in rows
        PROVE  /\ New(row) = [id |-> row.id, pair |-> row.pair, ids |-> row.ids,
                              reasons |-> row.reasons, features |-> New(row).features]
               /\ \/ New(row) = row
                  \/ \E x \in computed : x.id = row.id /\ New(row).features = x.features
    <2>1. CASE \E x \in computed : x.id = row.id
      <3>1. c(row) \in computed /\ c(row).id = row.id
        BY <2>1
      <3>2. New(row) = [row EXCEPT !.features = c(row).features]
        BY <2>1
      <3> HIDE DEF New, c
      <3>3. New(row) = [id |-> row.id, pair |-> row.pair, ids |-> row.ids,
                        reasons |-> row.reasons, features |-> c(row).features]
        BY <1>2, <3>2
      <3> QED
        BY <3>1, <3>3
    <2>2. CASE ~\E x \in computed : x.id = row.id
      <3>1. New(row) = row
        BY <2>2
      <3> HIDE DEF New
      <3> QED
        BY <1>2, <3>1
    <2> QED
      BY <2>1, <2>2
  <1> HIDE DEF New
  <1>4. \A row, other \in rows : other.id = row.id \/ other.pair = row.pair => other = row
    BY DEF RowsOK
  <1>5. \A row \in rows : New(row).id = row.id /\ New(row).pair = row.pair
                          /\ New(row).reasons = row.reasons
    BY <1>3
  <1>6. \A y \in rows' : \E row \in rows : y = New(row)
    BY <1>1
  <1>7. \A y, z \in rows' : y.id = z.id \/ y.pair = z.pair => y = z
    BY <1>4, <1>5, <1>6
  <1>8. \A row \in rows : \E y \in rows' :
          y.id = row.id /\ y.pair = row.pair /\ y.reasons = row.reasons
    BY <1>1, <1>5
  <1> QED
    BY <1>3, <1>6, <1>7, <1>8

(***************************************************************************)
(* A name of an organization stays true while none goes.                   *)
(***************************************************************************)
LEMMA NamesSame ==
  ASSUME NEW x, NamesIts(x), DOMAIN orgs \subseteq DOMAIN orgs',
         \A i \in DOMAIN orgs : orgs'[i] = orgs[i]
  PROVE  NamesIts(x)'
  BY DEF NamesIts

\* What a record is filed under is a key.
LEMMA TargetIsKey == ASSUME closure \in Closures, NEW r \in Record PROVE Target(r) \in Key
  BY KeyAssumption DEF Target, Key

\* What each step does to the closure that was loaded.
LEMMA ClosureMoves ==
  ASSUME [Next]_vars
  PROVE  \/ UNCHANGED closure
         \/ \E decided \in Closures : Truncate(decided) \/ Keep(decided)
  <1>1. CASE UNCHANGED vars \/ EndCanonicalize \/ \E r \in Record : GetOrg(r) \/ CreateOrg(r)
    BY <1>1 DEF vars, naming, EndCanonicalize, GetOrg, CreateOrg
  <1>2. CASE StartCandidates \/ NextBlocker \/ Persist \/ ReadRows \/ PersistFeatures
    BY <1>2 DEF naming, StartCandidates, NextBlocker, Persist, ReadRows, PersistFeatures
  <1>3. CASE (\E rescore \in BOOLEAN : StartScore(rescore)) \/ EndScore \/ Abort \/ Done
             \/ \E batch \in SUBSET scoring.todo : ScoreBatch(batch)
    BY <1>3 DEF vars, naming, StartScore, EndScore, Abort, Done, ScoreBatch
  <1> QED
    BY <1>1, <1>2, <1>3 DEF Next

LEMMA ClosureStays == closure \in Closures /\ [Next]_vars => closure' \in Closures
  <1> SUFFICES ASSUME closure \in Closures, [Next]_vars PROVE closure' \in Closures
    OBVIOUS
  <1>1. ASSUME NEW decided \in Closures, Truncate(decided) \/ Keep(decided)
        PROVE  closure' = decided
    BY <1>1 DEF Truncate, Keep
  <1> QED
    BY <1>1, ClosureMoves

LEMMA RowsInit == Init => RowsInv
  <1> SUFFICES ASSUME Init PROVE RowsInv
    OBVIOUS
  <1>1. OrgsOK
    BY DEF Init, OrgsOK, IsInjective
  <1>2. FoundOK
    BY FS_EmptySet DEF Init, FoundOK, Idle
  <1>3. RowsOK
    BY DEF Init, RowsOK
  <1>4. closure \in Closures
    BY DEF Init
  <1> QED
    BY <1>1, <1>2, <1>3, <1>4 DEF RowsInv

LEMMA RowsStep == RowsInv /\ [Next]_vars => RowsInv'
  <1> SUFFICES ASSUME RowsInv, [Next]_vars PROVE RowsInv'
    OBVIOUS
  <1>t. OrgsOK /\ FoundOK /\ RowsOK /\ closure \in Closures /\ closure' \in Closures
    BY ClosureStays DEF RowsInv
  <1> USE <1>t
  <1>s. ASSUME UNCHANGED <<orgs, rows, lastId>>
        PROVE  OrgsOK' /\ RowsOK'
    <2>1. \A row \in rows : NamesIts(row)'
      BY <1>s, NamesSame DEF RowsOK
    <2> QED
      BY <1>s, <2>1 DEF OrgsOK, RowsOK
  <1>f. ASSUME UNCHANGED orgs, found' = found \/ found' = Idle
        PROVE  FoundOK'
    <2>1. \A x \in found.raw : NamesIts(x)'
      BY <1>f, NamesSame DEF FoundOK
    <2>2. CASE found' = found
      BY <2>1, <2>2 DEF FoundOK
    <2>3. CASE found' = Idle
      BY <2>3, FS_EmptySet DEF FoundOK, Idle
    <2> QED
      BY <1>f, <2>2, <2>3
  <1>1. ASSUME NEW decided \in Closures, Truncate(decided)
        PROVE  RowsInv'
    <2>1. orgs' = <<>> /\ rows' = {} /\ lastId' = 0
      BY <1>1 DEF Truncate
    <2>2. OrgsOK' /\ RowsOK'
      BY <2>1 DEF OrgsOK, RowsOK, IsInjective
    <2>3. found.pc = "off" /\ found' = found
      BY <1>1 DEF Truncate
    <2>4. FoundOK'
      BY <2>3 DEF FoundOK
    <2> QED
      BY <2>2, <2>4 DEF RowsInv
  <1>2. ASSUME NEW r \in Record, CreateOrg(r)
        PROVE  RowsInv'
    <2>1. /\ Target(r) \notin Range(orgs)
          /\ orgs' = Append(orgs, Target(r)) /\ UNCHANGED <<rows, lastId, found>>
      BY <1>2 DEF CreateOrg, locals
    <2>k. Target(r) \in Key
      BY TargetIsKey
    <2>2. PICK k \in Key : k \notin Range(orgs) /\ orgs' = Append(orgs, k)
      BY <2>1, <2>k
    <2>3. /\ orgs' \in Seq(Key) /\ DOMAIN orgs = 1..Len(orgs) /\ Len(orgs) \in Nat
          /\ DOMAIN orgs' = 1..(Len(orgs) + 1)
          /\ orgs'[Len(orgs) + 1] = k
          /\ \A i \in DOMAIN orgs : orgs'[i] = orgs[i]
      BY <2>2 DEF OrgsOK
    <2>4. \A i \in DOMAIN orgs : orgs[i] # k
      BY <2>2 DEF Range
    <2>5. DOMAIN orgs \subseteq DOMAIN orgs'
      BY <2>3
    <2>6. \A i, j \in DOMAIN orgs' : orgs'[i] = orgs'[j] => i = j
      <3> SUFFICES ASSUME NEW i \in DOMAIN orgs', NEW j \in DOMAIN orgs', orgs'[i] = orgs'[j]
                   PROVE  i = j
        OBVIOUS
      <3>1. (i \in DOMAIN orgs \/ i = Len(orgs) + 1) /\ (j \in DOMAIN orgs \/ j = Len(orgs) + 1)
        BY <2>3
      <3> QED
        BY <2>3, <2>4, <3>1 DEF OrgsOK, IsInjective
    <2>7. OrgsOK'
      BY <2>1, <2>3, <2>6 DEF OrgsOK, IsInjective
    <2>8. RowsOK'
      <3>1. \A row \in rows : NamesIts(row)'
        BY <2>3, <2>5, NamesSame DEF RowsOK
      <3> QED
        BY <2>1, <3>1 DEF RowsOK
    <2>9. FoundOK'
      <3>1. \A x \in found.raw : NamesIts(x)'
        BY <2>3, <2>5, NamesSame DEF FoundOK
      <3> QED
        BY <2>1, <3>1 DEF FoundOK
    <2> QED
      BY <2>7, <2>8, <2>9 DEF RowsInv
  <1>b. ASSUME NEW pairs \in {TrigramBlocker, RareTokenBlocker, AcronymBlocker}, NEW reason,
               NEW pc \in {"rare_token", "acronym", "persist"},
               NEW before \in {{}, found.raw},
               found' = [pc |-> pc, raw |-> before \cup Raw(pairs, reason)],
               UNCHANGED <<orgs, rows, lastId>>
        PROVE  RowsInv'
    <2>1. pairs \in SUBSET (OrgId \X OrgId) /\ IsFiniteSet(Raw(pairs, reason))
      BY BlockersFindIds
    <2>2. IsFiniteSet(before \cup Raw(pairs, reason))
      BY <2>1, FS_Union, FS_EmptySet DEF FoundOK
    <2>3. \A x \in before \cup Raw(pairs, reason) : NamesIts(x)
      BY <2>1, RawNames DEF FoundOK
    <2>4. \A x \in before \cup Raw(pairs, reason) : NamesIts(x)'
      BY <1>b, <2>3, NamesSame
    <2>5. found'.pc = pc /\ found'.raw = before \cup Raw(pairs, reason)
      BY <1>b
    <2>6. FoundOK'
      BY <2>2, <2>4, <2>5 DEF FoundOK
    <2> QED
      BY <1>b, <1>s, <2>6 DEF RowsInv
  <1>3. ASSUME StartCandidates
        PROVE  RowsInv'
    <2>1. /\ found' = [pc |-> "rare_token", raw |-> {} \cup Raw(TrigramBlocker, "trigram")]
          /\ UNCHANGED <<orgs, rows, lastId>>
      BY <1>3 DEF StartCandidates
    <2> QED
      BY <1>b, <2>1
  <1>4. ASSUME NextBlocker
        PROVE  RowsInv'
    <2>1. \/ found' = [pc |-> "acronym", raw |-> found.raw \cup Raw(RareTokenBlocker, "rare_token")]
          \/ found' = [pc |-> "persist", raw |-> found.raw \cup Raw(AcronymBlocker, "acronym")]
      BY <1>4 DEF NextBlocker
    <2>2. UNCHANGED <<orgs, rows, lastId>>
      BY <1>4 DEF NextBlocker
    <2> QED
      BY <1>b, <2>1, <2>2
  <1>5. ASSUME Persist
        PROVE  RowsInv'
    <2>1. UNCHANGED orgs /\ found' = Idle
      BY <1>5 DEF Persist
    <2>2. lastId' \in Nat
      BY <1>5, PersistInserts
    <2>3. ASSUME NEW row \in rows'
          PROVE  /\ row = [id |-> row.id, pair |-> row.pair, ids |-> row.ids,
                           reasons |-> row.reasons, features |-> row.features]
                 /\ row.id \in 1..lastId' /\ NamesIts(row)' /\ row.pair \in Pair
      <3>1. /\ row = [id |-> row.id, pair |-> row.pair, ids |-> row.ids,
                      reasons |-> row.reasons, features |-> NoFeatures]
            /\ row.id \in 1..lastId'
            /\ [pair |-> row.pair, ids |-> row.ids, reasons |-> row.reasons]
                 \in MergePairs(found.raw)
        BY <1>5, PersistInserts
      <3>2. PICK m \in MergePairs(found.raw) : m.pair = row.pair /\ m.ids = row.ids
        BY <3>1
      <3>3. NamesIts(m) /\ m.pair \in Pair
        BY MergedNames
      <3>4. NamesIts(row) /\ row.pair \in Pair
        BY <3>2, <3>3 DEF NamesIts
      <3>5. NamesIts(row)'
        BY <2>1, <3>4, NamesSame
      <3> QED
        BY <3>1, <3>4, <3>5
    <2>4. \A row, other \in rows' : other.id = row.id \/ other.pair = row.pair => other = row
      BY <1>5, PersistInserts
    <2>5. RowsOK'
      BY <2>3, <2>4 DEF RowsOK
    <2>6. OrgsOK'
      BY <2>1, <2>2 DEF OrgsOK
    <2> QED
      BY <1>f, <2>1, <2>5, <2>6 DEF RowsInv
  <1>6. ASSUME PersistFeatures
        PROVE  RowsInv'
    <2>1. UNCHANGED <<orgs, lastId, found>>
      BY <1>6 DEF PersistFeatures
    <2>2. ASSUME NEW y \in rows'
          PROVE  /\ y = [id |-> y.id, pair |-> y.pair, ids |-> y.ids,
                         reasons |-> y.reasons, features |-> y.features]
                 /\ y.id \in 1..lastId' /\ NamesIts(y)' /\ y.pair \in Pair
      <3>1. PICK row \in rows : y = [id |-> row.id, pair |-> row.pair, ids |-> row.ids,
                                     reasons |-> row.reasons, features |-> y.features]
        BY <1>6, PersistUpdates
      <3>2. y.id = row.id /\ y.pair = row.pair /\ y.ids = row.ids /\ y.reasons = row.reasons
        BY <3>1
      <3>3. row.id \in 1..lastId /\ NamesIts(row) /\ row.pair \in Pair
        BY DEF RowsOK
      <3>4. NamesIts(y)
        BY <3>2, <3>3 DEF NamesIts
      <3>5. NamesIts(y)'
        BY <2>1, <3>4, NamesSame
      <3>6. y = [id |-> y.id, pair |-> y.pair, ids |-> y.ids,
                 reasons |-> y.reasons, features |-> y.features]
        BY <3>1, <3>2
      <3> QED
        BY <2>1, <3>2, <3>3, <3>5, <3>6
    <2>3. \A row, other \in rows' : other.id = row.id \/ other.pair = row.pair => other = row
      BY <1>6, PersistUpdates
    <2>4. RowsOK'
      BY <2>2, <2>3 DEF RowsOK
    <2>5. OrgsOK'
      BY <2>1 DEF OrgsOK
    <2> QED
      BY <1>f, <2>1, <2>4, <2>5 DEF RowsInv
  <1>7. ASSUME UNCHANGED <<orgs, rows, lastId>>, found' = found \/ found' = Idle
        PROVE  RowsInv'
    BY <1>7, <1>s, <1>f DEF RowsInv
  <1> QED
    BY <1>1, <1>2, <1>3, <1>4, <1>5, <1>6, <1>7
       DEF Next, Keep, GetOrg, EndCanonicalize, ReadRows, StartScore, ScoreBatch, EndScore, Abort,
           Done, vars, locals

(***************************************************************************)
(* Every candidate is an ordered pair of two organizations, there once,    *)
(* and its ids are those of its keys, whatever canonicalize does while the *)
(* blockers run.                                                           *)
(***************************************************************************)
THEOREM CandidatesAreTrue == Spec => []RowsTrue
  <1>1. RowsInv => RowsTrue
    BY DEF RowsInv, RowsOK, NamesIts, RowsTrue
  <1> QED
    BY <1>1, RowsInit, RowsStep, PTL DEF Spec

(***************************************************************************)
(* While no organization has come or gone since `candidates` began, what   *)
(* the blockers have returned is what they would return now.               *)
(***************************************************************************)
FoundExact ==
  found.pc # "off" /\ steady =>
    found.raw = Raw(TrigramBlocker, "trigram")
                \cup (IF found.pc = "rare_token" THEN {} ELSE Raw(RareTokenBlocker, "rare_token"))
                \cup (IF found.pc = "persist" THEN Raw(AcronymBlocker, "acronym") ELSE {})

ReasonsInv == RowsInv /\ FoundExact /\ ReasonsExact

LEMMA BlockersSame ==
  ASSUME orgs' = orgs
  PROVE  /\ Raw(TrigramBlocker, "trigram")' = Raw(TrigramBlocker, "trigram")
         /\ Raw(RareTokenBlocker, "rare_token")' = Raw(RareTokenBlocker, "rare_token")
         /\ Raw(AcronymBlocker, "acronym")' = Raw(AcronymBlocker, "acronym")
         /\ RareTokens' = RareTokens
  <1>1. OrgId' = OrgId /\ RareTokens' = RareTokens
    BY DEF OrgId, RareTokens
  <1>2. /\ TrigramBlocker' = TrigramBlocker
        /\ RareTokenBlocker' = RareTokenBlocker
        /\ AcronymBlocker' = AcronymBlocker
    BY <1>1 DEF TrigramBlocker, RareTokenBlocker, AcronymBlocker
  <1> QED
    BY <1>1, <1>2 DEF Raw

(***************************************************************************)
(* The rows a persist inserts while nothing has changed carry the reasons  *)
(* there are.                                                              *)
(***************************************************************************)
LEMMA PersistIsExact ==
  ASSUME RowsInv, FoundExact, Persist, steady,
         NEW p \in Pair, p[1] \in Range(orgs), p[2] \in Range(orgs)
  PROVE  IF Why(p[1], p[2]) = {}
         THEN \A row \in rows' : row.pair # p
         ELSE \E row \in rows' : row.pair = p /\ row.reasons = Why(p[1], p[2])
  <1>t. OrgsOK /\ FoundOK
    BY DEF RowsInv
  <1> DEFINE M == MergePairs(found.raw)
             R == {y.reason : y \in {z \in found.raw : z.pair = p}}
  <1>1. found.raw = AllRaw
    BY DEF FoundExact, Persist, AllRaw
  <1>2. PICK i \in OrgId, j \in OrgId : orgs[i] = p[1] /\ orgs[j] = p[2]
    BY DEF Range, OrgId
  <1>3. p = <<p[1], p[2]>> /\ Before(p[1], p[2])
    BY DEF Pair
  <1>4. R = Why(p[1], p[2])
    BY <1>t, <1>1, <1>2, <1>3, ReasonsFound
  <1>5. p[1] # p[2]
    BY <1>3, BeforeIsStrict
  <1>6. \A m \in M : m.pair = p => m.reasons = R /\ R # {}
    BY DEF MergePairs
  <1>7. R # {} => \E m \in M : m.pair = p
    <2> SUFFICES ASSUME R # {} PROVE \E m \in M : m.pair = p
      OBVIOUS
    <2>1. PICK x \in found.raw : x.pair = p
      OBVIOUS
    <2> DEFINE m == [pair |-> x.pair, ids |-> x.ids,
                     reasons |-> {y.reason : y \in {z \in found.raw : z.pair = x.pair}}]
    <2>2. x \in {y \in found.raw : y.pair[1] # y.pair[2]}
      BY <1>5, <2>1
    <2>3. m \in M
      BY <2>2 DEF MergePairs
    <2> QED
      BY <2>1, <2>3
  <1>8. \A row \in rows' : \E m \in M : m.pair = row.pair
    <2> SUFFICES ASSUME NEW row \in rows' PROVE \E m \in M : m.pair = row.pair
      OBVIOUS
    <2>1. [pair |-> row.pair, ids |-> row.ids, reasons |-> row.reasons] \in M
      BY <1>t, PersistInserts
    <2> QED
      BY <2>1
  <1>9. \A m \in M : \E row \in rows' : row.pair = m.pair /\ row.reasons = m.reasons
    BY <1>t, PersistInserts
  <1> HIDE DEF M, R
  <1>10. CASE Why(p[1], p[2]) = {}
    BY <1>4, <1>6, <1>8, <1>10
  <1>11. CASE Why(p[1], p[2]) # {}
    BY <1>4, <1>6, <1>7, <1>9, <1>11
  <1> QED
    BY <1>10, <1>11

LEMMA ReasonsInit == Init => ReasonsInv
  <1> SUFFICES ASSUME Init PROVE ReasonsInv
    OBVIOUS
  <1>1. RowsInv
    BY RowsInit
  <1>2. FoundExact /\ ReasonsExact
    BY DEF Init, Idle, FoundExact, ReasonsExact
  <1> QED
    BY <1>1, <1>2 DEF ReasonsInv

LEMMA ReasonsStep == ReasonsInv /\ [Next]_vars => ReasonsInv'
  <1> SUFFICES ASSUME ReasonsInv, [Next]_vars PROVE ReasonsInv'
    OBVIOUS
  <1>t. RowsInv /\ FoundExact /\ ReasonsExact /\ OrgsOK /\ FoundOK /\ RowsOK
    BY DEF ReasonsInv, RowsInv
  <1>s. RowsInv'
    BY <1>t, RowsStep
  <1>f. ASSUME UNCHANGED <<orgs, steady>>, found' = found \/ found' = Idle
        PROVE  FoundExact'
    <2>1. CASE found' = found
      BY <1>f, <1>t, <2>1, BlockersSame DEF FoundExact
    <2>2. CASE found' = Idle
      BY <2>2 DEF FoundExact, Idle
    <2> QED
      BY <1>f, <2>1, <2>2
  <1>r. ASSUME UNCHANGED <<orgs, fresh>>,
               \A y \in rows' : \E row \in rows : y.pair = row.pair,
               \A row \in rows : \E y \in rows' : y.pair = row.pair /\ y.reasons = row.reasons
        PROVE  ReasonsExact'
    <2> SUFFICES ASSUME fresh,
                        NEW p \in Pair, p[1] \in Range(orgs), p[2] \in Range(orgs)
                 PROVE  IF Why(p[1], p[2]) = {}
                        THEN \A row \in rows' : row.pair # p
                        ELSE \E row \in rows' : row.pair = p /\ row.reasons = Why(p[1], p[2])
      <3>1. \A j, k : Why(j, k)' = Why(j, k)
        BY <1>r, BlockersSame DEF Why
      <3> QED
        BY <1>r, <3>1 DEF ReasonsExact
    <2>1. IF Why(p[1], p[2]) = {}
          THEN \A row \in rows : row.pair # p
          ELSE \E row \in rows : row.pair = p /\ row.reasons = Why(p[1], p[2])
      BY <1>t DEF ReasonsExact
    <2> QED
      BY <1>r, <2>1
  <1>1. ASSUME NEW decided \in Closures, Truncate(decided)
        PROVE  ReasonsInv'
    BY <1>1, <1>s DEF Truncate, ReasonsInv, FoundExact, ReasonsExact
  <1>2. ASSUME NEW r \in Record, CreateOrg(r)
        PROVE  ReasonsInv'
    BY <1>2, <1>s DEF CreateOrg, ReasonsInv, FoundExact, ReasonsExact
  <1>3. ASSUME StartCandidates
        PROVE  ReasonsInv'
    <2>1. /\ found' = [pc |-> "rare_token", raw |-> Raw(TrigramBlocker, "trigram")]
          /\ UNCHANGED <<orgs, rows, fresh>>
      BY <1>3 DEF StartCandidates
    <2>2. FoundExact'
      BY <2>1, BlockersSame DEF FoundExact
    <2> QED
      BY <1>r, <1>s, <2>1, <2>2 DEF ReasonsInv
  <1>4. ASSUME NextBlocker
        PROVE  ReasonsInv'
    <2>1. /\ \/ /\ found.pc = "rare_token"
                /\ found' = [pc |-> "acronym", raw |-> found.raw \cup Raw(RareTokenBlocker, "rare_token")]
             \/ /\ found.pc = "acronym"
                /\ found' = [pc |-> "persist", raw |-> found.raw \cup Raw(AcronymBlocker, "acronym")]
          /\ UNCHANGED <<orgs, rows, fresh, steady>>
      BY <1>4 DEF NextBlocker, history
    <2>2. FoundExact'
      BY <1>t, <2>1, BlockersSame DEF FoundExact
    <2> QED
      BY <1>r, <1>s, <2>1, <2>2 DEF ReasonsInv
  <1>5. ASSUME Persist
        PROVE  ReasonsInv'
    <2>1. UNCHANGED <<orgs, steady>> /\ found' = Idle /\ fresh' = steady
      BY <1>5 DEF Persist
    <2>2. ReasonsExact'
      <3> SUFFICES ASSUME steady,
                          NEW p \in Pair, p[1] \in Range(orgs), p[2] \in Range(orgs)
                   PROVE  IF Why(p[1], p[2]) = {}
                          THEN \A row \in rows' : row.pair # p
                          ELSE \E row \in rows' : row.pair = p /\ row.reasons = Why(p[1], p[2])
        <4>1. \A j, k : Why(j, k)' = Why(j, k)
          BY <2>1, BlockersSame DEF Why
        <4> QED
          BY <2>1, <4>1 DEF ReasonsExact
      <3> QED
        BY <1>5, <1>t, PersistIsExact
    <2> QED
      BY <1>f, <1>s, <2>1, <2>2 DEF ReasonsInv
  <1>6. ASSUME PersistFeatures
        PROVE  ReasonsInv'
    <2>1. UNCHANGED <<orgs, found, steady, fresh>>
      BY <1>6 DEF PersistFeatures, history
    <2>2. /\ \A y \in rows' : \E row \in rows :
               y = [id |-> row.id, pair |-> row.pair, ids |-> row.ids,
                    reasons |-> row.reasons, features |-> y.features]
          /\ \A row \in rows : \E y \in rows' : y.pair = row.pair /\ y.reasons = row.reasons
      BY <1>6, <1>t, PersistUpdates
    <2>3. \A y \in rows' : \E row \in rows : y.pair = row.pair
      BY <2>2
    <2> QED
      BY <1>f, <1>r, <1>s, <2>1, <2>2, <2>3 DEF ReasonsInv
  <1>7. ASSUME UNCHANGED <<orgs, rows, steady, fresh>>, found' = found \/ found' = Idle
        PROVE  ReasonsInv'
    BY <1>7, <1>f, <1>r, <1>s DEF ReasonsInv
  <1> QED
    BY <1>1, <1>2, <1>3, <1>4, <1>5, <1>6, <1>7
       DEF Next, Keep, GetOrg, EndCanonicalize, ReadRows, StartScore, ScoreBatch, EndScore, Abort,
           Done, vars, locals, history

(***************************************************************************)
(* While the organizations are those the blockers read, no pair with a     *)
(* reason is missing, and a row gives every reason and no other.           *)
(***************************************************************************)
THEOREM ReasonsAreExact == Spec => []ReasonsExact
  <1>1. ReasonsInv => ReasonsExact
    BY DEF ReasonsInv
  <1> QED
    BY <1>1, ReasonsInit, ReasonsStep, PTL DEF Spec

-----------------------------------------------------------------------------
(***************************************************************************)
(* Part 3.  The features `features` holds belong to the rows they will be  *)
(* written to, if those are still there.                                   *)
(***************************************************************************)
Own(features, row) ==
  /\ features.pair = row.pair /\ features.blocked = row.reasons
  /\ fresh /\ (\A k \in {row.pair[1], row.pair[2]} : ForFeatures(k) = k) =>
       /\ features.acronym <=> "acronym" \in row.reasons
       /\ features.sharedRare > 0 <=> "rare_token" \in row.reasons

ComputedOwn ==
  computed # NoFeatures =>
    \A c \in computed : /\ c.id \in 1..lastId
                        /\ \A row \in rows : row.id = c.id => Own(c.features, row)

FeaturesInv == ReasonsInv /\ ComputedOwn /\ FeaturesOwn

(***************************************************************************)
(* A key has finitely many tokens.                                         *)
(***************************************************************************)
LEMMA ContentIsFinite ==
  ASSUME NEW k \in Key
  PROVE  IsFiniteSet(Content(k))
  <1>1. k \in Seq(Token)
    BY KeyAssumption DEF Key, Range
  <1>2. Len(k) \in Nat /\ DOMAIN k = 1..Len(k)
    BY <1>1
  <1>3. IsFiniteSet(DOMAIN k)
    BY <1>2, FS_Interval
  <1>4. [i \in DOMAIN k |-> k[i]] \in Surjection(DOMAIN k, Range(k))
    BY DEF Surjection, Range
  <1>5. IsFiniteSet(Range(k))
    BY <1>3, <1>4, FS_Surjection
  <1> QED
    BY <1>5, FS_Subset DEF Content

(***************************************************************************)
(* What `features` computes of a row belongs to it.                        *)
(***************************************************************************)
LEMMA FeaturesBelong ==
  ASSUME ReasonsInv, NEW row \in rows
  PROVE  Own(Features(row, RareTokens), row)
  <1> DEFINE f == Features(row, RareTokens)
             j == row.pair[1]
             k == row.pair[2]
  <1>1. f.pair = row.pair /\ f.blocked = row.reasons
    BY DEF Features
  <1>2. ASSUME fresh, ForFeatures(j) = j, ForFeatures(k) = k
        PROVE  /\ f.acronym <=> "acronym" \in row.reasons
               /\ f.sharedRare > 0 <=> "rare_token" \in row.reasons
    <2>1. /\ row.pair \in Pair /\ NamesIts(row)
          /\ \A other \in rows : other.pair = row.pair => other = row
      BY DEF ReasonsInv, RowsInv, RowsOK
    <2>2. j \in Range(orgs) /\ k \in Range(orgs) /\ j \in Key
      BY <2>1 DEF NamesIts, Range, Pair
    <2>3. row.reasons = Why(j, k)
      BY <1>2, <2>1, <2>2 DEF ReasonsInv, ReasonsExact
    <2>4. /\ f.acronym = IsAcronymExpansion(j, k)
          /\ f.sharedRare = Cardinality(Content(j) \cap Content(k) \cap RareTokens)
      BY <1>2 DEF Features
    <2>5. f.acronym <=> "acronym" \in row.reasons
      BY <2>3, <2>4 DEF Why, Reason
    <2> DEFINE shared == Content(j) \cap Content(k) \cap RareTokens
    <2>6. IsFiniteSet(shared)
      <3>1. IsFiniteSet(Content(j))
        BY <2>2, ContentIsFinite
      <3>2. shared \in SUBSET Content(j)
        OBVIOUS
      <3> HIDE DEF shared
      <3> QED
        BY <3>1, <3>2, FS_Subset
    <2>7. Cardinality(shared) \in Nat /\ (Cardinality(shared) = 0 <=> shared = {})
      <3> HIDE DEF shared
      <3> QED
        BY <2>6, FS_CardinalityType, FS_EmptySet
    <2>8. f.sharedRare > 0 <=> shared # {}
      <3> HIDE DEF shared
      <3>1. f.sharedRare = Cardinality(shared)
        BY <2>4 DEF shared
      <3> QED
        BY <2>7, <3>1
    <2>9. "rare_token" \in row.reasons <=> shared # {}
      BY <2>3 DEF Why, Reason
    <2> QED
      BY <2>5, <2>8, <2>9
  <1> HIDE DEF f
  <1> QED
    BY <1>1, <1>2 DEF Own, f

LEMMA OwnSame ==
  ASSUME NEW features, NEW row, Own(features, row), fresh' => fresh
  PROVE  Own(features, row)'
  BY DEF Own

LEMMA OwnIsFeaturesOwn ==
  FeaturesOwn <=> \A row \in rows : row.features # NoFeatures => Own(row.features, row)
  BY DEF FeaturesOwn, Own, Agrees

LEMMA FeaturesInit == Init => FeaturesInv
  <1> SUFFICES ASSUME Init PROVE FeaturesInv
    OBVIOUS
  <1>1. ReasonsInv
    BY ReasonsInit
  <1>2. ComputedOwn /\ FeaturesOwn
    BY DEF Init, ComputedOwn, FeaturesOwn
  <1> QED
    BY <1>1, <1>2 DEF FeaturesInv

LEMMA FeaturesStep == FeaturesInv /\ [Next]_vars => FeaturesInv'
  <1> SUFFICES ASSUME FeaturesInv, [Next]_vars PROVE FeaturesInv'
    OBVIOUS
  <1>t. /\ ReasonsInv /\ ComputedOwn /\ FeaturesOwn
        /\ RowsInv /\ OrgsOK /\ FoundOK /\ RowsOK
    BY DEF FeaturesInv, ReasonsInv, RowsInv
  <1>s. ReasonsInv'
    BY <1>t, ReasonsStep
  <1>o. \A row \in rows : row.features # NoFeatures => Own(row.features, row)
    BY <1>t, OwnIsFeaturesOwn
  <1>q. ASSUME fresh' => fresh, rows' = rows
        PROVE  FeaturesOwn'
    <2>1. \A row \in rows : row.features # NoFeatures => Own(row.features, row)'
      BY <1>q, <1>o, OwnSame
    <2>2. (\A row \in rows : row.features # NoFeatures => Own(row.features, row))'
      BY <1>q, <2>1
    <2> QED
      BY <2>2 DEF FeaturesOwn, Own, Agrees
  <1>c. ASSUME fresh' => fresh, UNCHANGED <<rows, lastId>>,
               computed' = computed \/ computed' = NoFeatures
        PROVE  ComputedOwn'
    <2>1. CASE computed' = NoFeatures
      BY <2>1 DEF ComputedOwn
    <2>2. CASE computed' = computed /\ computed # NoFeatures
      <3>1. ASSUME NEW c \in computed
            PROVE  c.id \in 1..lastId /\ \A row \in rows : row.id = c.id => Own(c.features, row)'
        BY <1>c, <1>t, <2>2, OwnSame DEF ComputedOwn
      <3> QED
        BY <1>c, <2>2, <3>1 DEF ComputedOwn
    <2> QED
      BY <1>c, <2>1, <2>2
  <1>1. ASSUME NEW decided \in Closures, Truncate(decided)
        PROVE  FeaturesInv'
    BY <1>1, <1>s DEF Truncate, FeaturesInv, ComputedOwn, FeaturesOwn
  <1>2. ASSUME Persist
        PROVE  FeaturesInv'
    <2>1. computed' = computed /\ lastId \in Nat /\ lastId' \in Nat /\ lastId <= lastId'
      BY <1>2, <1>t, PersistInserts DEF Persist, OrgsOK
    <2>2. ASSUME NEW row \in rows'
          PROVE  row.features = NoFeatures /\ lastId < row.id /\ row.id \in 1..lastId'
      <3>1. /\ row = [id |-> row.id, pair |-> row.pair, ids |-> row.ids,
                      reasons |-> row.reasons, features |-> NoFeatures]
            /\ row.id \in 1..lastId' /\ lastId < row.id
        BY <1>2, <1>t, PersistInserts
      <3> QED
        BY <3>1
    <2>3. FeaturesOwn'
      BY <2>2 DEF FeaturesOwn
    <2>4. ComputedOwn'
      <3> SUFFICES ASSUME computed # NoFeatures, NEW c \in computed
                   PROVE  c.id \in 1..lastId' /\ \A row \in rows' : row.id # c.id
        BY <2>1 DEF ComputedOwn
      <3>1. c.id \in 1..lastId
        BY <1>t DEF ComputedOwn
      <3> QED
        BY <2>1, <2>2, <3>1
    <2> QED
      BY <1>s, <2>3, <2>4 DEF FeaturesInv
  <1>3. ASSUME ReadRows
        PROVE  FeaturesInv'
    <2>1. /\ computed' = {[id |-> row.id, features |-> Features(row, RareTokens)] : row \in rows}
          /\ UNCHANGED <<rows, lastId, fresh>>
      BY <1>3 DEF ReadRows, history
    <2>2. ASSUME NEW c \in computed'
          PROVE  c.id \in 1..lastId /\ \A row \in rows : row.id = c.id => Own(c.features, row)'
      <3>1. PICK read \in rows : c = [id |-> read.id, features |-> Features(read, RareTokens)]
        BY <2>1
      <3>2. c.id = read.id /\ c.features = Features(read, RareTokens)
        BY <3>1
      <3>3. read.id \in 1..lastId /\ \A row \in rows : row.id = read.id => row = read
        BY <1>t DEF RowsOK
      <3>4. Own(c.features, read)
        BY <1>t, <3>2, FeaturesBelong
      <3>5. Own(c.features, read)'
        BY <2>1, <3>4, OwnSame
      <3> QED
        BY <3>2, <3>3, <3>5
    <2>3. ComputedOwn'
      BY <2>1, <2>2 DEF ComputedOwn
    <2> QED
      BY <1>q, <1>s, <2>1, <2>3 DEF FeaturesInv
  <1>4. ASSUME PersistFeatures
        PROVE  FeaturesInv'
    <2>1. computed # NoFeatures /\ computed' = NoFeatures /\ fresh' = fresh
      BY <1>4 DEF PersistFeatures, history
    <2>2. ASSUME NEW y \in rows', y.features # NoFeatures
          PROVE  Own(y.features, y)'
      <3>1. PICK row \in rows :
              /\ y = [id |-> row.id, pair |-> row.pair, ids |-> row.ids,
                      reasons |-> row.reasons, features |-> y.features]
              /\ y = row \/ \E c \in computed : c.id = row.id /\ y.features = c.features
        BY <1>4, <1>t, PersistUpdates
      <3>2. y.pair = row.pair /\ y.reasons = row.reasons
        BY <3>1
      <3>3. Own(y.features, row)
        <4>1. CASE y = row
          BY <1>o, <2>2, <4>1
        <4>2. CASE \E c \in computed : c.id = row.id /\ y.features = c.features
          BY <1>t, <2>1, <4>2 DEF ComputedOwn
        <4> QED
          BY <3>1, <4>1, <4>2
      <3>4. Own(y.features, y)
        BY <3>2, <3>3 DEF Own
      <3> QED
        BY <2>1, <3>4, OwnSame
    <2>3. (\A row \in rows : row.features # NoFeatures => Own(row.features, row))'
      BY <2>2
    <2>4. FeaturesOwn'
      BY <2>3 DEF FeaturesOwn, Own, Agrees
    <2>5. ComputedOwn'
      BY <2>1 DEF ComputedOwn
    <2> QED
      BY <1>s, <2>4, <2>5 DEF FeaturesInv
  <1>5. ASSUME fresh' => fresh, UNCHANGED <<rows, lastId>>,
               computed' = computed \/ computed' = NoFeatures
        PROVE  FeaturesInv'
    BY <1>5, <1>c, <1>q, <1>s DEF FeaturesInv
  <1>6. ASSUME NEW r \in Record, CreateOrg(r)
        PROVE  FeaturesInv'
    BY <1>5, <1>6 DEF CreateOrg, locals
  <1> QED
    BY <1>1, <1>2, <1>3, <1>4, <1>5, <1>6
       DEF Next, Keep, GetOrg, EndCanonicalize, StartCandidates, NextBlocker, StartScore, ScoreBatch,
           EndScore, Abort, Done, vars, locals, history

(***************************************************************************)
(* The features of a row are those of its own pair and reasons, whatever   *)
(* is found anew between reading a row and writing to its id.              *)
(***************************************************************************)
THEOREM FeaturesAreOwn == Spec => []FeaturesOwn
  <1>1. FeaturesInv => FeaturesOwn
    BY DEF FeaturesInv
  <1> QED
    BY <1>1, FeaturesInit, FeaturesStep, PTL DEF Spec

(***************************************************************************)
(* A row `score` has read and not yet written a prediction for is still    *)
(* the row of that id, if there is one.                                    *)
(***************************************************************************)
TodoHome ==
  /\ scoring.pc \in {"off", "first", "rest"}
  /\ scoring.pc = "off" => scoring.todo = {}
  /\ ~slipped => \A x \in scoring.todo :
       x.id \in 1..lastId /\ \A row \in rows : row.id = x.id => row.pair = x.pair

PredsOK ==
  \A p \in Pair : preds[p] # NoPrediction =>
    preds[p] = [candidate |-> preds[p].candidate, snapshot |-> preds[p].snapshot]

PointsInv == RowsInv /\ TodoHome /\ PredsOK /\ PointsHome

(***************************************************************************)
(* What deleting rows does to the predictions.                             *)
(***************************************************************************)
LEMMA UnpointedPreds ==
  ASSUME PredsOK, Unpoint(Ids), NEW p \in Pair, preds'[p] # NoPrediction
  PROVE  /\ preds'[p] = [candidate |-> preds'[p].candidate, snapshot |-> preds'[p].snapshot]
         /\ \/ preds'[p].candidate = Null
            \/ /\ preds[p] # NoPrediction /\ preds[p].candidate \notin Ids
               /\ preds'[p].candidate = preds[p].candidate
  <1>1. preds'[p] = IF preds[p] # NoPrediction /\ preds[p].candidate \in Ids
                    THEN [preds[p] EXCEPT !.candidate = Null] ELSE preds[p]
    BY DEF Unpoint
  <1>2. preds[p] # NoPrediction =>
          preds[p] = [candidate |-> preds[p].candidate, snapshot |-> preds[p].snapshot]
    BY DEF PredsOK
  <1>3. CASE preds[p] # NoPrediction /\ preds[p].candidate \in Ids
    <2>1. preds'[p] = [candidate |-> Null, snapshot |-> preds[p].snapshot]
      BY <1>1, <1>2, <1>3
    <2> QED
      BY <2>1
  <1>4. CASE ~(preds[p] # NoPrediction /\ preds[p].candidate \in Ids)
    BY <1>1, <1>2, <1>4
  <1> QED
    BY <1>3, <1>4

LEMMA PointsInit == Init => PointsInv
  <1> SUFFICES ASSUME Init PROVE PointsInv
    OBVIOUS
  <1>1. RowsInv
    BY RowsInit
  <1>2. TodoHome /\ PredsOK /\ PointsHome
    BY DEF Init, IdleScore, TodoHome, PredsOK, PointsHome
  <1> QED
    BY <1>1, <1>2 DEF PointsInv

LEMMA PointsStep == PointsInv /\ [Next]_vars => PointsInv'
  <1> SUFFICES ASSUME PointsInv, [Next]_vars PROVE PointsInv'
    OBVIOUS
  <1>t. RowsInv /\ TodoHome /\ PredsOK /\ PointsHome /\ OrgsOK /\ FoundOK /\ RowsOK
    BY DEF PointsInv, RowsInv
  <1>s. RowsInv'
    BY <1>t, RowsStep
  <1>u. ASSUME Unpoint(Ids)
        PROVE  PredsOK' /\ (~slipped => \A p \in Pair :
                              preds'[p] # NoPrediction => preds'[p].candidate = Null)
    <2>1. PredsOK'
      BY <1>t, <1>u, UnpointedPreds DEF PredsOK
    <2>2. ASSUME ~slipped, NEW p \in Pair, preds'[p] # NoPrediction
          PROVE  preds'[p].candidate = Null
      <3>1. SUFFICES ASSUME preds[p] # NoPrediction, preds[p].candidate \notin Ids,
                            preds'[p].candidate = preds[p].candidate,
                            preds[p].candidate # Null
                     PROVE  FALSE
        BY <1>t, <1>u, <2>2, UnpointedPreds
      <3>2. \E row \in rows : row.id = preds[p].candidate
        BY <1>t, <2>2, <3>1 DEF PointsHome
      <3> QED
        BY <3>1, <3>2 DEF Ids
    <2> QED
      BY <2>1, <2>2
  <1>k. ASSUME UNCHANGED <<lastId, preds, scoring, slipped>>,
               \A row \in rows : \E y \in rows' : y.id = row.id /\ y.pair = row.pair,
               \A y \in rows' : \E row \in rows : y.id = row.id /\ y.pair = row.pair
        PROVE  PointsInv'
    <2>1. TodoHome'
      BY <1>k, <1>t DEF TodoHome
    <2>2. PredsOK' /\ PointsHome'
      BY <1>k, <1>t DEF PredsOK, PointsHome
    <2> QED
      BY <1>s, <2>1, <2>2 DEF PointsInv
  <1>1. ASSUME NEW decided \in Closures, Truncate(decided)
        PROVE  PointsInv'
    <2>1. /\ rows' = {} /\ lastId' = 0 /\ Unpoint(Ids) /\ scoring' = scoring
          /\ scoring.pc # "first" /\ slipped' = (slipped \/ scoring.pc = "rest")
      BY <1>1 DEF Truncate
    <2>2. TodoHome'
      BY <1>t, <2>1 DEF TodoHome
    <2>3. PredsOK' /\ PointsHome'
      BY <1>u, <2>1 DEF PointsHome
    <2> QED
      BY <1>s, <2>2, <2>3 DEF PointsInv
  <1>2. ASSUME Persist
        PROVE  PointsInv'
    <2>1. Unpoint(Ids) /\ scoring' = scoring /\ slipped' = slipped
      BY <1>2 DEF Persist
    <2>2. /\ lastId \in Nat /\ lastId' \in Nat /\ lastId <= lastId'
          /\ \A row \in rows' : lastId < row.id
      BY <1>2, <1>t, PersistInserts DEF OrgsOK
    <2>3. TodoHome'
      <3>1. ASSUME ~slipped, NEW x \in scoring.todo
            PROVE  x.id \in 1..lastId' /\ \A row \in rows' : row.id # x.id
        <4>1. x.id \in 1..lastId
          BY <1>t, <3>1 DEF TodoHome
        <4>2. ASSUME NEW row \in rows', row.id = x.id
              PROVE  FALSE
          BY <2>2, <4>1, <4>2
        <4> QED
          BY <2>2, <4>1, <4>2
      <3> QED
        BY <1>t, <2>1, <3>1 DEF TodoHome
    <2>4. PredsOK' /\ PointsHome'
      BY <1>u, <2>1 DEF PointsHome
    <2> QED
      BY <1>s, <2>3, <2>4 DEF PointsInv
  <1>3. ASSUME PersistFeatures
        PROVE  PointsInv'
    <2>1. UNCHANGED <<lastId, preds, scoring, slipped>>
      BY <1>3 DEF PersistFeatures, history
    <2>2. /\ \A y \in rows' : \E row \in rows :
               y = [id |-> row.id, pair |-> row.pair, ids |-> row.ids,
                    reasons |-> row.reasons, features |-> y.features]
          /\ \A row \in rows : \E y \in rows' : y.id = row.id /\ y.pair = row.pair
      BY <1>3, <1>t, PersistUpdates
    <2>3. \A y \in rows' : \E row \in rows : y.id = row.id /\ y.pair = row.pair
      BY <2>2
    <2> QED
      BY <1>k, <2>1, <2>2, <2>3
  <1>4. ASSUME NEW rescore \in BOOLEAN, StartScore(rescore)
        PROVE  PointsInv'
    <2>1. /\ scoring'.pc = "first" /\ scoring'.todo \subseteq rows
          /\ UNCHANGED <<rows, lastId, preds, slipped>>
      BY <1>4 DEF StartScore, history
    <2>2. TodoHome'
      BY <1>t, <2>1 DEF TodoHome, RowsOK
    <2>3. PredsOK' /\ PointsHome'
      BY <1>t, <2>1 DEF PredsOK, PointsHome
    <2> QED
      BY <1>s, <2>2, <2>3 DEF PointsInv
  <1>5. ASSUME NEW batch \in SUBSET scoring.todo, ScoreBatch(batch)
        PROVE  PointsInv'
    <2>1. /\ \A row \in batch : \E now \in rows : now.id = row.id
          /\ scoring' = [pc |-> "rest", todo |-> scoring.todo \ batch]
          /\ UNCHANGED <<rows, lastId, slipped>>
      BY <1>5 DEF ScoreBatch, Ids, history
    <2>2. TodoHome'
      BY <1>t, <2>1 DEF TodoHome
    <2>3. ASSUME NEW p \in Pair
          PROVE  \/ preds'[p] = preds[p]
                 \/ \E row \in batch : /\ row.pair = p
                                       /\ preds'[p] = [candidate |-> row.id, snapshot |-> row.features]
      <3> DEFINE c == CHOOSE x \in batch : x.pair = p
      <3>1. preds'[p] = IF \E row \in batch : row.pair = p
                        THEN [candidate |-> c.id, snapshot |-> c.features] ELSE preds[p]
        BY <1>5 DEF ScoreBatch
      <3>2. (\E row \in batch : row.pair = p) => c \in batch /\ c.pair = p
        OBVIOUS
      <3> HIDE DEF c
      <3> QED
        BY <3>1, <3>2
    <2>4. PredsOK'
      <3> SUFFICES ASSUME NEW p \in Pair, preds'[p] # NoPrediction
                   PROVE  preds'[p] = [candidate |-> preds'[p].candidate, snapshot |-> preds'[p].snapshot]
        BY DEF PredsOK
      <3>1. CASE preds'[p] = preds[p]
        BY <1>t, <3>1 DEF PredsOK
      <3>2. CASE \E row \in batch : preds'[p] = [candidate |-> row.id, snapshot |-> row.features]
        BY <3>2
      <3> QED
        BY <2>3, <3>1, <3>2
    <2>5. PointsHome'
      <3> SUFFICES ASSUME ~slipped, NEW p \in Pair, preds'[p] # NoPrediction,
                          preds'[p].candidate # Null
                   PROVE  \E row \in rows : row.id = preds'[p].candidate /\ row.pair = p
        BY <2>1 DEF PointsHome
      <3>1. CASE preds'[p] = preds[p]
        BY <1>t, <3>1 DEF PointsHome
      <3>2. ASSUME NEW row \in batch, row.pair = p,
                   preds'[p] = [candidate |-> row.id, snapshot |-> row.features]
            PROVE  \E now \in rows : now.id = preds'[p].candidate /\ now.pair = p
        <4>1. PICK now \in rows : now.id = row.id
          BY <2>1
        <4>2. now.pair = row.pair
          BY <1>t, <4>1 DEF TodoHome
        <4> QED
          BY <3>2, <4>1, <4>2
      <3> QED
        BY <2>3, <3>1, <3>2
    <2> QED
      BY <1>s, <2>2, <2>4, <2>5 DEF PointsInv
  <1>6. ASSUME EndScore
        PROVE  PointsInv'
    <2>1. scoring' = IdleScore /\ UNCHANGED <<rows, lastId, preds, slipped>>
      BY <1>6 DEF EndScore, history
    <2> QED
      BY <1>s, <1>t, <2>1 DEF PointsInv, TodoHome, PredsOK, PointsHome, IdleScore
  <1>7. ASSUME UNCHANGED <<rows, lastId, preds, scoring, slipped>>
        PROVE  PointsInv'
    BY <1>k, <1>7
  <1>8. ASSUME NEW r \in Record, CreateOrg(r)
        PROVE  PointsInv'
    BY <1>7, <1>8 DEF CreateOrg, locals
  <1> QED
    BY <1>1, <1>2, <1>3, <1>4, <1>5, <1>6, <1>7, <1>8
       DEF Next, Keep, GetOrg, EndCanonicalize, StartCandidates, NextBlocker, ReadRows, Abort, Done,
           vars, locals, history

(***************************************************************************)
(* A prediction's candidate_id is null or the row of its own pair, unless  *)
(* a rebuild slips in between two batches of one `score`.                  *)
(***************************************************************************)
THEOREM PredictionsPointHome == Spec => []PointsHome
  <1>1. PointsInv => PointsHome
    BY DEF PointsInv
  <1> QED
    BY <1>1, PointsInit, PointsStep, PTL DEF Spec
-----------------------------------------------------------------------------
(***************************************************************************)
(* Part 4.  Names that are written from a brand: the key of such a name is *)
(* the brand, so that the organizations are the brands.                    *)
(***************************************************************************)
LEMMA MaxIs ==
  ASSUME NEW S \in SUBSET Nat, NEW m \in S, \A x \in S : x <= m
  PROVE  Max(S) = m
  <1>1. PICK k : k = Max(S)
    OBVIOUS
  <1>2. \E x \in S : \A y \in S : x >= y
    OBVIOUS
  <1>3. k \in S /\ \A y \in S : k >= y
    BY <1>1, <1>2, Zenon DEF Max
  <1>4. k = m
    BY <1>3
  <1> QED
    BY <1>1, <1>4

LEMMA MinIs ==
  ASSUME NEW S \in SUBSET Nat, NEW m \in S, \A x \in S : m <= x
  PROVE  Min(S) = m
  <1>1. PICK k : k = Min(S)
    OBVIOUS
  <1>2. \E x \in S : \A y \in S : x =< y
    OBVIOUS
  <1>3. k \in S /\ \A y \in S : k =< y
    BY <1>1, <1>2, Zenon DEF Min
  <1>4. k = m
    BY <1>3
  <1> QED
    BY <1>1, <1>4

(***************************************************************************)
(* normalize_org takes the places, the suffixes and the repeated tail off, *)
(* and nothing of the brand.                                               *)
(***************************************************************************)
LEMMA KeyIsBrand ==
  ASSUME NEW r \in Record, NamesBrand(r)
  PROVE  KeyOf(r) = BrandOf[r]
  <1> DEFINE name == Words[r]
             brand == BrandOf[r]
             n == Len(brand)
  <1>1. /\ name \in Seq(Word) /\ name # <<>> /\ Commas[r] \subseteq 1..(Len(name) - 1)
        /\ brand \in Seq(Token) /\ brand # <<>> /\ (n > 1 => brand[n - 1] # brand[n])
    BY CandidateAssumption DEF NamesBrand
  <1>2. PICK c \in Commas[r] \cup {Len(name)} :
          /\ \A d \in Commas[r] : d >= c => PlaceAfter(r, d)
          /\ \A b \in Commas[r] : b < c => \E d \in Commas[r] : d \in b..(c - 1) /\ ~PlaceAfter(r, d)
          /\ \E m \in 1..c :
               /\ \A i \in (m + 1)..c : Keyed[name[i]] \in Suffix
               /\ m = 1 \/ Keyed[name[m]] \notin Suffix
               /\ LET toks == TokensOf(SubSeq(name, 1, m))
                  IN /\ toks \in Seq(Token) /\ Len(toks) >= n
                     /\ toks = [i \in 1..Len(toks) |-> IF i <= n THEN brand[i] ELSE brand[n]]
    BY DEF NamesBrand
  <1>3. PICK m \in 1..c :
          /\ \A i \in (m + 1)..c : Keyed[name[i]] \in Suffix
          /\ m = 1 \/ Keyed[name[m]] \notin Suffix
          /\ TokensOf(SubSeq(name, 1, m)) \in Seq(Token) /\ Len(TokensOf(SubSeq(name, 1, m))) >= n
          /\ TokensOf(SubSeq(name, 1, m)) =
               [i \in 1..Len(TokensOf(SubSeq(name, 1, m))) |-> IF i <= n THEN brand[i] ELSE brand[n]]
    BY <1>2
  <1>4. /\ Len(name) \in Nat /\ Len(name) >= 1 /\ c \in Nat /\ 1 <= c /\ c <= Len(name)
        /\ m \in Nat /\ 1 <= m /\ m <= c /\ n \in Nat /\ n >= 1
    <2>1. Len(name) \in Nat /\ Len(name) >= 1 /\ n \in Nat /\ n >= 1
      BY <1>1
    <2> HIDE DEF name, n
    <2>2. c \in Nat /\ 1 <= c /\ c <= Len(name)
      BY <1>1, <1>2, <2>1
    <2> QED
      BY <1>3, <2>1, <2>2
  <1> HIDE DEF name, brand, n
  <1>5. StripLocation(r) = SubSeq(name, 1, c)
    <2> DEFINE S == {Len(name)} \cup {b \in Commas[r] : \A d \in Commas[r] : d >= b => PlaceAfter(r, d)}
    <2>1. S \in SUBSET Nat
      BY <1>1, <1>4
    <2>2. c \in S
      BY <1>2
    <2>3. ASSUME NEW x \in S PROVE c <= x
      <3>1. CASE x = Len(name)
        BY <1>4, <3>1
      <3>2. CASE x \in Commas[r] /\ \A d \in Commas[r] : d >= x => PlaceAfter(r, d)
        <4>1. ~(x < c)
          <5> SUFFICES ASSUME x < c PROVE FALSE
            OBVIOUS
          <5>1. PICK d \in Commas[r] : d \in x..(c - 1) /\ ~PlaceAfter(r, d)
            BY <1>2, <3>2
          <5>2. d >= x
            BY <1>4, <2>1, <5>1
          <5> QED
            BY <3>2, <5>1, <5>2
        <4> QED
          BY <1>4, <2>1, <4>1
      <3> QED
        BY <3>1, <3>2
    <2> HIDE DEF S
    <2>4. Min(S) = c
      BY <2>1, <2>2, <2>3, MinIs
    <2> QED
      BY <2>4 DEF StripLocation, S, name
  <1> DEFINE kept == SubSeq(name, 1, c)
  <1>6. kept \in Seq(Word) /\ Len(kept) = c /\ \A i \in 1..c : kept[i] = name[i]
    BY <1>1, <1>4
  <1>7. SubSeq(kept, 1, m) = SubSeq(name, 1, m)
    <2>1. /\ SubSeq(name, 1, m) \in Seq(Word) /\ Len(SubSeq(name, 1, m)) = m
          /\ \A i \in 1..m : SubSeq(name, 1, m)[i] = name[i]
      BY <1>1, <1>4
    <2> HIDE DEF kept
    <2>2. /\ SubSeq(kept, 1, m) \in Seq(Word) /\ Len(SubSeq(kept, 1, m)) = m
          /\ \A i \in 1..m : SubSeq(kept, 1, m)[i] = kept[i]
      BY <1>4, <1>6
    <2>3. \A i \in 1..m : SubSeq(kept, 1, m)[i] = SubSeq(name, 1, m)[i]
      BY <1>4, <1>6, <2>1, <2>2
    <2>4. ASSUME NEW u \in Seq(Word), NEW w \in Seq(Word), Len(u) = m, Len(w) = m,
                 \A i \in 1..m : u[i] = w[i]
          PROVE  u = w
      BY <2>4
    <2> QED
      BY <2>1, <2>2, <2>3, <2>4
  <1> HIDE DEF kept
  <1>8. StripSuffix(kept) = SubSeq(name, 1, m)
    <2> DEFINE S == {1} \cup {i \in DOMAIN kept : Keyed[kept[i]] \notin Suffix}
    <2>1. DOMAIN kept = 1..c
      BY <1>6
    <2>2. S \in SUBSET Nat /\ m \in S
      BY <1>3, <1>4, <1>6, <2>1
    <2>3. ASSUME NEW x \in S PROVE x <= m
      <3>1. CASE x = 1
        BY <1>4, <3>1
      <3>2. CASE x \in 1..c /\ Keyed[name[x]] \notin Suffix
        <4>1. x \notin (m + 1)..c
          BY <1>3, <3>2
        <4> QED
          BY <1>4, <3>2, <4>1
      <3> QED
        BY <1>6, <2>1, <3>1, <3>2
    <2> HIDE DEF S
    <2>4. Max(S) = m
      BY <2>2, <2>3, MaxIs
    <2> QED
      BY <1>7, <2>4 DEF StripSuffix, S
  <1> DEFINE t == TokensOf(SubSeq(name, 1, m))
             l == Len(t)
  <1>9. t \in Seq(Token) /\ l >= n /\ t = [i \in 1..l |-> IF i <= n THEN brand[i] ELSE brand[n]]
    BY <1>3
  <1>10. TokensOf(StripSuffix(StripLocation(r))) = t
    BY <1>5, <1>8 DEF kept
  <1> HIDE DEF t
  <1>11. l \in Nat /\ DOMAIN t = 1..l /\ \A i \in 1..l : t[i] = IF i <= n THEN brand[i] ELSE brand[n]
    <2>1. l \in Nat
      BY <1>9
    <2> HIDE DEF l
    <2> QED
      BY <1>9, <2>1
  <1>b. l \in Nat /\ n \in Nat /\ 1 <= n /\ n <= l
    BY <1>4, <1>9, <1>11
  <1>12. Collapse(t) = SubSeq(t, 1, n)
    <2> DEFINE S == {Len(t)} \cup {i \in DOMAIN t : \A j \in i..Len(t) : t[j] = Last(t)}
    <2>1. Last(t) = brand[n]
      <3>1. Last(t) = t[l]
        BY <1>9 DEF Last
      <3> HIDE DEF l, n
      <3>2. l \in 1..l
        BY <1>b
      <3>3. l <= n => l = n
        BY <1>b
      <3> QED
        BY <1>11, <3>1, <3>2, <3>3
    <2>2. n \in S
      <3>1. ASSUME NEW j \in n..l PROVE t[j] = brand[n]
        <4>1. j \in 1..l /\ (j <= n => j = n)
          BY <1>4, <1>11, <3>1
        <4> QED
          BY <1>11, <4>1
      <3>2. n \in DOMAIN t
        BY <1>4, <1>9, <1>11
      <3> QED
        BY <2>1, <3>1, <3>2 DEF l
    <2>3. ASSUME NEW i \in S PROVE i \in Nat /\ n <= i
      <3>1. CASE i = l
        BY <1>9, <1>11, <3>1
      <3>2. CASE i \in 1..l /\ \A j \in i..l : t[j] = Last(t)
        <4>1. ASSUME i < n PROVE FALSE
          <5>1. n - 1 \in i..l /\ n > 1 /\ n - 1 \in 1..l /\ n - 1 <= n
            <6> HIDE DEF l, n
            <6> QED
              BY <1>b, <3>2, <4>1
          <5>2. t[n - 1] = brand[n - 1]
            BY <1>11, <5>1
          <5>3. t[n - 1] = brand[n]
            BY <2>1, <3>2, <5>1
          <5> QED
            BY <1>1, <5>1, <5>2, <5>3
        <4> QED
          BY <1>4, <3>2, <4>1
      <3> QED
        BY <1>11, <3>1, <3>2 DEF l
    <2>4. S \in SUBSET Nat
      BY <2>3
    <2> HIDE DEF S
    <2>5. Min(S) = n
      BY <2>2, <2>3, <2>4, MinIs
    <2> QED
      BY <2>5 DEF Collapse, S
  <1>13. SubSeq(t, 1, n) = brand
    <2>1. n <= Len(t)
      BY <1>9 DEF l
    <2>2. SubSeq(t, 1, n) \in Seq(Token) /\ Len(SubSeq(t, 1, n)) = n
      BY <1>4, <1>9, <2>1
    <2>3. \A i \in 1..n : SubSeq(t, 1, n)[i] = t[i]
      BY <1>4, <1>9, <2>1
    <2>4. \A i \in 1..n : t[i] = brand[i]
      BY <1>4, <1>9, <1>11
    <2>5. brand \in Seq(Token) /\ Len(brand) = n
      BY <1>1 DEF n
    <2>6. ASSUME NEW u \in Seq(Token), Len(u) = n, \A i \in 1..n : u[i] = brand[i]
          PROVE  u = brand
      BY <2>5, <2>6
    <2> QED
      BY <2>2, <2>3, <2>4, <2>6
  <1> QED
    BY <1>1, <1>10, <1>12, <1>13 DEF KeyOf, Or, brand

(***************************************************************************)
(* As long as one closure filled the tables, a record is filed under its   *)
(* key, or the key the decisions put in its place.                         *)
(***************************************************************************)
FiledRight ==
  /\ filed \in [Record -> Nat]
  /\ \A r \in Record : filed[r] # 0 => filed[r] \in DOMAIN orgs
  /\ ~remerged => \A r \in Record : filed[r] # 0 => orgs[filed[r]] = Target(r)

FiledInv == RowsInv /\ FiledRight

LEMMA FiledInit == Init => FiledInv
  <1> SUFFICES ASSUME Init PROVE FiledInv
    OBVIOUS
  <1>1. RowsInv
    BY RowsInit
  <1>2. FiledRight
    BY DEF Init, FiledRight
  <1> QED
    BY <1>1, <1>2 DEF FiledInv

LEMMA FiledStep == FiledInv /\ [Next]_vars => FiledInv'
  <1> SUFFICES ASSUME FiledInv, [Next]_vars PROVE FiledInv'
    OBVIOUS
  <1>t. RowsInv /\ FiledRight /\ orgs \in Seq(Key) /\ closure \in Closures
    BY DEF FiledInv, RowsInv, OrgsOK
  <1>s. RowsInv'
    BY <1>t, RowsStep
  <1> SUFFICES FiledRight'
    BY <1>s DEF FiledInv
  <1>1. ASSUME NEW decided \in Closures, Truncate(decided) PROVE FiledRight'
    BY <1>1 DEF Truncate, FiledRight
  <1>2. ASSUME NEW decided \in Closures, Keep(decided) PROVE FiledRight'
    <2>1. UNCHANGED <<orgs, filed>> /\ (~remerged' => ~remerged /\ (orgs = <<>> \/ closure' = closure))
      BY <1>2 DEF Keep
    <2>2. ASSUME ~remerged', NEW r \in Record, filed[r] # 0 PROVE orgs[filed[r]] = Target(r)'
      <3>1. closure' = closure
        BY <1>t, <2>1, <2>2 DEF FiledRight
      <3> QED
        BY <1>t, <2>1, <2>2, <3>1 DEF FiledRight, Target
    <2> QED
      BY <1>t, <2>1, <2>2 DEF FiledRight
  <1>3. ASSUME NEW r \in Record, GetOrg(r) PROVE FiledRight'
    <2>1. PICK i \in OrgId : orgs[i] = Target(r) /\ filed' = [filed EXCEPT ![r] = i]
      BY <1>3 DEF GetOrg
    <2>2. UNCHANGED <<orgs, closure, remerged>> /\ i \in DOMAIN orgs /\ i \in Nat
      BY <1>3, <1>t, <2>1 DEF GetOrg, OrgId
    <2>3. \A q \in Record : filed'[q] = IF q = r THEN i ELSE filed[q]
      BY <1>t, <2>1 DEF FiledRight
    <2>4. filed' \in [Record -> Nat]
      BY <1>t, <2>1, <2>2 DEF FiledRight
    <2>5. \A q \in Record : Target(q)' = Target(q)
      BY <2>2 DEF Target
    <2> QED
      BY <1>t, <2>1, <2>2, <2>3, <2>4, <2>5 DEF FiledRight
  <1>4. ASSUME NEW r \in Record, CreateOrg(r) PROVE FiledRight'
    <2>1. /\ orgs' = Append(orgs, Target(r)) /\ filed' = [filed EXCEPT ![r] = Len(orgs) + 1]
          /\ UNCHANGED <<closure, remerged>>
      BY <1>4 DEF CreateOrg
    <2>2. PICK k \in Key : k = Target(r)
      BY <1>t, TargetIsKey
    <2>3. /\ Len(orgs) + 1 \in DOMAIN orgs' /\ orgs'[Len(orgs) + 1] = k /\ Len(orgs) + 1 \in Nat
          /\ \A i \in DOMAIN orgs : i \in DOMAIN orgs' /\ orgs'[i] = orgs[i]
      BY <1>t, <2>1, <2>2
    <2>4. \A q \in Record : filed'[q] = IF q = r THEN Len(orgs) + 1 ELSE filed[q]
      BY <1>t, <2>1 DEF FiledRight
    <2>5. filed' \in [Record -> Nat]
      BY <1>t, <2>1, <2>3 DEF FiledRight
    <2>6. \A q \in Record : Target(q)' = Target(q)
      BY <2>1 DEF Target
    <2>7. \A q \in Record : filed'[q] # 0 => filed'[q] \in DOMAIN orgs'
      BY <1>t, <2>3, <2>4 DEF FiledRight
    <2>8. ASSUME ~remerged', NEW q \in Record, filed'[q] # 0 PROVE orgs'[filed'[q]] = Target(q)
      BY <1>t, <2>1, <2>2, <2>3, <2>4, <2>8 DEF FiledRight
    <2> QED
      BY <2>5, <2>6, <2>7, <2>8 DEF FiledRight
  <1>5. ASSUME UNCHANGED <<orgs, filed, closure, remerged>> PROVE FiledRight'
    <2>1. UNCHANGED <<orgs, filed, closure, remerged>>
      BY <1>5
    <2>2. \A r \in Record : Target(r)' = Target(r)
      BY <2>1 DEF Target
    <2> QED
      BY <1>t, <2>1, <2>2 DEF FiledRight
  <1>6. CASE UNCHANGED vars \/ EndCanonicalize
    <2>1. UNCHANGED <<orgs, filed, closure, remerged>>
      BY <1>6 DEF vars, naming, EndCanonicalize
    <2> QED
      BY <1>5, <2>1
  <1>7. CASE StartCandidates \/ NextBlocker \/ Persist \/ ReadRows \/ PersistFeatures
    <2>1. UNCHANGED <<orgs, filed, closure, remerged>>
      BY <1>7 DEF naming, StartCandidates, NextBlocker, Persist, ReadRows, PersistFeatures
    <2> QED
      BY <1>5, <2>1
  <1>8. CASE (\E rescore \in BOOLEAN : StartScore(rescore)) \/ EndScore \/ Abort \/ Done
             \/ \E batch \in SUBSET scoring.todo : ScoreBatch(batch)
    <2>1. UNCHANGED <<orgs, filed, closure, remerged>>
      BY <1>8 DEF vars, naming, StartScore, EndScore, Abort, Done, ScoreBatch
    <2> QED
      BY <1>5, <2>1
  <1> QED
    BY <1>1, <1>2, <1>3, <1>4, <1>6, <1>7, <1>8 DEF Next

(***************************************************************************)
(* When names are written from their brands, two records are filed under   *)
(* one organization exactly when their brands are the same or merged, in   *)
(* whatever order the names come.                                          *)
(***************************************************************************)
THEOREM OrganizationsAreBrands ==
  ASSUME \A r \in Record : NamesBrand(r)
  PROVE  Spec => []OneOrgPerBrand
  <1>1. FiledInv => OneOrgPerBrand
    <2> SUFFICES ASSUME FiledInv, ~remerged, NEW r \in Record, NEW q \in Record,
                        filed[r] # 0, filed[q] # 0
                 PROVE  filed[r] = filed[q] <=> closure[BrandOf[r]] = closure[BrandOf[q]]
      BY DEF OneOrgPerBrand
    <2>1. /\ filed[r] \in DOMAIN orgs /\ filed[q] \in DOMAIN orgs
          /\ orgs[filed[r]] = Target(r) /\ orgs[filed[q]] = Target(q)
      BY DEF FiledInv, FiledRight
    <2>2. Target(r) = closure[BrandOf[r]] /\ Target(q) = closure[BrandOf[q]]
      BY KeyIsBrand DEF Target
    <2>3. orgs[filed[r]] = orgs[filed[q]] => filed[r] = filed[q]
      BY <2>1 DEF FiledInv, RowsInv, OrgsOK, IsInjective
    <2> QED
      BY <2>1, <2>2, <2>3
  <1> QED
    BY <1>1, FiledInit, FiledStep, PTL DEF Spec
=============================================================================
