---------------------------- MODULE DerivedLayers ----------------------------
(***************************************************************************)
(* The layers built over the canonical tables, with the rebuild under      *)
(* them: `people` (people_pipeline.py) and `blog link` (blog.py).  Both    *)
(* read first, then clear what they built before and write it anew, in     *)
(* transactions of their own.  Nothing keeps a rebuild, a reparse or the   *)
(* crawl of the blog from running meanwhile; any command may die.          *)
(***************************************************************************)
EXTENDS Canonicalize, BlogCorpus

CONSTANTS
  Person, NoPerson, PersonOf,  \* extract_person of a record's title
  Word, Words,                 \* norm_key of a name, as a sequence of words
  Letters,                     \* and its length in characters
  Text,                        \* norm_key of title and text of a post
  Plans                        \* the pages there are at first, and how often
                               \* each command may be begun from there

Commands == {"people", "blog_discover", "blog_fetch", "blog_extract", "blog_link"}

ASSUME LayersAssumption ==
  /\ NoPerson \notin Person /\ PersonOf \in [Rec -> Person \cup {NoPerson}]
  /\ Words \in [Name -> Seq(Word)] /\ Letters \in [Name -> Nat]
  /\ Text \in [Post -> Seq(Word)]
  /\ Plans \subseteq [archived : SUBSET Post, commands : [Commands -> Nat]]

VARIABLES
  people,   \* people: a name at an employer, by the organization's id
  honors,   \* recognition_people
  builder,  \* the locals of `people`; torn: a truncate since it read (history)
  mixed,    \* history: the honors were written by a torn build
  edges,    \* blog_entity_links, each with the key its slug meant (history)
  linker,   \* the locals of `blog link`
  current,  \* history: the commands whose last run read what there is now
  left      \* how often each may still be begun

layerVars == <<people, honors, builder, mixed, edges, linker, current, left, blogVars>>
vars == <<canonVars, layerVars>>

Honor == [id : Nat, person : Person, org : Nat]
Entry == [slug : Slug, key : Key]
Edge == [post : Post, slug : Slug, key : Key]
NoBuild == [pc |-> "off", read |-> {}, torn |-> FALSE]
NoLink == [pc |-> "off", vocab |-> {}, todo |-> {}]

TypeOK ==
  /\ CanonTypeOK
  /\ people \in SUBSET (Person \X Nat) /\ honors \in SUBSET Honor
  /\ builder \in [pc : {"off", "clear", "people", "links"}, read : SUBSET Honor, torn : BOOLEAN]
  /\ mixed \in BOOLEAN
  /\ edges \in SUBSET Edge
  /\ linker \in [pc : {"off", "clear", "posts"}, vocab : SUBSET Entry, todo : SUBSET Post]
  /\ current \in SUBSET Commands
  /\ left \in [Commands -> Nat] /\ BlogTypeOK

Init ==
  /\ CanonInit
  /\ people = {} /\ honors = {} /\ builder = NoBuild /\ mixed = FALSE
  /\ edges = {} /\ linker = NoLink
  /\ current = {}
  /\ \E plan \in Plans : left = plan.commands /\ BlogInit(plan.archived)

Begin(c) == left[c] > 0 /\ left' = [left EXCEPT ![c] = @ - 1]

\* The commands that have read what this step changes.
Outdated ==
  {c \in current :
     \/ c = "people" /\ fact' # fact
     \/ c = "blog_extract" /\ pages' # pages
     \/ c = "blog_link" /\ <<rowId, rowSlug, posts>>' # <<rowId, rowSlug, posts>>}

-----------------------------------------------------------------------------
\* people_source_recognitions and resolve_people.
Truth ==
  {[id |-> f.id, person |-> PersonOf[f.rec], org |-> f.recipient] :
     f \in {g \in {fact[n] : n \in Node} : g # NoFact /\ PersonOf[g.rec] # NoPerson}}

\* `people`: the recognitions are read before anything is cleared.
ReadRecognitions ==
  /\ builder.pc = "off" /\ Begin("people")
  /\ builder' = [pc |-> "clear", read |-> Truth, torn |-> FALSE]
  /\ current' = current \cup {"people"}
  /\ UNCHANGED <<people, honors, mixed>>

\* (Mutant: only the honors are cleared.)
ClearHonors ==
  /\ builder.pc = "clear"
  /\ honors' = {} /\ mixed' = FALSE
  /\ builder' = [builder EXCEPT !.pc = "people"]
  /\ UNCHANGED <<people, current, left>>

ClearPersonLayer ==
  /\ builder.pc = "clear"
  /\ people' = {} /\ honors' = {} /\ mixed' = FALSE
  /\ builder' = [builder EXCEPT !.pc = "people"]
  /\ UNCHANGED <<current, left>>

Recognized(id) == \E n \in Node : fact[n] # NoFact /\ fact[n].id = id

\* The foreign keys of people (002) and of recognition_people (020).
EmployersThere == \A h \in builder.read : h.org = NoId \/ \E o \in Org : rowId[o] = h.org
HonoreesThere == \A h \in builder.read : Recognized(h.id) /\ <<h.person, h.org>> \in people

InsertPeople ==
  /\ builder.pc = "people" /\ EmployersThere
  /\ people' = people \cup {<<h.person, h.org>> : h \in builder.read}
  /\ builder' = [builder EXCEPT !.pc = "links"]
  /\ UNCHANGED <<honors, mixed, current, left>>

InsertRecognitionPeople ==
  /\ builder.pc = "links" /\ HonoreesThere
  /\ honors' = honors \cup builder.read
  /\ mixed' = builder.torn
  /\ builder' = NoBuild
  /\ UNCHANGED <<people, current, left>>

\* A key does not hold: the transaction is rolled back, the command raises.
BuildRaises ==
  /\ \/ builder.pc = "people" /\ ~EmployersThere
     \/ builder.pc = "links" /\ ~HonoreesThere
  /\ builder' = NoBuild
  /\ current' = current \ {"people"}
  /\ UNCHANGED <<people, honors, mixed, left>>

-----------------------------------------------------------------------------
\* The tables a mention may name a row of, in the order build_vocab adds them.
Rank == [programs |-> 1, category_definitions |-> 2, organizations |-> 3]
MaxWords == 8    \* _MAX_N
MinLetters == 6  \* _MIN_CHARS

Gram(e) == Words[e.slug[1]]
RankOf(e) == Rank[TableOf[e.key]]

\* Rows of one word or of few letters are too common, unless programs.
Specific(e) ==
  /\ TableOf[e.key] \in DOMAIN Rank /\ Gram(e) # <<>>
  /\ TableOf[e.key] # "programs" => Len(Gram(e)) > 1 /\ Letters[e.slug[1]] >= MinLetters

\* (Mutant: the rows are taken to have the slugs fresh ones would have.)
FreshEntries == {e \in {[slug |-> <<rowSlug[k][1], 1>>, key |-> k] : k \in {j \in Key : rowId[j] # NoId}} : Specific(e)}

\* blog_link_sources: the rows there are, by slug.
Entries == {e \in {[slug |-> rowSlug[k], key |-> k] : k \in {j \in Key : rowId[j] # NoId}} : Specific(e)}

\* build_vocab: of the rows of one name the first one, in no order but that of
\* the tables.
Vocabularies(rows) ==
  {v \in SUBSET rows :
     /\ \A d, e \in v : Gram(d) = Gram(e) => d = e
     /\ \A e \in rows : \E d \in v : Gram(d) = Gram(e) /\ RankOf(d) <= RankOf(e)}

\* `blog link`: the entities are read, the edges cleared, the posts read.
ReadEntities ==
  /\ linker.pc = "off" /\ Begin("blog_link")
  /\ \E v \in Vocabularies(Entries) : linker' = [pc |-> "clear", vocab |-> v, todo |-> {}]
  /\ current' = current \cup {"blog_link"}
  /\ UNCHANGED edges

ClearLinks ==
  /\ linker.pc = "clear"
  /\ edges' = {}
  /\ linker' = [linker EXCEPT !.pc = "posts", !.todo = posts]
  /\ UNCHANGED <<current, left>>

\* The words stand in the text at i.
Stands(words, text, i) ==
  /\ Len(words) <= MaxWords /\ i + Len(words) - 1 <= Len(text)
  /\ \A j \in DOMAIN words : words[j] = text[i + j - 1]

\* find_mentions: at each place the longest of the names that stand there.
FindMentions(text, rows) ==
  {e \in rows : \E i \in DOMAIN text :
     /\ Stands(Gram(e), text, i)
     /\ \A d \in rows : Stands(Gram(d), text, i) => Len(Gram(d)) <= Len(Gram(e))}

\* insert_blog_entity_links, one transaction for a post.
LinkPost(p) ==
  /\ linker.pc = "posts" /\ p \in linker.todo
  /\ edges' = edges \cup {[post |-> p, slug |-> e.slug, key |-> e.key] :
                             e \in FindMentions(Text[p], linker.vocab)}
  /\ linker' = [linker EXCEPT !.todo = @ \ {p}]
  /\ UNCHANGED <<current, left>>

EndLink ==
  /\ linker.pc = "posts" /\ linker.todo = {}
  /\ linker' = NoLink
  /\ UNCHANGED <<edges, current, left>>

-----------------------------------------------------------------------------
\* (Mutant: the cascade stops at the recognitions.)
CascadeNowhere(withPeople) == UNCHANGED <<people, honors, mixed>>

\* What a truncate takes along: `people` is on its list, recognition_people
\* refers to both; blog_entity_links has no key the cascade could follow.
Cascade(withPeople) ==
  /\ people' = IF withPeople THEN {} ELSE people
  /\ honors' = {} /\ mixed' = FALSE

\* What `people` has read is gone.
Tear == builder' = [builder EXCEPT !.torn = builder.pc # "off"]

Rebuild(fresh) ==
  /\ Start(fresh)
  /\ IF fresh THEN Cascade(TRUE) /\ Tear ELSE UNCHANGED <<people, honors, mixed, builder>>

ReparseAll == Reparse /\ Cascade(FALSE) /\ Tear

TableStep ==
  \/ \E fresh \in BOOLEAN : Rebuild(fresh)
  \/ ReparseAll
  \/ /\ (\E S \in Batches : Parse(S)) \/ Decide \/ CanonStep \/ Crash
     /\ UNCHANGED <<people, honors, mixed, builder>>

PeopleDies ==
  /\ builder.pc # "off"
  /\ builder' = NoBuild
  /\ current' = current \ {"people"}
  /\ UNCHANGED <<people, honors, mixed>>

LinkDies ==
  /\ linker.pc # "off"
  /\ linker' = NoLink
  /\ current' = current \ {"blog_link"}
  /\ UNCHANGED edges

\* The crawl of the blog.
BlogStep ==
  \/ Discover /\ Begin("blog_discover") /\ UNCHANGED current
  \/ StartFetch /\ Begin("blog_fetch") /\ UNCHANGED current
  \/ StartExtract /\ Begin("blog_extract") /\ current' = current \cup {"blog_extract"}
  \/ \E p \in Post :
       /\ FetchPost(p) \/ ExtractPage(p)
       /\ UNCHANGED <<canonVars, left>>
       /\ current' = current \ Outdated
  \/ \E stage \in DOMAIN crawler : EndCrawl(stage) /\ UNCHANGED <<current, left>>

BlogDies ==
  \/ CrawlDies("fetch") /\ UNCHANGED current
  \/ CrawlDies("extract") /\ current' = current \ {"blog_extract"}

PeopleStep ==
  ReadRecognitions \/ ClearPersonLayer \/ InsertPeople \/ InsertRecognitionPeople \/ BuildRaises
LinkStep == ReadEntities \/ ClearLinks \/ EndLink \/ \E p \in Post : LinkPost(p)

tableVars == <<parsed, verdicts, rowId, rowSlug, nextId, nextFact, fact, alias, run, struck>>

Next ==
  \/ TableStep /\ UNCHANGED <<edges, linker, left, blogVars>> /\ current' = current \ Outdated
  \/ PeopleStep /\ UNCHANGED <<canonVars, edges, linker, blogVars>>
  \/ LinkStep /\ UNCHANGED <<canonVars, people, honors, mixed, builder, blogVars>>
  \/ BlogStep /\ UNCHANGED <<canonVars, people, honors, mixed, builder, edges, linker>>
  \/ Fault /\ PeopleDies /\ UNCHANGED <<tableVars, left, edges, linker, blogVars>>
  \/ Fault /\ LinkDies /\ UNCHANGED <<tableVars, left, people, honors, mixed, builder, blogVars>>
  \/ Fault /\ BlogDies /\ UNCHANGED <<tableVars, left, people, honors, mixed, builder, edges, linker>>

Spec == Init /\ [][Next]_vars

-----------------------------------------------------------------------------
(***************************************************************************)
(* Whatever was rebuilt, reparsed or died in between, an honor names a     *)
(* recognition there is and a person there is, and it says of the          *)
(* recognition what that one says: the ids restart with every rebuild, so  *)
(* an honor that survived one would name somebody else's award.  Only a    *)
(* build that had read before a truncate and wrote after it may say        *)
(* something else, since the keys of migrations 002 and 020 see the ids    *)
(* and not what they stood for.  (The cascades, and those keys.)           *)
(***************************************************************************)
HonorsTrue ==
  \A h \in honors :
    /\ Recognized(h.id) /\ <<h.person, h.org>> \in people
    /\ h \in Truth \/ mixed

(***************************************************************************)
(* After a `people` since whose reading no recognition was added or        *)
(* truncated, every recognition that names a person is linked, and nobody  *)
(* is listed without one, whatever earlier builds left when they died      *)
(* between their transactions or raised.  (people_pipeline.build.)         *)
(***************************************************************************)
LayerComplete ==
  "people" \in current /\ builder.pc = "off" =>
    honors = Truth /\ people = {<<h.person, h.org>> : h \in Truth}

\* After a `blog extract` since whose start no page came, every page in
\* English is a post.
PostsComplete ==
  "blog_extract" \in current /\ ~crawler["extract"].on => pages \cap English \subseteq posts

\* After a `blog link` since whose reading neither the entities nor the posts
\* changed, the edges are those of the entities and the posts.
LinksComplete ==
  "blog_link" \in current /\ linker.pc = "off" =>
    /\ \A e \in edges :
         /\ rowId[e.key] # NoId /\ rowSlug[e.key] = e.slug
         /\ \E i \in DOMAIN Text[e.post] : Stands(Gram(e), Text[e.post], i)
    /\ \A p \in posts : \A e \in FindMentions(Text[p], Entries) :
         \E d \in edges : d.post = p /\ Gram(d) = Gram(e) /\ RankOf(d) <= RankOf(e)

(***************************************************************************)
(* No page in English that `blog extract` saw is left out of the posts,    *)
(* and after `blog link` every edge names an entity there is, by the slug  *)
(* it has and of a name the post mentions, and no mention of an entity     *)
(* that no longer one covers is left without: "a mention resolves to an    *)
(* EXISTING entity or it does not link" (migration 018).  A new page, a    *)
(* new post or a rebuild wants a new run, even one that came meanwhile.    *)
(***************************************************************************)
EdgesResolve == PostsComplete /\ LinksComplete
=============================================================================
