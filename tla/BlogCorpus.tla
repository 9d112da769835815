----------------------------- MODULE BlogCorpus -----------------------------
(***************************************************************************)
(* The blog corpus (acquisition/blog.py): `discover` keeps the addresses   *)
(* of the sitemap, `fetch` archives those it has no page of, with any      *)
(* number of workers, and `extract` turns pages in English into posts.     *)
(* A page that does not load is left for the next `fetch`.                 *)
(***************************************************************************)
EXTENDS Naturals, FiniteSets

CONSTANTS
  Post,      \* addresses of posts (select_blog_posts)
  Sitemaps,  \* what the sitemap may list
  English    \* the posts that have a text, and in English

ASSUME BlogAssumption == Sitemaps \subseteq SUBSET Post /\ English \subseteq Post

VARIABLES
  known,   \* meta's blog_urls
  pages,   \* the blog rows of raw_pages
  posts,   \* blog_posts
  crawler  \* the locals of `blog fetch` and `blog extract`, which may overlap

blogVars == <<known, pages, posts, crawler>>

NoCrawl == [on |-> FALSE, todo |-> {}]
Busy(todo) == [on |-> TRUE, todo |-> todo]

BlogTypeOK ==
  /\ {known, pages, posts} \subseteq SUBSET Post /\ posts \subseteq pages \cap English
  /\ crawler \in [{"fetch", "extract"} -> [on : BOOLEAN, todo : SUBSET Post]]
  /\ crawler["extract"].todo \subseteq pages

\* The archive may be older than what is built from it.
BlogInit(archived) ==
  /\ known = archived /\ pages = archived /\ posts = {}
  /\ crawler = [stage \in {"fetch", "extract"} |-> NoCrawl]

-----------------------------------------------------------------------------
\* `blog discover`: the list is replaced as a whole, or the command fails.
Discover ==
  /\ known' \in Sitemaps \ {known}
  /\ UNCHANGED <<pages, posts, crawler>>

\* blog_archived_urls is read once; --limit may leave some for another time.
StartFetch ==
  /\ ~crawler["fetch"].on /\ known # {}
  /\ \E todo \in SUBSET (known \ pages) : crawler' = [crawler EXCEPT !["fetch"] = Busy(todo)]
  /\ UNCHANGED <<known, pages, posts>>

\* _fetch_one: ok, or blocked or err, which nobody tries again.
FetchPost(p) ==
  /\ p \in crawler["fetch"].todo
  /\ pages' \in {pages, pages \cup {p}}
  /\ crawler' = [crawler EXCEPT !["fetch"] = Busy(@.todo \ {p})]
  /\ UNCHANGED <<known, posts>>

\* iter_raw_blog_pages: one cursor over the pages there are.
StartExtract ==
  /\ ~crawler["extract"].on
  /\ crawler' = [crawler EXCEPT !["extract"] = Busy(pages)]
  /\ UNCHANGED <<known, pages, posts>>

\* upsert_blog_post, a transaction of its own.
ExtractPage(p) ==
  /\ p \in crawler["extract"].todo
  /\ posts' = posts \cup ({p} \cap English)
  /\ crawler' = [crawler EXCEPT !["extract"] = Busy(@.todo \ {p})]
  /\ UNCHANGED <<known, pages>>

\* gather returns, or the cursor is at its end.
EndCrawl(stage) ==
  /\ crawler[stage].on /\ crawler[stage].todo = {}
  /\ crawler' = [crawler EXCEPT ![stage] = NoCrawl]
  /\ UNCHANGED <<known, pages, posts>>

\* The process dies; what it committed stays.
CrawlDies(stage) ==
  /\ crawler[stage].on
  /\ crawler' = [crawler EXCEPT ![stage] = NoCrawl]
  /\ UNCHANGED <<known, pages, posts>>
=============================================================================
