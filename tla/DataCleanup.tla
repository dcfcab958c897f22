----------------------------- MODULE DataCleanup -----------------------------
(***************************************************************************)
(* The cleanup script: steps in a fixed order, each of which reads what it *)
(* will change and then changes it in one transaction, in the order in     *)
(* which its query gave the rows.  The script runs alone.  Its steps that  *)
(* only rewrite a column (trims, years, venues, abstracts, mojibake, the   *)
(* hashes of empty pages) change nothing here.                             *)
(***************************************************************************)
EXTENDS Integers, Sequences, FiniteSets

CONSTANTS
  Researchers, Papers,  \* numbered by age, and papers by how much identifies them
  Garbage,              \* researchers whose names are extraction junk
  SameName, Compatible, Abbreviates,  \* sets of pairs of researchers
  ProfileOf,            \* ProfileOf[r]: the OpenAlex author id of a researcher, 0 for none
  Pages, PageOf,        \* PageOf[p]: source_url
  Unfixable,            \* pages whose URL is no URL
  Identified,           \* the disjoint sets of papers that find_duplicate_groups returns
  CleanTitle,           \* CleanTitle[t]: what clean_paper_titles makes of a title
  NearTitles,           \* pairs of papers of one author with nearly the same title
  Seeds,                \* papers of a seed import
  Crowd, Threshold, WeakThreshold  \* 100 authors, 2 and 5 shared papers

Titles == DOMAIN CleanTitle

VARIABLES
  researchers, papers,  \* the rows that exist
  authorship,           \* <<researcher, paper>>
  sites,                \* researcher_urls: <<researcher, page>>
  title,                \* title[p]; at first a paper is known by its own title
  news,                 \* papers with a new_paper event
  step,                 \* the number of the step that runs
  reading,              \* whether it has yet to read
  todo                  \* what it has read and will do

tables == <<researchers, papers, authorship, sites, title, news>>
vars == <<tables, step, reading, todo>>

Steps == <<"delete_author_blowup_papers", "delete_garbage_researchers", "fix_researcher_url_schemes",
           "merge_researchers_shared_openalex", "merge_researchers_exact_name",
           "merge_researchers_compatible_name", "merge_researchers_shared_papers",
           "dedupe_shared_researcher_urls", "merge_papers_by_identifier", "clean_paper_titles",
           "merge_near_duplicate_papers", "delete_seed_new_paper_events", "fix_orphan_papers">>

TypeOK ==
  /\ researchers \subseteq Researchers /\ papers \subseteq Papers
  /\ authorship \subseteq researchers \X papers
  /\ sites \subseteq researchers \X Pages
  /\ title \in [Papers -> Titles] /\ news \subseteq papers
  /\ step \in 1..Len(Steps) + 1 /\ reading \in BOOLEAN

Init ==
  /\ researchers = Researchers /\ papers = Papers
  /\ authorship \in {a \in SUBSET (Researchers \X Papers) : \A p \in Papers : \E r \in Researchers : <<r, p>> \in a}
  /\ sites \in SUBSET (Researchers \X Pages)
  /\ title = [p \in Papers |-> p] /\ news = Papers
  /\ step = 1 /\ reading = TRUE /\ todo = {}

---------------------------------------------------------------------------
(* What a step reads. *)

Writers(p) == {r \in researchers : <<r, p>> \in authorship}
Written(r) == {p \in papers : <<r, p>> \in authorship}
SitesOf(r) == {s[2] : s \in {x \in sites : x[1] = r}}

\* _researcher_weight: websites, an OpenAlex id, papers, age.
Heavier(r, q) ==
  LET weight(x) == <<Cardinality(SitesOf(x)), IF ProfileOf[x] # 0 THEN 1 ELSE 0, Cardinality(Written(x)), -x>>
  IN \E i \in 1..4 : weight(r)[i] > weight(q)[i] /\ \A j \in 1..i - 1 : weight(r)[j] = weight(q)[j]

\* The members of a group go into the heaviest; or the rows of a query are pairs,
\* and a researcher may be in several.
GroupMerges(groups) ==
  {m \in UNION {S \X S : S \in groups} :
     m[1] # m[2] /\ \A S \in groups : m[2] \in S => m[1] \in S /\ \A r \in S \ {m[1]} : Heavier(m[1], r)}

PairMerges(pairs, least) ==
  {m \in researchers \X researchers :
     {m[1], m[2]} \in pairs /\ Heavier(m[1], m[2]) /\ Cardinality(Written(m[1]) \cap Written(m[2])) >= least}

SharedOpenAlex ==
  GroupMerges({{r \in researchers : ProfileOf[r] = x} : x \in {ProfileOf[q] : q \in Researchers} \ {0}})

ExactName ==
  GroupMerges({{q \in researchers : (q = r \/ {q, r} \in SameName) /\ Written(q) # {}} : r \in researchers})

CompatibleName == PairMerges(Compatible, Threshold)

ConflictingSites(r, q) == SitesOf(r) # {} /\ SitesOf(q) # {} /\ SitesOf(r) \cap SitesOf(q) = {}

SharedPapers == {m \in PairMerges(Abbreviates \ Compatible, WeakThreshold) : ~ConflictingSites(m[1], m[2])}

Orphans == {p \in papers : Writers(p) = {}}
Owners(p) == {r \in researchers : <<r, PageOf[p]>> \in sites}
Oldest(S) == CHOOSE x \in S : \A y \in S : x <= y

Blowups == {p \in papers : Cardinality(Writers(p)) > Crowd}
GarbageNames == {r \in Garbage \cap researchers : SitesOf(r) = {}}
BrokenSites == {s \in sites : s[2] \in Unfixable}
SharedSites == {page \in Pages : Cardinality({s \in sites : s[2] = page}) > 1}
SamePapers == {m \in papers \X papers : \E S \in Identified : m[1] = Oldest(S \cap papers) /\ m[2] \in S \ {m[1]}}
Renames == {p \in papers : CleanTitle[title[p]] # title[p]}
NearPairs == {m \in papers \X papers : m[1] < m[2] /\ {m[1], m[2]} \in NearTitles}
SeedNews == news \cap Seeds

Read(name) ==
  CASE name = "delete_author_blowup_papers" -> Blowups
    [] name = "delete_garbage_researchers" -> GarbageNames
    [] name = "fix_researcher_url_schemes" -> BrokenSites
    [] name = "merge_researchers_shared_openalex" -> SharedOpenAlex
    [] name = "merge_researchers_exact_name" -> ExactName
    [] name = "merge_researchers_compatible_name" -> CompatibleName
    [] name = "merge_researchers_shared_papers" -> SharedPapers
    [] name = "dedupe_shared_researcher_urls" -> SharedSites
    [] name = "merge_papers_by_identifier" -> SamePapers
    [] name = "clean_paper_titles" -> Renames
    [] name = "merge_near_duplicate_papers" -> NearPairs
    [] name = "delete_seed_new_paper_events" -> SeedNews
    [] name = "fix_orphan_papers" -> {<<p, Owners(p)>> : p \in Orphans}

---------------------------------------------------------------------------
(* What a step writes: a row at a time, inside its transaction. *)

DropPaper(p) ==
  /\ papers' = papers \ {p} /\ news' = news \ {p}
  /\ authorship' = {a \in authorship : a[2] # p}
  /\ UNCHANGED <<researchers, sites, title>>

\* The rows that refer to a researcher go with it.
DropResearcher(r) ==
  /\ researchers' = researchers \ {r}
  /\ authorship' = {a \in authorship : a[1] # r}
  /\ sites' = {s \in sites : s[1] # r}
  /\ UNCHANGED <<papers, title, news>>

\* merge_researcher_pair looks for the duplicate only: when the other is gone,
\* UPDATE IGNORE leaves the rows as they are, and they go with the duplicate.
MergeResearcherPair(kept, gone) ==
  LET moved(rows) == {IF x[1] = gone THEN <<kept, x[2]>> ELSE x : x \in rows}
  IN IF gone \notin researchers THEN UNCHANGED tables
     ELSE IF kept \notin researchers THEN DropResearcher(gone)
     ELSE /\ researchers' = researchers \ {gone}
          /\ authorship' = moved(authorship) /\ sites' = moved(sites)
          /\ UNCHANGED <<papers, title, news>>

\* merge_paper_pair: the survivor has at most one piece of news.
MergePaperPair(kept, gone) ==
  IF gone \notin papers THEN UNCHANGED tables
  ELSE /\ papers' = papers \ {gone}
       /\ authorship' = {IF a[2] = gone THEN <<a[1], kept>> ELSE a : a \in authorship}
       /\ news' = {IF p = gone THEN kept ELSE p : p \in news}
       /\ UNCHANGED <<researchers, sites, title>>

\* The paper that has the clean title already survives.
Retitle(p) ==
  LET new == CleanTitle[title[p]]
      same == {q \in papers \ {p} : title[q] = new}
  IN IF same # {} THEN \E q \in same : MergePaperPair(q, p)
     ELSE /\ title' = [title EXCEPT ![p] = new]
          /\ UNCHANGED <<researchers, papers, authorship, sites, news>>

DropSites(dropped) ==
  /\ sites' = sites \ dropped
  /\ UNCHANGED <<researchers, papers, authorship, title, news>>

DropNews(p) ==
  /\ news' = news \ {p}
  /\ UNCHANGED <<researchers, papers, authorship, sites, title>>

Attach(p, owners) ==
  IF owners = {} THEN DropPaper(p)
  ELSE /\ authorship' = authorship \cup {<<Oldest(owners), p>>}
       /\ UNCHANGED <<researchers, papers, sites, title, news>>

MergingResearchers ==
  step \in DOMAIN Steps /\ Steps[step] \in {"merge_researchers_shared_openalex", "merge_researchers_exact_name",
    "merge_researchers_compatible_name", "merge_researchers_shared_papers"}

Write(name, x) ==
  \/ name = "delete_author_blowup_papers" /\ DropPaper(x)
  \/ name = "delete_garbage_researchers" /\ DropResearcher(x)
  \/ MergingResearchers /\ MergeResearcherPair(x[1], x[2])
  \/ name = "fix_researcher_url_schemes" /\ DropSites({x})
  \/ /\ name = "dedupe_shared_researcher_urls"
     /\ \E kept \in {s \in sites : s[2] = x} : DropSites({s \in sites : s[2] = x} \ {kept})
  \/ name = "merge_papers_by_identifier" /\ MergePaperPair(x[1], x[2])
  \/ name = "clean_paper_titles" /\ Retitle(x)
  \/ /\ name = "merge_near_duplicate_papers"
     /\ IF {x[1], x[2]} \subseteq papers THEN MergePaperPair(x[1], x[2]) ELSE UNCHANGED tables
  \/ name = "delete_seed_new_paper_events" /\ DropNews(x)
  \/ name = "fix_orphan_papers" /\ Attach(x[1], x[2])

ReadStep ==
  /\ step \in DOMAIN Steps /\ reading
  /\ todo' = Read(Steps[step]) /\ reading' = FALSE
  /\ UNCHANGED <<tables, step>>

WriteRow ==
  /\ ~reading
  /\ \E x \in todo : Write(Steps[step], x) /\ todo' = todo \ {x}
  /\ UNCHANGED <<step, reading>>

\* The transaction commits.  --steps may leave steps out.
EndStep ==
  /\ IF reading THEN step \in DOMAIN Steps ELSE todo = {}
  /\ step' = step + 1 /\ reading' = TRUE
  /\ UNCHANGED <<tables, todo>>

Next == ReadStep \/ WriteRow \/ EndStep

Spec == Init /\ [][Next]_vars

---------------------------------------------------------------------------
(* Properties. *)

\* Merging researchers takes its authors from no paper: what the duplicate wrote
\* is reassigned (cleanup_data_quality.py:148).
MergedCreditKept ==
  [][MergingResearchers => \A p \in papers : Writers(p) # {} => Writers(p)' # {}]_vars
=============================================================================
