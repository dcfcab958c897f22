---------------------------- MODULE PaperCatalog ----------------------------
(***************************************************************************)
(* What happens to papers after they were saved: the enrichment workers    *)
(* look them up in OpenAlex within a daily budget that all processes       *)
(* share, and the merge that follows a scrape joins rows that turn out to  *)
(* be one paper, while pages go on adding authors, links and new titles.   *)
(*                                                                         *)
(* Papers are numbered by their id, in the order of their discovery; two   *)
(* rows may share a title, because hashes of titles were computed in other *)
(* ways before.  A work of OpenAlex stands for its DOI and its OpenAlex    *)
(* id, which the enrichment writes together.                               *)
(***************************************************************************)
EXTENDS Integers, FiniteSets

CONSTANTS
  NumPapers,
  Authors, Titles, Urls,
  Works, TitleOfWork,     \* the works of OpenAlex, TitleOfWork[w]
  NoWork,
  FirstTitle, FirstAuthors, FirstStatus,   \* the rows that are there: by paper
  PageDois,               \* PageDois[p]: works whose DOI a link of p names
  Broken,                 \* works whose record makes the code raise
  Enrichers,              \* the API's worker thread, the enrich command
  Mergers,                \* the scrape job of a process
  BatchSize, RequestLimit,
  MaxEvents,              \* bound on what pages change, requests that fail and crashes
  MaxDays                 \* bound on the times that days go by

Papers == 1..NumPapers
Published == 5              \* the last of STATUS_ORDER
Days == 0..MaxDays

ASSUME CatalogAssumption ==
  /\ NumPapers \in Nat /\ BatchSize \in Nat \ {0} /\ RequestLimit \in Nat
  /\ Titles # {} /\ TitleOfWork \in [Works -> Titles] /\ NoWork \notin Works
  /\ IsFiniteSet(Enrichers)
  /\ FirstTitle \in [Papers -> Titles]
  /\ FirstAuthors \in [Papers -> SUBSET Authors]
  /\ FirstStatus \in [Papers -> 0..Published]
  /\ PageDois \in [Papers -> SUBSET Works]
  /\ Broken \subseteq Works
  /\ {MaxEvents, MaxDays} \subseteq Nat

VARIABLES
  papers,     \* the ids that exist
  title, authors, status, work,   \* by paper; status as its rank
  links,      \* paper_links: <<paper, url>>
  news,       \* feed_events of type new_paper: <<event, paper>>, the id in order of creation
  tried,      \* tried[p]: enrichment_attempted_at is "never", "recent" or "due" (7 days ago)
  today,
  charged,    \* charged[d]: request_count of the budget's row of a day
  sent,       \* history: sent[d]: requests sent on a reservation of that day
  enricher,   \* enricher[e]: its locals; a row is a paper's, with its title
  merger,     \* merger[m]: its locals
  events

rows == <<papers, title, authors, status, work, links, news>>
budget == <<today, charged, sent>>
vars == <<rows, tried, budget, enricher, merger, events>>

NoRow == [id |-> 0, title |-> CHOOSE t \in Titles : TRUE]
Resting == [pc |-> "rest", batch |-> {}, row |-> NoRow, dois |-> {}, found |-> NoWork,
            day |-> 0, again |-> FALSE]
Waiting == [pc |-> "wait", groups |-> {}]

TypeOK ==
  /\ papers \subseteq Papers
  /\ title \in [Papers -> Titles]
  /\ authors \in [Papers -> SUBSET Authors]
  /\ status \in [Papers -> 0..Published]
  /\ work \in [Papers -> Works \cup {NoWork}]
  /\ links \subseteq papers \X Urls
  /\ news \subseteq Papers \X papers
  /\ tried \in [Papers -> {"never", "recent", "due"}]
  /\ today \in Days
  /\ charged \in [Days -> Nat]
  /\ sent \in [Days -> Nat]
  /\ enricher \in [Enrichers ->
       [pc : {"rest", "batch", "doi", "reserve", "send", "store"},
        batch : SUBSET [id : Papers, title : Titles], row : [id : 0..NumPapers, title : Titles],
        dois : SUBSET Works, found : Works \cup {NoWork}, day : Days, again : BOOLEAN]]
  /\ merger \in [Mergers -> [pc : {"wait", "merge"}, groups : SUBSET SUBSET Papers]]
  /\ events \in 0..MaxEvents

Init ==
  /\ papers = Papers
  /\ title = FirstTitle /\ authors = FirstAuthors /\ status = FirstStatus
  /\ work = [p \in Papers |-> NoWork]
  /\ links = {}
  /\ news = {<<p, p>> : p \in Papers}
  /\ tried = [p \in Papers |-> "never"]
  /\ today = 0 /\ charged = [d \in Days |-> 0] /\ sent = charged
  /\ enricher = [e \in Enrichers |-> Resting]
  /\ merger = [m \in Mergers |-> Waiting]
  /\ events = 0

---------------------------------------------------------------------------
(* Enrichment. *)

At(e, pc) == enricher[e].pc = pc
Paper(e) == enricher[e].row.id
Linked(p) == PageDois[p] # {} \/ \E u \in Urls : <<p, u>> \in links

\* get_unenriched_papers: no OpenAlex id, not tried for a week, with a link or published.
Unenriched(p) ==
  /\ p \in papers /\ authors[p] # {} /\ work[p] = NoWork /\ tried[p] # "recent"
  /\ Linked(p) \/ status[p] = Published

\* ORDER BY enrichment_attempted_at, has a DOI, id
Before(p, q) ==
  \/ tried[p] = "never" /\ tried[q] # "never"
  \/ /\ tried[p] = "never" /\ tried[q] = "never"
     /\ \/ PageDois[p] # {} /\ PageDois[q] = {}
        \/ (PageDois[p] = {} <=> PageDois[q] = {}) /\ p < q

Select(e) ==
  /\ At(e, "rest")
  /\ LET due == {p \in Papers : Unenriched(p)}
     IN \E batch \in SUBSET due \ {{}} :
          /\ Cardinality(batch) = IF Cardinality(due) < BatchSize THEN Cardinality(due) ELSE BatchSize
          /\ \A p \in batch, q \in due \ batch : ~Before(q, p)
          /\ enricher' = [enricher EXCEPT ![e].pc = "batch",
                                          ![e].batch = {[id |-> p, title |-> title[p]] : p \in batch}]
  /\ UNCHANGED <<rows, tried, budget, merger, events>>

BudgetLeft(d) == charged[d] < RequestLimit

\* Mutant: tried papers are marked only when something was found.
AttemptUnmarked(e) ==
  /\ At(e, "batch")
  /\ \E row \in enricher[e].batch :
       enricher' = IF PageDois[row.id] = {} /\ ~BudgetLeft(today)
                   THEN [enricher EXCEPT ![e].batch = @ \ {row}]
                   ELSE [enricher EXCEPT ![e].pc = "doi", ![e].batch = @ \ {row},
                                         ![e].row = row, ![e].dois = PageDois[row.id]]
  /\ UNCHANGED <<rows, tried, budget, merger, events>>

\* A paper without a DOI is skipped when the budget is gone.  What is tried is
\* marked before any request.
Attempt(e) ==
  /\ At(e, "batch")
  /\ \E row \in enricher[e].batch :
       IF PageDois[row.id] = {} /\ ~BudgetLeft(today)
       THEN /\ enricher' = [enricher EXCEPT ![e].batch = @ \ {row}]
            /\ UNCHANGED tried
       ELSE /\ enricher' = [enricher EXCEPT ![e].pc = "doi", ![e].batch = @ \ {row},
                                            ![e].row = row, ![e].dois = PageDois[row.id]]
            /\ tried' = [tried EXCEPT ![row.id] = IF row.id \in papers THEN "recent" ELSE @]
  /\ UNCHANGED <<rows, budget, merger, events>>

BatchDone(e) ==
  /\ At(e, "batch") /\ enricher[e].batch = {}
  /\ enricher' = [enricher EXCEPT ![e] = Resting]
  /\ UNCHANGED <<rows, tried, budget, merger, events>>

Found(e, w) == [enricher EXCEPT ![e].pc = "store", ![e].found = w, ![e].dois = {}]
NextPaper(e) == [enricher EXCEPT ![e] = [Resting EXCEPT !.pc = "batch", !.batch = enricher[e].batch]]

\* work_matches_paper, on the title that was read with the batch.
Matches(e, w) == TitleOfWork[w] = enricher[e].row.title

\* An answer that makes the code raise ends the cycle; the worker starts another.
Answer(e, w, then) ==
  enricher' = IF w \in Broken THEN [enricher EXCEPT ![e] = Resting] ELSE then

\* lookup_by_doi costs no budget, and a work of another title is refused.
LookupDoi(e) ==
  /\ At(e, "doi")
  /\ \E w \in enricher[e].dois :
       Answer(e, w, IF Matches(e, w) THEN Found(e, w) ELSE [enricher EXCEPT ![e].dois = @ \ {w}])
  /\ UNCHANGED <<rows, tried, budget, merger, events>>

LookupFails(e) ==
  /\ At(e, "doi") /\ enricher[e].dois # {} /\ events < MaxEvents
  /\ enricher' = [enricher EXCEPT ![e].dois = {}]
  /\ events' = events + 1
  /\ UNCHANGED <<rows, tried, budget, merger>>

\* search_work: an advisory check of the budget, then a reservation.
CheckBudget(e) ==
  /\ At(e, "doi") /\ enricher[e].dois = {}
  /\ enricher' = IF BudgetLeft(today) THEN [enricher EXCEPT ![e].pc = "reserve"] ELSE NextPaper(e)
  /\ UNCHANGED <<rows, tried, budget, merger, events>>

\* Mutant: the advisory check is taken for the limit.
ReserveUnchecked(e) ==
  /\ At(e, "reserve")
  /\ charged' = [charged EXCEPT ![today] = @ + 1]
  /\ enricher' = [enricher EXCEPT ![e].pc = "send", ![e].day = today]
  /\ UNCHANGED <<rows, tried, today, sent, merger, events>>

\* One transaction: the row of the day, read once, counts one request more if it may.
Reserve(e) ==
  /\ At(e, "reserve")
  /\ IF BudgetLeft(today)
     THEN /\ charged' = [charged EXCEPT ![today] = @ + 1]
          /\ enricher' = [enricher EXCEPT ![e].pc = "send", ![e].day = today]
     ELSE UNCHANGED charged /\ enricher' = NextPaper(e)
  /\ UNCHANGED <<rows, tried, today, sent, merger, events>>

\* The results are parsed and compared one by one: the first of that title and
\* author is taken.  The search may find none, or fail.
Send(e) ==
  /\ At(e, "send")
  /\ sent' = [sent EXCEPT ![enricher[e].day] = @ + 1]
  /\ \/ \E w \in Works : Answer(e, w, IF Matches(e, w) THEN Found(e, w) ELSE NextPaper(e))
     \/ enricher' = NextPaper(e)
  /\ UNCHANGED <<rows, tried, today, charged, merger, events>>

\* A rate limit is waited for and the search repeated, once, on another
\* reservation, if the budget is not gone.
RateLimited(e) ==
  /\ At(e, "send") /\ ~enricher[e].again /\ events < MaxEvents
  /\ sent' = [sent EXCEPT ![enricher[e].day] = @ + 1]
  /\ enricher' = IF BudgetLeft(today) THEN [enricher EXCEPT ![e].pc = "reserve", ![e].again = TRUE]
                 ELSE NextPaper(e)
  /\ events' = events + 1
  /\ UNCHANGED <<rows, tried, today, charged, merger>>

\* UPDATE by id: nothing happens to a row that was merged away.
Store(e) ==
  /\ At(e, "store")
  /\ work' = [work EXCEPT ![Paper(e)] = IF Paper(e) \in papers THEN enricher[e].found ELSE @]
  /\ enricher' = NextPaper(e)
  /\ UNCHANGED <<papers, title, authors, status, links, news, tried, budget, merger, events>>

EnricherDies(e) ==
  /\ ~At(e, "rest") /\ events < MaxEvents
  /\ enricher' = [enricher EXCEPT ![e] = Resting]
  /\ events' = events + 1
  /\ UNCHANGED <<rows, tried, budget, merger>>

---------------------------------------------------------------------------
(* The merge of duplicates. *)

Compatible(p, q) ==
  /\ title[p] = title[q]
  /\ work[p] = work[q] \/ NoWork \in {work[p], work[q]}
  /\ {} \notin {authors[p], authors[q]}
  /\ authors[p] \subseteq authors[q] \/ authors[q] \subseteq authors[p]
  /\ \/ work[p] = work[q] /\ work[p] # NoWork
     \/ authors[p] = authors[q] /\ Cardinality(authors[p]) >= 2

\* _connected_groups: two groups that overlap are one.
Connected(groups) ==
  LET all == UNION groups
      closed(s) == \A g \in groups : g \cap s = {} \/ g \subseteq s
      part(p) == {q \in all : \A s \in SUBSET all : p \in s /\ closed(s) => q \in s}
  IN {part(p) : p \in all}

\* Rows of one work, and rows of one title by the same two or more authors.
SameWork == {g \in {{p \in papers : work[p] = w} : w \in Works} : Cardinality(g) > 1}

SameTitle ==
  {g \in SUBSET papers : Cardinality(g) = 2 /\ \A p, q \in g : p # q =>
     /\ authors[p] = authors[q] /\ Cardinality(authors[p]) >= 2
     /\ Compatible(p, q)
     /\ work[p] = NoWork \/ work[p] # work[q]}

FindGroups(m) ==
  /\ merger[m].pc = "wait"
  /\ merger' = [merger EXCEPT ![m] = [pc |-> "merge", groups |-> Connected(SameWork \cup SameTitle)]]
  /\ merger'[m].groups # {}
  /\ UNCHANGED <<rows, tried, budget, enricher, events>>

\* Mutant: only that the rows still exist.
StillThere(group) == group \subseteq papers

\* The rows are locked and looked at again.
StillOne(group) == group \subseteq papers /\ \A p, q \in group : p # q => Compatible(p, q)

Highest(S) == CHOOSE n \in S : \A k \in S : k <= n
Oldest(S) == CHOOSE n \in S : \A k \in S : n <= k

\* The first of its news stays with a paper.
FirstNews(moved, p) ==
  {n \in moved : n[2] = p => \A k \in moved : k[2] = p => n[1] <= k[1]}

\* Mutant: the links of the other rows go with them.
MergeDroppingLinks(group) ==
  LET kept == Oldest(group)
      here(p) == IF p \in group THEN kept ELSE p
      known == {work[p] : p \in group} \ {NoWork}
  IN /\ papers' = papers \ (group \ {kept})
     /\ status' = [status EXCEPT ![kept] = Highest({status[p] : p \in group})]
     /\ work' = [work EXCEPT ![kept] = IF known = {} THEN NoWork ELSE CHOOSE w \in known : TRUE]
     /\ authors' = [authors EXCEPT ![kept] = UNION {authors[p] : p \in group}]
     /\ links' = {l \in links : l[1] \in papers'}
     /\ news' = FirstNews({<<n[1], here(n[2])>> : n \in news}, kept)
     /\ UNCHANGED title

\* One transaction: the oldest row takes over what hangs on the others.
Merge(group) ==
  LET kept == Oldest(group)
      here(p) == IF p \in group THEN kept ELSE p
      known == {work[p] : p \in group} \ {NoWork}
  IN /\ papers' = papers \ (group \ {kept})
     /\ status' = [status EXCEPT ![kept] = Highest({status[p] : p \in group})]
     /\ work' = [work EXCEPT ![kept] = IF known = {} THEN NoWork ELSE CHOOSE w \in known : TRUE]
     /\ authors' = [authors EXCEPT ![kept] = UNION {authors[p] : p \in group}]
     /\ links' = {<<here(l[1]), l[2]>> : l \in links}
     /\ news' = FirstNews({<<n[1], here(n[2])>> : n \in news}, kept)
     /\ UNCHANGED title

MergeGroup(m) ==
  /\ merger[m].pc = "merge"
  /\ \E group \in merger[m].groups :
       /\ merger' = [merger EXCEPT ![m].groups = @ \ {group}]
       /\ IF StillOne(group) THEN Merge(group) ELSE UNCHANGED rows
  /\ UNCHANGED <<tried, budget, enricher, events>>

MergeEnds(m) ==
  /\ merger[m].pc = "merge" /\ merger[m].groups = {}
  /\ merger' = [merger EXCEPT ![m] = Waiting]
  /\ UNCHANGED <<rows, tried, budget, enricher, events>>

\* A transaction that raises is rolled back and its group skipped, or the
\* process dies.
MergeFails(m) ==
  /\ merger[m].pc = "merge" /\ events < MaxEvents
  /\ \/ \E group \in merger[m].groups :
          merger' = [merger EXCEPT ![m].groups = @ \ {group}]
     \/ merger' = [merger EXCEPT ![m] = Waiting]
  /\ events' = events + 1
  /\ UNCHANGED <<rows, tried, budget, enricher>>

---------------------------------------------------------------------------
(* Pages, and time. *)

Edit == events < MaxEvents /\ events' = events + 1
        /\ UNCHANGED <<papers, work, news, tried, budget, enricher, merger>>

\* Mutant: no foreign key.
SaveLinkAnyhow(p, u) ==
  /\ Edit
  /\ links' = links \cup {<<p, u>>}
  /\ UNCHANGED <<title, authors, status>>

\* INSERT IGNORE: the row may have been merged away since its id was read.
SaveLink(p, u) ==
  /\ Edit
  /\ links' = IF p \in papers THEN links \cup {<<p, u>>} ELSE links
  /\ UNCHANGED <<title, authors, status>>

AddAuthor(p, a) ==
  /\ Edit /\ p \in papers /\ a \notin authors[p]
  /\ authors' = [authors EXCEPT ![p] = @ \cup {a}]
  /\ UNCHANGED <<title, status, links>>

\* A rename is refused when another paper has the title.
Rename(p, t) ==
  /\ Edit /\ p \in papers
  /\ \A q \in papers : title[q] # t
  /\ title' = [title EXCEPT ![p] = t]
  /\ UNCHANGED <<authors, status, links>>

Climb(p) ==
  /\ Edit /\ p \in papers
  /\ \E s \in 0..Published : s > status[p] /\ status' = [status EXCEPT ![p] = s]
  /\ UNCHANGED <<title, authors, links>>

\* Days go by, fewer than seven or more.
DaysPass ==
  /\ today < MaxDays
  /\ today' = today + 1
  /\ \/ tried' = [p \in Papers |-> IF tried[p] = "recent" THEN "due" ELSE tried[p]]
     \/ UNCHANGED tried
  /\ UNCHANGED <<rows, charged, sent, enricher, merger, events>>

Enrich(e) ==
  \/ Select(e) \/ Attempt(e) \/ BatchDone(e) \/ LookupDoi(e) \/ CheckBudget(e)
  \/ Reserve(e) \/ Send(e) \/ Store(e)

Next ==
  \/ \E e \in Enrichers : Enrich(e) \/ LookupFails(e) \/ RateLimited(e) \/ EnricherDies(e)
  \/ \E m \in Mergers : \/ FindGroups(m) \/ MergeGroup(m)
                        \/ MergeEnds(m) \/ MergeFails(m)
  \/ \E p \in Papers : \/ \E u \in Urls : SaveLink(p, u)
                       \/ \E a \in Authors : AddAuthor(p, a)
                       \/ \E t \in Titles : Rename(p, t)
                       \/ Climb(p)
  \/ DaysPass

Spec == Init /\ [][Next]_vars

\* The worker thread of the API runs for the life of the process.
FairSpec == Spec /\ WF_vars(\E e \in Enrichers : Enrich(e))

---------------------------------------------------------------------------
(* Properties. *)

\* The provider is sent no more requests than a day allows, however many
\* processes enrich and whatever they knew of the budget when they began.
BudgetKept == \A d \in Days : sent[d] <= RequestLimit

\* A merge destroys a row only for another of the same paper: the same title, no
\* two works, although groups are found long before they are merged and titles,
\* authors and works change meanwhile.
OnlyDuplicatesMerged ==
  [][\A p \in papers \ papers' : \E q \in papers \cap papers' :
       /\ title[p] = title[q]
       /\ work[p] = work[q] \/ NoWork \in {work[p], work[q]}
       /\ authors[p] \subseteq authors[q] \/ authors[q] \subseteq authors[p]]_vars

\* What a merge destroys lives on in one other row: its authors, its links, the
\* status, and the oldest of the news, which is the only news of that row.
NothingLost ==
  [][\A p \in papers \ papers' : \E q \in papers' :
       /\ title[q] = title[p] /\ status'[q] >= status[p]
       /\ work[p] # NoWork => work'[q] = work[p]
       /\ authors[p] \subseteq authors'[q]
       /\ \A u \in Urls : <<p, u>> \in links => <<q, u>> \in links'
       /\ \A n \in news : n[2] = p => \E k \in news' : {j \in news' : j[2] = q} = {k} /\ k[1] <= n[1]]_vars

\* As long as the budget lasts, every paper that wants enrichment is tried:
\* those whose record makes every cycle raise must not hide the others.
EveryPaperTried ==
  \A p \in Papers : Unenriched(p) ~> (~Unenriched(p) \/ ~BudgetLeft(today))
=============================================================================
