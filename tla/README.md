# Econ Newsfeed: TLA+ models, checks and proofs

The backend watches researchers' web pages. A scheduled scrape fetches every
page and stores its text; a worker asks an LLM what is on a page that changed;
what it finds is saved as papers and told as feed events; a weekly digest mails
the events. All state is in one MySQL database, which several processes
(Gunicorn workers, one of them with the scheduler; the CLI) and several threads
of each share through short transactions. What is hard here is what lies
*between* those transactions.

Sources are named below as `pipeline/scheduler.py:97`, relative to
`src/backend`. `PROJECT.json` maps every definition to the lines it models.

## Inventory

| part | state it keeps | operations | works with |
|---|---|---|---|
| page store and fetcher (`pipeline/html_fetcher.py`) | `html_content` (one row per URL: text, raw HTML, `content_hash`, `extracted_hash`), `html_snapshots` (versions a fetch replaced) | `fetch_and_save_if_changed`, `archive_snapshot`, `save_text`, `_touch_unchanged`, `get_previous_text`, `mark_extracted` | called by the scrape; read by extraction and feed events |
| extraction (`pipeline/extraction.py`) | none of its own | `extract_one_url`: payload, baseline, LLM call, papers, events, links, snapshots, mark | page store, LLM, saver, feed events; run by worker and CLI at once |
| extraction worker (`pipeline/scheduler.py:568`) | failure counts, cooldowns, failed hashes in memory | poll the queue (200 rows), extract, cool down, pause on quota | extraction |
| feed events (`pipeline/feed_events.py`) | `feed_events` | `emit_new_paper_events`, `emit_status_change`, `emit_title_change` | extraction, digest, merge |
| paper saver and snapshots (`pipeline/paper_saver.py`, `database/snapshots.py`) | `papers`, `paper_urls`, `authorship`, `paper_snapshots`, `_author_id_cache` | `save_publications`, `apply_title_rename`, `reconcile_title_renames`, `append_paper_snapshot` | extraction, enrichment |
| scrape lock and log (`pipeline/scheduler.py`) | MySQL advisory lock, `_lock_conn`, `_scrape_lock_lost`, `scrape_log` | `run_scrape_job`, keepalive, hourly cleanup, force-release, `POST /api/scrape`, CLI fetch | fetcher |
| scheduler lease and lifecycle | second advisory lock, job list, stop events | `start_scheduler`, `shutdown_scheduler`, exit on a lost lease | all workers |
| enrichment (`enrichment/openalex.py`, `doi_resolver.py`, `database/enrichment_budget.py`) | attempts and data on `papers`, `enrichment_daily_budget` | `enrich_new_publications`, `reserve_request` | papers, merge |
| paper merge (`enrichment/paper_merge.py`) | none of its own | `merge_paper_group` | papers, events, links |
| quality review (`enrichment/quality_review.py`, `review_batch.py`) | `review_batch_jobs`, reviews | submit, poll, process, corrections | feed events |
| researcher directory (`database/researchers.py`, `src/scripts/merge_duplicate_researchers.py`) | `researchers`, `researcher_urls`, `authorship`, `_author_id_cache` | `get_researcher_id`, `merge_researchers`, CSV import | saver, digest |
| users and digest (`database/users.py`, `digest.py`) | preferences, `digest_deliveries` | `run_weekly_digest`, `record_digest_delivery` | feed events |
| URL discovery and site mining (`discovery/`, `database/discoveries.py`) | `url_discoveries`, `site_mining_sources`, `site_mining_candidates` | search, enqueue, checkpoint, approve, reject | researcher URLs |
| schema and boot (`database/schema.py`, `api.py` lifespan) | the tables, the feed's triggers, the `econ_migrations` lock | `create_tables`, readiness check, retries | everything |
| cleanup script (`src/scripts/cleanup_data_quality.py`) | none of its own | thirteen steps, read then written | researchers, papers, feed |
| API (`api.py`) | TTL caches | read endpoints, `POST /api/scrape` | all tables |
| connection pool (`database/connection.py`) | five connections, one scoped connection per thread | checkout, scope | everything |

What makes each correct, and where it is hard:

- **Page store and extraction.** A version nobody read stays in the queue, no
  version is lost from the archive, the diff path asks the LLM about every
  paper, old papers are not announced. Hard because fetches, two extractors and
  crashes interleave between statements, and because a run keeps for minutes
  what it read before the LLM call.
- **Papers, statuses and events.** A status never regresses and each climb is
  told once although coauthors' pages disagree; a paper is announced as new
  once. Hard because events are written in transactions after the ones that
  justify them.
- **Scrape lock.** One run at a time, no lock that outlives its run, no row
  that stays `running`, no live row failed by the cleanup. Hard because the lock
  is a connection that may die, four kinds of thread hold references to it, and
  the decisions of the cleanup are made on what was read earlier.
- **Worker loop.** A page that fails for ever must cost a bounded number of LLM
  calls and hide no other page behind the 200-row batch, yet a page that changed
  must not wait for the cooldown.
- **Enrichment and merge.** A budget shared by processes, at its limit and at
  midnight; groups of duplicates found long before they are merged; one record
  that makes every cycle raise.
- **Researchers, users, digest.** Rows that savers, scripts and caches refer to
  are merged meanwhile; a mail and its record are two steps; preferences are
  inserted by a request that found none.
- **Mining and discovery.** Effects precede their checkpoints, runs die in
  between, and people decide candidates that a run has in hand.
- **Boot and review.** DDL commits by itself, several processes boot at once,
  and a boot deletes events whose review is under way.

`hazards` in `PROJECT.json` lists these one by one with the lines where they
bite.

## Modules

| module | what it is |
|---|---|
| `PageExtraction` | one page: fetcher, extractors, archive, hashes, announcement gate |
| `ExtractionQueue` | abstract: a queue of at most one version, acknowledged by who looked at it |
| `ScrapeLock` | the advisory lock, its keepalive, runs, cleanup and `scrape_log` |
| `PaperFeed` | one paper that several pages list: saves, snapshots, statuses and events |
| `StatusLedger` | abstract: a level that climbs, and each climb told at most once |
| `ExtractionWorker` | the worker's loop over the queue of all pages: failures, cooldowns, quota |
| `PaperCatalog` | enrichment within a daily budget, and the merge of duplicate papers |
| `SiteMining` | the website miner, the search for websites, approvals and audits |
| `WorkList` | abstract: items added once, decided, reopened only if recurring and not held |
| `Audience` | researchers and their merging, users, the weekly digest |
| `Migrations`, `ReviewBatch` | the boot of a process; the review of events in batches |
| `Service` | composes the two: processes boot, one gets the scheduler, boots clean what it reviews |
| `DataCleanup` | the cleanup script, step by step |
| `MC*` | instances for TLC |
| `PageExtractionProofs`, `ScrapeLockProofs`, `PaperFeedProofs`, `ExtractionWorkerProofs`, `PaperCatalogProofs`, `SiteMiningProofs`, `AudienceProofs`, `ServiceProofs` | theorems about the module they are named after, and their proofs |

### PageExtraction

State: `row` is the `html_content` row (a hash, whether a text or raw HTML body
is there, and the hash last marked extracted), `snaps` the snapshots in order,
`fetch` and `job[e]` the local variables of a fetch and of each extraction. A
page is a model value with the set of papers it lists; a hash is a page and the
version of the cleaning code (`Deploy` changes it). Actions follow the
statements: `FetchChanged`/`FetchTouch`, `FetchArchive`, `FetchUpsert` (with
`FetchArchiveFails` and `FetchDies`); `Pick`, `ReadPayload`, `ReadBaseline`,
`Answer` (the LLM: any papers of the new page, or a failure), `SavePaper` /
`SaveFails`, `Emit`, `Mark`, `JobDies`. `Offer` is what the prompt asks for, the
page or what changed on it; `Nameable` is what the checks let through, any title
on the new page, since prompts show unchanged lines too. Variables `read`, `offered`,
`mishaps`, `kept`, `seedSaved`, `found` and `hushed` are history for the
properties only: `found` are the papers that an answer named, and `hushed` those
of them that the feed may lack, because their save failed, their run died, the
page had fewer than two versions, its newest version was no longer the one
that the question to the LLM was cut from, or that version lists them already.

Left out: the status of papers (all are unpublished here; `PaperFeed` has
statuses), title changes, the HOME description and links.

### ScrapeLock

State: `holder` and `session` are MySQL's view (who holds the lock, which
connections are up, cut or closed), `lockConn` and `lost` the globals of each
process, `run[t]` the locals of a thread, `rows` the `scrape_log` rows with a
three-valued age (within the 5-minute grace, grown, over the maximum duration),
`keeper` and `cleaner` the locals of keepalive and cleanup. The keepalive reads
the connection under the guard (`ReadConn`) and pings (`Ping`), re-acquires and
swaps in steps of their own, so a run may close the connection in between. A
connection that
nothing refers to is collected. Faults are cut connections, crashes, errors
that a run raises, and a check of the lock that fails (and counts as a free
lock). The CLI keeps its connection in a local variable, so neither keepalive
nor cleanup sees it. POST requests may reach any worker; the cleanup runs only
in the process with the scheduler.

### PaperFeed

State: one paper's row (`listed` pages and `status`, a rank in `STATUS_ORDER`),
`raw` (the status in its newest snapshot), its events (`news`, `changes`), the
URLs `extracted` before, and `job[e]`, the run of each extractor with what its
page says of the paper. `OpenEmit` and `Emit` are the first `SELECT` and the
commit of `emit_new_paper_events`: the connections do not autocommit, and at
MySQL's default isolation the first `SELECT` fixes what the count of events
sees. `Snapshot` is
`append_paper_snapshot` (one transaction under the row lock) and `Tell` the
transaction of `emit_status_change` after it; `Rename` is the same for a title
change, whose status climb the code does not tell. Whether a title counts as
news on its page (baseline, previous snapshot) is `PageExtraction`'s subject
and a free choice here (`SkipEmit`), as is the age of the paper (`stale`).
History variables: `first` (the status of discovery), `raced` (announcements
overlapped), `climbed` (the interesting climbs of the status) and `quiet` (those
not for the feed: of a seed run, an old paper or a new title, or of a run that
died before it told them).

An event is dated by the fetch of its page (`dates`), so the feed's order is not
that of insertion. `BootCleans` is what `create_tables` does to the events on
every boot (`database/schema.py:853`): `gone` are the events it deleted.

### ExtractionWorker

`hash`, `extracted`, `active`, `fetchFails` and `reason` are columns of
`html_content` and `researcher_urls`; `rows`, `job`, `failures`, `cooling`,
`left` and `failedHash` are the locals of `_extraction_worker_loop`
(`pipeline/scheduler.py:568`). Time is what is left of each cooldown: a step
takes up to `AttemptTicks`, a sleep up to `Cooldown`. `Poll` is one round of the
outer loop with both of its queries, `Start` takes the next row and reads its
payload (which may be newer than the row), and `Succeed`, `Fail` and
`QuotaLimited` are the three outcomes of an attempt. `PageChanges`, `PageSame`,
`FetchTooLarge`, `FetchFails` and `Reactivate` are the fetcher's and the
administrator's writes to the rows. Left out: what an extraction saves.

### PaperCatalog

`papers`, `title`, `authors`, `status`, `work`, `links` and `news` are the
tables; `tried` is `enrichment_attempted_at`; `charged` the budget's rows;
`enricher[e]` and `merger[m]` the locals of an enrichment cycle and of a merge.
`Select`, `Attempt`, `LookupDoi`, `CheckBudget`, `Reserve`, `Send`, `Store`
follow `enrich_new_publications` and `search_work`, with `RateLimited` for the
one retry, and `EnricherDies`. `FindGroups` reads the groups, `MergeGroup`
locks a group, looks again and merges it in one transaction. Pages meanwhile add
links, authors, titles and statuses (`SaveLink`, `AddAuthor`, `Rename`, `Climb`).
A work stands for DOI and OpenAlex id. `Broken` are works whose record makes the
parser raise, which ends a cycle. Left out: topics, coauthors, the DOI resolver.

### SiteMining

A miner (`discovery/mining*.py`) is a run with its locals in `miner[m]`:
`Enter` takes the advisory lock, `ReadTables` what is known and which sources
changed, `ReadSource`, `EnqueueLink`, `Checkpoint` go through each source,
`VisitDirectory` through a directory, `ReadDue`, `Fetched`, `EnqueueChild` and
one of `Unreachable`, `Doubtful`, `ApproveBundle`, `BudgetExceeded` through the
due candidates. `Raise`, `Crash`, `Cut` (the lock's connection dies while the
run goes on), `OutOfTime` are its ends. `StartSearch`, `Search` and
`SearchQuota` are a discovery batch; `StartApproval`, `ApprovalAdds` (one
statement a page), `EndApproval`, `RejectDiscovery`, `Audit` and `Reactivate`
are people. `urls` are the rows of `researcher_urls` and `dead` those that are
not active (`Deactivate` is what failing fetches do to them). `Preflight` is
`_preflight`: rejected URLs and holds are compared by URL, or by researcher, and
claims of other owners also by site. A URL stands for its `url_key`; aliases of
one key are one URL. What a page is verified to be is a relation between
candidates, owners, URLs and sites.

### Audience

`name` is the researchers' table (a first name is a number, its length),
`authorship`, `sites`, `follows`, `prefs`, `delivered` are tables,
`cache[proc]` is `_author_id_cache`, `digest` the digest's locals. `SavePaper`
resolves a byline as `get_researcher_id` does, on the transaction's view of the
names, with what the cache remembers; `SaveFails` rolls back all but the cache.
`PickPair` and `MergeAuthors` are the merge after a save, `MergeInitials` the
script's. `AskPrefs` and `DefaultPrefs` are the two halves of
`get_notification_prefs`. `StartDigest` reads the recipients and whom they
follow; `Lists` is what MySQL's `GROUP_CONCAT` gives of a list longer than its
1024 bytes (`ListLimit` ids here): it ends with a wrong id, or after a comma, and
then no digest starts. `Send` and `Record` are apart, and `SendFails` and
`DigestDies` fall anywhere. Left out: the text of mails, profiles of researchers.

### Migrations, ReviewBatch and Service

`Migrations` is `create_tables` step by step: each step is one DDL sequence that
commits by itself, some steps only warn when they fail, others fail the
attempt; `lifespan` retries. `ReviewBatch` is submission, polling, saving and
completion of batches; what the provider does is external, answers that parse as
JSON but are no object (`bad`) included: they raise where the finding is saved
and end the check. `Service` joins them
on the table of feed events: a boot's `feed` step deletes events, the reviews go
with them, and the review's foreign key refuses a finding about an event that is
gone. The lease goes to the first process that asks at boot and goes with it; a
process whose question fails does not ask again.

### DataCleanup

`step` counts the script's steps, `todo` is what the step's query gave, and
`WriteRow` one of its writes. `Write` dispatches to `DropPaper`,
`MergeResearcherPair`, `Retitle` and so on as the script's functions do.

## What the runs check

Passing runs, all exhaustive:

| run | bounds | properties |
|---|---|---|
| PageSafety | three pages (a JPEG or empty one, one that gains a paper, a rewording), one extractor, no deployment, one fault (3.8 million states) | `TypeOK`, `HistoryKept`, `OrderlyMissesNothing`, `ImplementsQueue` |
| PageOverlap | a page on which one paper stays and one comes and goes, two extractors, no deployment, one fault (1.8 million states up to symmetry and `OverlapView`) | `NewsIsTold`, `LastingPaperIsNotNews` |
| PageLiveness | a page that gains and loses a paper, a deployment that changes every hash, one extractor, one fault, fairness (1.4 million states) | `QueueDrains` |
| LockSafety | interval job, POST and CLI, two processes, three connections, two rows, one fault (3.4 million states up to symmetry) | `TypeOK`, `OneRunAtATime`, `NoLeakedLock`, `LiveRowsSpared` |
| LockLiveness | two runs of the interval job, one fault, fairness (230 thousand states) | `LockFreed`, `RowsSettle` |
| FeedStatus | two pages, two extractors, four runs, statuses none, working paper, R&R, published, two dates of fetching, any number of boots, one fault (1.6 million states up to symmetry) | `TypeOK`, `AscentTold`, `NewsOnceUnlessRaced`, `ImplementsLedger` |
| WorkerQueue | three pages in a queue of two, two failures to a cooldown of three ticks, one change, one fault, fairness (76 thousand states) | `TypeOK`, `PoisonBounded`, `SleepsOnlyWhenIdle`, `NoPageHidden` |
| Mining | two miners, one researcher, one site whose homepage a page links to, whose other page a directory lists and whose two pages a search finds; one change, one act of a person, one fault (1.4 million states up to symmetry) | `TypeOK`, `LinksNeverLost`, `ApprovedIsListed`, `HoldsHold`, `ImplementsWorkList` |
| Catalog | three papers, two of one title and two works, a third with a broken record; two enrichers, batches of one, one request a day, two days, one event, fairness (470 thousand states) | `TypeOK`, `BudgetKept`, `OnlyDuplicatesMerged`, `NothingLost`, `EveryPaperTried` |
| Audience | four ids, three names of which two fit each other only as an abbreviation, two papers, two processes, one user whose list fits one researcher, three acts, one fault, fairness (160 thousand states) | `TypeOK`, `ToldOnce`, `CreditKept`, `OptOutStands`, `NewsArrive` |
| Service | two processes, an empty or an old database, three events (one that boots clean, one too large), one batch, one fault, fairness (56 thousand states) | `TypeOK`, `GuardHolds`, `DoneIsSaved`, `FindingsArrive` |

The bounds are the smallest at which the interesting cases happen: three page
states give revert, growth and rewording; two extractors give every overlap of
worker and CLI; a second run meets what the first left behind; a third page
behind a queue of two can be hidden; one request a day makes two enrichers meet
at the limit and midnight fall between check and reservation; two works of one
title make a group that enrichment breaks up between look and merge; a third
name makes a byline ambiguous; one fault may fall between any two statements.
The statuses of FeedStatus have an uninteresting, an interesting and a longer
climb and the unknown status, and two dates put a later event before an earlier
one. A user who follows two researchers is over a list of one. What the bounds
leave to the proofs, which have none: deployments in the safety runs of
PageExtraction, claims of another researcher in Mining, a batch behind a spoiled
one in Service (there only the safety properties are proved). Every property of
a passing run is paired with a mutant, a plausible bug in a mapped definition
that makes the run fail.

`MaxCleaner`, `MaxFaults`, `MaxRuns`, `MaxUrls`, `MaxChanges`, `MaxAudits`,
`MaxEvents`, `MaxDays`, `MaxActs`, `MaxAttempts`, `MaxId` and `MaxName` are the
only bounds on counters, and `ListLimit` is the length of the digest's lists.
Runs of PaperCatalog, Audience and Service come to rest when their bounds are
used up, and the cleanup script ends, so deadlock is not checked there; it is
everywhere else (PaperFeed's boots go on). Symmetry is used for connections in the safety run of ScrapeLock, for pages and extractors in
FeedStatus, for extractors in PageOverlap and for miners in Mining, whose
properties are all safety. `OverlapView` leaves out of PageOverlap's states the
four history variables that neither its properties nor any action read.

### Fairness

- PageExtraction: the scrape runs on an interval and the worker polls in a
  loop, so the fetcher and each extractor are weakly fair. Faults and the site
  are not fair; faults are bounded, so a page that settles is at last fetched
  and read. A crash is followed by a restart (the container's restart policy).
- ScrapeLock: threads take their steps, MySQL notices dead sessions, the
  interpreter closes what nothing refers to, time passes, and keepalive and
  cleanup loop. That every fetch returns is an assumption: requests have
  timeouts, but the force-release exists because a lookup may block. Crashes and
  cuts are never fair.
- ExtractionWorker: the thread runs for the life of its process, so one of
  `Poll`, `Start`, `Succeed`, `Fail` is at last taken; which outcome an attempt
  has is not fair, so a page may fail for ever.
- PaperCatalog: the API's enrichment thread runs on; what an answer says is free.
- Audience: the digest is a weekly job, which starts unless a recipient's list
  is cut; sends and records may fail within `MaxFaults`.
- Service: the supervisor restarts a process that ended, a booted process asks
  for the lease, and the scheduler checks batches every three hours. Submission
  and the provider are not fair.

## Where documents and code part ways

The run `CleanupMerge` states what the docstring of `merge_researcher_pair` says
(`src/scripts/cleanup_data_quality.py:148`, "coalesce profile, reassign, delete")
and is violated: pairs are read before any is merged, so the survivor of one
pair may be the duplicate of an earlier one, and the papers of the second
duplicate are left without an author. It is in `findings`.

Other behaviours of the code that the models show and the properties step around:

- A fetch during the LLM call archives the page being extracted, and its new
  papers are refused as old; a crash between archive and upsert makes an unread
  page its own baseline; after two fetches before an extraction the papers of
  the first version are never offered. `OrderlyMissesNothing` holds while
  fetches and extractions alternate, and `NewsIsTold` says that a paper named by
  an answer misses the feed only if a seed run found it, its save failed, its run
  died, the page has too few versions, a fetch came between, or the version it
  was compared with lists it.
- The last of these: a question about what changed shows unchanged lines, or both
  texts, and any title on the new page passes the checks
  (`pipeline/publication.py:576`). A paper that an earlier answer left out may so
  be found late, as new, and `emit_new_paper_events` refuses it because the
  previous version has it (`pipeline/feed_events.py:85`).
- A climb is lost to the feed when a page changes the title with it
  (`pipeline/paper_saver.py:416`), and when the run dies between the snapshot
  and the event: the retry finds the snapshot as it says and tells nothing.
  `AscentTold` says that nothing but these, seed runs and the age of the paper
  keeps one from being told.
- Every boot deletes the `status_change` events that do not advance in the order
  of their dates, which are those of the fetches (`database/schema.py:853`; its
  comment says that emission order can differ). A climb that was told in time
  goes when a later climb is told from a page fetched earlier: of one paper's
  working paper to R&R to published, read in two runs, the feed may keep only the
  second. `AscentTold` says that a boot deletes an event only for one that is
  still there, precedes it in the feed and leads as high; `ImplementsLedger` is
  about events as they are inserted. Events are deleted elsewhere too, outside
  `PaperFeed`: by a review that hides one (`enrichment/quality_review.py:385`),
  by one-off scripts (`src/scripts/cleanup_*.py`, `repair_*.py`), and with the
  surplus announcements of merged papers (`enrichment/paper_merge.py:179`, in
  `PaperCatalog`).
- A page that reverts to an older version is not archived again
  (`pipeline/html_fetcher.py:487`), so newest and previous part ways.
- The hourly cleanup or a resumed run may release a newer run's lock, and two
  runs fetch at once. `OneRunAtATime` and `LiveRowsSpared` hold while no
  connection is cut, no lock force-released and no check of it fails.
- The keepalive pings outside the guard: a run that ends between its reading of
  the connection and its ping closes that connection, and the keepalive takes the
  lock for a moment, until it finds `_lock_conn` changed. A run triggered in that
  moment is skipped as if another one were under way.
- The `is_new` branch of `emit_new_paper_events` does not count events: two
  overlapping runs announce a paper twice, and one discovered as published is
  announced as new by a page that is behind. `NewsOnceUnlessRaced` holds while
  no two announcements overlap.
- A page is deactivated one failure before its threshold, and `deactivated_at`
  stays NULL: MySQL assigns the columns of an UPDATE from left to right, so the
  conditions after `consecutive_failures = consecutive_failures + 1` see the new
  count (`database/researchers.py:547-556`; the docstring at 535 and the check at
  560 count three). `RecordFailure` does what MySQL does.
- `PoisonBounded` allows one failure more than the limit: the cooldown keeps the
  hash of the queried row, so a page that changed before its attempt is taken
  for changed once more.
- Approving a discovery adds its pages with INSERT IGNORE
  (`database/researchers.py:523`): one that is there and inactive stays inactive,
  the discovery is marked approved all the same, and its researcher is not
  searched for again because of the row. So `ApprovedIsListed` says that every
  page is in the table, not that it is scraped. Rows of `researcher_urls` are
  deleted by the cleanup script only (`src/scripts/cleanup_data_quality.py:278`,
  `:442`), which is outside `SiteMining`.
- A hold compares researchers, or exact URL keys
  (`discovery/mining_store.py:512`): a held candidate without a researcher does
  not keep a run from adding another page of the same site. `HoldsHold` says what
  a hold does stop.
- `get_digest_recipients` reads whom a user follows through `GROUP_CONCAT`, which
  MySQL cuts at 1024 bytes by default (`database/users.py:92`), some 200 ids. A
  list cut within a number ends with the id of somebody else; one cut after a
  comma makes `int('')` raise, which ends the digest for everybody, every week.
  `NewsArrive` holds while every recipient's list fits.
- An answer of a review batch that is JSON but no object, or has no content,
  raises in `save_review` or `_extract_json`
  (`enrichment/quality_review.py:279`, `:96`), which nothing catches: the check
  ends there, and so does every later one, with the rest of the batch and the
  batches after it unread. `FindingsArrive` excepts findings of such a batch and
  of those after it. A batch that expired or was cancelled may have answers, which
  the code does not read (`enrichment/review_batch.py:122`); the model gives it
  none, and the findings spoken of are those of completed batches.
- A process whose question for the scheduler's lease fails goes on without the
  scheduler (`pipeline/scheduler.py:728`); when that happens to all that serve,
  nobody checks batches until one boots again. `FindingsArrive` excepts that too.
- A foreign key whose migration broke off stays half done until a boot repairs
  it, or for good if orphaned rows refuse it. `GuardHolds` is about the guard of
  the feed at every moment, and about the whole cascade only while nothing failed.

## What is proved

For every value of the constants that meets the named assumptions
(`PageAssumption`, `HashAssumption`, `LockAssumption`, `FeedAssumption`,
`WorkerAssumption`, `CatalogAssumption`, `MiningAssumption`, `AudienceAssumption`,
`ServiceAssumption`: they type the constants, keep the "none" values apart, and
say that a first researcher table has its ids in a row, that there is a title and
that the enriching processes are finitely many):

- **PageExtractionProofs.** `ReadInv` (types, what a started run knows, and
  `MarkedWasRead`) is inductive and gives `TypeCorrect` and `MarkedReadCorrect`;
  on it rest `SeedInv` (a run's fresh papers are saved, and none is a seed's
  unless the run is one) for `SeedCorrect`; `TellInv` (a saved paper is settled
  or fresh in a run's hands, and a named one is saved, given up or still to be
  saved: when a run emits, what the gate refuses is on the version the question
  compared with, unless a fetch came between or versions are too few) for
  `NewsIsToldCorrect`; the gate's invariant for `LastingCorrect`; `KeptInv` (the row's own version is archived before the
  upsert may replace it) for `HistoryCorrect`; and `OfferedInv` (marked pages,
  baselines and all snapshots but the one of the fetch under way were offered)
  for `OrderlyCorrect`. `QueueRefined` shows each step to be a store, a look, an
  acknowledgement or a stutter of `ExtractionQueue`.
- **ScrapeLockProofs.** `TypeInv` (types and the shape of locals at each program
  counter) is inductive: `LockTypeCorrect`. `NoLeakedLock` is inductive given it:
  a remembered connection belongs to a run of that process. `LockInv` says that
  without disorder the one run under way holds the lock on a live connection,
  its row is the newest, what the cleanup saw is still true, and the keepalive has
  no lock of its own while a run has it (`KeeperApart`: what it would replace is
  down, and what it took is the one holder): it gives `OneRunCorrect` and
  `LiveRowsCorrect`.
- **PaperFeedProofs.** `FeedInv` (types and the facts of each step) gives
  `FeedTypeCorrect` and `StatusClimbsCorrect`. `ClimbInv` adds to
  `ClimbsToldOnce` the climbs that runs are about to tell: told and owed climbs
  are pairwise disjoint and lie below the status, because `append_paper_snapshot`
  takes the effective status as its old one under the row lock. It gives
  `ClimbsToldOnceCorrect` and `LedgerRefined`. `AscentInv` accounts for every
  climb: each is told, owed or quiet, and a quiet one is neither of the others,
  because a climb leads above all that were made before. `GoneInv` says that an
  event still there overtakes each that a boot deleted: of those that overtake it
  the one that comes first in the feed is never deleted by the same boot. With
  `ClimbsToldOnce` they give `AscentToldCorrect`. `NewsInv` relates the events to
  the runs between save and event and gives `NewsOnceCorrect`.

- **ExtractionWorkerProofs.** `WorkInv` adds two facts to the types. `RowsInv`: a
  row in hand is of a page that does not rest, and what was queried before the
  page changed has cost nothing since. `StrikesInv`: the worker's own count lags
  the true one by at most a strike, which is the one of a page that rests with
  other content than the worker believes. It gives `WorkerTypeCorrect` and
  `PoisonBoundedCorrect`. `SleepsOnlyWhenIdleCorrect` needs no
  invariant but that the limit is positive: a limited query is empty only if no
  page that it does not exclude waits, and the second query excludes no more
  than the pages at rest.
- **PaperCatalogProofs.** `CatalogInv` (types, among them that links and news
  point to rows that are there, and that no group is empty) gives
  `CatalogTypeCorrect`. A merge step is taken apart once: what it deletes is a
  duplicate of the row it keeps and leaves all it had to it
  (`OnlyDuplicatesMergedCorrect`, `NothingLostCorrect`). `BudgetInv` counts a
  request that is reserved and not yet sent, and gives `BudgetKeptCorrect`.
- **SiteMiningProofs.** `TypeInv` (types and the shape of a run's locals at each
  step) gives `MiningTypeCorrect` and carries `HoldsHoldCorrect` and
  `WorkListRefined`. `LinkInv` says that a run knows only URLs that are in the
  table and has queued what it read but what it still has in hand, which is why a
  checkpoint loses nothing (`LinksNeverLostCorrect`); `ApprovalInv`, that an
  approval has added every page before the one it is at
  (`ApprovedIsListedCorrect`). Both rest on that rows of `researcher_urls` are
  never deleted here.
- **AudienceProofs.** `DataInv` (types, among them that every authorship, page and
  follow is of a researcher who is there, in the presence of merges, and what is
  in hand) gives `AudienceTypeCorrect`, `OptOutStandsCorrect` and, with a case for
  each writer of the directory, `CreditKeptCorrect`. `LedgerInv` says that a paper
  was mailed at most once more than records failed, and at most that often before
  it is in the ledger or in hand: `ToldOnceCorrect`.
- **ServiceProofs.** `BootInv` says that while nothing failed a process at a step
  holds the lock and one past the new key has left the cascade in place; it gives
  `GuardHoldsCorrect`. `LeaseInv` (the lease is with a process that is up, and the
  review jobs rest without one) gives `ServiceTypeCorrect`. `FindingsInv` says
  that what a check has in hand are the findings of a completed batch that are
  not saved, and that no event is there which it did not load, so what it leaves
  out as unknown is gone, and that a check which an answer breaks off leaves its
  job pending: `DoneIsSavedCorrect`.

`MarkedReadCorrect`, `SeedCorrect`, `StatusClimbsCorrect` and
`ClimbsToldOnceCorrect` have no run of their own: what they say is part of
`ImplementsQueue`, `NewsIsTold`, `ImplementsLedger` and `AscentTold`.

Every invariant and every action property of a passing run is proved, and the
three refinements. Only model-checked are the properties under fairness
(`QueueDrains`, `LockFreed`, `RowsSettle`, `NoPageHidden`, `EveryPaperTried`,
`NewsArrive`, `FindingsArrive`), because liveness and `ENABLED` are out of the
prover's reach, and the counterexample of `CleanupMerge`.

## Not modelled

HTTP, robots.txt, SSRF checks and URL health; prompts, parsing and validation of
LLM output (an answer is a choice); the text rules by which titles, names and
URLs match (relations of the instance); link extraction; JEL topics; session
tokens; read endpoints; the web frontend; one-off scripts and the evaluation.
They hold no protocol between transactions, or are text processing.

The connection pool (`database/connection.py`) is a failed statement to its
callers. The TTL caches of the API may serve a value one TTL late; no process of
the pipeline reads them. The order in which `shutdown_scheduler` stops threads
ends in the death of the process, which `ScrapeLock` and `Service` have at every
point. A scrape that hangs for ever is left to the force-release: fetches return
in the fair runs. An event lost because a run dies between the transaction that
changes a paper and the one that tells it is a behaviour of the models, but no
document promises otherwise: `NewsIsTold` and `AscentTold` count it among the
reasons for which the feed may lack an event. An author id that the cache keeps after its row was merged away is a behaviour of
`Audience` (the INSERT IGNORE that credits nobody), for the same reason without a
property.

## Plan

Done: the modules above and their theorems. What is left, in this order:

1. `SchedulerLifecycle`: the shutdown order of threads with `ScrapeLock`'s
   keepalive; the pool of five connections under the worker's nested scopes.
2. The safety part of `DataCleanup` once its pairs are read again before each
   merge: that no paper loses its authors, which `CleanupMerge` refutes today.
3. For the proofs: that a reserved request of `PaperCatalog` is used unless its
   cycle dies, and that an event which no digest has told stays due in `Audience`.
