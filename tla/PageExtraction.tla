---------------------------- MODULE PageExtraction ----------------------------
(***************************************************************************)
(* One researcher page, from the fetch that stores it to the extraction    *)
(* that reads it: backend/pipeline/html_fetcher.py and                     *)
(* backend/pipeline/extraction.py, with the announcement of new papers of  *)
(* backend/pipeline/feed_events.py.                                        *)
(*                                                                         *)
(* The fetcher (one at a time, under the scrape lock) and the extractors   *)
(* (the background worker and the CLI, which hold no common lock) share    *)
(* two tables through separate auto-committed statements: html_content,    *)
(* one row per URL, and html_snapshots, the versions a fetch replaced.     *)
(* URLs do not interact here, so one page is enough; papers that several   *)
(* pages list, and the extraction queue of many URLs, are other modules.   *)
(*                                                                         *)
(* A page is a model value: the text one version of the cleaning code      *)
(* gives.  Its content_hash also depends on that code, so a hash is a pair *)
(* of a page and a cleaner version.                                        *)
(***************************************************************************)
EXTENDS Integers, Sequences

CONSTANTS
  Pages,       \* the states the researcher's page may be in
  Papers,      \* the papers it may list
  PapersOn,    \* [Pages -> SUBSET Papers]
  Unreadable,  \* pages with no usable text: empty, or a JPEG decoded as text
  Extractors,  \* threads and processes that run extract_one_url
  MaxCleaner,  \* bound: deployments that change how text is cleaned
  MaxFaults,   \* bound: crashes, failed LLM calls and swallowed database errors
  NoHash, NoPage

ASSUME PageAssumption ==
  /\ PapersOn \in [Pages -> SUBSET Papers]
  /\ Unreadable \subseteq Pages
  /\ \A g \in Unreadable : PapersOn[g] = {}
  /\ MaxCleaner \in Nat /\ MaxFaults \in Nat
  /\ NoPage \notin Pages

Hash == [page : Pages, cleaner : 0..MaxCleaner]

ASSUME HashAssumption == NoHash \notin Hash

VARIABLES
  live,      \* the page the researcher's site serves now
  cleaner,   \* version of extract_text_content / normalize_text that is deployed
  row,       \* the html_content row; hash = NoHash while there is none
  snaps,     \* html_snapshots of the URL, by snapshot_at
  fetch,     \* fetch_and_save_if_changed in progress
  job,       \* extract_one_url in progress, per extractor
  saved,     \* papers in the database
  announced, \* papers with a new_paper event
  faults

\* Kept for the properties only: no action reads them.
VARIABLES
  read,        \* hashes whose payload some run has read
  offered,     \* papers that an answered LLM call was asked to report
  mishaps,     \* which disorders have happened, see Note
  kept,        \* hashes the row has held with their raw HTML
  seedSaved,   \* papers first saved by a seed run
  found,       \* papers that an answer has named
  hushed       \* those of them that the feed may lack, see Hush

system  == <<live, cleaner, row, snaps, fetch, job, saved, announced, faults>>
finds   == <<found, hushed>>
history == <<read, offered, mishaps, kept, seedSaved, finds>>
vars    == <<system, history>>

Bodies == {"missing", "text", "raw"}
FetchIdle == [pc |-> "idle", page |-> NoPage]
JobIdle == [pc |-> "idle", hash |-> NoHash, seed |-> FALSE, base |-> NoPage,
            todo |-> {}, fresh |-> {}]

HashOf(g) == [page |-> g, cleaner |-> cleaner]
Archived(h) == \E i \in 1..Len(snaps) : snaps[i] = h
LastSnap == snaps[Len(snaps)].page
Marked == row.marked = row.hash

(* get_urls_needing_extraction: stored content, hash not yet extracted.    *)
InQueue == /\ row.hash # NoHash
           /\ row.body # "missing"
           /\ ~Marked

Fault == faults < MaxFaults /\ faults' = faults + 1
Note(cond, what) == mishaps' = mishaps \cup (IF cond THEN {what} ELSE {})

(* Papers that the feed may lack once the run's events are written: all of   *)
(* them when the page has too few versions, or its newest one is no longer *)
(* the one that the run's question compared with, and otherwise those that *)
(* the answer named although that version lists them.                      *)
Hush(e) ==
  LET compared == Len(snaps) >= 2 /\ LastSnap = job[e].base
  IN hushed' = hushed \cup
       {p \in job[e].fresh : ~job[e].seed /\ (compared => p \in PapersOn[LastSnap])}

-------------------------------------------------------------------------------
(* Rows the code starts from: none, or one restored from a metadata-only    *)
(* dump or written before raw_html existed.                                *)
Init ==
  /\ live \in Pages
  /\ cleaner = 0
  /\ \/ row = [hash |-> NoHash, body |-> "missing", marked |-> NoHash]
     \/ \E body \in {"missing", "text"}, done \in BOOLEAN :
          row = [hash |-> HashOf(live), body |-> body,
                 marked |-> IF done THEN HashOf(live) ELSE NoHash]
  /\ snaps = <<>>
  /\ fetch = FetchIdle
  /\ job = [e \in Extractors |-> JobIdle]
  /\ saved \in IF row.marked = NoHash THEN {{}} ELSE SUBSET PapersOn[live]
  /\ announced = {}
  /\ faults = 0
  /\ read = IF row.marked = NoHash THEN {} ELSE {row.marked}
  /\ offered = IF row.marked = NoHash THEN {} ELSE PapersOn[live]
  /\ mishaps = {}
  /\ kept = {}
  /\ seedSaved = saved
  /\ found = {} /\ hushed = {}

-------------------------------------------------------------------------------
(* The site, and deployments (which restart every process).                *)
PageChanges(g) ==
  /\ live # g
  /\ live' = g
  /\ UNCHANGED <<cleaner, row, snaps, fetch, job, saved, announced, faults, history>>

Deploy ==
  /\ cleaner < MaxCleaner
  /\ fetch = FetchIdle
  /\ \A e \in Extractors : job[e].pc = "idle"
  /\ cleaner' = cleaner + 1
  /\ UNCHANGED <<live, row, snaps, fetch, job, saved, announced, faults, history>>

-------------------------------------------------------------------------------
(* fetch_and_save_if_changed: the download and has_text_changed.           *)
FetchChanged ==
  /\ fetch.pc = "idle"
  /\ row.hash # HashOf(live)
  /\ fetch' = [pc |-> "archive", page |-> live]
  /\ UNCHANGED <<live, cleaner, row, snaps, job, saved, announced, faults, history>>

\* Mutant: the timestamp is touched and no body is backfilled.
FetchTouchOnly ==
  /\ fetch.pc = "idle"
  /\ row.hash = HashOf(live)
  /\ row.body # "raw"
  /\ UNCHANGED vars

(* _touch_unchanged: a matching hash backfills the missing bodies.          *)
FetchTouch ==
  /\ fetch.pc = "idle"
  /\ row.hash = HashOf(live)
  /\ row.body # "raw"
  /\ row' = [row EXCEPT !.body = "raw"]
  /\ kept' = kept \cup {row.hash}
  /\ UNCHANGED <<live, cleaner, snaps, fetch, job, saved, announced, faults,
                 read, offered, mishaps, seedSaved, finds>>

\* Mutant: no early return when there is no row.
FetchArchiveNoRow ==
  /\ fetch.pc = "archive"
  /\ fetch' = [fetch EXCEPT !.pc = "upsert"]
  /\ snaps' = IF Archived(row.hash) THEN snaps ELSE Append(snaps, row.hash)
  /\ UNCHANGED <<live, cleaner, row, job, saved, announced, faults, history>>

\* Mutant: the order of archive and upsert swapped, so the new version is archived.
FetchArchiveNew ==
  /\ fetch.pc = "archive"
  /\ fetch' = [fetch EXCEPT !.pc = "upsert"]
  /\ snaps' = IF row.hash = NoHash \/ Archived(HashOf(fetch.page)) THEN snaps
              ELSE Append(snaps, HashOf(fetch.page))
  /\ UNCHANGED <<live, cleaner, row, job, saved, announced, faults, history>>

(* archive_snapshot: INSERT IGNORE of the row's version, if its raw HTML    *)
(* is there; the unique key is (url_id, text_content_hash).                *)
FetchArchive ==
  /\ fetch.pc = "archive"
  /\ fetch' = [fetch EXCEPT !.pc = "upsert"]
  /\ snaps' = IF row.hash = NoHash \/ row.body # "raw" \/ Archived(row.hash)
              THEN snaps ELSE Append(snaps, row.hash)
  /\ UNCHANGED <<live, cleaner, row, job, saved, announced, faults, history>>

(* archive_snapshot logs its failures and returns.                         *)
FetchArchiveFails ==
  /\ fetch.pc = "archive"
  /\ Fault
  /\ fetch' = [fetch EXCEPT !.pc = "upsert"]
  /\ Note(TRUE, "unarchived")
  /\ UNCHANGED <<live, cleaner, row, snaps, job, saved, announced,
                 read, offered, kept, seedSaved, finds>>

\* Mutant: REPLACE INTO, which also resets the extraction columns.
FetchReplace ==
  /\ fetch.pc = "upsert"
  /\ row' = [hash |-> HashOf(fetch.page), body |-> "raw", marked |-> NoHash]
  /\ fetch' = FetchIdle
  /\ kept' = kept \cup {HashOf(fetch.page)}
  /\ Note(row.hash # NoHash /\ ~Marked, "unread")
  /\ UNCHANGED <<live, cleaner, snaps, job, saved, announced, faults,
                 read, offered, seedSaved, finds>>

(* save_text's upsert: everything but the extraction columns.              *)
FetchUpsert ==
  /\ fetch.pc = "upsert"
  /\ row' = [row EXCEPT !.hash = HashOf(fetch.page), !.body = "raw"]
  /\ fetch' = FetchIdle
  /\ kept' = kept \cup {HashOf(fetch.page)}
  /\ Note(row.hash # NoHash /\ ~Marked, "unread")
  /\ UNCHANGED <<live, cleaner, snaps, job, saved, announced, faults,
                 read, offered, seedSaved, finds>>

(* The fetch ends before its upsert: the process dies, or save_text         *)
(* swallows the database error.                                            *)
FetchDies ==
  /\ fetch.pc # "idle"
  /\ Fault
  /\ fetch' = FetchIdle
  /\ Note(fetch.pc = "upsert" /\ row.hash # NoHash /\ ~Marked, "torn")
  /\ UNCHANGED <<live, cleaner, row, snaps, job, saved, announced,
                 read, offered, kept, seedSaved, finds>>

-------------------------------------------------------------------------------
(* extract_one_url, statement by statement.                                *)

(* The worker polls a batch; a row may be extracted by someone else before *)
(* its turn comes, and is then extracted again.                            *)
Pick(e) ==
  /\ job[e].pc = "idle"
  /\ InQueue
  /\ job' = [job EXCEPT ![e].pc = "picked"]
  /\ UNCHANGED <<live, cleaner, row, snaps, fetch, saved, announced, faults, history>>

(* get_extraction_payload, and the early return for a page without text.   *)
ReadPayload(e) ==
  /\ job[e].pc = "picked"
  /\ job' = [job EXCEPT ![e] =
       [JobIdle EXCEPT !.pc = IF row.hash.page \in Unreadable THEN "marking" ELSE "read",
                       !.hash = row.hash,
                       !.seed = (row.marked = NoHash)]]
  /\ read' = read \cup {row.hash}
  /\ UNCHANGED <<live, cleaner, row, snaps, fetch, saved, announced, faults,
                 offered, mishaps, kept, seedSaved, finds>>

(* get_previous_text, a second read; equal texts are marked without an LLM *)
(* call ("Cleaning/hash changes alone must not create ... events").        *)
ReadBaseline(e) ==
  /\ job[e].pc = "read"
  /\ LET base == IF job[e].seed \/ snaps = <<>> THEN NoPage ELSE LastSnap
     IN job' = [job EXCEPT
          ![e].base = base,
          ![e].pc = IF base = job[e].hash.page THEN "marking" ELSE "asked"]
  /\ Note(fetch.pc = "upsert", "overlap")
  /\ UNCHANGED <<live, cleaner, row, snaps, fetch, saved, announced, faults,
                 read, offered, kept, seedSaved, finds>>

(* What the LLM is asked to report: the whole page, or what changed on it.   *)
Offer(e) == IF job[e].base = NoPage THEN PapersOn[job[e].hash.page]
            ELSE PapersOn[job[e].hash.page] \ PapersOn[job[e].base]

(* What the answer may name: any title on the new page passes the checks.  A *)
(* question about what changed also shows unchanged lines, or both texts.  *)
Nameable(e) == PapersOn[job[e].hash.page]

(* The answer is any part of it: extraction is not deterministic.          *)
Answer(e, pubs) ==
  /\ job[e].pc = "asked"
  /\ pubs \subseteq Nameable(e)
  /\ job' = [job EXCEPT ![e].pc = IF pubs = {} THEN "marking" ELSE "saving",
                        ![e].todo = pubs]
  /\ offered' = offered \cup Offer(e)
  /\ found' = found \cup pubs
  /\ UNCHANGED <<live, cleaner, row, snaps, fetch, saved, announced, faults,
                 read, mishaps, kept, seedSaved, hushed>>

(* The papers a run has still to save or to announce.                       *)
Held(e) == IF job[e].pc = "saving" THEN job[e].todo \cup job[e].fresh ELSE {}

(* save_publications commits each paper on its own; is_new is kept for the *)
(* events.                                                                 *)
SavePaper(e, p) ==
  /\ job[e].pc = "saving"
  /\ p \in job[e].todo
  /\ job' = [job EXCEPT ![e].todo = @ \ {p},
                        ![e].fresh = IF p \in saved THEN @ ELSE @ \cup {p}]
  /\ saved' = saved \cup {p}
  /\ seedSaved' = IF job[e].seed /\ p \notin saved THEN seedSaved \cup {p}
                  ELSE seedSaved
  /\ hushed' = hushed \ ({p} \ saved)
  /\ UNCHANGED <<live, cleaner, row, snaps, fetch, announced, faults,
                 read, offered, mishaps, kept, found>>

(* An error on one paper is rolled back, logged, and the next one follows. *)
SaveFails(e, p) ==
  /\ job[e].pc = "saving"
  /\ p \in job[e].todo
  /\ Fault
  /\ job' = [job EXCEPT ![e].todo = @ \ {p}]
  /\ hushed' = hushed \cup ({p} \ saved)
  /\ UNCHANGED <<live, cleaner, row, snaps, fetch, saved, announced,
                 read, offered, mishaps, kept, seedSaved, found>>

\* Mutant: the title is looked up in the stored page.
EmitCurrentGate(e) ==
  LET gated == {p \in job[e].fresh : p \in PapersOn[row.hash.page]}
  IN /\ job[e].pc = "saving"
     /\ job[e].todo = {}
     /\ job' = [job EXCEPT ![e].pc = "marking"]
     /\ announced' = IF job[e].seed \/ Len(snaps) < 2 THEN announced
                     ELSE announced \cup (job[e].fresh \ gated)
     /\ Hush(e)
     /\ UNCHANGED <<live, cleaner, row, snaps, fetch, saved, faults,
                    read, offered, mishaps, kept, seedSaved, found>>

\* Mutant: no look at the newest snapshot.
EmitUngated(e) ==
  /\ job[e].pc = "saving"
  /\ job[e].todo = {}
  /\ job' = [job EXCEPT ![e].pc = "marking"]
  /\ announced' = IF job[e].seed \/ Len(snaps) < 2 THEN announced
                  ELSE announced \cup job[e].fresh
  /\ Hush(e)
  /\ UNCHANGED <<live, cleaner, row, snaps, fetch, saved, faults,
                 read, offered, mishaps, kept, seedSaved, found>>

(* emit_new_paper_events: no event from a seed run, below two snapshots,    *)
(* or for a title in the newest snapshot, read now.                        *)
Emit(e) ==
  LET hasBaseline == Len(snaps) >= 2
      gated == {p \in job[e].fresh : p \in PapersOn[LastSnap]}
  IN /\ job[e].pc = "saving"
     /\ job[e].todo = {}
     /\ job' = [job EXCEPT ![e].pc = "marking"]
     /\ announced' = IF job[e].seed \/ ~hasBaseline THEN announced
                     ELSE announced \cup (job[e].fresh \ gated)
     /\ Hush(e)
     /\ UNCHANGED <<live, cleaner, row, snaps, fetch, saved, faults,
                    read, offered, mishaps, kept, seedSaved, found>>

(* mark_extracted with the hash read at the start.                         *)
Mark(e) ==
  /\ job[e].pc = "marking"
  /\ row' = [row EXCEPT !.marked = job[e].hash]
  /\ job' = [job EXCEPT ![e] = JobIdle]
  /\ UNCHANGED <<live, cleaner, snaps, fetch, saved, announced, faults,
                 read, offered, mishaps, kept, seedSaved, finds>>

\* Mutant: the URL is marked in a finally block, failed runs included.
JobDiesMarked(e) ==
  /\ job[e].pc \notin {"idle", "picked"}
  /\ Fault
  /\ row' = [row EXCEPT !.marked = job[e].hash]
  /\ job' = [job EXCEPT ![e] = JobIdle]
  /\ UNCHANGED <<live, cleaner, snaps, fetch, saved, announced, history>>

(* The run ends unmarked: the LLM call failed, an exception reached the     *)
(* worker loop, or the process died.                                       *)
JobDies(e) ==
  /\ job[e].pc # "idle"
  /\ Fault
  /\ job' = [job EXCEPT ![e] = JobIdle]
  /\ hushed' = hushed \cup (Held(e) \ (saved \ job[e].fresh))
  /\ UNCHANGED <<live, cleaner, row, snaps, fetch, saved, announced,
                 read, offered, mishaps, kept, seedSaved, found>>

-------------------------------------------------------------------------------
Fetcher == FetchChanged \/ FetchTouch \/ FetchArchive \/ FetchUpsert

Extract(e) ==
  \/ Pick(e)
  \/ ReadPayload(e)
  \/ ReadBaseline(e)
  \/ \E pubs \in SUBSET Papers : Answer(e, pubs)
  \/ \E p \in Papers : SavePaper(e, p)
  \/ Emit(e)
  \/ Mark(e)

Faulty ==
  \/ FetchArchiveFails
  \/ FetchDies
  \/ \E e \in Extractors : JobDies(e) \/ \E p \in Papers : SaveFails(e, p)

Next ==
  \/ \E g \in Pages : PageChanges(g)
  \/ Deploy
  \/ Fetcher
  \/ \E e \in Extractors : Extract(e)
  \/ Faulty

Spec == Init /\ [][Next]_vars

(* The scrape runs on an interval and the worker polls in a loop, so each   *)
(* takes the steps it can; faults are bounded, the site is not.            *)
FairSpec == /\ Spec
            /\ WF_vars(Fetcher)
            /\ \A e \in Extractors : WF_vars(Extract(e))

-------------------------------------------------------------------------------
(* Properties.                                                             *)

Steps == {"idle", "picked", "read", "asked", "saving", "marking"}
Job == [pc : Steps, hash : Hash \cup {NoHash}, seed : BOOLEAN,
        base : Pages \cup {NoPage}, todo : SUBSET Papers, fresh : SUBSET Papers]

\* Disorders: a version stored over one that is not marked, a baseline read
\* between archive and upsert, a fetch that dies there, a failed archive.
Mishaps == {"unread", "overlap", "torn", "unarchived"}

\* Type correctness.
TypeOK ==
  /\ live \in Pages
  /\ cleaner \in 0..MaxCleaner
  /\ row \in [hash : Hash \cup {NoHash}, body : Bodies, marked : Hash \cup {NoHash}]
  /\ snaps \in Seq(Hash)
  /\ fetch \in [pc : {"idle", "archive", "upsert"}, page : Pages \cup {NoPage}]
  /\ job \in [Extractors -> Job]
  /\ saved \subseteq Papers /\ announced \subseteq Papers
  /\ faults \in 0..MaxFaults
  /\ read \subseteq Hash /\ kept \subseteq Hash
  /\ offered \subseteq Papers /\ seedSaved \subseteq Papers
  /\ found \subseteq Papers /\ hushed \subseteq Papers
  /\ mishaps \subseteq Mishaps

\* A page is marked extracted only with a hash whose payload some run has
\* read, whatever fetch lands while the run is under way: a version nobody
\* read keeps the URL in the queue (mark_extracted, extraction.py's docstring).
MarkedWasRead == row.marked # NoHash => row.marked \in read

\* Every version the row has held with its raw HTML is still there: it is the
\* current one or it was archived before it was overwritten, through crashes
\* and reverts of the page, as long as no archive_snapshot failed.
HistoryKept ==
  "unarchived" \notin mishaps => \A h \in kept : h = row.hash \/ Archived(h)

\* The page's current version is marked extracted only when every paper it
\* lists was among those some answered LLM call was asked to report.
NothingMissed ==
  row.hash # NoHash /\ Marked => PapersOn[row.hash.page] \subseteq offered

\* The diff path is complete when no version is stored over an unread one and
\* no fetch dies, or overlaps a baseline read, between archive and upsert.
OrderlyMissesNothing == mishaps \subseteq {"unarchived"} => NothingMissed

\* A paper that a seed run of this page put in the database is never announced
\* as new by the page's other runs, whichever finds it later or overlaps it.
SeedIsSilent == seedSaved \cap announced = {}

\* The feed has every paper that an answer named and nothing a seed run found: a
\* paper is missing only while a run still holds it, or when its save failed, its
\* run died, the page had no two archived versions, a fetch archived one between
\* the question to the LLM and the events, or the version that the question
\* compared with already lists it (the model names what did not change).
NewsIsTold ==
  /\ SeedIsSilent
  /\ found \subseteq seedSaved \cup announced \cup hushed \cup UNION {Held(e) : e \in Extractors}

\* A paper that every archived version lists is not news: it is never
\* announced, whatever earlier answers of the LLM left out.
LastingPaperIsNotNews ==
  \A p \in announced : \E i \in 1..Len(snaps) : p \notin PapersOn[snaps[i].page]

\* The hash columns implement the queue of ExtractionQueue: every version a
\* fetch stores stays pending until a run acknowledges it, whatever else runs.
Queue == INSTANCE ExtractionQueue
  WITH Versions <- Hash, None <- NoHash,
       stored <- row.hash, looked <- read, acked <- row.marked

ImplementsQueue == Queue!Spec

\* Once the site and the code settle, the stored page becomes the live one and
\* stays marked extracted: changed pages do not stay in the queue for ever.
QueueDrains ==
  \A g \in Pages :
    <>[](live = g) => <>[](row.hash # NoHash /\ row.hash.page = g /\ Marked)
===============================================================================
