------------------------------- MODULE PaperFeed --------------------------------
(***************************************************************************)
(* One paper that several pages list, and what the feed says of it:        *)
(* save_publications, emit_new_paper_events, append_paper_snapshot and     *)
(* emit_status_change, as extraction.py calls them.                        *)
(*                                                                         *)
(* The steps of a run are transactions of their own, so the runs of two    *)
(* extractors (worker and CLI) interleave between them.  Papers do not     *)
(* interact here, so one is enough, and a run carries what its page says   *)
(* of that paper: a status.  Whether the page's own history lets a title   *)
(* count as news is PageExtraction's subject and is a free choice here.    *)
(*                                                                         *)
(* A status is its rank in STATUS_ORDER.  The venue, abstract, year and    *)
(* draft URL of a snapshot are left out: two readings with the same status *)
(* and other metadata leave the status as it is, like two equal ones.      *)
(***************************************************************************)
EXTENDS Integers, Sequences

CONSTANTS
  Urls,        \* the coauthors' pages
  Extractors,  \* threads and processes that run extract_one_url
  Readings,    \* statuses the LLM may read off a page
  Dates,       \* when a page may have been fetched
  MaxRuns,     \* bound: extraction runs that reach this paper
  MaxFaults,   \* bound: runs that end early and papers that fail to save
  NoUrl

(* STATUS_ORDER, and NULL below it.                                        *)
NoStatus         == -1
WorkInProgress   == 0
WorkingPaper     == 1
RejectResubmit   == 2
ReviseResubmit   == 3
Accepted         == 4
Published        == 5
Status == NoStatus..Published

ASSUME FeedAssumption ==
  /\ Readings \subseteq Status
  /\ Dates \subseteq Nat
  /\ MaxRuns \in Nat /\ MaxFaults \in Nat
  /\ NoUrl \notin Urls

VARIABLES
  listed,    \* paper_urls of the paper; it has a row once it is listed
  status,    \* papers.status
  raw,       \* the status in its newest paper_snapshots row
  news,      \* its new_paper events: the new_status of each
  changes,   \* its status_change events by id: <<old_status, new_status>>
  dates,     \* their created_at, which is the date of the run's fetch
  gone,      \* ids of those that a boot has deleted
  extracted, \* URLs that were marked extracted
  job,       \* extract_one_url in progress, per extractor
  runs, faults

\* Kept for the properties only: no action reads them.
VARIABLES
  first,     \* the status the paper was discovered with
  raced,     \* an announcement began while another one was under way
  climbed,   \* the interesting climbs that the status has made
  quiet      \* those not for the feed: they came with a seed run, an old paper or
             \* a new title, or the run that was to tell them died

ascent == <<climbed, quiet>>
dating == <<dates, gone>>
vars == <<listed, status, raw, news, changes, dating, extracted, job, runs, faults, first, raced,
          ascent>>

NoClimb == <<NoStatus, NoStatus>>
JobIdle == [pc |-> "idle", url |-> NoUrl, seed |-> FALSE, reading |-> NoStatus,
            isNew |-> FALSE, newHere |-> FALSE, seen |-> FALSE, climb |-> NoClimb]

(* _INTERESTING_TRANSITIONS                                                *)
Interesting ==
  {WorkInProgress, WorkingPaper} \X {ReviseResubmit, Accepted, Published}
    \cup {ReviseResubmit} \X {Accepted, Published}

(* _is_status_progression                                                  *)
Progression(old, new) == old # NoStatus /\ new # NoStatus /\ new > old

(* The status a snapshot leaves on the paper: regressions are blocked.     *)
Effective(old, new) == IF Progression(old, new) \/ old = NoStatus THEN new ELSE old

(* What the properties keep of a snapshot's status: the climb, if it is one, *)
(* and whether the feed is not to hear of it.                                *)
Climb(reading, told) ==
  LET climbs == {<<status, reading>>} \cap Interesting
  IN /\ climbed' = climbed \cup climbs
     /\ quiet' = IF told THEN quiet ELSE quiet \cup climbs

Fault == faults < MaxFaults /\ faults' = faults + 1
At(e, pc) == job[e].pc = pc

(* A run after its events: its SaveResult is not used again.               *)
Announced(e) == [job[e] EXCEPT !.pc = "append", !.isNew = FALSE, !.newHere = FALSE,
                               !.seen = FALSE]

(* Runs that hold a SaveResult and have not written their events yet.      *)
Announcing(e) == job[e].pc \in {"saved", "emitting"}

-------------------------------------------------------------------------------
(* The paper is not known yet; some pages were extracted before they        *)
(* listed it.                                                              *)
Init ==
  /\ listed = {}
  /\ status = NoStatus
  /\ raw = NoStatus
  /\ news = <<>> /\ changes = <<>> /\ dates = <<>> /\ gone = {}
  /\ extracted \in SUBSET Urls
  /\ job = [e \in Extractors |-> JobIdle]
  /\ runs = 0 /\ faults = 0
  /\ first = NoStatus /\ raced = FALSE
  /\ climbed = {} /\ quiet = {}

-------------------------------------------------------------------------------
(* What an LLM answer may say of the paper: it is listed (by a full         *)
(* extraction, or as a new_paper change), its status changed, or its title *)
(* did.  Changes need a baseline, so a page that was extracted before;     *)
(* is_seed is that it was not.                                             *)
Start(e, u, pc, reading) ==
  /\ At(e, "idle")
  /\ runs < MaxRuns
  /\ pc # "listing" => u \in extracted
  /\ runs' = runs + 1
  /\ job' = [job EXCEPT ![e] = [JobIdle EXCEPT !.pc = pc, !.url = u,
                                  !.reading = reading, !.seed = u \notin extracted]]
  /\ UNCHANGED <<listed, status, raw, news, changes, dating, extracted, faults, first, raced,
                 ascent>>

(* save_publications: one transaction for the paper and its paper_urls row. *)
(* A known paper keeps its status.                                         *)
Save(e) ==
  LET isNew == listed = {}
  IN /\ At(e, "listing")
     /\ listed' = listed \cup {job[e].url}
     /\ status' = IF isNew THEN job[e].reading ELSE status
     /\ first' = IF isNew THEN job[e].reading ELSE first
     /\ job' = [job EXCEPT ![e].pc = "saved", ![e].isNew = isNew,
                           ![e].newHere = job[e].url \notin listed]
     /\ UNCHANGED <<raw, news, changes, dating, extracted, runs, faults, raced, ascent>>

(* Its error is rolled back and swallowed; the run goes on without a result.*)
SaveFails(e) ==
  /\ At(e, "listing")
  /\ Fault
  /\ job' = [job EXCEPT ![e].pc = "append"]
  /\ UNCHANGED <<listed, status, raw, news, changes, dating, extracted, runs, first, raced,
                 ascent>>

\* Mutant: no look at the status.
OpenAnyStatus(e) ==
  /\ At(e, "saved")
  /\ ~job[e].seed
  /\ job[e].isNew \/ job[e].newHere
  /\ job' = [job EXCEPT ![e].pc = "emitting", ![e].seen = (news # <<>>)]
  /\ raced' = (raced \/ \E f \in Extractors \ {e} : Announcing(f))
  /\ UNCHANGED <<listed, status, raw, news, changes, dating, extracted, runs, faults, first,
                 ascent>>

(* emit_new_paper_events opens its transaction: its first SELECT fixes what *)
(* every later one sees, the count of new_paper events among them.         *)
OpenEmit(e) ==
  /\ At(e, "saved")
  /\ ~job[e].seed
  /\ job[e].reading \notin {NoStatus, Published}
  /\ job[e].isNew \/ job[e].newHere
  /\ job' = [job EXCEPT ![e].pc = "emitting", ![e].seen = (news # <<>>)]
  /\ raced' = (raced \/ \E f \in Extractors \ {e} : Announcing(f))
  /\ UNCHANGED <<listed, status, raw, news, changes, dating, extracted, runs, faults, first,
                 ascent>>

(* No event: a seed run, a status that is no news, a paper the page had, no *)
(* baseline, or a title in the previous snapshot.                          *)
SkipEmit(e) ==
  /\ At(e, "saved")
  /\ job' = [job EXCEPT ![e] = Announced(e)]
  /\ UNCHANGED <<listed, status, raw, news, changes, dating, extracted, runs, faults, first,
                 raced, ascent>>

\* Mutant: no count of the events that exist.
EmitUncounted(e) ==
  /\ At(e, "emitting")
  /\ news' = Append(news, job[e].reading)
  /\ job' = [job EXCEPT ![e] = Announced(e)]
  /\ UNCHANGED <<listed, status, raw, changes, dating, extracted, runs, faults, first, raced,
                 ascent>>

(* The insert, and the commit of the transaction.                          *)
Emit(e) ==
  /\ At(e, "emitting")
  /\ news' = IF job[e].isNew \/ ~job[e].seen THEN Append(news, job[e].reading) ELSE news
  /\ job' = [job EXCEPT ![e] = Announced(e)]
  /\ UNCHANGED <<listed, status, raw, changes, dating, extracted, runs, faults, first, raced,
                 ascent>>

(* append_paper_snapshot, one transaction under the paper's row lock.  The  *)
(* run tells the climb if it is interesting and the paper is not old.      *)
Snapshot(e, stale) ==
  LET reading == job[e].reading
      told == ~job[e].seed /\ Progression(status, reading)
                /\ <<status, reading>> \in Interesting /\ ~stale
  IN /\ At(e, "append")
     /\ listed # {}
     /\ raw # reading
     /\ raw' = reading
     /\ status' = Effective(status, reading)
     /\ job' = [job EXCEPT ![e].pc = IF told THEN "telling" ELSE "marking",
                           ![e].climb = IF told THEN <<status, reading>> ELSE NoClimb]
     /\ Climb(reading, told)
     /\ UNCHANGED <<listed, news, changes, dating, extracted, runs, faults, first, raced>>

(* The newest snapshot says the same, or no paper has the title.            *)
NoSnapshot(e) ==
  /\ job[e].pc \in {"append", "rename"}
  /\ listed = {} \/ raw = job[e].reading
  /\ job' = [job EXCEPT ![e].pc = "marking"]
  /\ UNCHANGED <<listed, status, raw, news, changes, dating, extracted, runs, faults, first,
                 raced, ascent>>

(* apply_title_rename appends a snapshot in its own transaction and drops   *)
(* what it says of the status: a climb that comes with a new title is not  *)
(* told.                                                                   *)
Rename(e) ==
  /\ At(e, "rename")
  /\ listed # {}
  /\ raw # job[e].reading
  /\ raw' = job[e].reading
  /\ status' = Effective(status, job[e].reading)
  /\ job' = [job EXCEPT ![e].pc = "marking"]
  /\ Climb(job[e].reading, FALSE)
  /\ UNCHANGED <<listed, news, changes, dating, extracted, runs, faults, first, raced>>

\* Mutant: the old status is read again when the event is written.
TellReread(e, date) ==
  /\ At(e, "telling")
  /\ changes' = Append(changes, <<status, job[e].climb[2]>>)
  /\ dates' = Append(dates, date)
  /\ job' = [job EXCEPT ![e].pc = "marking"]
  /\ UNCHANGED <<listed, status, raw, news, gone, extracted, runs, faults, first, raced,
                 ascent>>

\* Mutant: a climb is told only while the status is where it led to.
TellCurrent(e, date) ==
  /\ At(e, "telling")
  /\ changes' = IF status = job[e].climb[2] THEN Append(changes, job[e].climb) ELSE changes
  /\ dates' = IF status = job[e].climb[2] THEN Append(dates, date) ELSE dates
  /\ job' = [job EXCEPT ![e].pc = "marking"]
  /\ UNCHANGED <<listed, status, raw, news, gone, extracted, runs, faults, first, raced,
                 ascent>>

(* emit_status_change, a transaction of its own.  The event has the date of  *)
(* the fetch that the run extracted, which may be long before.             *)
Tell(e, date) ==
  /\ At(e, "telling")
  /\ changes' = Append(changes, job[e].climb)
  /\ dates' = Append(dates, date)
  /\ job' = [job EXCEPT ![e].pc = "marking"]
  /\ UNCHANGED <<listed, status, raw, news, gone, extracted, runs, faults, first, raced,
                 ascent>>

(* mark_extracted                                                          *)
Mark(e) ==
  /\ At(e, "marking")
  /\ extracted' = extracted \cup {job[e].url}
  /\ job' = [job EXCEPT ![e] = JobIdle]
  /\ UNCHANGED <<listed, status, raw, news, changes, dating, runs, faults, first, raced,
                 ascent>>

(* An exception or a crash ends the run: what it committed stays, what it   *)
(* was about to announce is gone.                                          *)
Dies(e) ==
  /\ ~At(e, "idle")
  /\ Fault
  /\ job' = [job EXCEPT ![e] = JobIdle]
  /\ quiet' = quiet \cup (IF At(e, "telling") THEN {job[e].climb} ELSE {})
  /\ UNCHANGED <<listed, status, raw, news, changes, dating, extracted, runs, first, raced,
                 climbed>>

(* The events that are still in the table, and its order for a reader.      *)
Present == (1..Len(changes)) \ gone
Before(j, i) == dates[j] < dates[i] \/ (dates[j] = dates[i] /\ j < i)

(* Event j is before i in the feed and led at least as high.                *)
Overtakes(j, i) == Before(j, i) /\ changes[j][2] >= changes[i][2]

(* create_tables, on the boot of any process: it deletes the events that do  *)
(* not advance in feed order.  Its deletion of regressions finds none.     *)
BootCleans ==
  /\ gone' = gone \cup {i \in Present : \E j \in Present : Overtakes(j, i)}
  /\ UNCHANGED <<listed, status, raw, news, changes, dates, extracted, job, runs, faults,
                 first, raced, ascent>>

-------------------------------------------------------------------------------
Run(e) ==
  \/ \E u \in Urls, pc \in {"listing", "append", "rename"}, r \in Readings : Start(e, u, pc, r)
  \/ Save(e) \/ SaveFails(e)
  \/ OpenEmit(e) \/ SkipEmit(e) \/ Emit(e)
  \/ \E stale \in BOOLEAN : Snapshot(e, stale)
  \/ NoSnapshot(e) \/ Rename(e)
  \/ \E date \in Dates : Tell(e, date)
  \/ Mark(e) \/ Dies(e)

Next == (\E e \in Extractors : Run(e)) \/ BootCleans

Spec == Init /\ [][Next]_vars

-------------------------------------------------------------------------------
(* Properties.                                                             *)

Steps == {"idle", "listing", "saved", "emitting", "append", "rename", "telling", "marking"}
Job == [pc : Steps, url : Urls \cup {NoUrl}, seed : BOOLEAN, reading : Status,
        isNew : BOOLEAN, newHere : BOOLEAN, seen : BOOLEAN, climb : Status \X Status]

\* Type correctness, and what an event may say: a new paper has a known status
\* short of published, a status change is an interesting transition.
TypeOK ==
  /\ listed \subseteq Urls
  /\ status \in Status /\ raw \in Status /\ first \in Status
  /\ news \in Seq(WorkInProgress..Accepted)
  /\ changes \in Seq(Interesting)
  /\ dates \in Seq(Dates) /\ Len(dates) = Len(changes)
  /\ gone \subseteq 1..Len(changes)
  /\ extracted \subseteq Urls
  /\ job \in [Extractors -> Job]
  /\ runs \in 0..MaxRuns /\ faults \in 0..MaxFaults
  /\ raced \in BOOLEAN
  /\ climbed \subseteq Interesting /\ quiet \subseteq Interesting

\* Two climbs of the status that share no part of the way.
Apart(c, d) == c[2] <= d[1] \/ d[2] <= c[1]

\* The status_change events of a paper are disjoint climbs of its one status,
\* in whatever order two runs insert them: pages that disagree, retries and
\* concurrent runs never tell a climb twice (append_paper_snapshot's baseline
\* is the effective status, read under the row lock).
ClimbsToldOnce ==
  /\ \A i \in 1..Len(changes) : changes[i][2] <= status
  /\ \A i, j \in 1..Len(changes) : i # j => Apart(changes[i], changes[j])

\* The feed tells the whole ascent and nothing else: the climbs that the status made
\* are those it has told, those a run is about to tell, and those that came with a
\* seed run, an old paper or a new title or whose run died first; no climb is told
\* twice, and none of the last kind is ever told.  A told climb stays in the feed
\* unless a boot deleted it for an event that its page's date puts before it and
\* that led as high; such an event, or one before it, is always still there.
Owed == {job[e].climb : e \in {f \in Extractors : At(f, "telling")}}
Told == {changes[i] : i \in 1..Len(changes)}

AscentTold ==
  /\ climbed = Told \cup Owed \cup quiet
  /\ ClimbsToldOnce
  /\ quiet \cap (Told \cup Owed) = {}
  /\ \A i \in gone : \E j \in Present : Overtakes(j, i)

\* The status never regresses, whatever pages say and whichever run is last.
StatusClimbs == [][status' >= status]_vars

\* The status handling implements StatusLedger: an event that a run inserts stands
\* for one climb that a run made and had not told before, whatever boots delete.
Ledger == INSTANCE StatusLedger
  WITH Levels <- Status, level <- status, told <- changes,
       owed <- Owed

ImplementsLedger == Ledger!Spec

\* A paper is announced as new at most once, from whichever pages and in
\* whichever order it is found, unless an announcement begins while another
\* run of the same paper is between its save and its event.
NewsOnceUnlessRaced == raced \/ Len(news) <= 1
===============================================================================
