---------------------------- MODULE SiteMining ----------------------------
(***************************************************************************)
(* The website miner and the search for websites: where the URLs that are  *)
(* scraped come from.                                                      *)
(*                                                                         *)
(* A miner's run holds an advisory lock on one connection that commits     *)
(* each statement.  It reads stored pages and directories, queues the      *)
(* links it finds, checkpoints each source after its links, and verifies   *)
(* the queue's due candidates.  Searches put what they find up for review. *)
(* A URL stands for its url_key, and a site for the scope of one owner on  *)
(* it; the text of pages and names is reduced to what the code decides     *)
(* from it.                                                                *)
(***************************************************************************)
EXTENDS Naturals, FiniteSets, Sequences

CONSTANTS
  Miners,         \* scheduler job, mining worker, CLI
  Researchers, Urls, Sites,
  SiteOf,         \* SiteOf[u]: the site that a URL is a page of
  Candidates,     \* candidate keys
  OwnerOf,        \* OwnerOf[c]: the researcher a candidate names, or Nobody
  UrlOf,          \* UrlOf[c]: the URL it proposes
  Profiles,       \* candidates of kind directory_profile
  ChildrenOf,     \* ChildrenOf[c]: what a profile's page links to
  Sources,        \* stored pages, of URLs that stay active
  LinksOn,        \* LinksOn[s][v]: the candidates on version v of a source
  Directory,      \* the candidates a directory lists
  Eligible,       \* researchers with a coauthor who has top publications
  Finds,          \* Finds[r]: the homepage that a search finds, then its subpages
  Nobody, NoSource,
  MaxChanges,     \* bound on changes of stored pages
  MaxAudits,      \* bound on what people do to the tables
  MaxFaults       \* bound on crashes, cut connections, dead URLs, exhausted budgets

ASSUME MiningAssumption ==
  /\ OwnerOf \in [Candidates -> Researchers \cup {Nobody}] /\ Nobody \notin Researchers
  /\ UrlOf \in [Candidates -> Urls] /\ SiteOf \in [Urls -> Sites]
  /\ Profiles \subseteq Candidates /\ Directory \subseteq Candidates
  /\ ChildrenOf \in [Candidates -> SUBSET Candidates]
  /\ LinksOn \in [Sources -> [{1, 2} -> SUBSET Candidates]] /\ NoSource \notin Sources
  /\ Eligible \subseteq Researchers /\ Finds \in [Researchers -> Seq(Urls)]
  /\ {MaxChanges, MaxAudits, MaxFaults} \subseteq Nat

VARIABLES
  urls,       \* researcher_urls: <<owner, URL>>
  dead,       \* the rows that are not is_active
  version,    \* version[s]: the stored raw_html of a source
  source,     \* source[s]: the version its checkpoint names, 0 for none
  dirDue,     \* the directory's next_check_at has passed
  cand,       \* cand[c]: status of a candidate ("absent" without a row)
  due,        \* candidates whose next_attempt_at has passed
  attempts,   \* attempts[c]
  saved,      \* saved[c]: the pages in its column urls
  behind,     \* profiles whose directory_generation is not that of the last visit
  held,       \* candidates with an identity_hold
  disc,       \* disc[r]: status of the url_discoveries row of r
  searching,  \* the researchers that a search batch has yet to look for
  holder,     \* the miner with the advisory lock
  running,    \* miners whose row says "running"
  miner,      \* miner[m]: its locals
  admin,      \* the approval under way: the researcher, and the next page to add
  changes, audits, faults,
  seenLinks   \* history: candidates that a source's checkpointed version had to queue

queue == <<cand, due, attempts, saved, behind, held>>
table == <<urls, dead>>
crawl == <<table, disc, searching, admin>>
bounds == <<changes, audits, faults>>
vars == <<crawl, version, source, dirDue, queue, holder, running, miner, bounds, seenLinks>>

Open == {"pending", "retry"}
Statuses == Open \cup {"absent", "review", "approved", "rejected"}
Idle == [pc |-> "idle", known |-> {}, todo |-> {}, src |-> NoSource, body |-> 0,
         links |-> {}, batch |-> {}, cand |-> {}]
NoAdmin == [of |-> Nobody, next |-> 1]

TypeOK ==
  /\ urls \subseteq Researchers \X Urls /\ dead \subseteq urls
  /\ version \in [Sources -> {1, 2}]
  /\ source \in [Sources -> 0..2]
  /\ dirDue \in BOOLEAN
  /\ cand \in [Candidates -> Statuses]
  /\ due \subseteq Candidates
  /\ attempts \in [Candidates -> 0..3]
  /\ saved \in [Candidates -> SUBSET Urls]
  /\ behind \subseteq Profiles
  /\ held \subseteq {c \in Candidates : cand[c] \in {"review", "rejected"}}
  /\ disc \in [Researchers -> {"absent", "pending", "no_result", "approved", "rejected"}]
  /\ searching \subseteq Researchers
  /\ holder \in Miners \cup {Nobody}
  /\ running \subseteq Miners
  /\ miner \in [Miners -> [pc : {"idle", "start", "read", "cached", "links", "directory",
                                 "due", "verify", "decide", "finish", "close", "lost"},
                           known : SUBSET Urls, todo : SUBSET Sources,
                           src : Sources \cup {NoSource}, body : 0..2,
                           links : SUBSET Candidates, batch : SUBSET Candidates,
                           cand : SUBSET Candidates]]
  /\ admin \in [of : Researchers \cup {Nobody}, next : Nat \ {0}]
  /\ changes \in 0..MaxChanges /\ audits \in 0..MaxAudits /\ faults \in 0..MaxFaults
  /\ seenLinks \subseteq Candidates

Init ==
  /\ urls = {} /\ dead = {}
  /\ version = [s \in Sources |-> 1] /\ source = [s \in Sources |-> 0]
  /\ dirDue = TRUE
  /\ cand = [c \in Candidates |-> "absent"]
  /\ due = {} /\ held = {}
  /\ attempts = [c \in Candidates |-> 0] /\ saved = [c \in Candidates |-> {}] /\ behind = {}
  /\ disc = [r \in Researchers |-> "absent"] /\ searching = {}
  /\ holder = Nobody
  /\ running = {}
  /\ miner = [m \in Miners |-> Idle]
  /\ admin = NoAdmin
  /\ changes = 0 /\ audits = 0 /\ faults = 0
  /\ seenLinks = {}

At(m, pc) == miner[m].pc = pc
Goto(m, pc) == miner' = [miner EXCEPT ![m].pc = pc]

---------------------------------------------------------------------------
(* A running, from its lock to its sources. *)

\* GET_LOCK with no wait; a miner that does not get it skips its run.
Enter(m) ==
  /\ At(m, "idle") /\ holder = Nobody
  /\ holder' = m
  /\ Goto(m, "start")
  /\ UNCHANGED <<crawl, version, source, dirDue, queue, running, bounds, seenLinks>>

\* The holder of the lock takes every unfinished run for dead.
StartRun(m) ==
  /\ At(m, "start")
  /\ running' = {m}
  /\ Goto(m, "read")
  /\ UNCHANGED <<crawl, version, source, dirDue, queue, holder, bounds, seenLinks>>

\* The researchers, the URLs that are known, active or not, and the sources
\* whose hash is not the checkpoint's.
ReadTables(m) ==
  /\ At(m, "read")
  /\ miner' = [miner EXCEPT ![m] = [Idle EXCEPT !.pc = "cached",
                                     !.known = {u[2] : u \in urls},
                                     !.todo = {s \in Sources : source[s] # version[s]}]]
  /\ UNCHANGED <<crawl, version, source, dirDue, queue, holder, running, bounds, seenLinks>>

\* One body at a time, with the hash of that body.
ReadSource(m) ==
  /\ At(m, "cached")
  /\ \E s \in miner[m].todo :
       miner' = [miner EXCEPT ![m].pc = "links", ![m].todo = @ \ {s}, ![m].src = s,
                              ![m].body = version[s], ![m].links = LinksOn[s][version[s]]]
  /\ UNCHANGED <<crawl, version, source, dirDue, queue, holder, running, bounds, seenLinks>>

\* The candidate may be queued: its URL is not known, unless it is a profile.
\* Other pages of a known site are.
Wanted(m, c) == UrlOf[c] \notin miner[m].known \/ c \in Profiles

\* Mutant: a hold does not keep a profile from being opened again.
RefreshesHeld(m, c) ==
  /\ c \in Profiles /\ cand[c] \in {"review", "approved"}
  /\ miner[m].src = NoSource /\ c \in behind

\* A profile that was decided is opened again when its directory was revisited.
Refreshes(m, c) ==
  /\ c \in Profiles /\ cand[c] \in {"review", "approved"} /\ c \notin held
  /\ miner[m].src = NoSource /\ c \in behind

Enqueue(m, c) ==
  IF Wanted(m, c) /\ (cand[c] = "absent" \/ Refreshes(m, c))
  THEN /\ cand' = [cand EXCEPT ![c] = "pending"]
       /\ attempts' = [attempts EXCEPT ![c] = 0]
       /\ saved' = [saved EXCEPT ![c] = {}]
       /\ due' = due \cup {c}
       /\ behind' = behind \ {c}
       /\ UNCHANGED held
  ELSE UNCHANGED queue

EnqueueLink(m) ==
  /\ At(m, "links")
  /\ \E c \in miner[m].links :
       /\ Enqueue(m, c)
       /\ miner' = [miner EXCEPT ![m].links = @ \ {c}]
  /\ UNCHANGED <<crawl, version, source, dirDue, holder, running, bounds, seenLinks>>

\* Mutant: the checkpoint takes the hash of what is stored by now.
CheckpointStored(m) ==
  /\ At(m, "links") /\ miner[m].links = {}
  /\ IF miner[m].src = NoSource
     THEN /\ dirDue' = FALSE
          /\ UNCHANGED <<source, seenLinks>>
          /\ Goto(m, "due")
     ELSE /\ source' = [source EXCEPT ![miner[m].src] = version[miner[m].src]]
          /\ seenLinks' = seenLinks \cup {c \in LinksOn[miner[m].src][miner[m].body] : Wanted(m, c)}
          /\ miner' = [miner EXCEPT ![m].pc = "cached", ![m].src = NoSource]
          /\ UNCHANGED dirDue
  /\ UNCHANGED <<crawl, version, queue, holder, running, bounds>>

\* After the links: the hash of the body they were read from.
Checkpoint(m) ==
  /\ At(m, "links") /\ miner[m].links = {}
  /\ IF miner[m].src = NoSource
     THEN /\ dirDue' = FALSE
          /\ UNCHANGED <<source, seenLinks>>
          /\ Goto(m, "due")
     ELSE /\ source' = [source EXCEPT ![miner[m].src] = miner[m].body]
          /\ seenLinks' = seenLinks \cup {c \in LinksOn[miner[m].src][miner[m].body] : Wanted(m, c)}
          /\ miner' = [miner EXCEPT ![m].pc = "cached", ![m].src = NoSource]
          /\ UNCHANGED dirDue
  /\ UNCHANGED <<crawl, version, queue, holder, running, bounds>>

\* The run's time is up before its stored pages are.
OutOfTime(m) ==
  /\ At(m, "cached") /\ miner[m].todo # {} /\ faults < MaxFaults
  /\ miner' = [miner EXCEPT ![m].todo = {}]
  /\ faults' = faults + 1
  /\ UNCHANGED <<crawl, version, source, dirDue, queue, holder, running, changes, audits, seenLinks>>

\* After the stored pages, a directory that is due is fetched; what cannot be
\* fetched or lists nobody is checkpointed with an error and tried next day, and
\* an exhausted budget ends the run.
SkipDirectory(m) ==
  /\ At(m, "cached") /\ miner[m].todo = {} /\ ~dirDue
  /\ Goto(m, "due")
  /\ UNCHANGED <<crawl, version, source, dirDue, queue, holder, running, bounds, seenLinks>>

VisitDirectory(m) ==
  /\ At(m, "cached") /\ miner[m].todo = {} /\ dirDue
  /\ \/ /\ miner' = [miner EXCEPT ![m].pc = "links", ![m].links = Directory]
        /\ behind' = {c \in Profiles : cand[c] # "absent"}
        /\ UNCHANGED <<dirDue, bounds>>
     \/ /\ faults < MaxFaults /\ faults' = faults + 1
        /\ \/ dirDue' = FALSE /\ Goto(m, "due")
           \/ UNCHANGED dirDue /\ Goto(m, "finish")
        /\ UNCHANGED <<behind, changes, audits>>
  /\ UNCHANGED <<crawl, version, source, cand, due, attempts, saved, held, holder, running, seenLinks>>

---------------------------------------------------------------------------
(* Verification of the due candidates. *)

ReadDue(m) ==
  /\ At(m, "due")
  /\ miner' = [miner EXCEPT ![m].pc = "verify", ![m].batch = {c \in due : cand[c] \in Open}]
  /\ UNCHANGED <<crawl, version, source, dirDue, queue, holder, running, bounds, seenLinks>>

\* Mutant: the UPDATE has no guard on the status.
SaveResultAnyhow(c, status, pages, counted) ==
  /\ cand' = [cand EXCEPT ![c] = status]
  /\ saved' = [saved EXCEPT ![c] = pages]
  /\ attempts' = [attempts EXCEPT ![c] = IF counted THEN @ + 1 ELSE @]
  /\ due' = due \ {c}
  /\ UNCHANGED <<behind, held>>

\* _save_result: a decision made since the batch was read stands.
SaveResult(c, status, pages, counted) ==
  IF cand[c] \in Open
  THEN /\ cand' = [cand EXCEPT ![c] = status]
       /\ saved' = [saved EXCEPT ![c] = pages]
       /\ attempts' = [attempts EXCEPT ![c] = IF counted THEN @ + 1 ELSE @]
       /\ due' = due \ {c}
       /\ UNCHANGED <<behind, held>>
  ELSE UNCHANGED queue

\* The third failure to reach a site hands it to a person.
RetryStatus(c) == IF attempts[c] >= 2 THEN "review" ELSE "retry"

\* The page of the candidate is fetched.
Fetched(m) ==
  /\ At(m, "verify")
  /\ \E c \in miner[m].batch :
       miner' = [miner EXCEPT ![m].pc = "decide", ![m].batch = @ \ {c}, ![m].cand = {c},
                              ![m].links = IF c \in Profiles THEN ChildrenOf[c] ELSE {}]
  /\ UNCHANGED <<crawl, version, source, dirDue, queue, holder, running, bounds, seenLinks>>

\* The websites that a profile links to are queued first.
EnqueueChild(m) ==
  /\ At(m, "decide")
  /\ \E c \in miner[m].links :
       /\ Enqueue(m, c)
       /\ miner' = [miner EXCEPT ![m].links = @ \ {c}]
  /\ UNCHANGED <<crawl, version, source, dirDue, holder, running, bounds, seenLinks>>

Deciding(m, c, added) ==
  /\ At(m, "decide") /\ miner[m].links = {} /\ miner[m].cand = {c}
  /\ miner' = [miner EXCEPT ![m].pc = "verify", ![m].cand = {}, ![m].known = @ \cup added]
  /\ UNCHANGED <<disc, searching, admin, version, source, dirDue, holder, running, seenLinks>>

\* Unavailable, or only part of the site could be read.
Unreachable(m, c) ==
  /\ Deciding(m, c, {})
  /\ faults < MaxFaults /\ faults' = faults + 1
  /\ SaveResult(c, RetryStatus(c), {}, TRUE)
  /\ UNCHANGED <<table, changes, audits>>

\* The page has the researcher's name at its head and a title of theirs.
Confirmed(c) == OwnerOf[c] # Nobody

\* The pages of one site that a visit verified, the homepage among them; after a
\* redirect the site need not be the candidate's.
Bundles == {b \in SUBSET Urls : b # {} /\ \A p, q \in b : SiteOf[p] = SiteOf[q]}

\* No or several researchers of that name, no titles that corroborate, a page
\* outside the scope, sections that could not be verified, too many of them.
Doubtful(m, c) ==
  /\ Deciding(m, c, {})
  /\ \E pages \in {{}} \cup {b \in Bundles : Confirmed(c)} : SaveResult(c, "review", pages, TRUE)
  /\ UNCHANGED <<table, bounds>>

\* What a rejected row proposed: its URL and the pages saved with it.
RejectedUrls ==
  UNION {{UrlOf[c]} \cup saved[c] : c \in {d \in Candidates : cand[d] = "rejected"}}
    \cup UNION {{Finds[r][i] : i \in DOMAIN Finds[r]} : r \in {q \in Researchers : disc[q] = "rejected"}}

\* A page of the bundle is another's or inactive, or its site has another owner
\* whose page is active.
Claimed(c, bundle) ==
  \E row \in urls :
    \/ row[2] \in bundle /\ (row[1] # OwnerOf[c] \/ row \in dead)
    \/ row \notin dead /\ row[1] # OwnerOf[c] /\ \E p \in bundle : SiteOf[p] = SiteOf[row[2]]

\* Mutant: holds are not looked at.
PreflightUnheld(c, bundle) ==
  cand[c] \in Open /\ bundle \cap RejectedUrls = {} /\ ~Claimed(c, bundle)

\* What stops approve_bundle: the row was decided, a rejected URL, a hold on the
\* researcher or on exactly a URL at hand, a claim of somebody else.
Preflight(c, bundle) ==
  /\ cand[c] \in Open
  /\ bundle \cap RejectedUrls = {}
  /\ \A d \in held : OwnerOf[d] # OwnerOf[c] /\ UrlOf[d] \notin bundle \cup {UrlOf[c]}
  /\ ~Claimed(c, bundle)

\* One transaction, which locks what the preflight reads.
ApproveBundle(m, c) ==
  /\ Confirmed(c)
  /\ \E bundle \in Bundles :
       IF Preflight(c, bundle)
       THEN /\ Deciding(m, c, bundle)
            /\ urls' = urls \cup {<<OwnerOf[c], p>> : p \in bundle}
            /\ SaveResult(c, "approved", bundle, TRUE)
       ELSE /\ Deciding(m, c, {})
            /\ SaveResult(c, "review", bundle, TRUE)
            /\ UNCHANGED urls
  /\ UNCHANGED <<dead, bounds>>

\* The run's requests or time are used up: the candidate is deferred without
\* counting an attempt, and the run ends.
BudgetExceeded(m, c) ==
  /\ At(m, "decide") /\ miner[m].cand = {c} /\ faults < MaxFaults
  /\ SaveResult(c, "retry", {}, FALSE)
  /\ faults' = faults + 1
  /\ Goto(m, "finish")
  /\ UNCHANGED <<crawl, version, source, dirDue, holder, running, changes, audits, seenLinks>>

BatchDone(m) ==
  /\ At(m, "verify") /\ miner[m].batch = {}
  /\ Goto(m, "finish")
  /\ UNCHANGED <<crawl, version, source, dirDue, queue, holder, running, bounds, seenLinks>>

FinishRun(m) ==
  /\ At(m, "finish")
  /\ running' = running \ {m}
  /\ Goto(m, "close")
  /\ UNCHANGED <<crawl, version, source, dirDue, queue, holder, bounds, seenLinks>>

Close(m) ==
  /\ At(m, "close")
  /\ holder' = Nobody
  /\ miner' = [miner EXCEPT ![m] = Idle]
  /\ UNCHANGED <<crawl, version, source, dirDue, queue, running, bounds, seenLinks>>

---------------------------------------------------------------------------
(* Failures of a run. *)

InRun(m) == miner[m].pc \notin {"idle", "close", "lost"}

\* An exception ends the run as failed; the queue keeps what was written.
Raise(m) ==
  /\ InRun(m) /\ ~At(m, "start") /\ faults < MaxFaults
  /\ running' = running \ {m}
  /\ Goto(m, "close")
  /\ faults' = faults + 1
  /\ UNCHANGED <<crawl, version, source, dirDue, queue, holder, changes, audits, seenLinks>>

\* The process dies, and MySQL frees the lock of its connection.
Crash(m) ==
  /\ ~At(m, "idle") /\ faults < MaxFaults
  /\ holder' = IF holder = m THEN Nobody ELSE holder
  /\ miner' = [miner EXCEPT ![m] = Idle]
  /\ faults' = faults + 1
  /\ UNCHANGED <<crawl, version, source, dirDue, queue, running, changes, audits, seenLinks>>

\* The connection dies while the miner waits for the network: the lock is free,
\* and the miner only learns it from its next statement, which raises.
Cut(m) ==
  /\ holder = m /\ InRun(m) /\ faults < MaxFaults
  /\ holder' = Nobody
  /\ Goto(m, "lost")
  /\ faults' = faults + 1
  /\ UNCHANGED <<crawl, version, source, dirDue, queue, running, changes, audits, seenLinks>>

GiveUp(m) ==
  /\ At(m, "lost")
  /\ miner' = [miner EXCEPT ![m] = Idle]
  /\ UNCHANGED <<crawl, version, source, dirDue, queue, holder, running, bounds, seenLinks>>

---------------------------------------------------------------------------
(* The search for websites, and the people who review. *)

\* run_discovery_batch picks eligible researchers without an active URL or a row.
StartSearch ==
  /\ searching = {}
  /\ searching' = {r \in Eligible : disc[r] = "absent" /\ ~\E u \in urls \ dead : u[1] = r}
  /\ searching' # {}
  /\ UNCHANGED <<table, disc, admin, version, source, dirDue, queue, holder, running, miner, bounds, seenLinks>>

\* The LLM picks one of the search's results, or none.
Verdict(r) == IF Finds[r] = <<>> THEN "no_result" ELSE "pending"

\* A result, or none, is a row; a failed search or classification leaves none,
\* so that a later batch tries again.
Search(r) ==
  /\ r \in searching
  /\ searching' = searching \ {r}
  /\ \/ disc' = [disc EXCEPT ![r] = Verdict(r)]
     \/ UNCHANGED disc
  /\ UNCHANGED <<table, admin, version, source, dirDue, queue, holder, running, miner, bounds, seenLinks>>

\* The quota of the search ends the batch.
SearchQuota ==
  /\ searching # {} /\ faults < MaxFaults
  /\ searching' = {}
  /\ faults' = faults + 1
  /\ UNCHANGED <<table, disc, admin, version, source, dirDue, queue, holder, running, miner, changes, audits, seenLinks>>

\* approve_discovery reads the row, whatever its status, if it has a URL.
StartApproval(r) ==
  /\ admin = NoAdmin /\ audits < MaxAudits
  /\ disc[r] # "absent" /\ Finds[r] # <<>>
  /\ admin' = [of |-> r, next |-> 1]
  /\ audits' = audits + 1
  /\ UNCHANGED <<table, disc, searching, version, source, dirDue, queue, holder, running, miner, changes, faults, seenLinks>>

\* INSERT IGNORE, one statement for each page, the homepage first: a row that is
\* there stays as it is, inactive if it is.
ApprovalAdds ==
  /\ admin # NoAdmin /\ admin.next \in DOMAIN Finds[admin.of]
  /\ urls' = urls \cup {<<admin.of, Finds[admin.of][admin.next]>>}
  /\ admin' = [admin EXCEPT !.next = @ + 1]
  /\ UNCHANGED <<dead, disc, searching, version, source, dirDue, queue, holder, running, miner, bounds, seenLinks>>

\* Mutant: the status is set before the pages are there.
EndApprovalFirst ==
  /\ admin # NoAdmin
  /\ disc' = [disc EXCEPT ![admin.of] = "approved"]
  /\ admin' = NoAdmin
  /\ UNCHANGED <<table, searching, version, source, dirDue, queue, holder, running, miner, bounds, seenLinks>>

EndApproval ==
  /\ admin # NoAdmin /\ admin.next \notin DOMAIN Finds[admin.of]
  /\ disc' = [disc EXCEPT ![admin.of] = "approved"]
  /\ admin' = NoAdmin
  /\ UNCHANGED <<table, searching, version, source, dirDue, queue, holder, running, miner, bounds, seenLinks>>

ApprovalDies ==
  /\ admin # NoAdmin /\ faults < MaxFaults
  /\ admin' = NoAdmin
  /\ faults' = faults + 1
  /\ UNCHANGED <<table, disc, searching, version, source, dirDue, queue, holder, running, miner, changes, audits, seenLinks>>

RejectDiscovery(r) ==
  /\ disc[r] # "absent" /\ audits < MaxAudits
  /\ disc' = [disc EXCEPT ![r] = "rejected"]
  /\ audits' = audits + 1
  /\ UNCHANGED <<table, searching, admin, version, source, dirDue, queue, holder, running, miner, changes, faults, seenLinks>>

\* An audit of identities, by hand: a candidate is held, for review or for good.
Audit(c) ==
  /\ cand[c] # "absent" /\ audits < MaxAudits
  /\ \E d \in {"review", "rejected"} : cand' = [cand EXCEPT ![c] = d]
  /\ held' = held \cup {c}
  /\ audits' = audits + 1
  /\ UNCHANGED <<crawl, version, source, dirDue, due, attempts, saved, behind, holder, running,
                 miner, changes, faults, seenLinks>>

\* Fetches that fail deactivate a URL; a person activates it again.
Deactivate(row) ==
  /\ row \in urls \ dead /\ faults < MaxFaults
  /\ dead' = dead \cup {row}
  /\ faults' = faults + 1
  /\ UNCHANGED <<urls, disc, searching, admin, version, source, dirDue, queue, holder, running, miner,
                 changes, audits, seenLinks>>

Reactivate(row) ==
  /\ row \in dead /\ audits < MaxAudits
  /\ dead' = dead \ {row}
  /\ audits' = audits + 1
  /\ UNCHANGED <<urls, disc, searching, admin, version, source, dirDue, queue, holder, running, miner,
                 changes, faults, seenLinks>>

---------------------------------------------------------------------------
(* Time and the web. *)

PageChanges(s) ==
  /\ changes < MaxChanges
  /\ version' = [version EXCEPT ![s] = 3 - @]
  /\ changes' = changes + 1
  /\ UNCHANGED <<crawl, source, dirDue, queue, holder, running, miner, audits, faults, seenLinks>>

\* next_attempt_at and next_check_at pass.
CandidateDue(c) ==
  /\ cand[c] \in Open /\ c \notin due
  /\ due' = due \cup {c}
  /\ UNCHANGED <<crawl, version, source, dirDue, cand, attempts, saved, behind, held, holder, running,
                 miner, bounds, seenLinks>>

DirectoryDue ==
  /\ ~dirDue
  /\ dirDue' = TRUE
  /\ UNCHANGED <<crawl, version, source, queue, holder, running, miner, bounds, seenLinks>>

Step(m) ==
  \/ Enter(m) \/ StartRun(m) \/ ReadTables(m) \/ ReadSource(m) \/ EnqueueLink(m)
  \/ Checkpoint(m) \/ SkipDirectory(m) \/ VisitDirectory(m) \/ ReadDue(m) \/ Fetched(m)
  \/ EnqueueChild(m) \/ BatchDone(m) \/ FinishRun(m) \/ Close(m) \/ GiveUp(m)
  \/ \E c \in Candidates : Unreachable(m, c) \/ Doubtful(m, c) \/ ApproveBundle(m, c)

Next ==
  \/ \E m \in Miners : Step(m) \/ Raise(m) \/ Crash(m) \/ Cut(m) \/ OutOfTime(m)
                         \/ \E c \in Candidates : BudgetExceeded(m, c)
  \/ \E r \in Researchers : Search(r) \/ StartApproval(r) \/ RejectDiscovery(r)
  \/ StartSearch \/ SearchQuota \/ ApprovalAdds \/ EndApproval \/ ApprovalDies
  \/ \E row \in urls : Deactivate(row) \/ Reactivate(row)
  \/ \E c \in Candidates : Audit(c) \/ CandidateDue(c)
  \/ \E s \in Sources : PageChanges(s)
  \/ DirectoryDue

Spec == Init /\ [][Next]_vars

---------------------------------------------------------------------------
(* Properties. *)

\* Links are never lost: what a checkpointed version of a source had to queue is
\* a row of the queue, whatever crash, error or change of the page came between
\* the reading of the source and its checkpoint.
LinksNeverLost ==
  /\ \A c \in seenLinks : cand[c] # "absent"
  /\ \A s \in Sources, c \in Candidates :
       source[s] # 0 /\ c \in LinksOn[s][source[s]] /\ cand[c] = "absent"
         => \E u \in urls : u[2] = UrlOf[c]

\* A hold is a hold: while an audit holds a candidate, no mining run adds a URL
\* for its researcher, nor the URL that is held for anybody, although the run read
\* its batch before.
HoldsHold ==
  [][\A u \in urls' \ urls :
       admin.of = Nobody =>
         \A c \in held : OwnerOf[c] # u[1] /\ UrlOf[c] # u[2]]_vars

\* A discovery marked approved is listed in full: every page it found is a URL of
\* its researcher, wherever the approval was interrupted and whoever decided on the
\* row meanwhile.
ApprovedIsListed ==
  \A r \in Researchers : disc[r] = "approved" =>
    \A i \in DOMAIN Finds[r] : <<r, Finds[r][i]>> \in urls

\* The queue of candidates is a work list.
List == INSTANCE WorkList WITH
          Items <- Candidates, Recurring <- Profiles,
          item <- [c \in Candidates |-> IF cand[c] \in Open THEN "open" ELSE cand[c]],
          held <- held
ImplementsWorkList == List!ListSpec
===========================================================================
