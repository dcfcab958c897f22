------------------------- MODULE ExtractionWorker -------------------------
(***************************************************************************)
(* The thread that extracts changed pages one at a time, the pages' health *)
(* as the fetcher records it, and the LLM call with its retries.           *)
(*                                                                         *)
(* Pages are numbered by their id, which is the order of the queue.  What  *)
(* an extraction does to papers is PageExtraction's subject; here it marks *)
(* the version it read, fails, or meets the provider's quota.              *)
(***************************************************************************)
EXTENDS Integers, FiniteSets

CONSTANTS
  NumUrls,                  \* rows of researcher_urls
  QueueLimit,               \* LIMIT of the queue query
  MaxUrlFailures,           \* _EXTRACTION_MAX_URL_FAILURES
  Cooldown,                 \* _EXTRACTION_URL_COOLDOWN_SECONDS, in ticks
  AttemptTicks,             \* the longest attempt, in ticks
  DeactivationThreshold,    \* _URL_DEACTIVATION_THRESHOLD
  MaxChanges,               \* bound on changes of pages
  MaxFaults                 \* bound on failed fetches and queries, quota answers and restarts

ASSUME WorkerAssumption ==
  /\ {NumUrls, QueueLimit, MaxUrlFailures, Cooldown} \subseteq Nat \ {0}
  /\ {AttemptTicks, DeactivationThreshold, MaxChanges, MaxFaults} \subseteq Nat

Urls == 1..NumUrls
Versions == 0..2            \* 0: nothing stored, or never extracted
Reasons == {"none", "response_too_large", "consecutive_failures"}

VARIABLES
  hash,       \* hash[u]: content_hash
  extracted,  \* extracted[u]: extracted_hash
  active,     \* active[u]: is_active
  fetchFails, \* fetchFails[u]: consecutive_failures
  reason,     \* reason[u]: deactivation_reason
  rows,       \* the rest of the worker's batch: pages, with their hash as queried
  job,        \* the row being extracted (url 0: none) and the version its payload read
  failures,   \* failures[u]: url_failures
  cooling,    \* the keys of retry_at
  left,       \* left[u]: ticks until retry_at[u]
  failedHash, \* failedHash[u]: failed_hashes
  changes, faults,
  strikes     \* history: failures of u on unchanged content since it last cooled down, worked or was forgotten

table == <<hash, extracted, active, fetchFails, reason>>
memory == <<rows, job, failures, cooling, left, failedHash>>
vars == <<table, memory, changes, faults, strikes>>

Row(u) == [url |-> u, hash |-> hash[u]]
NoJob == [url |-> 0, hash |-> 0, read |-> 0]

TypeOK ==
  /\ hash \in [Urls -> Versions]
  /\ extracted \in [Urls -> Versions]
  /\ active \in [Urls -> BOOLEAN]
  /\ fetchFails \in [Urls -> Nat]
  /\ reason \in [Urls -> Reasons]
  /\ rows \subseteq [url : Urls, hash : Versions]
  /\ job \in [url : 0..NumUrls, hash : Versions, read : Versions]
  /\ failures \in [Urls -> 0..MaxUrlFailures]
  /\ cooling \subseteq Urls
  /\ left \in [Urls -> 0..Cooldown]
  /\ failedHash \in [Urls -> Versions]
  /\ changes \in 0..MaxChanges
  /\ faults \in 0..MaxFaults
  /\ strikes \in [Urls -> Nat]

Zero == [u \in Urls |-> 0]

Init ==
  /\ hash = [u \in Urls |-> 1]
  /\ extracted = Zero
  /\ active = [u \in Urls |-> TRUE]
  /\ fetchFails = Zero
  /\ reason = [u \in Urls |-> "none"]
  /\ rows = {} /\ job = NoJob
  /\ failures = Zero /\ cooling = {} /\ left = Zero /\ failedHash = Zero
  /\ changes = 0 /\ faults = 0 /\ strikes = Zero

---------------------------------------------------------------------------
(* The fetcher and the administrator. *)

NeedsExtraction(u) == active[u] /\ hash[u] # 0 /\ extracted[u] # hash[u]

\* A fetch that worked and found other content; a page may go back to what it was.
PageChanges(u) ==
  /\ active[u] /\ changes < MaxChanges
  /\ \E v \in Versions \ {0, hash[u]} : hash' = [hash EXCEPT ![u] = v]
  /\ fetchFails' = [fetchFails EXCEPT ![u] = 0]
  /\ changes' = changes + 1
  /\ strikes' = [strikes EXCEPT ![u] = 0]
  /\ UNCHANGED <<extracted, active, reason, memory, faults>>

\* A fetch that worked and found the stored content.
PageSame(u) ==
  /\ active[u] /\ fetchFails[u] > 0
  /\ fetchFails' = [fetchFails EXCEPT ![u] = 0]
  /\ UNCHANGED <<hash, extracted, active, reason, memory, changes, faults, strikes>>

FetchTooLarge(u) ==
  /\ active[u] /\ faults < MaxFaults
  /\ active' = [active EXCEPT ![u] = FALSE]
  /\ reason' = [reason EXCEPT ![u] = "response_too_large"]
  /\ faults' = faults + 1
  /\ UNCHANGED <<hash, extracted, fetchFails, memory, changes, strikes>>

\* MySQL assigns the columns of an UPDATE from left to right, so the IFs after
\* consecutive_failures = consecutive_failures + 1 read the new count.
RecordFailure(u) ==
  LET count == fetchFails[u] + 1
      dead == count + 1 >= DeactivationThreshold
  IN /\ fetchFails' = [fetchFails EXCEPT ![u] = count]
     /\ active' = [active EXCEPT ![u] = ~dead /\ @]
     /\ reason' = [reason EXCEPT ![u] = IF dead THEN "consecutive_failures" ELSE @]

FetchFails(u) ==
  /\ active[u] /\ faults < MaxFaults
  /\ RecordFailure(u)
  /\ faults' = faults + 1
  /\ UNCHANGED <<hash, extracted, memory, changes, strikes>>

Reactivate(u) ==
  /\ ~active[u]
  /\ active' = [active EXCEPT ![u] = TRUE]
  /\ fetchFails' = [fetchFails EXCEPT ![u] = 0]
  /\ reason' = [reason EXCEPT ![u] = "none"]
  /\ UNCHANGED <<hash, extracted, memory, changes, faults, strikes>>

---------------------------------------------------------------------------
(* The worker. *)

Elapsed(u, d) == IF left[u] > d THEN left[u] - d ELSE 0
Elapse(d) == left' = [u \in Urls |-> Elapsed(u, d)]

\* Mutant: the count of failures outlives the cooldown.
ForgetCooldown(pages) ==
  /\ cooling' = cooling \ pages
  /\ failedHash' = [u \in Urls |-> IF u \in pages THEN 0 ELSE failedHash[u]]
  /\ UNCHANGED failures

\* The worker forgets all it knows of the failures of a page.
Forget(pages) ==
  /\ cooling' = cooling \ pages
  /\ failures' = [u \in Urls |-> IF u \in pages THEN 0 ELSE failures[u]]
  /\ failedHash' = [u \in Urls |-> IF u \in pages THEN 0 ELSE failedHash[u]]

Expired == {u \in cooling : left[u] = 0}

\* Mutant: the second query forgets to leave out the pages at rest.
QueueOfAll(excluded) ==
  LET due == {u \in Urls : NeedsExtraction(u)}
  IN {u \in due : Cardinality({w \in due : w < u}) < QueueLimit}

\* ORDER BY id LIMIT QueueLimit
Queue(excluded) ==
  LET due == {u \in Urls \ excluded : NeedsExtraction(u)}
  IN {u \in due : Cardinality({w \in due : w < u}) < QueueLimit}

\* What a poll finds changed while it cooled: it only sees the queue's first rows.
Changed == {u \in Queue({}) \cap cooling : hash[u] # failedHash[u]}

\* Mutant: without the second query.
PollOnce ==
  /\ rows = {} /\ job = NoJob
  /\ LET forgotten == Expired \cup Changed
         batch == Queue({}) \ (cooling \ forgotten)
     IN /\ Forget(forgotten)
        /\ rows' = {Row(u) : u \in batch}
        /\ \E d \in 0..Cooldown :
             /\ batch # {} <=> d = 0
             /\ left' = [u \in Urls |-> IF u \in forgotten THEN 0 ELSE Elapsed(u, d)]
  /\ strikes' = [u \in Urls |-> IF u \in Expired THEN 0 ELSE strikes[u]]
  /\ UNCHANGED <<table, job, changes, faults>>

\* One round of the outer loop.  A round that finds nothing sleeps.
Poll ==
  /\ rows = {} /\ job = NoJob
  /\ LET forgotten == Expired \cup Changed
         rest == cooling \ forgotten
         pending == Queue({}) \ rest
         batch == IF pending = {} THEN Queue(rest) ELSE pending
     IN /\ Forget(forgotten)
        /\ rows' = {Row(u) : u \in batch}
        /\ \E d \in 0..Cooldown :
             /\ batch # {} <=> d = 0
             /\ left' = [u \in Urls |-> IF u \in forgotten THEN 0 ELSE Elapsed(u, d)]
  /\ strikes' = [u \in Urls |-> IF u \in Expired THEN 0 ELSE strikes[u]]
  /\ UNCHANGED <<table, job, changes, faults>>

\* A queue query raises and the thread sleeps: the first one, or the second,
\* which is only asked when all of the first one's pages are at rest.
PollFails ==
  /\ rows = {} /\ job = NoJob /\ faults < MaxFaults
  /\ \/ Forget(Expired)
     \/ LET forgotten == Expired \cup Changed
        IN /\ Queue({}) \subseteq cooling \ forgotten
           /\ cooling \ forgotten # {}
           /\ Forget(forgotten)
  /\ strikes' = [u \in Urls |-> IF u \in Expired THEN 0 ELSE strikes[u]]
  /\ \E d \in 1..Cooldown : Elapse(d)
  /\ faults' = faults + 1
  /\ UNCHANGED <<table, rows, job, changes>>

\* extract_one_url(row) reads the payload, which may be newer than the row.
Start ==
  /\ job = NoJob
  /\ \E row \in rows :
       /\ \A other \in rows : row.url <= other.url
       /\ job' = [url |-> row.url, hash |-> row.hash, read |-> hash[row.url]]
       /\ rows' = rows \ {row}
  /\ UNCHANGED <<table, failures, cooling, left, failedHash, changes, faults, strikes>>

\* An answer that validates, perhaps after extract_json asked again.
Succeed ==
  /\ job # NoJob
  /\ extracted' = [extracted EXCEPT ![job.url] = job.read]
  /\ failures' = [failures EXCEPT ![job.url] = 0]
  /\ strikes' = [strikes EXCEPT ![job.url] = 0]
  /\ job' = NoJob
  /\ \E d \in 0..AttemptTicks : Elapse(d)
  /\ UNCHANGED <<hash, active, fetchFails, reason, rows, cooling, failedHash, changes, faults>>

\* The provider's quota says nothing about the page: the thread sleeps as long
\* as it was told and goes on with the next row.
QuotaLimited ==
  /\ job # NoJob /\ faults < MaxFaults
  /\ job' = NoJob
  /\ \E d \in 1..Cooldown : Elapse(d)
  /\ faults' = faults + 1
  /\ UNCHANGED <<table, rows, failures, cooling, failedHash, changes, strikes>>

\* An exception, no stored content, an API error, or answers that never validate.
Fail ==
  LET u == job.url
      count == failures[u] + 1
  IN /\ job # NoJob
     /\ failures' = [failures EXCEPT ![u] = count]
     /\ IF count >= MaxUrlFailures
        THEN /\ cooling' = cooling \cup {u}
             /\ failedHash' = [failedHash EXCEPT ![u] = job.hash]
             /\ \E d \in 0..AttemptTicks :
                  left' = [w \in Urls |-> IF w = u THEN Cooldown ELSE Elapsed(w, d)]
        ELSE /\ \E d \in 0..AttemptTicks : Elapse(d)
             /\ UNCHANGED <<cooling, failedHash>>
     /\ strikes' = [strikes EXCEPT ![u] = IF hash[u] = job.read THEN @ + 1 ELSE @]
     /\ job' = NoJob
     /\ UNCHANGED <<table, rows, changes, faults>>

\* The process restarts and the worker's dictionaries with it.
Restart ==
  /\ faults < MaxFaults
  /\ rows' = {} /\ job' = NoJob
  /\ failures' = Zero /\ cooling' = {} /\ left' = Zero /\ failedHash' = Zero
  /\ strikes' = Zero
  /\ faults' = faults + 1
  /\ UNCHANGED <<table, changes>>

Worker == Poll \/ Start \/ Succeed \/ Fail

Next ==
  \/ Worker
  \/ PollFails
  \/ QuotaLimited
  \/ Restart
  \/ \E u \in Urls : \/ PageChanges(u) \/ PageSame(u) \/ FetchTooLarge(u)
                     \/ FetchFails(u) \/ Reactivate(u)

Spec == Init /\ [][Next]_vars

\* start_extraction_worker runs the loop for the life of the process.
FairSpec == Spec /\ WF_vars(Worker)

---------------------------------------------------------------------------
(* Properties. *)

\* A page that poisons its extraction costs a bounded number of LLM calls: on
\* content that stays as it is, at most one failure more than MaxUrlFailures
\* before the worker rests.  The one more is a page that changed between the
\* queue query and its attempt: the cooldown keeps the hash of the row, so the
\* next poll takes the content that failed for new and lifts it.
PoisonBounded == \A u \in Urls : strikes[u] <= MaxUrlFailures + 1

\* The worker goes to sleep only when every page that waits is at rest: pages that
\* cool down at the head of the queue, as many as its limit, hide no page behind them.
SleepsOnlyWhenIdle ==
  [][Poll /\ rows' = {} => \A u \in Urls : NeedsExtraction(u) => u \in cooling']_vars

\* What waits for extraction is tried, or stops waiting: pages that fail for
\* ever must not hide the rest of a queue longer than its limit, nor pages at
\* rest be forgotten.
NoPageHidden ==
  \A u \in Urls : NeedsExtraction(u) ~> (job.url = u \/ ~NeedsExtraction(u))
===========================================================================
