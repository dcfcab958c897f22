----------------------------- MODULE ReviewBatch -----------------------------
(***************************************************************************)
(* The quality review of feed events in batches: a job submits the newest  *)
(* events without a review, another polls the batches and saves the        *)
(* findings.  Both run in the process that has the scheduler.  The service *)
(* that works a batch off is external.                                     *)
(***************************************************************************)
EXTENDS Integers, FiniteSets

CONSTANTS
  Events, Batches,   \* numbered, from the oldest; the newest event has the highest number
  TooLarge,          \* events whose prompt is too long
  Limit,             \* events looked at per submission
  MaxFaults          \* bound on calls and statements that fail

VARIABLES
  events,        \* the feed events that exist
  reviewed,      \* those with a review
  batches,       \* the batches that the service has
  jobs,          \* jobs[b]: the status in review_batch_jobs, "none" without a row
  submitting,    \* the batch that was created and has no row yet, or 0
  checking,      \* the check that runs
  failures

\* good: the items with a finding; bad: with an answer that has no content, or is JSON
\* but no object.
NoBatch == [status |-> "none", items |-> {}, good |-> {}, bad |-> {}]
Answers(b) == batches[b].good \cup batches[b].bad

\* todo: the pending jobs that were read; batch: the one whose results are saved;
\* items: the results to save; known: the events as they were loaded.
NotChecking == [on |-> FALSE, todo |-> {}, batch |-> 0, items |-> {}, known |-> {}]

TypeOK ==
  /\ reviewed \subseteq events /\ events \subseteq Events
  /\ batches \in [Batches -> [status : {"none", "running", "completed", "failed"},
                              items : SUBSET Events, good : SUBSET Events, bad : SUBSET Events]]
  /\ jobs \in [Batches -> {"none", "submitted", "running", "completed", "failed"}]
  /\ submitting \in {0} \cup Batches
  /\ checking \in [on : BOOLEAN, todo : SUBSET Batches, batch : {0} \cup Batches,
                   items : SUBSET Events, known : SUBSET Events]
  /\ failures \in 0..MaxFaults

Init ==
  /\ reviewed = {} /\ batches = [b \in Batches |-> NoBatch] /\ jobs = [b \in Batches |-> "none"]
  /\ submitting = 0 /\ checking = NotChecking /\ failures = 0

Fails == failures < MaxFaults /\ failures' = failures + 1
Oldest(S) == CHOOSE x \in S : \A y \in S : x <= y

\* get_unreviewed_events: the newest, whether or not a batch has them already.
Unreviewed == LET rows == events \ reviewed
              IN {e \in rows : Cardinality({x \in rows : x > e}) < Limit}

\* submit_review_batch: the upload and the batch, then the row.
Submit ==
  LET lines == Unreviewed \ TooLarge
      free == {b \in Batches : batches[b] = NoBatch}
  IN /\ submitting = 0 /\ lines # {} /\ free # {}
     /\ batches' = [batches EXCEPT ![Oldest(free)] = [NoBatch EXCEPT !.status = "running", !.items = lines]]
     /\ submitting' = Oldest(free)
     /\ UNCHANGED <<events, reviewed, jobs, checking, failures>>

\* Without its row a batch is never asked for.
RecordJob ==
  /\ submitting # 0 /\ submitting' = 0
  /\ \/ jobs' = [jobs EXCEPT ![submitting] = "submitted"] /\ UNCHANGED failures
     \/ Fails /\ UNCHANGED jobs
  /\ UNCHANGED <<events, reviewed, batches, checking>>

\* The service ends a batch; some items have an answer that parses, or none at all,
\* and the others are skipped.
EndBatch(b) ==
  /\ batches[b].status = "running"
  /\ \/ \E good, bad \in SUBSET batches[b].items :
          /\ good \cap bad = {}
          /\ batches' = [batches EXCEPT ![b].status = "completed", ![b].good = good, ![b].bad = bad]
     \/ batches' = [batches EXCEPT ![b].status = "failed"]
  /\ UNCHANGED <<events, reviewed, jobs, submitting, checking, failures>>

Pending == {b \in Batches : jobs[b] \in {"submitted", "running"}}

StartCheck ==
  /\ ~checking.on /\ Pending # {}
  /\ checking' = [NotChecking EXCEPT !.on = TRUE, !.todo = Pending]
  /\ UNCHANGED <<events, reviewed, batches, jobs, submitting, failures>>

\* Mutant: the job is completed as soon as its results are loaded.
PollCompletes ==
  LET b == Oldest(checking.todo)
      status == batches[b].status
      next == [checking EXCEPT !.todo = @ \ {b}]
  IN /\ checking.on /\ checking.batch = 0 /\ checking.todo # {}
     /\ jobs' = [jobs EXCEPT ![b] = status]
     /\ checking' = IF status # "completed" THEN next
                    ELSE [next EXCEPT !.batch = b, !.items = Answers(b), !.known = events]
     /\ UNCHANGED <<events, reviewed, batches, submitting, failures>>

\* One pending job: its status is asked for, and a completed batch is loaded.
Poll ==
  LET b == Oldest(checking.todo)
      status == batches[b].status
      next == [checking EXCEPT !.todo = @ \ {b}]
  IN /\ checking.on /\ checking.batch = 0 /\ checking.todo # {}
     /\ \/ status # "completed" /\ jobs' = [jobs EXCEPT ![b] = status] /\ checking' = next /\ UNCHANGED failures
        \/ status = "completed" /\ Answers(b) = {} /\ jobs' = [jobs EXCEPT ![b] = "failed"]
             /\ checking' = next /\ UNCHANGED failures
        \/ /\ status = "completed"
           /\ checking' = [next EXCEPT !.batch = b, !.items = Answers(b), !.known = events]
           /\ UNCHANGED <<jobs, failures>>
        \/ Fails /\ checking' = next /\ UNCHANGED jobs
     /\ UNCHANGED <<events, reviewed, batches, submitting>>

\* What raises, and nothing catches: a bad answer, unless it is JSON and its event
\* was not loaded; a row for an event that was deleted since the events were loaded.
MayRaise(e) == e \in batches[checking.batch].bad \/ e \in checking.known \ events
MayPass(e) == e \notin checking.known \/ ~MayRaise(e)

\* A finding is saved, each in a transaction of its own; an event that was not
\* loaded is passed over.  One that raises ends the check: the jobs stay pending.
SaveFinding ==
  /\ checking.batch # 0
  /\ \E e \in checking.items :
       \/ MayRaise(e) /\ checking' = NotChecking /\ UNCHANGED reviewed
       \/ /\ MayPass(e)
          /\ checking' = [checking EXCEPT !.items = @ \ {e}]
          /\ reviewed' = reviewed \cup ({e} \cap checking.known)
  /\ UNCHANGED <<events, batches, jobs, submitting, failures>>

CompleteJob ==
  /\ checking.batch # 0 /\ checking.items = {}
  /\ jobs' = [jobs EXCEPT ![checking.batch] = "completed"]
  /\ checking' = [checking EXCEPT !.batch = 0, !.known = {}]
  /\ UNCHANGED <<events, reviewed, batches, submitting, failures>>

EndCheck ==
  /\ checking.on /\ checking.batch = 0 /\ checking.todo = {}
  /\ checking' = NotChecking
  /\ UNCHANGED <<events, reviewed, batches, jobs, submitting, failures>>

\* The download, or a statement, fails, and nothing catches it.
CheckDies ==
  /\ checking.on /\ Fails
  /\ checking' = NotChecking
  /\ UNCHANGED <<events, reviewed, batches, jobs, submitting>>

\* review_events, by hand and in another process.
ReviewNow(e) ==
  /\ e \in events \ (reviewed \cup TooLarge)
  /\ reviewed' = reviewed \cup {e}
  /\ UNCHANGED <<events, batches, jobs, submitting, checking, failures>>

\* The process ends: what it had in hand is gone.
Die ==
  /\ submitting' = 0 /\ checking' = NotChecking
  /\ UNCHANGED <<reviewed, batches, jobs>>

Check == StartCheck \/ Poll \/ SaveFinding \/ CompleteJob \/ EndCheck

---------------------------------------------------------------------------
(* Properties. *)

\* Every check of the batch breaks off.
Spoiled(b) == jobs[b] # "none" /\ batches[b].bad # {}

Answered(b, e) == jobs[b] # "none" /\ batches[b].status = "completed" /\ e \in batches[b].good
=============================================================================
