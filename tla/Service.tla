------------------------------- MODULE Service -------------------------------
(***************************************************************************)
(* A process boots, serves and, when it gets the scheduler's lease, runs   *)
(* the review jobs, while others boot and clean the feed whose events the  *)
(* jobs review.                                                            *)
(***************************************************************************)
EXTENDS Integers, Sequences, FiniteSets

CONSTANTS
  Procs, Nobody, Events, Spurious, MaxAttempts, MaxFaults,  \* see Migrations
  Batches, TooLarge, Limit                                  \* see ReviewBatch

ASSUME ServiceAssumption ==
  /\ Nobody \notin Procs /\ Events \subseteq Nat /\ Spurious \cup TooLarge \subseteq Events
  /\ Batches \subseteq Nat \ {0}
  /\ MaxAttempts \in Nat \ {0} /\ {MaxFaults, Limit} \subseteq Nat

VARIABLES
  schema, guards, guarded, cascade, orphans, events,
  holder, pc, failed, attempt, faults,
  reviewed, batches, jobs, submitting, checking,
  leader,        \* the process with the scheduler, or Nobody
  asked          \* processes that have asked for the lease since they booted

boot == <<schema, guards, guarded, cascade, orphans, holder, pc, failed, attempt>>
review == <<reviewed, batches, jobs, submitting, checking>>
vars == <<boot, events, review, faults, leader, asked>>

M == INSTANCE Migrations
R == INSTANCE ReviewBatch WITH failures <- faults

TypeOK ==
  /\ M!TypeOK /\ R!TypeOK
  /\ leader # Nobody => pc[leader] = "up" /\ leader \in asked
  /\ leader = Nobody => ~checking.on /\ submitting = 0

Init == M!Init /\ R!Init /\ leader = Nobody /\ asked = {}

\* start_scheduler asks for the lease once: a process whose question fails goes
\* without the scheduler until it boots again.
StartScheduler(p) ==
  /\ pc[p] = "up" /\ p \notin asked
  /\ asked' = asked \cup {p}
  /\ \/ leader' = (IF leader = Nobody THEN p ELSE leader) /\ UNCHANGED faults
     \/ faults < MaxFaults /\ faults' = faults + 1 /\ UNCHANGED leader
  /\ UNCHANGED <<boot, events, review>>

\* Mutant: the lease stays with a process that ended.
CrashWithLease(p) ==
  /\ M!Crash(p)
  /\ asked' = asked \ {p}
  /\ IF leader = p THEN R!Die ELSE UNCHANGED review
  /\ UNCHANGED leader

\* The lease goes with the process.
Crash(p) ==
  /\ M!Crash(p)
  /\ asked' = asked \ {p}
  /\ IF leader = p THEN leader' = Nobody /\ R!Die ELSE UNCHANGED <<review, leader>>

\* A review goes with its event.
Boot(p) ==
  /\ M!Advance(p) \/ M!AttemptFails(p) \/ M!SessionDies(p)
  /\ reviewed' = reviewed \cap events'
  /\ UNCHANGED <<batches, jobs, submitting, checking, leader, asked>>

Serve ==
  /\ M!DeleteReferred
  /\ UNCHANGED <<review, leader, asked>>

Check == leader # Nobody /\ R!Check /\ UNCHANGED <<boot, leader, asked>>

Submit == leader # Nobody /\ (R!Submit \/ R!RecordJob \/ R!CheckDies) /\ UNCHANGED <<boot, leader, asked>>

Elsewhere ==
  /\ \/ \E b \in Batches : R!EndBatch(b)
     \/ \E e \in Events : R!ReviewNow(e)
  /\ UNCHANGED <<boot, leader, asked>>

Next ==
  \/ \E p \in Procs : Boot(p) \/ StartScheduler(p) \/ Crash(p)
  \/ Serve \/ Check \/ Submit \/ Elsewhere

Spec == Init /\ [][Next]_vars

\* The supervisor restarts a process that ended, and the scheduler checks the
\* batches every three hours.
FairSpec ==
  /\ Spec /\ WF_vars(Check)
  /\ \A p \in Procs : WF_vars(M!Advance(p) /\ Boot(p)) /\ WF_vars(StartScheduler(p))

---------------------------------------------------------------------------
(* Properties. *)

GuardHolds == M!GuardHolds

\* A job is done only when every finding of its batch is saved or its event is
\* gone, wherever a check was broken off, a process ended or a boot deleted events
\* between the download and the last finding.
DoneIsSaved ==
  \A b \in Batches :
    jobs[b] \in {"completed", "failed"} => batches[b].good \cap events \subseteq reviewed

\* Every process has asked for the lease, and none got it.
Unled == leader = Nobody /\ \A p \in Procs : pc[p] = "up" /\ p \in asked

\* What a batch on record found is saved in the end, through boots that clean the
\* feed, checks that die and crashes, unless the event is gone, an answer of the
\* batch or of one before it raises at every check, or no process got the lease.
FindingsArrive ==
  \A b \in Batches, e \in Events :
    R!Answered(b, e) ~>
      \/ e \in reviewed \/ e \notin events
      \/ \E c \in Batches : c <= b /\ R!Spoiled(c)
      \/ Unled
=============================================================================
