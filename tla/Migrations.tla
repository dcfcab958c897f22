------------------------------ MODULE Migrations ------------------------------
(***************************************************************************)
(* The boot of a process that serves: create_tables, which brings the      *)
(* schema up to date one ALTER at a time under an advisory lock, and the   *)
(* readiness check.  DDL commits by itself: a step that a crash cuts off   *)
(* leaves what its statements did.  Service composes the steps.            *)
(***************************************************************************)
EXTENDS Integers, Sequences, FiniteSets

CONSTANTS
  Procs, Nobody,
  Events, Spurious,   \* feed events; those that a boot cleans up: regressions and flaps
  MaxAttempts,        \* 10, the boots that lifespan tries
  MaxFaults           \* bound on failed statements, lost connections and crashes

VARIABLES
  schema,        \* what the schema has of: "tables", "columns", "recorded_at", "metadata", "reviews"
  guards,        \* the triggers that guard the feed: "old", "new"
  guarded,       \* history: whether there has been a guard
  cascade,       \* the foreign key: "restrict", "cascade" or, dropped, "none"
  orphans,       \* whether a row refers to one that is gone
  events,        \* the feed events that exist
  holder,        \* the process whose session holds econ_migrations, or Nobody
  pc,            \* pc[proc]: "down", "tables", "lock", "release", "verify", "up" or a step
  failed,        \* processes whose attempt fails when the lock is released
  attempt,       \* attempt[proc]
  faults

database == <<schema, guards, guarded, cascade, orphans, events>>

\* Mutant: the old guard is dropped first.
StepsDropFirst == <<"columns", "recorded_at", "drop_key", "add_key", "seed", "old_guard", "new_guard",
                    "metadata", "feed", "reviews">>

\* The steps under the lock, those that only warn when they fail and those that
\* are mandatory, in the order of the code.  What "seed" marks is in the papers.
Steps == <<"columns", "recorded_at", "drop_key", "add_key", "seed", "new_guard", "old_guard",
           "metadata", "feed", "reviews">>
Mandatory == {"recorded_at", "seed", "new_guard", "old_guard", "metadata"}

StepSet == {Steps[i] : i \in DOMAIN Steps}
Parts == {"tables", "columns", "recorded_at", "metadata", "reviews"}

\* What comes after a step; a process that has the lock starts with the first.
After(step) ==
  IF step = "lock" THEN Steps[1]
  ELSE LET i == CHOOSE j \in DOMAIN Steps : Steps[j] = step
       IN IF i = Len(Steps) THEN "release" ELSE Steps[i + 1]

\* REQUIRED_SCHEMA_QUERY
Complete == {"tables", "recorded_at", "metadata"} \subseteq schema /\ "new" \in guards

TypeOK ==
  /\ schema \subseteq Parts /\ guards \subseteq {"old", "new"}
  /\ cascade \in {"restrict", "cascade", "none"}
  /\ {guarded, orphans} \subseteq BOOLEAN /\ events \subseteq Events
  /\ pc \in [Procs -> {"down", "tables", "lock", "release", "verify", "up"} \cup StepSet]
  /\ holder # Nobody => holder \in Procs /\ pc[holder] \in StepSet \cup {"release"}
  /\ failed \subseteq Procs /\ attempt \in [Procs -> 0..MaxAttempts] /\ faults \in 0..MaxFaults

\* An empty database, or one that an earlier version served.
Init ==
  /\ \/ schema = {} /\ guards = {} /\ cascade = "cascade" /\ events = {}
     \/ /\ schema = {"tables", "columns"} /\ guards = {"old"} /\ cascade = "restrict" /\ events = Events
  /\ guarded = (guards # {}) /\ orphans = FALSE
  /\ holder = Nobody /\ pc = [p \in Procs |-> "down"] /\ failed = {}
  /\ attempt = [p \in Procs |-> 0] /\ faults = 0

Fault == faults < MaxFaults /\ faults' = faults + 1

Goto(p, where) == pc' = [pc EXCEPT ![p] = where]

Boot(p) ==
  /\ pc[p] = "down" /\ Goto(p, "tables")
  /\ attempt' = [attempt EXCEPT ![p] = 1]
  /\ UNCHANGED <<database, holder, failed, faults>>

\* CREATE TABLE IF NOT EXISTS: a new database has the keys as they should be.
CreateTables(p) ==
  /\ pc[p] = "tables" /\ Goto(p, "lock")
  /\ schema' = schema \cup {"tables"}
  /\ UNCHANGED <<guards, guarded, cascade, orphans, events, holder, failed, attempt, faults>>

GetLock(p) ==
  /\ pc[p] = "lock" /\ holder = Nobody
  /\ holder' = p /\ Goto(p, After("lock"))
  /\ UNCHANGED <<database, failed, attempt, faults>>

\* What a step does to the database when its statements succeed; the columns, the
\* key and the feed go wrong only with a warning.
Migrate(p) ==
  LET step == pc[p] IN
  /\ step \in StepSet /\ holder = p
  /\ step = "recorded_at" => "columns" \in schema
  /\ step = "add_key" => cascade # "none" \/ ~orphans
  /\ schema' = schema \cup ({step} \cap Parts)
  /\ guards' = CASE step = "new_guard" -> guards \cup {"new"}
                 [] step = "old_guard" -> guards \ {"old"}
                 [] OTHER -> guards
  /\ guarded' = (guarded \/ guards' # {})
  /\ cascade' = CASE step = "drop_key" /\ cascade = "restrict" -> "none"
                  [] step = "add_key" -> "cascade"
                  [] OTHER -> cascade
  /\ events' = IF step = "feed" THEN events \ Spurious ELSE events
  /\ Goto(p, After(step))
  /\ UNCHANGED <<orphans, holder, failed, attempt, faults>>

\* A step that fails: its statement is refused, or the session that held the lock
\* is gone, and then every step after it fails, too.
StepFails(p) ==
  LET step == pc[p] IN
  /\ step \in StepSet
  /\ \/ holder # p /\ UNCHANGED faults
     \/ holder = p /\ step = "recorded_at" /\ "columns" \notin schema /\ UNCHANGED faults
     \/ holder = p /\ step = "add_key" /\ cascade = "none" /\ orphans /\ UNCHANGED faults
     \/ holder = p /\ Fault
  /\ IF step \in Mandatory THEN Goto(p, "release") /\ failed' = failed \cup {p}
     ELSE Goto(p, After(IF step = "drop_key" THEN "add_key" ELSE step)) /\ UNCHANGED failed
  /\ UNCHANGED <<database, holder, attempt>>

\* lifespan tries again, up to MaxAttempts times, and then the process ends.
Retry(p) ==
  IF attempt[p] < MaxAttempts
  THEN Goto(p, "tables") /\ attempt' = [attempt EXCEPT ![p] = @ + 1]
  ELSE Goto(p, "down") /\ attempt' = [attempt EXCEPT ![p] = 0]

\* An attempt fails outside the steps: GET_LOCK gives up after 300 seconds, or a
\* statement before or after it is refused.
AttemptFails(p) ==
  /\ \/ pc[p] \in {"tables", "verify"}
     \/ pc[p] = "lock" /\ holder # Nobody
  /\ Fault /\ Retry(p)
  /\ UNCHANGED <<database, holder, failed>>

\* The release fails when the session is gone.
Release(p) ==
  /\ pc[p] = "release"
  /\ holder' = IF holder = p THEN Nobody ELSE holder
  /\ failed' = failed \ {p}
  /\ IF p \in failed \/ holder # p THEN Retry(p) ELSE Goto(p, "verify") /\ UNCHANGED attempt
  /\ UNCHANGED <<database, faults>>

Verify(p) ==
  /\ pc[p] = "verify"
  /\ IF Complete THEN Goto(p, "up") /\ UNCHANGED attempt ELSE Retry(p)
  /\ UNCHANGED <<database, holder, failed, faults>>

\* The server closes the session that holds the lock, and frees it.
SessionDies(p) ==
  /\ holder = p /\ Fault
  /\ holder' = Nobody
  /\ UNCHANGED <<database, pc, failed, attempt>>

Crash(p) ==
  /\ pc[p] # "down" /\ Fault
  /\ holder' = IF holder = p THEN Nobody ELSE holder
  /\ failed' = failed \ {p}
  /\ Goto(p, "down") /\ attempt' = [attempt EXCEPT ![p] = 0]
  /\ UNCHANGED database

\* A process that serves deletes a row that others refer to.
DeleteReferred ==
  /\ \E p \in Procs : pc[p] = "up"
  /\ cascade = "none" /\ orphans' = TRUE
  /\ UNCHANGED <<schema, guards, guarded, cascade, events, holder, pc, failed, attempt, faults>>

Advance(p) ==
  \/ Boot(p) \/ CreateTables(p) \/ GetLock(p) \/ Migrate(p) \/ StepFails(p) \/ Release(p) \/ Verify(p)

---------------------------------------------------------------------------
(* Properties. *)

\* The guard of the feed never fails open, and a process serves only a complete
\* schema, whatever step another process, or a crash, broke off; and it serves with
\* the key as it should be unless something failed.
GuardHolds ==
  /\ guarded => guards # {}
  /\ (\E p \in Procs : pc[p] = "up") => Complete /\ (faults = 0 => cascade = "cascade")
=============================================================================
