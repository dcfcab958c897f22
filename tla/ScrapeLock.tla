------------------------------ MODULE ScrapeLock ------------------------------
(***************************************************************************)
(* The scrape advisory lock of backend/pipeline/scheduler.py: MySQL's        *)
(* GET_LOCK, held by a connection, the process globals that remember that    *)
(* connection, and the four kinds of thread that use them:                  *)
(*   - runs of run_scrape_job (the interval job and POST /api/scrape), and   *)
(*     the CLI's download_htmls and extract_only, which keep their           *)
(*     connection in a local variable;                                      *)
(*   - the keepalive loop, which replaces a dead connection;                *)
(*   - the hourly cleanup, which fails zombie scrape_log rows and            *)
(*     force-releases the lock of a run that is too old.                    *)
(* Keepalive and cleanup live in the one process that owns the scheduler;    *)
(* POST /api/scrape may reach any Gunicorn worker.                          *)
(*                                                                         *)
(* A connection no variable refers to is closed by the interpreter.         *)
(***************************************************************************)
EXTENDS Integers, Sequences, FiniteSets

CONSTANTS
  Procs, Owner,  \* processes; the one that holds the scheduler lease
  Threads,       \* threads that run scrapes, one run at a time each
  ProcOf,        \* [Threads -> Procs]
  Scheduled,     \* the interval job: APScheduler runs one instance of a job
  Cli,           \* threads of the command line tools
  Conns,         \* connections that can be open to MySQL for locking
  MaxUrls,       \* bound: researcher_urls
  MaxRuns,       \* bound: rows of scrape_log
  MaxFaults,     \* bound: cut connections, crashes, failed statements
  NoConn

ASSUME LockAssumption ==
  /\ Owner \in Procs
  /\ ProcOf \in [Threads -> Procs]
  /\ Scheduled \in Threads \ Cli /\ ProcOf[Scheduled] = Owner
  /\ Cli \subseteq Threads
  /\ NoConn \notin Conns
  /\ MaxUrls \in Nat /\ MaxRuns \in Nat /\ MaxFaults \in Nat

VARIABLES
  holder,     \* the connection whose session holds the lock
  session,    \* per connection: closed, up, or cut (the server still has it)
  lockConn,   \* per process: _lock_conn
  lost,       \* per process: _scrape_lock_lost
  run,        \* per thread: the run in progress
  rows,       \* scrape_log: status, and age since started_at
  keeper,     \* _lock_keepalive_loop of Owner
  cleaner,    \* _cleanup_stale_scrape_logs of Owner
  faults

\* Kept for the properties only.
VARIABLES disorder   \* "cut", "forced" and "unchecked", once they have happened

vars == <<holder, session, lockConn, lost, run, rows, keeper, cleaner, faults, disorder>>

Optional == Conns \cup {NoConn}
RunIdle == [pc |-> "idle", conn |-> NoConn, log |-> 0, left |-> 0, drop |-> NoConn]
KeeperIdle == [pc |-> "idle", old |-> NoConn, new |-> NoConn]
CleanerIdle == [pc |-> "idle", row |-> 0, held |-> FALSE, seen |-> 0]

Working == {"log", "loop", "fetch", "drafts", "closing", "failing"}
At(t, pc) == run[t].pc = pc
Running(i) == rows[i].status = "running"
RunningRows == {i \in 1..Len(rows) : Running(i)}
Overdue(t) == run[t].log # 0 /\ rows[run[t].log].age = "overdue"

Referenced(c) ==
  \/ \E w \in Procs : lockConn[w] = c
  \/ \E t \in Threads : c \in {run[t].conn, run[t].drop}
  \/ c \in {keeper.old, keeper.new}

Fault == faults < MaxFaults /\ faults' = faults + 1

-------------------------------------------------------------------------------
Init ==
  /\ holder = NoConn
  /\ session = [c \in Conns |-> "closed"]
  /\ lockConn = [w \in Procs |-> NoConn]
  /\ lost = [w \in Procs |-> FALSE]
  /\ run = [t \in Threads |-> RunIdle]
  /\ rows = <<>>
  /\ keeper = KeeperIdle
  /\ cleaner = CleanerIdle
  /\ faults = 0
  /\ disorder = {}

-------------------------------------------------------------------------------
(* The server.                                                             *)

\* GET_LOCK(name, 0) on a connection opened for it, kept only if it succeeds.
Locks(c) ==
  /\ holder = NoConn
  /\ session[c] = "closed" /\ ~Referenced(c)
  /\ holder' = c
  /\ session' = [session EXCEPT ![c] = "up"]

\* RELEASE_LOCK and close; on a broken connection both fail and are logged.
Releases(c) ==
  /\ holder' = IF c # NoConn /\ session[c] = "up" /\ holder = c THEN NoConn ELSE holder
  /\ session' = IF c # NoConn /\ session[c] = "up" THEN [session EXCEPT ![c] = "closed"]
                ELSE session

\* The network drops a connection.
Cut(c) ==
  /\ session[c] = "up"
  /\ Fault
  /\ session' = [session EXCEPT ![c] = "cut"]
  /\ disorder' = disorder \cup {"cut"}
  /\ UNCHANGED <<holder, lockConn, lost, run, rows, keeper, cleaner>>

\* The server notices, ends the session, and frees the lock.
ServerDrops(c) ==
  /\ session[c] = "cut"
  /\ session' = [session EXCEPT ![c] = "closed"]
  /\ holder' = IF holder = c THEN NoConn ELSE holder
  /\ UNCHANGED <<lockConn, lost, run, rows, keeper, cleaner, faults, disorder>>

\* The interpreter closes a connection nobody refers to.
Collect(c) ==
  /\ session[c] = "up" /\ ~Referenced(c)
  /\ Releases(c)
  /\ UNCHANGED <<lockConn, lost, run, rows, keeper, cleaner, faults, disorder>>

\* started_at recedes: five minutes, then _MAX_SCRAPE_DURATION_HOURS.  An older
\* row is at least as old, and a statement of the cleanup follows its check
\* within the five minutes of grace.
Age(i) ==
  /\ Running(i) /\ rows[i].age # "overdue"
  /\ LET next == IF rows[i].age = "young" THEN "grown" ELSE "overdue" IN
     /\ \A j \in 1..(i - 1) : Running(j) => rows[j].age \in {next, "overdue"}
     /\ rows' = [rows EXCEPT ![i].age = next]
  /\ cleaner.pc = "sweep" => i <= cleaner.seen
  /\ UNCHANGED <<holder, session, lockConn, lost, run, keeper, cleaner, faults, disorder>>

-------------------------------------------------------------------------------
(* A run: run_scrape_job, or a CLI command.                                 *)

Pending == {t \in Threads : run[t].pc \in {"start", "locked", "log"} /\ run[t].log = 0}
MayStart == Len(rows) + Cardinality(Pending) < MaxRuns

Goto(t, pc) == run' = [run EXCEPT ![t].pc = pc]

\* The interval elapses, a command is typed, or a request finds
\* is_scrape_running false.
Trigger(t) ==
  /\ At(t, "idle") /\ MayStart
  /\ t = Scheduled \/ t \in Cli \/ holder = NoConn
  /\ Goto(t, "start")
  /\ UNCHANGED <<holder, session, lockConn, lost, rows, keeper, cleaner, faults, disorder>>

\* Mutant: any answer of GET_LOCK is taken for success.
AcquireUnchecked(t) ==
  /\ At(t, "start")
  /\ \E c \in Conns :
       /\ session[c] = "closed" /\ ~Referenced(c)
       /\ session' = [session EXCEPT ![c] = "up"]
       /\ holder' = IF holder = NoConn THEN c ELSE holder
       /\ run' = [run EXCEPT ![t].pc = IF t \in Cli THEN "log" ELSE "locked", ![t].conn = c]
  /\ UNCHANGED <<lockConn, lost, rows, keeper, cleaner, faults, disorder>>

Acquire(t) ==
  /\ At(t, "start")
  /\ \E c \in Conns :
       /\ Locks(c)
       /\ run' = [run EXCEPT ![t].pc = IF t \in Cli THEN "log" ELSE "locked", ![t].conn = c]
  /\ UNCHANGED <<lockConn, lost, rows, keeper, cleaner, faults, disorder>>

\* "Scrape already in progress, skipping"
Skip(t) ==
  /\ At(t, "start")
  /\ holder # NoConn
  /\ run' = [run EXCEPT ![t] = RunIdle]
  /\ UNCHANGED <<holder, session, lockConn, lost, rows, keeper, cleaner, faults, disorder>>

\* _lock_conn = lock_conn, under the guard.
Publish(t) ==
  /\ At(t, "locked")
  /\ lockConn' = [lockConn EXCEPT ![ProcOf[t]] = run[t].conn]
  /\ lost' = [lost EXCEPT ![ProcOf[t]] = FALSE]
  /\ Goto(t, "log")
  /\ UNCHANGED <<holder, session, rows, keeper, cleaner, faults, disorder>>

CreateLog(t) ==
  /\ At(t, "log")
  /\ rows' = Append(rows, [status |-> "running", age |-> "young"])
  /\ \E n \in 0..MaxUrls :
       run' = [run EXCEPT ![t].pc = "loop", ![t].log = Len(rows) + 1, ![t].left = n]
  /\ UNCHANGED <<holder, session, lockConn, lost, keeper, cleaner, faults, disorder>>

\* _ensure_scrape_lock_held looks at the process's connection; the CLI has no
\* such check.
Ensured(t) == t \in Cli \/ lockConn[ProcOf[t]] # NoConn

\* Mutant: one URL too many.
NextUrlPastEnd(t) ==
  /\ At(t, "loop")
  /\ run[t].left >= 0
  /\ Ensured(t)
  /\ Goto(t, "fetch")
  /\ UNCHANGED <<holder, session, lockConn, lost, rows, keeper, cleaner, faults, disorder>>

NextUrl(t) ==
  /\ At(t, "loop")
  /\ run[t].left > 0
  /\ Ensured(t)
  /\ t \notin Cli => ~Overdue(t)
  /\ Goto(t, "fetch")
  /\ UNCHANGED <<holder, session, lockConn, lost, rows, keeper, cleaner, faults, disorder>>

\* fetch_and_save_if_changed returns, or raises and is logged.
Fetched(t) ==
  /\ At(t, "fetch")
  /\ run' = [run EXCEPT ![t].pc = "loop", ![t].left = @ - 1]
  /\ UNCHANGED <<holder, session, lockConn, lost, rows, keeper, cleaner, faults, disorder>>

\* The last URL or the deadline, then the second check of the lock.
EndLoop(t) ==
  /\ At(t, "loop")
  /\ run[t].left = 0 \/ (t \notin Cli /\ Overdue(t))
  /\ Ensured(t)
  /\ Goto(t, IF t \in Cli THEN "closing" ELSE "drafts")
  /\ UNCHANGED <<holder, session, lockConn, lost, rows, keeper, cleaner, faults, disorder>>

\* "Scrape advisory lock was lost"
Lost(t) ==
  /\ At(t, "loop")
  /\ ~Ensured(t)
  /\ Goto(t, "failing")
  /\ UNCHANGED <<holder, session, lockConn, lost, rows, keeper, cleaner, faults, disorder>>

\* _validate_draft_urls
Drafts(t) ==
  /\ At(t, "drafts")
  /\ Goto(t, "closing")
  /\ UNCHANGED <<holder, session, lockConn, lost, rows, keeper, cleaner, faults, disorder>>

Close(t, status) ==
  /\ rows' = [rows EXCEPT ![run[t].log].status = status]
  /\ Goto(t, "drop")
  /\ UNCHANGED <<holder, session, lockConn, lost, keeper, cleaner, faults, disorder>>

\* update_scrape_log, whatever the row's status is by now.
Complete(t) == At(t, "closing") /\ Close(t, "completed")
Fail(t) == At(t, "failing") /\ Close(t, "failed")

\* A statement of the try block raises; without a row there is none to fail.
\* The except block's own update may raise too, and leaves the row running.
RunRaises(t) ==
  /\ run[t].pc \in {"log", "loop", "drafts", "closing", "failing"}
  /\ ~(t \in Cli /\ At(t, "log"))
  /\ Fault
  /\ Goto(t, IF At(t, "failing") \/ run[t].log = 0 THEN "drop" ELSE "failing")
  /\ UNCHANGED <<holder, session, lockConn, lost, rows, keeper, cleaner, disorder>>

\* The finally block: the process's connection, or else the run's own unless
\* the keepalive gave the lock up.
Drop(t) ==
  /\ At(t, "drop")
  /\ LET w == ProcOf[t]
         mine == IF t \in Cli THEN run[t].conn
                 ELSE IF lockConn[w] # NoConn THEN lockConn[w]
                 ELSE IF lost[w] THEN NoConn ELSE run[t].conn
     IN /\ run' = [run EXCEPT ![t].pc = "release", ![t].drop = mine]
        /\ lockConn' = IF t \in Cli THEN lockConn ELSE [lockConn EXCEPT ![w] = NoConn]
        /\ lost' = IF t \in Cli THEN lost ELSE [lost EXCEPT ![w] = FALSE]
  /\ UNCHANGED <<holder, session, rows, keeper, cleaner, faults, disorder>>

Release(t) ==
  /\ At(t, "release")
  /\ Releases(run[t].drop)
  /\ run' = [run EXCEPT ![t] = RunIdle]
  /\ UNCHANGED <<lockConn, lost, rows, keeper, cleaner, faults, disorder>>

-------------------------------------------------------------------------------
(* The keepalive thread.                                                   *)

Keeping == UNCHANGED <<holder, session, lockConn, lost, run, rows, cleaner, faults, disorder>>

\* The process's connection is read under the guard, and pinged outside it.
ReadConn ==
  /\ keeper.pc = "idle" /\ lockConn[Owner] # NoConn
  /\ keeper' = [KeeperIdle EXCEPT !.pc = "ping", !.old = lockConn[Owner]]
  /\ Keeping

\* It may have been cut, or closed by its run since it was read.
Ping ==
  /\ keeper.pc = "ping"
  /\ keeper' = IF session[keeper.old] = "up" THEN KeeperIdle ELSE [keeper EXCEPT !.pc = "reopen"]
  /\ Keeping

\* _reacquire_lock: a new connection, if the lock is free.
Reacquire ==
  /\ keeper.pc = "reopen"
  /\ \/ \E c \in Conns : Locks(c) /\ keeper' = [keeper EXCEPT !.pc = "swap", !.new = c]
     \/ /\ holder # NoConn
        /\ keeper' = [keeper EXCEPT !.pc = "swap"]
        /\ UNCHANGED <<holder, session>>
  /\ UNCHANGED <<lockConn, lost, run, rows, cleaner, faults, disorder>>

\* Mutant: no test that _lock_conn is still the connection that was pinged.
SwapBlind ==
  /\ keeper.pc = "swap"
  /\ keeper' = KeeperIdle
  /\ lockConn' = [lockConn EXCEPT ![Owner] = keeper.new]
  /\ lost' = IF keeper.new = NoConn THEN [lost EXCEPT ![Owner] = TRUE] ELSE lost
  /\ Releases(keeper.old)
  /\ UNCHANGED <<run, rows, cleaner, faults, disorder>>

\* Under the guard: swap if no one changed _lock_conn, and close the one of the
\* two connections that is left over.
Swap ==
  /\ keeper.pc = "swap"
  /\ keeper' = KeeperIdle
  /\ IF lockConn[Owner] = keeper.old
     THEN /\ lockConn' = [lockConn EXCEPT ![Owner] = keeper.new]
          /\ lost' = IF keeper.new = NoConn THEN [lost EXCEPT ![Owner] = TRUE] ELSE lost
          /\ Releases(keeper.old)
     ELSE /\ UNCHANGED <<lockConn, lost>>
          /\ Releases(keeper.new)
  /\ UNCHANGED <<run, rows, cleaner, faults, disorder>>

-------------------------------------------------------------------------------
(* The cleanup job.                                                        *)

OverdueRows == {i \in RunningRows : rows[i].age = "overdue"}

\* _force_release_stale_lock: the process must hold a connection and some
\* running row must be too old.
CleanupStarts ==
  /\ cleaner.pc = "idle"
  /\ rows # <<>>
  /\ cleaner' = [cleaner EXCEPT !.pc = IF lockConn[Owner] = NoConn THEN "check" ELSE "query"]
  /\ UNCHANGED <<holder, session, lockConn, lost, run, rows, keeper, faults, disorder>>

FindOverdue ==
  /\ cleaner.pc = "query"
  /\ \/ /\ OverdueRows = {}
        /\ cleaner' = [cleaner EXCEPT !.pc = "check"]
     \/ \E i \in OverdueRows :
          /\ \A j \in OverdueRows : j <= i
          /\ cleaner' = [cleaner EXCEPT !.pc = "force", !.row = i]
  /\ UNCHANGED <<holder, session, lockConn, lost, run, rows, keeper, faults, disorder>>

\* The global is read again, and cleared afterwards without the guard.
ForceRelease ==
  /\ cleaner.pc = "force"
  /\ Releases(lockConn[Owner])
  /\ cleaner' = [cleaner EXCEPT !.pc = "forget"]
  /\ disorder' = disorder \cup {"forced"}
  /\ UNCHANGED <<lockConn, lost, run, rows, keeper, faults>>

ForgetLock ==
  /\ cleaner.pc = "forget"
  /\ lockConn' = [lockConn EXCEPT ![Owner] = NoConn]
  /\ cleaner' = [cleaner EXCEPT !.pc = "kill"]
  /\ UNCHANGED <<holder, session, lost, run, rows, keeper, faults, disorder>>

KillRow ==
  /\ cleaner.pc = "kill"
  /\ rows' = IF Running(cleaner.row) THEN [rows EXCEPT ![cleaner.row].status = "failed"]
             ELSE rows
  /\ cleaner' = [cleaner EXCEPT !.pc = "check"]
  /\ UNCHANGED <<holder, session, lockConn, lost, run, keeper, faults, disorder>>

CheckLock ==
  /\ cleaner.pc = "check"
  /\ cleaner' = [pc |-> "sweep", row |-> 0, held |-> holder # NoConn, seen |-> Len(rows)]
  /\ UNCHANGED <<holder, session, lockConn, lost, run, rows, keeper, faults, disorder>>

(* An error of the check counts as a free lock.                            *)
CheckFails ==
  /\ cleaner.pc = "check"
  /\ Fault
  /\ cleaner' = [pc |-> "sweep", row |-> 0, held |-> FALSE, seen |-> Len(rows)]
  /\ disorder' = disorder \cup {"unchecked"}
  /\ UNCHANGED <<holder, session, lockConn, lost, run, rows, keeper>>

\* Mutant: no grace window.
ZombieNoGrace(i) == Running(i) /\ (cleaner.held => \E j \in RunningRows : i < j)

\* Mutant: only rows older than the newest are ever zombies.
ZombieOlder(i) == Running(i) /\ \E j \in RunningRows : i < j

\* While the lock is held the newest running row is spared, otherwise the young.
Zombie(i) == /\ Running(i)
             /\ IF cleaner.held THEN \E j \in RunningRows : i < j
                ELSE rows[i].age # "young"

Sweep ==
  /\ cleaner.pc = "sweep"
  /\ rows' = [i \in 1..Len(rows) |->
                IF Zombie(i) THEN [rows[i] EXCEPT !.status = "failed"] ELSE rows[i]]
  /\ cleaner' = CleanerIdle
  /\ UNCHANGED <<holder, session, lockConn, lost, run, keeper, faults, disorder>>

-------------------------------------------------------------------------------
\* A process is killed; its sessions linger until the server notices.
Crash(w) ==
  /\ Fault
  /\ session' = [c \in Conns |->
       IF session[c] = "up" /\ (\/ lockConn[w] = c
                                \/ \E t \in Threads : ProcOf[t] = w /\ c \in {run[t].conn, run[t].drop}
                                \/ w = Owner /\ c \in {keeper.old, keeper.new})
       THEN "cut" ELSE session[c]]
  /\ lockConn' = [lockConn EXCEPT ![w] = NoConn]
  /\ lost' = [lost EXCEPT ![w] = FALSE]
  /\ run' = [t \in Threads |-> IF ProcOf[t] = w THEN RunIdle ELSE run[t]]
  /\ keeper' = IF w = Owner THEN KeeperIdle ELSE keeper
  /\ cleaner' = IF w = Owner THEN CleanerIdle ELSE cleaner
  /\ UNCHANGED <<holder, rows, disorder>>

RunSteps(t) ==
  \/ Acquire(t) \/ Skip(t) \/ Publish(t) \/ CreateLog(t)
  \/ NextUrl(t) \/ EndLoop(t) \/ Lost(t) \/ Drafts(t)
  \/ Complete(t) \/ Fail(t) \/ Drop(t) \/ Release(t)

Server == \E c \in Conns : ServerDrops(c) \/ Collect(c)
Keepalive == ReadConn \/ Ping \/ Reacquire \/ Swap
Cleanup == CleanupStarts \/ FindOverdue \/ ForceRelease \/ ForgetLock \/ KillRow
           \/ CheckLock \/ CheckFails \/ Sweep

Next ==
  \/ \E t \in Threads : Trigger(t) \/ RunSteps(t) \/ Fetched(t) \/ RunRaises(t)
  \/ Server
  \/ Keepalive
  \/ Cleanup
  \/ \E i \in 1..Len(rows) : Age(i)
  \/ \E c \in Conns : Cut(c)
  \/ \E w \in Procs : Crash(w)

Spec == Init /\ [][Next]_vars

\* Threads run and their fetches return, the server and the clock go on.
FairSpec ==
  /\ Spec
  /\ \A t \in Threads : WF_vars(RunSteps(t)) /\ WF_vars(Fetched(t))
  /\ WF_vars(Server) /\ WF_vars(Keepalive) /\ WF_vars(Cleanup)
  /\ WF_vars(\E i \in 1..Len(rows) : Age(i))

-------------------------------------------------------------------------------
(* Properties.                                                             *)

Ages == {"young", "grown", "overdue"}
Row == [status : {"running", "completed", "failed"}, age : Ages]
Run == [pc : Working \cup {"idle", "start", "locked", "drop", "release"},
        conn : Optional, log : Nat, left : 0..MaxUrls, drop : Optional]

\* Type correctness.
TypeOK ==
  /\ holder \in Optional
  /\ session \in [Conns -> {"closed", "up", "cut"}]
  /\ lockConn \in [Procs -> Optional]
  /\ lost \in [Procs -> BOOLEAN]
  /\ run \in [Threads -> Run]
  /\ rows \in Seq(Row)
  /\ keeper \in [pc : {"idle", "ping", "reopen", "swap"}, old : Optional, new : Optional]
  /\ cleaner \in [pc : {"idle", "query", "force", "forget", "kill", "check", "sweep"},
                  row : Nat, held : BOOLEAN, seen : Nat]
  /\ faults \in 0..MaxFaults
  /\ disorder \subseteq {"cut", "forced", "unchecked"}

\* Between acquiring the lock and dropping it, a run is alone: as long as no
\* connection was cut, no lock force-released and no check of the lock failed,
\* whatever crashes or raises.
Holding == Working \cup {"locked", "drop", "release"}
OneRunAtATime ==
  disorder = {} =>
    \A t, u \in Threads : run[t].pc \in Holding /\ run[u].pc \in Holding => t = u

\* A process remembers a lock connection only while one of its runs is under
\* way, through cuts, swaps, force-releases and runs that take each other's
\* connection: no connection, and with it no lock, outlives the runs.
NoLeakedLock ==
  \A w \in Procs : lockConn[w] # NoConn =>
    \E t \in Threads \ Cli : ProcOf[t] = w /\ run[t].pc \in Working \cup {"drop"}

OwnRow(i) == \E t \in Threads : run[t].log = i /\ run[t].pc \in Working

\* The cleanup fails no row of a run that is still working, as long as no
\* connection was cut, no lock force-released and no check of it failed: the
\* check, the grace window and "the newest running row" never hit the run that
\* holds the lock.
LiveRowsSpared ==
  [][disorder' = {} /\ (Sweep \/ KillRow)
       => \A i \in RunningRows : OwnRow(i) => rows'[i].status = "running"]_vars

\* Whatever is cut, crashes, raises or is force-released, the lock is free again
\* and again: no run keeps every later run from starting.
LockFreed == []<>(holder = NoConn)

\* A row of scrape_log does not stay 'running' for ever.
RowsSettle == \A i \in 1..MaxRuns :
  (i \in RunningRows) ~> (i \in 1..Len(rows) /\ ~Running(i))
===============================================================================
